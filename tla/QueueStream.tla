---------------------------- MODULE QueueStream ----------------------------
(***************************************************************************)
(* The broadcast queue of the device API: one topic, kept by Redis as a    *)
(* stream, and one cursor per consuming client (routes_device.py,          *)
(* publish_message and consume_message; routes_admin.py, delete_queue).    *)
(*                                                                         *)
(* Every `await` on Redis is a step of its own, so requests of several     *)
(* clients, and overlapping requests of one client (a device that timed    *)
(* out and retried), interleave between them.  A request may be aborted    *)
(* at any await: the process dies or the Redis call raises.                *)
(*                                                                         *)
(* Topics share nothing, so one topic is modelled.  Authentication and the *)
(* ACL decide whether a handler runs at all (module ClientRegistry); here  *)
(* every client may read and write.                                        *)
(***************************************************************************)
EXTENDS Integers, FiniteSets, Sequences

CONSTANTS
  Clients,     \* consuming client ids
  Slots,       \* requests of one client the server may be serving at once
  Publishers,  \* publish requests the server may be serving at once
  Ttls,        \* values of ?ttl= a publisher may send
  MaxTtl,      \* the cap on ttl and the stream key's own TTL (604800 s)
  BatchSize,   \* the `count` of XREAD (50)
  IdsPerTick,  \* stream ids Redis can hand out in one tick of the clock
  MaxMsgs,     \* bound: messages ever appended
  MaxClock     \* bound: last value of the clock

ASSUME QueueAssumption ==
  /\ Ttls \subseteq Int
  /\ MaxTtl \in Nat \ {0}
  /\ BatchSize \in Nat \ {0}
  /\ IdsPerTick \in Nat \ {0}
  /\ MaxMsgs \in Nat
  /\ MaxClock \in Nat

VARIABLES
  clock,    \* time.time() on the server, in whole seconds
  stream,   \* the entries of q:<topic>
  lastId,   \* Redis' last-generated-id of the stream; 0 while there is no key
  ttlAt,    \* when the key q:<topic> expires; NoTtl if it has no TTL
  cursor,   \* cursor:<client>:q:<topic>; 0 stands for a missing key and "0-0"
  pc,       \* where each consume request is
  last,     \* its local last_id
  now,      \* its local current_time
  hit,      \* the message it found, 0 if none
  pub,      \* each publish request: its step, exp_time and message
  sent,     \* history: messages appended so far; they are numbered 1..sent
  issued,   \* history: the highest stream id ever handed out
  recycled, \* history: messages whose id was not above all earlier ids
  taken,    \* history: the messages each client's requests moved its cursor to
  received, \* history: the messages each client got a response with, in order
  acked     \* history: messages whose publisher got its {"status": "ok"}

redisVars == <<stream, lastId, ttlAt>>
conVars   == <<pc, last, now, hit>>
logVars   == <<sent, issued, recycled>>
vars == <<clock, redisVars, cursor, conVars, pub, logVars, taken, received, acked>>

Requests == Clients \X Slots
Client(r) == r[1]

NoTtl == 0

(* A stream entry: its id, its "exp" field and its payload.  A Redis id    *)
(* <ms>-<seq> is flattened to one number, clock * IdsPerTick + seq.        *)
Entry == [id : Nat, exp : Int, msg : Nat]

Idle == [step |-> "idle", exp |-> 0, msg |-> 0]

Init ==
  /\ clock = 1
  /\ stream = {} /\ lastId = 0 /\ ttlAt = NoTtl
  /\ cursor = [c \in Clients |-> 0]
  /\ pc = [r \in Requests |-> "idle"]
  /\ last = [r \in Requests |-> 0]
  /\ now = [r \in Requests |-> 0]
  /\ hit = [r \in Requests |-> 0]
  /\ pub = [p \in Publishers |-> Idle]
  /\ sent = 0 /\ issued = 0 /\ recycled = {}
  /\ taken = [c \in Clients |-> {}]
  /\ received = [c \in Clients |-> <<>>]
  /\ acked = {}

---------------------------------------------------------------------------
(* POST /q/<topic>                                                         *)

Larger(a, b) == IF a > b THEN a ELSE b
Smaller(a, b) == IF a < b THEN a ELSE b

(* Redis' XADD with id "*": the millisecond clock, or the successor of the *)
(* last id when that is not in the past.                                   *)
NextId == Larger(clock * IdsPerTick, lastId + 1)

(* Mutant: the cap on ttl is missing.                                     *)
UncappedTtl(ttl) == ttl

CapTtl(ttl) == Smaller(ttl, MaxTtl)

(* The ttl is capped (there is no lower bound: a ttl of zero or less makes *)
(* a message that is expired at once) and exp_time computed.               *)
BeginPublish(p, ttl) ==
  /\ pub[p].step = "idle"
  /\ sent < MaxMsgs
  /\ pub' = [pub EXCEPT ![p] = [step |-> "xadd", exp |-> clock + CapTtl(ttl), msg |-> 0]]
  /\ UNCHANGED <<clock, redisVars, cursor, conVars, logVars, taken, received, acked>>

XAdd(p) ==
  /\ pub[p].step = "xadd"
  /\ sent < MaxMsgs
  /\ stream' = stream \cup {[id |-> NextId, exp |-> pub[p].exp, msg |-> sent + 1]}
  /\ lastId' = NextId
  /\ sent' = sent + 1
  /\ issued' = Larger(issued, NextId)
  /\ recycled' = IF NextId > issued THEN recycled ELSE recycled \cup {sent + 1}
  /\ pub' = [pub EXCEPT ![p].step = "expire", ![p].msg = sent + 1]
  /\ UNCHANGED <<clock, ttlAt, cursor, conVars, taken, received, acked>>

(* EXPIRE on the stream key, which does nothing if the key is gone; then   *)
(* the publisher is answered.                                              *)
Expire(p) ==
  /\ pub[p].step = "expire"
  /\ ttlAt' = IF stream = {} THEN NoTtl ELSE clock + MaxTtl
  /\ acked' = acked \cup {pub[p].msg}
  /\ pub' = [pub EXCEPT ![p] = Idle]
  /\ UNCHANGED <<clock, stream, lastId, cursor, conVars, logVars, taken, received>>

AbortPublish(p) ==
  /\ pub[p].step # "idle"
  /\ pub' = [pub EXCEPT ![p] = Idle]
  /\ UNCHANGED <<clock, redisVars, cursor, conVars, logVars, taken, received, acked>>

---------------------------------------------------------------------------
(* GET /q/<topic>                                                          *)

(* Mutant: XREAD starts one id too early.                                  *)
GetCursorBefore(r) ==
  /\ pc[r] = "idle"
  /\ pc' = [pc EXCEPT ![r] = "time"]
  /\ last' = [last EXCEPT ![r] = cursor[Client(r)] - 1]
  /\ UNCHANGED <<clock, redisVars, cursor, now, hit, pub, logVars, taken, received, acked>>

(* GET of the cursor.                                                      *)
GetCursor(r) ==
  /\ pc[r] = "idle"
  /\ pc' = [pc EXCEPT ![r] = "time"]
  /\ last' = [last EXCEPT ![r] = cursor[Client(r)]]
  /\ UNCHANGED <<clock, redisVars, cursor, now, hit, pub, logVars, taken, received, acked>>

(* current_time is read once; every batch of this request is judged by it. *)
ReadClock(r) ==
  /\ pc[r] = "time"
  /\ pc' = [pc EXCEPT ![r] = "xread"]
  /\ now' = [now EXCEPT ![r] = clock]
  /\ UNCHANGED <<clock, redisVars, cursor, last, hit, pub, logVars, taken, received, acked>>

(* XREAD COUNT BatchSize: the first entries with an id above `from`.       *)
After(from) == {e \in stream : e.id > from}
Batch(from) ==
  {e \in After(from) : Cardinality({f \in After(from) : f.id < e.id}) < BatchSize}

Expired(e, time) == time > e.exp

(* Mutant: a drained queue resets the cursor.                              *)
XReadEmptyRewinds(r) ==
  /\ pc[r] = "xread"
  /\ After(last[r]) = {}
  /\ cursor' = [cursor EXCEPT ![Client(r)] = 0]
  /\ pc' = [pc EXCEPT ![r] = "idle"]
  /\ last' = [last EXCEPT ![r] = 0]
  /\ now' = [now EXCEPT ![r] = 0]
  /\ UNCHANGED <<clock, redisVars, hit, pub, logVars, taken, received, acked>>

(* Nothing above last_id: 204, and the cursor is left alone.               *)
XReadEmpty(r) ==
  /\ pc[r] = "xread"
  /\ After(last[r]) = {}
  /\ pc' = [pc EXCEPT ![r] = "idle"]
  /\ last' = [last EXCEPT ![r] = 0]
  /\ now' = [now EXCEPT ![r] = 0]
  /\ UNCHANGED <<clock, redisVars, cursor, hit, pub, logVars, taken, received, acked>>

(* Mutant: any live entry of the batch is returned, not the first.         *)
XReadAnyLive(r) ==
  /\ pc[r] = "xread"
  /\ \E e \in Batch(last[r]) :
       /\ ~Expired(e, now[r])
       /\ last' = [last EXCEPT ![r] = e.id]
       /\ hit' = [hit EXCEPT ![r] = e.msg]
  /\ pc' = [pc EXCEPT ![r] = "set"]
  /\ UNCHANGED <<clock, redisVars, cursor, now, pub, logVars, taken, received, acked>>

(* The first entry of the batch that has not expired is the one to return. *)
XReadHit(r) ==
  /\ pc[r] = "xread"
  /\ \E e \in Batch(last[r]) :
       /\ ~Expired(e, now[r])
       /\ \A f \in Batch(last[r]) : f.id < e.id => Expired(f, now[r])
       /\ last' = [last EXCEPT ![r] = e.id]
       /\ hit' = [hit EXCEPT ![r] = e.msg]
  /\ pc' = [pc EXCEPT ![r] = "set"]
  /\ UNCHANGED <<clock, redisVars, cursor, now, pub, logVars, taken, received, acked>>

(* Mutant: last_id is not advanced over an expired batch.                  *)
XReadExpiredStays(r) ==
  /\ pc[r] = "xread"
  /\ Batch(last[r]) # {}
  /\ \A e \in Batch(last[r]) : Expired(e, now[r])
  /\ pc' = [pc EXCEPT ![r] = "skip"]
  /\ UNCHANGED <<clock, redisVars, cursor, last, now, hit, pub, logVars, taken, received, acked>>

(* The whole batch has expired: last_id is its last entry.                 *)
XReadExpired(r) ==
  /\ pc[r] = "xread"
  /\ \A e \in Batch(last[r]) : Expired(e, now[r])
  /\ \E e \in Batch(last[r]) :
       /\ \A f \in Batch(last[r]) : f.id <= e.id
       /\ last' = [last EXCEPT ![r] = e.id]
  /\ pc' = [pc EXCEPT ![r] = "skip"]
  /\ UNCHANGED <<clock, redisVars, cursor, now, hit, pub, logVars, taken, received, acked>>

(* Mutant: an expired batch is answered 204 and its position not saved.    *)
SkipBatchForgets(r) ==
  /\ pc[r] = "skip"
  /\ pc' = [pc EXCEPT ![r] = "idle"]
  /\ last' = [last EXCEPT ![r] = 0]
  /\ now' = [now EXCEPT ![r] = 0]
  /\ UNCHANGED <<clock, redisVars, cursor, hit, pub, logVars, taken, received, acked>>

(* SET of the cursor past an expired batch, then round the loop again.     *)
SkipBatch(r) ==
  /\ pc[r] = "skip"
  /\ cursor' = [cursor EXCEPT ![Client(r)] = last[r]]
  /\ pc' = [pc EXCEPT ![r] = "xread"]
  /\ UNCHANGED <<clock, redisVars, last, now, hit, pub, logVars, taken, received, acked>>

(* Mutant: the message is returned without saving the cursor.              *)
SetCursorForgets(r) ==
  /\ pc[r] = "set"
  /\ taken' = [taken EXCEPT ![Client(r)] = @ \cup {hit[r]}]
  /\ pc' = [pc EXCEPT ![r] = "reply"]
  /\ UNCHANGED <<clock, redisVars, cursor, last, now, hit, pub, logVars, received, acked>>

(* SET of the cursor to the message about to be returned.                  *)
SetCursor(r) ==
  /\ pc[r] = "set"
  /\ cursor' = [cursor EXCEPT ![Client(r)] = last[r]]
  /\ taken' = [taken EXCEPT ![Client(r)] = @ \cup {hit[r]}]
  /\ pc' = [pc EXCEPT ![r] = "reply"]
  /\ UNCHANGED <<clock, redisVars, last, now, hit, pub, logVars, received, acked>>

Reset(r) ==
  /\ pc' = [pc EXCEPT ![r] = "idle"]
  /\ last' = [last EXCEPT ![r] = 0]
  /\ now' = [now EXCEPT ![r] = 0]
  /\ hit' = [hit EXCEPT ![r] = 0]

(* The signed response reaches the client.                                 *)
Reply(r) ==
  /\ pc[r] = "reply"
  /\ received' = [received EXCEPT ![Client(r)] = Append(@, hit[r])]
  /\ Reset(r)
  /\ UNCHANGED <<clock, redisVars, cursor, pub, logVars, taken, acked>>

(* The process dies, a Redis call raises, or the response is lost.         *)
AbortConsume(r) ==
  /\ pc[r] # "idle"
  /\ Reset(r)
  /\ UNCHANGED <<clock, redisVars, cursor, pub, logVars, taken, received, acked>>

---------------------------------------------------------------------------
(* The administrator, Redis and the clock                                  *)

DropKey == stream' = {} /\ lastId' = 0 /\ ttlAt' = NoTtl

(* DELETE /api/admin/q/<topic>: the stream goes, the cursors stay.         *)
DeleteQueue ==
  /\ stream # {}
  /\ DropKey
  /\ UNCHANGED <<clock, cursor, conVars, pub, logVars, taken, received, acked>>

(* Redis expires the key within the second ttlAt ...                       *)
KeyExpires ==
  /\ ttlAt # NoTtl
  /\ clock >= ttlAt
  /\ DropKey
  /\ UNCHANGED <<clock, cursor, conVars, pub, logVars, taken, received, acked>>

(* ... so the key is gone before the clock shows a later one.              *)
Tick ==
  /\ clock < MaxClock
  /\ ttlAt = NoTtl \/ clock < ttlAt
  /\ clock' = clock + 1
  /\ UNCHANGED <<redisVars, cursor, conVars, pub, logVars, taken, received, acked>>

---------------------------------------------------------------------------

Consume(r) ==
  \/ GetCursor(r) \/ ReadClock(r)
  \/ XReadEmpty(r) \/ XReadHit(r) \/ XReadExpired(r)
  \/ SkipBatch(r) \/ SetCursor(r) \/ Reply(r)

Publish(p) == (\E ttl \in Ttls : BeginPublish(p, ttl)) \/ XAdd(p) \/ Expire(p)

Next ==
  \/ \E r \in Requests : Consume(r) \/ AbortConsume(r)
  \/ \E p \in Publishers : Publish(p) \/ AbortPublish(p)
  \/ DeleteQueue \/ KeyExpires \/ Tick

Spec == Init /\ [][Next]_vars

(***************************************************************************)
(* Devices poll: a slot that is free issues the next request, and the      *)
(* server's event loop gets round to every await.  Aborts are transient: a *)
(* step that is possible again and again is not aborted every time.        *)
(***************************************************************************)
Fairness ==
  \A r \in Requests :
    /\ WF_vars(GetCursor(r))
    /\ SF_vars(ReadClock(r))
    /\ SF_vars(XReadEmpty(r) \/ XReadHit(r) \/ XReadExpired(r))
    /\ SF_vars(SkipBatch(r))
    /\ SF_vars(SetCursor(r))
    /\ SF_vars(Reply(r))

FairSpec == Spec /\ Fairness

---------------------------------------------------------------------------
(* Properties                                                              *)

TypeOK ==
  /\ clock \in Nat
  /\ stream \in SUBSET Entry /\ lastId \in Nat /\ ttlAt \in Nat
  /\ cursor \in [Clients -> Nat]
  /\ pc \in [Requests -> {"idle", "time", "xread", "skip", "set", "reply"}]
  /\ last \in [Requests -> Nat]
  /\ now \in [Requests -> Nat]
  /\ hit \in [Requests -> Nat]
  /\ pub \in [Publishers -> [step : {"idle", "xadd", "expire"}, exp : Int, msg : Nat]]
  /\ sent \in Nat /\ issued \in Nat /\ recycled \in SUBSET Nat
  /\ taken \in [Clients -> SUBSET Nat]
  /\ received \in [Clients -> Seq(Nat)]
  /\ acked \in SUBSET Nat

(* What may lie at or below a client's position: a message one of its      *)
(* requests took, a dead one, or one whose id is not new.                  *)
Settled(c, e) == e.msg \in taken[c] \/ Expired(e, clock) \/ e.msg \in recycled

(* No client is moved past a message it could still have had: whatever the *)
(* interleaving of its own overlapping requests, aborts, deletions and     *)
(* publishes, each entry at or below cursor:<client> was handed to one of  *)
(* that client's requests or has expired (consume_message's loop).         *)
NoSkip == \A c \in Clients : \A e \in stream : e.id <= cursor[c] => Settled(c, e)

(* The key's TTL never cuts a message's own: once publish_message has      *)
(* answered "ok" the stream key outlives the message's exp.                *)
AckedOutlivesKey ==
  \A e \in stream : e.msg \in acked => ttlAt # NoTtl /\ e.exp <= ttlAt

(* A client that sends one request at a time gets messages in the order    *)
(* they were published and never twice, in spite of aborts, lost           *)
(* responses, deletions of the queue and key expiry.                       *)
Fifo ==
  \A c \in Clients : \A i, j \in DOMAIN received[c] :
    i < j => received[c][i] < received[c][j]

(* For such a client the cursor never moves back.                          *)
CursorMonotone == [][\A c \in Clients : cursor'[c] >= cursor[c]]_cursor

(* The messages a client that has yet to ask can still get.                *)
Live == {e.msg : e \in {f \in stream : ~Expired(f, clock) /\ f.msg \notin recycled}}

B == INSTANCE QueueBroadcast WITH live <- Live

(* Seen from outside, ids, cursors, batches and steps that break off       *)
(* disappear: a topic whose clients send one request at a time is the      *)
(* broadcast of QueueBroadcast ...                                         *)
Broadcast == B!Safety

(* ... in which a client that keeps polling is given, before it expires or *)
(* is deleted, each message that lives that long.                          *)
EventuallyGiven == \A m \in 1..MaxMsgs : B!Given(m)

(* consume_message's `while True` ends: every request is answered.         *)
EventuallyAnswered == \A r \in Requests : pc[r] # "idle" ~> pc[r] = "idle"
=============================================================================
