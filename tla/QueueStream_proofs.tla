------------------------ MODULE QueueStream_proofs ------------------------
(***************************************************************************)
(* Proofs about QueueStream, for every number of clients, requests,        *)
(* publishers and messages and every batch size.                           *)
(***************************************************************************)
EXTENDS QueueStream, FiniteSetTheorems, TLAPS

(***************************************************************************)
(* What makes NoSkip inductive: ids are bounded by the two high-water      *)
(* marks, a request's clock is never ahead, and what holds of the stored   *)
(* cursor also holds of every cursor value a request still carries.        *)
(***************************************************************************)
StreamShape ==
  /\ IsFiniteSet(stream)
  /\ lastId <= issued
  /\ \A e \in stream : e.id <= lastId
  /\ \A e, f \in stream : e.id = f.id => e = f

Positions ==
  /\ \A c \in Clients : cursor[c] <= issued
  /\ \A r \in Requests : last[r] <= issued /\ now[r] <= clock

(* Before its SET a request carries a position that skips nothing ...      *)
CarriedNoSkip ==
  \A r \in Requests : pc[r] \in {"time", "xread", "skip"} =>
    \A e \in stream : e.id <= last[r] => Settled(Client(r), e)

(* ... or nothing but the message it is about to take.                     *)
HitNoSkip ==
  \A r \in Requests : pc[r] = "set" =>
    \A e \in stream : e.id <= last[r] => Settled(Client(r), e) \/ e.msg = hit[r]

IInv == TypeOK /\ StreamShape /\ Positions /\ NoSkip /\ CarriedNoSkip /\ HitNoSkip

---------------------------------------------------------------------------
(* XADD's id is above the stream's last-generated-id.                      *)
LEMMA NextIdFresh ==
  ASSUME TypeOK
  PROVE  NextId \in Nat /\ NextId > lastId
BY QueueAssumption DEF TypeOK, NextId, Larger

(* XREAD returns a prefix: whatever lies between the position and an entry *)
(* of the batch is in the batch.                                           *)
LEMMA BatchIsPrefix ==
  ASSUME TypeOK, IsFiniteSet(stream), NEW from \in Nat,
         NEW e \in Batch(from), NEW f \in After(from), f.id < e.id
  PROVE  f \in Batch(from)
<1> DEFINE Below(x) == {g \in After(from) : g.id < x.id}
<1>1. e \in After(from) /\ Cardinality(Below(e)) < BatchSize
  BY DEF Batch
<1>2. Below(f) \subseteq Below(e)
  BY <1>1 DEF TypeOK, Entry, After
<1>3. IsFiniteSet(Below(e))
  <2>1. Below(e) \subseteq stream
    BY DEF After
  <2>. QED  BY <2>1, FS_Subset
<1>4. /\ Cardinality(Below(f)) <= Cardinality(Below(e))
      /\ Cardinality(Below(f)) \in Nat /\ Cardinality(Below(e)) \in Nat
  BY <1>2, <1>3, FS_Subset, FS_CardinalityType
<1>5. Cardinality(Below(f)) < BatchSize
  BY <1>1, <1>4, QueueAssumption
<1>. QED  BY <1>5 DEF Batch

---------------------------------------------------------------------------
(* The initial state is well typed.                                       *)
LEMMA InitTypeOK == Init => TypeOK
BY DEF Init, TypeOK, Idle, NoTtl, Entry

(* Every step of every request keeps the state well typed.                 *)
LEMMA NextTypeOK == TypeOK /\ [Next]_vars => TypeOK'
<1> SUFFICES ASSUME TypeOK, [Next]_vars PROVE TypeOK'
  OBVIOUS
<1> USE QueueAssumption DEF TypeOK, redisVars, conVars, logVars
<1>1. CASE UNCHANGED vars
  BY <1>1 DEF vars
<1>2. ASSUME NEW r \in Requests, Consume(r) PROVE TypeOK'
  <2> USE DEF Client, Requests
  <2>1. CASE GetCursor(r)     BY <2>1 DEF GetCursor
  <2>2. CASE ReadClock(r)     BY <2>2 DEF ReadClock
  <2>3. CASE XReadEmpty(r)    BY <2>3 DEF XReadEmpty
  <2>4. CASE XReadHit(r)      BY <2>4 DEF XReadHit, Batch, After, Entry
  <2>5. CASE XReadExpired(r)  BY <2>5 DEF XReadExpired, Batch, After, Entry
  <2>6. CASE SkipBatch(r)     BY <2>6 DEF SkipBatch
  <2>7. CASE SetCursor(r)     BY <2>7 DEF SetCursor
  <2>8. CASE Reply(r)         BY <2>8 DEF Reply, Reset
  <2>. QED  BY <1>2, <2>1, <2>2, <2>3, <2>4, <2>5, <2>6, <2>7, <2>8 DEF Consume
<1>3. ASSUME NEW r \in Requests, AbortConsume(r) PROVE TypeOK'
  BY <1>3 DEF AbortConsume, Reset
<1>4. ASSUME NEW p \in Publishers, Publish(p) PROVE TypeOK'
  <2>1. ASSUME NEW ttl \in Ttls, BeginPublish(p, ttl) PROVE TypeOK'
    BY <2>1 DEF BeginPublish, CapTtl, Smaller
  <2>2. CASE XAdd(p)
    <3>1. NextId \in Nat
      BY NextIdFresh
    <3>2. pub[p].exp \in Int /\ sent + 1 \in Nat
      OBVIOUS
    <3>3. [id |-> NextId, exp |-> pub[p].exp, msg |-> sent + 1] \in Entry
      BY <3>1, <3>2 DEF Entry
    <3>4. stream' \in SUBSET Entry
      BY <2>2, <3>3 DEF XAdd
    <3>5. pub' \in [Publishers -> [step : {"idle", "xadd", "expire"}, exp : Int, msg : Nat]]
      BY <2>2, <3>2 DEF XAdd
    <3>6. issued' \in Nat /\ recycled' \in SUBSET Nat
      BY <2>2, <3>1 DEF XAdd, Larger
    <3>7. lastId' \in Nat /\ sent' \in Nat
      BY <2>2, <3>1, <3>2 DEF XAdd
    <3>8. UNCHANGED <<clock, ttlAt, cursor, pc, last, now, hit, taken, received, acked>>
      BY <2>2 DEF XAdd
    <3>. QED  BY <3>4, <3>5, <3>6, <3>7, <3>8
  <2>3. CASE Expire(p)
    <3>1. pub' \in [Publishers -> [step : {"idle", "xadd", "expire"}, exp : Int, msg : Nat]]
      BY <2>3 DEF Expire, Idle
    <3>2. pub[p].msg \in Nat /\ clock + MaxTtl \in Nat
      OBVIOUS
    <3>4. ttlAt' \in Nat
      BY <2>3, <3>2 DEF Expire, NoTtl
    <3>5. acked' \in SUBSET Nat
      BY <2>3, <3>2 DEF Expire
    <3>3. UNCHANGED <<clock, stream, lastId, cursor, pc, last, now, hit, sent, issued,
                      recycled, taken, received>>
      BY <2>3 DEF Expire
    <3>. QED  BY <3>1, <3>3, <3>4, <3>5
  <2>. QED  BY <1>4, <2>1, <2>2, <2>3 DEF Publish
<1>5. ASSUME NEW p \in Publishers, AbortPublish(p) PROVE TypeOK'
  BY <1>5 DEF AbortPublish, Idle
<1>6. CASE DeleteQueue  BY <1>6 DEF DeleteQueue, DropKey, NoTtl
<1>7. CASE KeyExpires   BY <1>7 DEF KeyExpires, DropKey, NoTtl
<1>8. CASE Tick         BY <1>8 DEF Tick
<1>. QED  BY <1>1, <1>2, <1>3, <1>4, <1>5, <1>6, <1>7, <1>8 DEF Next

(* Every reachable state is well typed, whatever the constants.            *)
THEOREM TypeCorrect == Spec => []TypeOK
BY InitTypeOK, NextTypeOK, PTL DEF Spec

---------------------------------------------------------------------------
(* The inductive invariant behind NoSkip holds before the first request.   *)
LEMMA InitIInv == Init => IInv
<1> SUFFICES ASSUME Init PROVE IInv
  OBVIOUS
<1>1. TypeOK
  BY InitTypeOK
<1>2. StreamShape
  BY FS_EmptySet DEF Init, StreamShape
<1>3. Positions
  BY DEF Init, Positions
<1>. QED  BY <1>1, <1>2, <1>3 DEF Init, IInv, NoSkip, CarriedNoSkip, HitNoSkip

(* A step that leaves the stream, the clock and the histories alone leaves *)
(* every entry as settled as it was.                                       *)
LEMMA SettledFrame ==
  ASSUME UNCHANGED <<clock, recycled, taken>>, NEW c, NEW e, Settled(c, e)
  PROVE  Settled(c, e)'
BY DEF Settled, Expired

(* No step of consume_message moves a position past an unsettled entry.    *)
LEMMA ConsumeIInv ==
  ASSUME IInv, NEW r \in Requests, Consume(r)
  PROVE  IInv'
<1> USE DEF redisVars, conVars, logVars
<1>0. /\ TypeOK /\ StreamShape /\ Positions /\ NoSkip /\ CarriedNoSkip /\ HitNoSkip
      /\ TypeOK'
  <2>1. [Next]_vars
    BY DEF Next
  <2>. QED  BY <2>1, NextTypeOK DEF IInv
<1>r. Client(r) \in Clients
  BY DEF Requests, Client
<1>1. CASE GetCursor(r)
  <2> USE <1>0, <1>1, <1>r DEF GetCursor
  <2>1. StreamShape'     BY DEF StreamShape
  <2>2. Positions'       BY DEF Positions, TypeOK
  <2>3. NoSkip'          BY SettledFrame DEF NoSkip
  <2>4. CarriedNoSkip'   BY SettledFrame DEF CarriedNoSkip, NoSkip, TypeOK
  <2>5. HitNoSkip'       BY SettledFrame DEF HitNoSkip, TypeOK
  <2>. QED  BY <2>1, <2>2, <2>3, <2>4, <2>5 DEF IInv
<1>2. CASE ReadClock(r)
  <2> USE <1>0, <1>2, <1>r DEF ReadClock
  <2>1. StreamShape'     BY DEF StreamShape
  <2>2. Positions'       BY DEF Positions, TypeOK
  <2>3. NoSkip'          BY SettledFrame DEF NoSkip
  <2>4. CarriedNoSkip'   BY SettledFrame DEF CarriedNoSkip, TypeOK
  <2>5. HitNoSkip'       BY SettledFrame DEF HitNoSkip, TypeOK
  <2>. QED  BY <2>1, <2>2, <2>3, <2>4, <2>5 DEF IInv
<1>3. CASE XReadEmpty(r)
  <2> USE <1>0, <1>3, <1>r DEF XReadEmpty
  <2>1. StreamShape'     BY DEF StreamShape
  <2>2. Positions'       BY DEF Positions, TypeOK
  <2>3. NoSkip'          BY SettledFrame DEF NoSkip
  <2>4. CarriedNoSkip'   BY SettledFrame DEF CarriedNoSkip, TypeOK
  <2>5. HitNoSkip'       BY SettledFrame DEF HitNoSkip, TypeOK
  <2>. QED  BY <2>1, <2>2, <2>3, <2>4, <2>5 DEF IInv
<1>4. CASE XReadHit(r)
  <2> USE <1>0, <1>4, <1>r DEF XReadHit
  <2>0. PICK e \in Batch(last[r]) :
          /\ \A f \in Batch(last[r]) : f.id < e.id => Expired(f, now[r])
          /\ last' = [last EXCEPT ![r] = e.id]
          /\ hit' = [hit EXCEPT ![r] = e.msg]
    OBVIOUS
  <2>1. e \in stream /\ e \in After(last[r]) /\ last[r] \in Nat /\ now[r] \in Nat
    BY DEF Batch, After, TypeOK
  <2>2. ASSUME NEW f \in stream, f.id <= e.id
        PROVE  Settled(Client(r), f) \/ f.msg = e.msg
    <3>1. CASE f.id <= last[r]
      BY <3>1 DEF CarriedNoSkip
    <3>2. CASE f.id = e.id
      BY <3>2, <2>1 DEF StreamShape
    <3>3. CASE f.id > last[r] /\ f.id < e.id
      <4>1. f \in Batch(last[r])
        BY <3>3, <2>1, BatchIsPrefix DEF After, StreamShape
      <4>2. Expired(f, now[r])
        BY <4>1, <3>3, <2>0
      <4>. QED  BY <4>2, <2>1 DEF Positions, Settled, Expired, TypeOK, Entry
    <3>. QED  BY <3>1, <3>2, <3>3, <2>1, <2>2 DEF TypeOK, Entry
  <2>3. StreamShape'     BY DEF StreamShape
  <2>4. Positions'
    <3>1. e.id <= issued
      BY <2>1 DEF StreamShape, TypeOK, Entry
    <3>. QED  BY <2>0, <3>1 DEF Positions, TypeOK
  <2>5. NoSkip'          BY SettledFrame DEF NoSkip
  <2>6. CarriedNoSkip'   BY <2>0, SettledFrame DEF CarriedNoSkip, TypeOK
  <2>7. HitNoSkip'
    <3> SUFFICES ASSUME NEW q \in Requests, pc'[q] = "set", NEW f \in stream',
                        f.id <= last'[q]
                 PROVE  Settled(Client(q), f)' \/ f.msg = hit'[q]
      BY DEF HitNoSkip
    <3>1. CASE q = r
      <4>1. last'[r] = e.id /\ hit'[r] = e.msg /\ f \in stream
        BY <2>0 DEF TypeOK
      <4>. QED  BY <2>2, <3>1, <4>1, SettledFrame
    <3>2. CASE q # r
      BY <3>2, <2>0, SettledFrame DEF HitNoSkip, TypeOK
    <3>. QED  BY <3>1, <3>2
  <2>. QED  BY <2>3, <2>4, <2>5, <2>6, <2>7 DEF IInv
<1>5. CASE XReadExpired(r)
  <2> USE <1>0, <1>5, <1>r DEF XReadExpired
  <2>0. PICK e \in Batch(last[r]) :
          /\ \A f \in Batch(last[r]) : f.id <= e.id
          /\ last' = [last EXCEPT ![r] = e.id]
    OBVIOUS
  <2>1. e \in stream /\ e \in After(last[r]) /\ last[r] \in Nat /\ now[r] \in Nat
    BY DEF Batch, After, TypeOK
  <2>2. ASSUME NEW f \in stream, f.id <= e.id
        PROVE  Settled(Client(r), f)
    <3>1. CASE f.id <= last[r]
      BY <3>1 DEF CarriedNoSkip
    <3>2. CASE f.id > last[r]
      <4>1. f.id = e.id => f = e
        BY <2>1 DEF StreamShape
      <4>2. f \in Batch(last[r])
        <5>1. CASE f.id = e.id
          BY <5>1, <4>1
        <5>2. CASE f.id < e.id
          BY <5>2, <3>2, <2>1, BatchIsPrefix DEF After, StreamShape
        <5>. QED  BY <5>1, <5>2, <2>1, <2>2 DEF TypeOK, Entry
      <4>3. Expired(f, now[r])
        BY <4>2
      <4>. QED  BY <4>3, <2>1 DEF Positions, Settled, Expired, TypeOK, Entry
    <3>. QED  BY <3>1, <3>2, <2>1 DEF TypeOK, Entry
  <2>3. StreamShape'     BY DEF StreamShape
  <2>4. Positions'
    <3>1. e.id <= issued
      BY <2>1 DEF StreamShape, TypeOK, Entry
    <3>. QED  BY <2>0, <3>1 DEF Positions, TypeOK
  <2>5. NoSkip'          BY SettledFrame DEF NoSkip
  <2>6. CarriedNoSkip'
    <3> SUFFICES ASSUME NEW q \in Requests, pc'[q] \in {"time", "xread", "skip"},
                        NEW f \in stream', f.id <= last'[q]
                 PROVE  Settled(Client(q), f)'
      BY DEF CarriedNoSkip
    <3>1. CASE q = r
      <4>1. last'[r] = e.id /\ f \in stream
        BY <2>0 DEF TypeOK
      <4>. QED  BY <2>2, <3>1, <4>1, SettledFrame
    <3>2. CASE q # r
      BY <3>2, <2>0, SettledFrame DEF CarriedNoSkip, TypeOK
    <3>. QED  BY <3>1, <3>2
  <2>7. HitNoSkip'       BY <2>0, SettledFrame DEF HitNoSkip, TypeOK
  <2>. QED  BY <2>3, <2>4, <2>5, <2>6, <2>7 DEF IInv
<1>6. CASE SkipBatch(r)
  <2> USE <1>0, <1>6, <1>r DEF SkipBatch
  <2>1. StreamShape'     BY DEF StreamShape
  <2>2. Positions'       BY DEF Positions, TypeOK
  <2>3. NoSkip'          BY SettledFrame DEF NoSkip, CarriedNoSkip, TypeOK
  <2>4. CarriedNoSkip'   BY SettledFrame DEF CarriedNoSkip, TypeOK
  <2>5. HitNoSkip'       BY SettledFrame DEF HitNoSkip, TypeOK
  <2>. QED  BY <2>1, <2>2, <2>3, <2>4, <2>5 DEF IInv
<1>7. CASE SetCursor(r)
  <2> USE <1>0, <1>7, <1>r DEF SetCursor
  <2>0. ASSUME NEW c \in Clients, NEW e, Settled(c, e) PROVE Settled(c, e)'
    BY <2>0 DEF Settled, Expired, TypeOK
  <2>1. StreamShape'     BY DEF StreamShape
  <2>2. Positions'       BY DEF Positions, TypeOK
  <2>3. NoSkip'
    <3> SUFFICES ASSUME NEW c \in Clients, NEW e \in stream', e.id <= cursor'[c]
                 PROVE  Settled(c, e)'
      BY DEF NoSkip
    <3>1. CASE c = Client(r)
      <4>1. e \in stream /\ e.id <= last[r] /\ hit[r] \in taken'[c]
        BY <3>1 DEF TypeOK
      <4>2. Settled(c, e) \/ e.msg = hit[r]
        BY <3>1, <4>1 DEF HitNoSkip
      <4>3. CASE e.msg = hit[r]
        BY <4>1, <4>3 DEF Settled
      <4>. QED  BY <4>2, <4>3, <2>0
    <3>2. CASE c # Client(r)
      BY <3>2, <2>0 DEF NoSkip, TypeOK
    <3>. QED  BY <3>1, <3>2
  <2>4. CarriedNoSkip'   BY <2>0 DEF CarriedNoSkip, TypeOK, Requests, Client
  <2>5. HitNoSkip'       BY <2>0 DEF HitNoSkip, TypeOK, Requests, Client
  <2>. QED  BY <2>1, <2>2, <2>3, <2>4, <2>5 DEF IInv
<1>8. CASE Reply(r)
  <2> USE <1>0, <1>8, <1>r DEF Reply, Reset
  <2>1. StreamShape'     BY DEF StreamShape
  <2>2. Positions'       BY DEF Positions, TypeOK
  <2>3. NoSkip'          BY SettledFrame DEF NoSkip
  <2>4. CarriedNoSkip'   BY SettledFrame DEF CarriedNoSkip, TypeOK
  <2>5. HitNoSkip'       BY SettledFrame DEF HitNoSkip, TypeOK
  <2>. QED  BY <2>1, <2>2, <2>3, <2>4, <2>5 DEF IInv
<1>. QED  BY <1>1, <1>2, <1>3, <1>4, <1>5, <1>6, <1>7, <1>8 DEF Consume

(* Aborting leaves the cursor alone, so nothing is skipped.                *)
LEMMA AbortIInv ==
  ASSUME IInv, NEW r \in Requests, AbortConsume(r)
  PROVE  IInv'
<1> USE DEF redisVars, conVars, logVars, AbortConsume, Reset
<1>1. TypeOK'
  BY NextTypeOK DEF IInv, Next
<1>2. StreamShape'     BY DEF IInv, StreamShape
<1>3. Positions'       BY DEF IInv, Positions, TypeOK
<1>4. NoSkip'          BY SettledFrame DEF IInv, NoSkip
<1>5. CarriedNoSkip'   BY SettledFrame DEF IInv, CarriedNoSkip, TypeOK
<1>6. HitNoSkip'       BY SettledFrame DEF IInv, HitNoSkip, TypeOK
<1>. QED  BY <1>1, <1>2, <1>3, <1>4, <1>5, <1>6 DEF IInv

(* The appended entry lies above every position, or is marked recycled.    *)
LEMMA XAddIInv ==
  ASSUME IInv, NEW p \in Publishers, XAdd(p)
  PROVE  IInv'
<1> USE DEF redisVars, conVars, logVars, XAdd
<1>0. TypeOK /\ TypeOK' /\ StreamShape /\ Positions
  BY NextTypeOK DEF IInv, Next, Publish
<1>n. PICK n : n = [id |-> NextId, exp |-> pub[p].exp, msg |-> sent + 1]
  OBVIOUS
<1>1. /\ stream' = stream \cup {n} /\ n.id = NextId /\ n.msg = sent + 1
      /\ NextId \in Nat /\ NextId > lastId
  BY <1>0, <1>n, NextIdFresh
<1>2. issued \in Nat /\ issued' \in Nat /\ issued <= issued' /\ NextId <= issued'
  BY <1>0, <1>1 DEF Larger, TypeOK
<1>3. StreamShape'
  <2>1. IsFiniteSet(stream')
    BY <1>0, <1>1, FS_AddElement DEF StreamShape
  <2>2. lastId' <= issued'
    BY <1>2
  <2>3. \A e \in stream' : e.id <= lastId'
    BY <1>0, <1>1 DEF StreamShape, TypeOK, Entry
  <2>4. \A e \in stream : e.id # NextId
    BY <1>0, <1>1 DEF StreamShape, TypeOK, Entry
  <2>5. \A e, f \in stream' : e.id = f.id => e = f
    BY <1>0, <1>1, <2>4 DEF StreamShape
  <2>. QED  BY <2>1, <2>2, <2>3, <2>5 DEF StreamShape
<1>4. Positions'
  BY <1>0, <1>2 DEF Positions, TypeOK
<1>5. ASSUME NEW c \in Clients, NEW e \in stream, Settled(c, e)
      PROVE  Settled(c, e)'
  BY <1>5 DEF Settled, Expired
<1>6. ASSUME NEW c \in Clients, NEW pos \in Nat, pos <= issued, n.id <= pos
      PROVE  Settled(c, n)'
  BY <1>0, <1>1, <1>6 DEF Settled, TypeOK
<1>7. NoSkip'
  BY <1>0, <1>1, <1>5, <1>6 DEF IInv, NoSkip, Positions, TypeOK
<1>c. \A r \in Requests : Client(r) \in Clients
  BY DEF Requests, Client
<1>8. CarriedNoSkip'
  BY <1>0, <1>1, <1>5, <1>6, <1>c DEF IInv, CarriedNoSkip, Positions, TypeOK
<1>9. HitNoSkip'
  BY <1>0, <1>1, <1>5, <1>6, <1>c DEF IInv, HitNoSkip, Positions, TypeOK
<1>. QED  BY <1>0, <1>3, <1>4, <1>7, <1>8, <1>9 DEF IInv

(* A step that changes none of the variables the invariant speaks of.      *)
LEMMA FrameIInv ==
  ASSUME IInv, TypeOK',
         UNCHANGED <<clock, stream, lastId, cursor, pc, last, now, hit, sent, issued,
                     recycled, taken>>
  PROVE  IInv'
<1>1. StreamShape'  BY DEF IInv, StreamShape
<1>2. Positions'    BY DEF IInv, Positions
<1>3. \A c, e : Settled(c, e)' <=> Settled(c, e)
  BY DEF Settled, Expired
<1>4. NoSkip'         BY <1>3 DEF IInv, NoSkip
<1>5. CarriedNoSkip'  BY <1>3 DEF IInv, CarriedNoSkip
<1>6. HitNoSkip'      BY <1>3 DEF IInv, HitNoSkip
<1>. QED  BY <1>1, <1>2, <1>4, <1>5, <1>6 DEF IInv

(* The other steps of a publisher touch nothing the invariant speaks of.   *)
LEMMA PublisherFrameIInv ==
  ASSUME IInv, NEW p \in Publishers,
         (\E ttl \in Ttls : BeginPublish(p, ttl)) \/ Expire(p) \/ AbortPublish(p)
  PROVE  IInv'
<1>1. UNCHANGED <<clock, stream, lastId, cursor, pc, last, now, hit, sent, issued,
                  recycled, taken>>
  <2> USE DEF redisVars, conVars, logVars
  <2>1. CASE \E ttl \in Ttls : BeginPublish(p, ttl)  BY <2>1 DEF BeginPublish
  <2>2. CASE Expire(p)                               BY <2>2 DEF Expire
  <2>3. CASE AbortPublish(p)                         BY <2>3 DEF AbortPublish
  <2>. QED  BY <2>1, <2>2, <2>3
<1>2. TypeOK'
  <2>1. [Next]_vars
    BY DEF Next, Publish
  <2>. QED  BY <2>1, NextTypeOK DEF IInv
<1>. QED  BY <1>1, <1>2, FrameIInv

(* An empty stream has no entry to skip; time only lets entries expire.    *)
LEMMA EnvironmentIInv ==
  ASSUME IInv, DeleteQueue \/ KeyExpires \/ Tick
  PROVE  IInv'
<1> USE DEF redisVars, conVars, logVars
<1>1. TypeOK /\ TypeOK'
  BY NextTypeOK DEF IInv, Next
<1>2. CASE DeleteQueue \/ KeyExpires
  <2>1. /\ stream' = {} /\ lastId' = 0
        /\ UNCHANGED <<clock, cursor, pc, last, now, hit, sent, issued, recycled, taken>>
    BY <1>2 DEF DeleteQueue, KeyExpires, DropKey
  <2>2. StreamShape'
    BY <1>1, <2>1, FS_EmptySet DEF StreamShape, TypeOK
  <2>3. Positions'
    BY <2>1 DEF IInv, Positions
  <2>. QED  BY <1>1, <2>1, <2>2, <2>3 DEF IInv, NoSkip, CarriedNoSkip, HitNoSkip
<1>3. CASE Tick
  <2> USE <1>1, <1>3 DEF Tick
  <2>1. ASSUME NEW c \in Clients, NEW e \in stream, Settled(c, e)
        PROVE  Settled(c, e)'
    BY <2>1 DEF Settled, Expired, TypeOK, Entry
  <2>2. StreamShape'    BY DEF IInv, StreamShape
  <2>3. Positions'      BY DEF IInv, Positions, TypeOK
  <2>4. NoSkip'         BY <2>1 DEF IInv, NoSkip
  <2>5. CarriedNoSkip'  BY <2>1 DEF IInv, CarriedNoSkip, Requests, Client
  <2>6. HitNoSkip'      BY <2>1 DEF IInv, HitNoSkip, Requests, Client
  <2>. QED  BY <2>2, <2>3, <2>4, <2>5, <2>6 DEF IInv
<1>. QED  BY <1>2, <1>3

(* Every step of the system keeps the inductive invariant behind NoSkip.   *)
LEMMA NextIInv == IInv /\ [Next]_vars => IInv'
<1> SUFFICES ASSUME IInv, [Next]_vars PROVE IInv'
  OBVIOUS
<1>1. CASE UNCHANGED vars
  <2>1. UNCHANGED <<clock, stream, lastId, cursor, pc, last, now, hit, sent, issued,
                    recycled, taken>>
    BY <1>1 DEF vars, redisVars, conVars, logVars
  <2>2. TypeOK'
    BY NextTypeOK DEF IInv
  <2>. QED  BY <2>1, <2>2, FrameIInv
<1>2. CASE Next
  BY <1>2, ConsumeIInv, AbortIInv, XAddIInv, PublisherFrameIInv, EnvironmentIInv
     DEF Next, Publish
<1>. QED  BY <1>1, <1>2

(* consume_message never moves a client past a message it could still have *)
(* had, for any number of overlapping requests and any batch size.         *)
THEOREM NeverSkips == Spec => []NoSkip
<1>1. IInv => NoSkip
  BY DEF IInv
<1>. QED  BY <1>1, InitIInv, NextIInv, PTL DEF Spec

(* What EventuallyAnswered rests on: each round of consume_message's loop  *)
(* puts the position of the request strictly further on, and no further    *)
(* than the newest id, so that only publishers can keep it going.          *)
THEOREM LoopAdvances ==
  Spec => [][\A r \in Requests : XReadExpired(r) => last'[r] > last[r] /\ last'[r] <= issued]_vars
<1>1. ASSUME IInv, NEW r \in Requests, XReadExpired(r)
      PROVE  last'[r] > last[r] /\ last'[r] <= issued
  <2>1. PICK e \in Batch(last[r]) : last' = [last EXCEPT ![r] = e.id]
    BY <1>1 DEF XReadExpired
  <2>2. /\ e \in stream /\ e.id \in Nat /\ e.id > last[r]
        /\ lastId \in Nat /\ issued \in Nat
    BY <1>1 DEF IInv, TypeOK, Batch, After, Entry
  <2>3. e.id <= lastId /\ lastId <= issued
    BY <1>1, <2>2 DEF IInv, StreamShape
  <2>4. last'[r] = e.id
    BY <1>1, <2>1 DEF IInv, TypeOK
  <2>. QED  BY <2>2, <2>3, <2>4
<1>2. IInv => [\A r \in Requests : XReadExpired(r) => last'[r] > last[r] /\ last'[r] <= issued]_vars
  BY <1>1
<1>. QED  BY <1>2, InitIInv, NextIInv, PTL DEF Spec

---------------------------------------------------------------------------
(* AckedOutlivesKey: no exp is more than MaxTtl ahead of the clock, so the *)
(* EXPIRE that precedes the answer covers everything in the stream; and a  *)
(* message still to be answered is numbered above every answered one.      *)
ExpBounded ==
  /\ \A e \in stream : e.exp <= clock + MaxTtl
  /\ \A p \in Publishers :
       /\ pub[p].step = "xadd" => pub[p].exp <= clock + MaxTtl
       /\ pub[p].msg <= sent

AckedNumbered == \A m \in acked : m <= sent

AInv == TypeOK /\ ExpBounded /\ AckedNumbered /\ AckedOutlivesKey

(* The invariant behind AckedOutlivesKey holds in an empty queue.          *)
LEMMA InitAInv == Init => AInv
BY InitTypeOK
   DEF Init, AInv, ExpBounded, AckedNumbered, AckedOutlivesKey, Idle

(* Consumers change nothing a publisher's promise depends on.              *)
LEMMA AInvFrame ==
  ASSUME AInv, TypeOK', UNCHANGED <<stream, ttlAt, pub, sent, acked>>,
         clock' \in Nat, clock <= clock'
  PROVE  AInv'
<1>1. ExpBounded'
  BY QueueAssumption DEF AInv, ExpBounded, TypeOK, Entry
<1>2. AckedNumbered' /\ AckedOutlivesKey'
  BY DEF AInv, AckedNumbered, AckedOutlivesKey
<1>. QED  BY <1>1, <1>2 DEF AInv

(* XADD, EXPIRE and the expiry of the key keep the publishers' promise.    *)
LEMMA NextAInv == AInv /\ [Next]_vars => AInv'
<1> SUFFICES ASSUME AInv, [Next]_vars PROVE AInv'
  OBVIOUS
<1>0. /\ TypeOK /\ TypeOK' /\ ExpBounded /\ AckedNumbered /\ AckedOutlivesKey
  BY NextTypeOK DEF AInv
<1> USE QueueAssumption DEF redisVars, conVars, logVars
<1>1. CASE UNCHANGED vars \/ Tick \/ \E r \in Requests : Consume(r) \/ AbortConsume(r)
  <2>1. UNCHANGED <<stream, ttlAt, pub, sent, acked>>
    BY <1>1 DEF vars, Tick, Consume, GetCursor, ReadClock, XReadEmpty, XReadHit,
                XReadExpired, SkipBatch, SetCursor, Reply, AbortConsume
  <2>2. clock' = clock \/ clock' = clock + 1
    BY <1>1 DEF vars, Tick, Consume, GetCursor, ReadClock, XReadEmpty, XReadHit,
                XReadExpired, SkipBatch, SetCursor, Reply, AbortConsume
  <2>3. clock' \in Nat /\ clock <= clock'
    BY <1>0, <2>2 DEF TypeOK
  <2>. QED  BY <1>0, <2>1, <2>3, AInvFrame
<1>2. CASE DeleteQueue \/ KeyExpires
  <2>1. stream' = {} /\ UNCHANGED <<clock, pub, sent, acked>>
    BY <1>2 DEF DeleteQueue, KeyExpires, DropKey
  <2>. QED  BY <1>0, <2>1 DEF AInv, ExpBounded, AckedNumbered, AckedOutlivesKey
<1>3. ASSUME NEW p \in Publishers, NEW ttl \in Ttls, BeginPublish(p, ttl) PROVE AInv'
  <2> USE <1>0, <1>3 DEF BeginPublish
  <2>1. ExpBounded'
    <3>1. clock + CapTtl(ttl) <= clock + MaxTtl
      BY DEF CapTtl, Smaller, TypeOK
    <3>. QED  BY <3>1 DEF ExpBounded, TypeOK
  <2>2. AckedNumbered' /\ AckedOutlivesKey'
    BY DEF AckedNumbered, AckedOutlivesKey
  <2>. QED  BY <2>1, <2>2 DEF AInv
<1>4. ASSUME NEW p \in Publishers, XAdd(p) PROVE AInv'
  <2> USE <1>0, <1>4 DEF XAdd
  <2>0. PICK n : n = [id |-> NextId, exp |-> pub[p].exp, msg |-> sent + 1]
    OBVIOUS
  <2>1. /\ stream' = stream \cup {n} /\ n.msg = sent + 1 /\ n.exp <= clock + MaxTtl
        /\ UNCHANGED <<clock, ttlAt, acked>> /\ sent' = sent + 1 /\ sent \in Nat
    BY <2>0 DEF ExpBounded, TypeOK
  <2>2. ExpBounded'
    <3>1. ASSUME NEW q \in Publishers PROVE pub'[q].msg <= sent'
      <4>1. pub[q].msg \in Nat /\ pub[q].msg <= sent
        BY DEF ExpBounded, TypeOK
      <4>2. pub'[q].msg = pub[q].msg \/ pub'[q].msg = sent + 1
        BY DEF TypeOK
      <4>. QED  BY <2>1, <4>1, <4>2
    <3>2. \A q \in Publishers :
            pub'[q].step = "xadd" => pub'[q].exp <= clock + MaxTtl
      BY DEF ExpBounded, TypeOK
    <3>. QED  BY <2>1, <3>1, <3>2 DEF ExpBounded
  <2>3. AckedNumbered'
    <3>1. acked' = acked /\ acked \subseteq Nat /\ sent' = sent + 1 /\ sent \in Nat
      BY <2>1 DEF TypeOK
    <3>2. \A m \in acked : m <= sent
      BY DEF AckedNumbered
    <3>3. \A m \in acked : m <= sent + 1
      BY ONLY <3>1, <3>2, SMT
    <3>. QED  BY ONLY <3>1, <3>3 DEF AckedNumbered
  <2>4. n.msg \notin acked
    BY <2>1 DEF AckedNumbered
  <2>5. AckedOutlivesKey'
    BY <2>1, <2>4 DEF AckedOutlivesKey
  <2>. QED  BY <2>2, <2>3, <2>5 DEF AInv
<1>5. ASSUME NEW p \in Publishers, Expire(p) PROVE AInv'
  <2> USE <1>0, <1>5 DEF Expire
  <2>1. ExpBounded'
    BY DEF ExpBounded, TypeOK, Idle
  <2>2. AckedNumbered'
    BY DEF AckedNumbered, ExpBounded
  <2>3. AckedOutlivesKey'
    <3>1. CASE stream = {}
      BY <3>1 DEF AckedOutlivesKey
    <3>2. CASE stream # {}
      <4>1. ttlAt' = clock + MaxTtl /\ ttlAt' # NoTtl
        BY <3>2 DEF NoTtl, TypeOK
      <4>. QED  BY <4>1 DEF AckedOutlivesKey, ExpBounded
    <3>. QED  BY <3>1, <3>2
  <2>. QED  BY <2>1, <2>2, <2>3 DEF AInv
<1>6. ASSUME NEW p \in Publishers, AbortPublish(p) PROVE AInv'
  <2> USE <1>0, <1>6 DEF AbortPublish
  <2>1. ExpBounded'
    BY DEF ExpBounded, TypeOK, Idle
  <2>2. AckedNumbered' /\ AckedOutlivesKey'
    BY DEF AckedNumbered, AckedOutlivesKey
  <2>. QED  BY <2>1, <2>2 DEF AInv
<1>. QED  BY <1>1, <1>2, <1>3, <1>4, <1>5, <1>6 DEF Next, Publish

(* The key's TTL never removes an acknowledged message before its own exp. *)
THEOREM AckedSurvive == Spec => []AckedOutlivesKey
<1>1. AInv => AckedOutlivesKey
  BY DEF AInv
<1>. QED  BY <1>1, InitAInv, NextAInv, PTL DEF Spec

---------------------------------------------------------------------------
(* CursorMonotone: with one slot per client, the position a request        *)
(* carries is never behind the stored cursor.                              *)
Ahead ==
  \A r \in Requests :
    pc[r] \in {"time", "xread", "skip", "set"} => cursor[Client(r)] <= last[r]

OneSlot == \A s, t \in Slots : s = t

(* With one slot a client's request is its only one.                      *)
LEMMA OneRequestPerClient ==
  ASSUME OneSlot, NEW q \in Requests, NEW r \in Requests, Client(q) = Client(r)
  PROVE  q = r
BY DEF OneSlot, Requests, Client

(* ... and its position in consume_message is never behind the cursor.     *)
LEMMA NextAhead ==
  ASSUME OneSlot, TypeOK, Ahead, [Next]_vars
  PROVE  Ahead' /\ [\A c \in Clients : cursor'[c] >= cursor[c]]_cursor
<1> USE DEF redisVars, conVars, logVars
<1>1. CASE UNCHANGED <<cursor, pc, last>>
  BY <1>1 DEF Ahead
<1>2. ASSUME NEW r \in Requests, Consume(r) \/ AbortConsume(r)
      PROVE  Ahead' /\ [\A c \in Clients : cursor'[c] >= cursor[c]]_cursor
  <2>0. Client(r) \in Clients
    BY DEF Requests, Client
  <2>1. CASE GetCursor(r)
    BY <2>0, <2>1 DEF GetCursor, Ahead, TypeOK
  <2>2. CASE ReadClock(r)
    BY <2>2 DEF ReadClock, Ahead, TypeOK
  <2>3. CASE XReadEmpty(r) \/ Reply(r) \/ AbortConsume(r)
    BY <2>3 DEF XReadEmpty, Reply, AbortConsume, Reset, Ahead, TypeOK
  <2>4. CASE XReadHit(r) \/ XReadExpired(r)
    <3>1. PICK e \in Batch(last[r]) : last' = [last EXCEPT ![r] = e.id]
      BY <2>4 DEF XReadHit, XReadExpired
    <3>2. e.id > last[r] /\ e.id \in Nat
      BY DEF Batch, After, TypeOK, Entry
    <3>3. pc[r] = "xread" /\ UNCHANGED cursor /\ \A q \in Requests : q # r => pc'[q] = pc[q]
      BY <2>4 DEF XReadHit, XReadExpired, TypeOK
    <3>. QED  BY <2>0, <3>1, <3>2, <3>3 DEF Ahead, TypeOK
  <2>5. CASE SkipBatch(r) \/ SetCursor(r)
    <3>1. /\ cursor' = [cursor EXCEPT ![Client(r)] = last[r]] /\ UNCHANGED last
          /\ cursor[Client(r)] <= last[r]
          /\ \A q \in Requests : q # r => pc'[q] = pc[q]
      BY <2>5 DEF SkipBatch, SetCursor, Ahead, TypeOK
    <3>2. \A c \in Clients : cursor'[c] >= cursor[c]
      BY <2>0, <3>1 DEF TypeOK
    <3>3. ASSUME NEW q \in Requests, pc'[q] \in {"time", "xread", "skip", "set"}
          PROVE  cursor'[Client(q)] <= last'[q]
      <4>1. CASE q = r
        BY <2>0, <3>1, <4>1 DEF TypeOK
      <4>2. CASE q # r
        <5>1. Client(q) # Client(r)
          BY <4>2, OneRequestPerClient
        <5>2. pc[q] \in {"time", "xread", "skip", "set"}
          BY <3>1, <3>3, <4>2
        <5>. QED  BY <3>1, <5>1, <5>2 DEF Ahead, TypeOK
      <4>. QED  BY <4>1, <4>2
    <3>. QED  BY <3>2, <3>3 DEF Ahead
  <2>. QED  BY <1>2, <2>1, <2>2, <2>3, <2>4, <2>5 DEF Consume
<1>3. ASSUME NEW p \in Publishers, Publish(p) \/ AbortPublish(p)
      PROVE  UNCHANGED <<cursor, pc, last>>
  BY <1>3 DEF Publish, BeginPublish, XAdd, Expire, AbortPublish
<1>4. ASSUME DeleteQueue \/ KeyExpires \/ Tick \/ UNCHANGED vars
      PROVE  UNCHANGED <<cursor, pc, last>>
  BY <1>4 DEF DeleteQueue, KeyExpires, Tick, vars
<1>. QED  BY <1>1, <1>2, <1>3, <1>4 DEF Next

(* For a client that sends one request at a time consume_message never     *)
(* moves the cursor back, whatever is aborted, deleted or expires.         *)
THEOREM CursorNeverRegresses ==
  ASSUME OneSlot
  PROVE  Spec => CursorMonotone
<1>1. Init => Ahead
  BY DEF Init, Ahead
<1>2. TypeOK /\ Ahead /\ [Next]_vars =>
        Ahead' /\ [\A c \in Clients : cursor'[c] >= cursor[c]]_cursor
  BY NextAhead
<1>. QED  BY <1>1, <1>2, TypeCorrect, PTL DEF Spec, CursorMonotone

---------------------------------------------------------------------------
(***************************************************************************)
(* The refinement, with one slot per client.  Message numbers follow ids   *)
(* within the stream, so what lies above a client's cursor is newer than   *)
(* all it was given; and what it was given last is the newest of that.     *)
(***************************************************************************)
StreamOrder ==
  /\ \A e \in stream : e.msg \in 1..sent
  /\ \A e, f \in stream : e.id < f.id => e.msg < f.msg

TakenOrder ==
  \A c \in Clients :
    /\ taken[c] \subseteq 1..sent
    /\ \A e \in stream : e.id > cursor[c] => \A k \in taken[c] : k < e.msg

ReceivedTaken ==
  \A c \in Clients : \A i \in DOMAIN received[c] : received[c][i] \in taken[c]

SetOrder ==
  \A r \in Requests : pc[r] = "set" =>
    /\ hit[r] \in 1..sent
    /\ \A k \in taken[Client(r)] : k < hit[r]
    /\ \A e \in stream : e.id > last[r] => hit[r] < e.msg

ReplyOrder ==
  \A r \in Requests : pc[r] = "reply" =>
    /\ hit[r] \in taken[Client(r)]
    /\ \A k \in taken[Client(r)] : k <= hit[r]
    /\ \A i \in DOMAIN received[Client(r)] : received[Client(r)][i] < hit[r]

RInv == StreamOrder /\ TakenOrder /\ ReceivedTaken /\ SetOrder /\ ReplyOrder

(* Nothing has happened before the first request.                          *)
LEMMA InitRInv == Init => RInv /\ B!Init
<1> SUFFICES ASSUME Init PROVE RInv /\ B!Init
  OBVIOUS
<1>1. Live = {}
  BY DEF Init, Live
<1>. QED  BY <1>1 DEF Init, B!Init, RInv, StreamOrder, TakenOrder, ReceivedTaken, SetOrder, ReplyOrder

(* Steps that leave the stream and the histories alone, and send no        *)
(* request to "set" or "reply", keep the order.                            *)
LEMMA FrameRInv ==
  ASSUME RInv, UNCHANGED <<stream, sent, cursor, taken, received>>,
         \A q \in Requests : pc'[q] \in {"set", "reply"} =>
           pc'[q] = pc[q] /\ last'[q] = last[q] /\ hit'[q] = hit[q]
  PROVE  RInv'
<1>1. StreamOrder'    BY DEF RInv, StreamOrder
<1>2. TakenOrder'     BY DEF RInv, TakenOrder
<1>3. ReceivedTaken'  BY DEF RInv, ReceivedTaken
<1>4. SetOrder'       BY DEF RInv, SetOrder
<1>5. ReplyOrder'     BY DEF RInv, ReplyOrder
<1>. QED  BY <1>1, <1>2, <1>3, <1>4, <1>5 DEF RInv

(* consume_message up to the SET: the order is kept, and no one outside    *)
(* sees anything.                                                          *)
LEMMA ReadRInv ==
  ASSUME OneSlot, TypeOK, Ahead, RInv, NEW r \in Requests,
         \/ GetCursor(r) \/ ReadClock(r) \/ XReadEmpty(r) \/ XReadHit(r)
         \/ XReadExpired(r) \/ SkipBatch(r) \/ AbortConsume(r)
  PROVE  RInv' /\ UNCHANGED <<clock, stream, logVars, taken, received>>
<1> USE DEF redisVars, conVars, logVars
<1>0. Client(r) \in Clients
  BY DEF Requests, Client
<1>1. CASE GetCursor(r) \/ ReadClock(r) \/ XReadEmpty(r)
  BY <1>1, FrameRInv DEF GetCursor, ReadClock, XReadEmpty, TypeOK
<1>2. CASE XReadExpired(r)
  BY <1>2, FrameRInv DEF XReadExpired, TypeOK
<1>3. CASE AbortConsume(r)
  BY <1>3, FrameRInv DEF AbortConsume, Reset, TypeOK
<1>4. CASE XReadHit(r)
  <2>1. PICK e \in Batch(last[r]) :
          /\ last' = [last EXCEPT ![r] = e.id]
          /\ hit' = [hit EXCEPT ![r] = e.msg]
    BY <1>4 DEF XReadHit
  <2>2. /\ pc[r] = "xread" /\ pc' = [pc EXCEPT ![r] = "set"]
        /\ UNCHANGED <<clock, stream, cursor, sent, issued, recycled, taken, received>>
    BY <1>4 DEF XReadHit
  <2>3. e \in stream /\ e.id > last[r] /\ e.id \in Nat /\ e.msg \in Nat
    BY DEF Batch, After, TypeOK, Entry
  <2>4. e.id > cursor[Client(r)]
    BY <1>0, <2>2, <2>3 DEF Ahead, TypeOK
  <2>5. /\ e.msg \in 1..sent
        /\ \A k \in taken[Client(r)] : k < e.msg
        /\ \A f \in stream : f.id > e.id => e.msg < f.msg
    BY <1>0, <2>3, <2>4 DEF RInv, StreamOrder, TakenOrder, TypeOK, Entry
  <2>6. SetOrder'
    BY <2>1, <2>2, <2>5 DEF RInv, SetOrder, TypeOK
  <2>7. StreamOrder' /\ TakenOrder' /\ ReceivedTaken'
    BY <2>2 DEF RInv, StreamOrder, TakenOrder, ReceivedTaken
  <2>8. ReplyOrder'
    BY <2>1, <2>2 DEF RInv, ReplyOrder, TypeOK
  <2>. QED  BY <2>2, <2>6, <2>7, <2>8 DEF RInv
<1>5. CASE SkipBatch(r)
  <2>1. /\ pc[r] = "skip" /\ pc' = [pc EXCEPT ![r] = "xread"]
        /\ cursor' = [cursor EXCEPT ![Client(r)] = last[r]]
        /\ UNCHANGED <<clock, stream, last, hit, sent, issued, recycled, taken, received>>
    BY <1>5 DEF SkipBatch
  <2>2. cursor[Client(r)] <= last[r] /\ last[r] \in Nat
    BY <2>1 DEF Ahead, TypeOK
  <2>3. TakenOrder'
    <3> SUFFICES ASSUME NEW c \in Clients
                 PROVE  /\ taken[c] \subseteq 1..sent
                        /\ \A e \in stream : e.id > cursor'[c] => \A k \in taken[c] : k < e.msg
      BY <2>1 DEF TakenOrder
    <3>1. cursor'[c] >= cursor[c] /\ cursor[c] \in Nat /\ cursor'[c] \in Nat
      BY <2>1, <2>2, <1>0 DEF TypeOK
    <3>2. \A e \in stream : e.id \in Nat /\ (e.id > cursor'[c] => e.id > cursor[c])
      BY <3>1 DEF TypeOK, Entry
    <3>. QED  BY <3>2 DEF RInv, TakenOrder
  <2>4. SetOrder'
    BY <2>1 DEF RInv, SetOrder, TypeOK
  <2>6. ReplyOrder'
    BY <2>1 DEF RInv, ReplyOrder, TypeOK
  <2>5. StreamOrder' /\ ReceivedTaken'
    BY <2>1 DEF RInv, StreamOrder, ReceivedTaken
  <2>. QED  BY <2>1, <2>3, <2>4, <2>5, <2>6 DEF RInv
<1>. QED  BY <1>1, <1>2, <1>3, <1>4, <1>5

(* The SET hands over the next message: a Take.                            *)
LEMMA SetRInv ==
  ASSUME OneSlot, IInv, RInv, NEW r \in Requests, SetCursor(r)
  PROVE  RInv' /\ B!Take(Client(r))
<1> DEFINE c == Client(r)
<1>0. c \in Clients /\ TypeOK /\ HitNoSkip
  BY DEF Requests, Client, IInv
<1>1. /\ pc[r] = "set" /\ pc' = [pc EXCEPT ![r] = "reply"]
      /\ cursor' = [cursor EXCEPT ![c] = last[r]]
      /\ taken' = [taken EXCEPT ![c] = @ \cup {hit[r]}]
      /\ UNCHANGED <<clock, stream, last, hit, sent, issued, recycled, received>>
  BY DEF SetCursor, redisVars, logVars
<1>2. /\ hit[r] \in 1..sent
      /\ \A k \in taken[c] : k < hit[r]
      /\ \A e \in stream : e.id > last[r] => hit[r] < e.msg
  BY <1>1 DEF RInv, SetOrder
<1>3. StreamOrder'
  BY <1>1 DEF RInv, StreamOrder
<1>4. TakenOrder'
  <2> SUFFICES ASSUME NEW d \in Clients
               PROVE  /\ taken'[d] \subseteq 1..sent
                      /\ \A e \in stream : e.id > cursor'[d] => \A k \in taken'[d] : k < e.msg
    BY <1>1 DEF TakenOrder
  <2>1. CASE d # c
    BY <2>1, <1>0, <1>1 DEF RInv, TakenOrder, TypeOK
  <2>2. CASE d = c
    <3>1. cursor'[c] = last[r] /\ taken'[c] = taken[c] \cup {hit[r]}
      BY <1>0, <1>1 DEF TypeOK
    <3>2. taken[c] \subseteq 1..sent
      BY <1>0 DEF RInv, TakenOrder
    <3>3. ASSUME NEW e \in stream, e.id > last[r], NEW k \in taken[c] PROVE k < e.msg
      <4>1. k < hit[r] /\ hit[r] < e.msg
        BY <1>2, <3>3
      <4>2. k \in Nat /\ hit[r] \in Nat /\ e.msg \in Nat
        BY <1>0 DEF TypeOK, Entry
      <4>. QED  BY <4>1, <4>2
    <3>. QED  BY <1>2, <2>2, <3>1, <3>2, <3>3
  <2>. QED  BY <2>1, <2>2
<1>5. ReceivedTaken'
  BY <1>0, <1>1 DEF RInv, ReceivedTaken, TypeOK
<1>6. SetOrder'
  <2> SUFFICES ASSUME NEW q \in Requests, pc'[q] = "set"
               PROVE  /\ hit[q] \in 1..sent
                      /\ \A k \in taken'[Client(q)] : k < hit[q]
                      /\ \A e \in stream : e.id > last[q] => hit[q] < e.msg
    BY <1>1 DEF SetOrder
  <2>1. q # r /\ pc[q] = "set"
    BY <1>0, <1>1 DEF TypeOK
  <2>2. Client(q) # c
    BY <2>1, OneRequestPerClient
  <2>3. taken'[Client(q)] = taken[Client(q)]
    BY <1>0, <1>1, <2>2 DEF TypeOK
  <2>. QED  BY <2>1, <2>3 DEF RInv, SetOrder
<1>7. ReplyOrder'
  <2> SUFFICES ASSUME NEW q \in Requests, pc'[q] = "reply"
               PROVE  /\ hit[q] \in taken'[Client(q)]
                      /\ \A k \in taken'[Client(q)] : k <= hit[q]
                      /\ \A i \in DOMAIN received[Client(q)] : received[Client(q)][i] < hit[q]
    BY <1>1 DEF ReplyOrder
  <2>1. CASE q = r
    <3>1. taken'[c] = taken[c] \cup {hit[r]}
      BY <1>0, <1>1 DEF TypeOK
    <3>2. \A i \in DOMAIN received[c] : received[c][i] \in taken[c]
      BY <1>0 DEF RInv, ReceivedTaken
    <3>3. taken[c] \subseteq Nat /\ hit[r] \in Nat
      BY <1>0 DEF TypeOK
    <3>4. \A k \in taken'[c] : k <= hit[r]
      BY <3>1, <3>3, <1>2
    <3>. QED  BY <2>1, <3>1, <3>2, <3>4, <1>2
  <2>2. CASE q # r
    <3>1. Client(q) # c /\ pc[q] = "reply"
      BY <2>2, <1>0, <1>1, OneRequestPerClient DEF TypeOK
    <3>2. taken'[Client(q)] = taken[Client(q)]
      BY <1>0, <1>1, <3>1 DEF TypeOK
    <3>. QED  BY <3>1, <3>2 DEF RInv, ReplyOrder
  <2>. QED  BY <2>1, <2>2
<1>8. B!Take(c)
  <2>1. \A k \in Live \ taken[c] : hit[r] <= k
    <3> SUFFICES ASSUME NEW e \in stream, ~Expired(e, clock), e.msg \notin recycled,
                        e.msg \notin taken[c]
                 PROVE  hit[r] <= e.msg
      BY DEF Live
    <3>1. hit[r] \in Nat /\ e.msg \in Nat /\ e.id \in Nat /\ last[r] \in Nat
      BY <1>0 DEF TypeOK, Entry
    <3>2. CASE e.id <= last[r]
      <4>1. Settled(c, e) \/ e.msg = hit[r]
        BY <3>2, <1>0, <1>1 DEF HitNoSkip
      <4>. QED  BY <4>1, <3>1 DEF Settled
    <3>3. CASE e.id > last[r]
      BY <3>1, <3>3, <1>2
    <3>. QED  BY <3>1, <3>2, <3>3
  <2>2. Live' = Live
    BY <1>1 DEF Live, Expired
  <2>. QED  BY <1>1, <1>2, <2>1, <2>2 DEF B!Take
<1>. QED  BY <1>3, <1>4, <1>5, <1>6, <1>7, <1>8 DEF RInv

(* The answer of a client's only request is the last message it took, and  *)
(* reaches it once: a Receive.                                             *)
LEMMA ReplyRInv ==
  ASSUME OneSlot, TypeOK, RInv, NEW r \in Requests, Reply(r)
  PROVE  RInv' /\ B!Receive(Client(r))
<1> DEFINE c == Client(r)
<1>0. c \in Clients
  BY DEF Requests, Client
<1>1. /\ pc[r] = "reply" /\ pc' = [pc EXCEPT ![r] = "idle"]
      /\ last' = [last EXCEPT ![r] = 0] /\ hit' = [hit EXCEPT ![r] = 0]
      /\ received' = [received EXCEPT ![c] = Append(@, hit[r])]
      /\ UNCHANGED <<clock, stream, cursor, sent, issued, recycled, taken>>
  BY DEF Reply, Reset, redisVars, logVars
<1>2. /\ hit[r] \in taken[c]
      /\ \A k \in taken[c] : k <= hit[r]
      /\ \A i \in DOMAIN received[c] : received[c][i] < hit[r]
  BY <1>1 DEF RInv, ReplyOrder
<1>3. /\ received'[c] = Append(received[c], hit[r])
      /\ \A d \in Clients : d # c => received'[d] = received[d]
  BY <1>0, <1>1 DEF TypeOK
<1>4. StreamOrder' /\ TakenOrder'
  BY <1>1 DEF RInv, StreamOrder, TakenOrder
<1>5. ReceivedTaken'
  <2>1. \A i \in DOMAIN received'[c] : received'[c][i] \in taken[c]
    <3>1. received[c] \in Seq(Nat) /\ hit[r] \in Nat
      BY <1>0 DEF TypeOK
    <3>2. \A i \in DOMAIN received[c] : received[c][i] \in taken[c]
      BY <1>0 DEF RInv, ReceivedTaken
    <3>. QED  BY <1>2, <1>3, <3>1, <3>2
  <2>. QED  BY <1>1, <1>3, <2>1 DEF RInv, ReceivedTaken
<1>6. SetOrder'
  BY <1>1 DEF RInv, SetOrder, TypeOK
<1>7. ReplyOrder'
  <2> SUFFICES ASSUME NEW q \in Requests, pc'[q] = "reply"
               PROVE  /\ hit'[q] \in taken[Client(q)]
                      /\ \A k \in taken[Client(q)] : k <= hit'[q]
                      /\ \A i \in DOMAIN received'[Client(q)] : received'[Client(q)][i] < hit'[q]
    BY <1>1 DEF ReplyOrder
  <2>1. q # r /\ pc[q] = "reply" /\ hit'[q] = hit[q]
    BY <1>1 DEF TypeOK
  <2>2. Client(q) # c /\ Client(q) \in Clients
    BY <2>1, OneRequestPerClient DEF Requests, Client
  <2>3. received'[Client(q)] = received[Client(q)]
    BY <1>3, <2>2
  <2>. QED  BY <2>1, <2>3 DEF RInv, ReplyOrder
<1>8. B!Receive(c)
  <2>1. Live' = Live
    BY <1>1 DEF Live, Expired
  <2>. QED  BY <1>1, <1>2, <2>1 DEF B!Receive
<1>. QED  BY <1>4, <1>5, <1>6, <1>7, <1>8 DEF RInv

(* XADD publishes: the new id and the new number are the highest.          *)
LEMMA XAddRInv ==
  ASSUME TypeOK, StreamShape, RInv, NEW p \in Publishers, XAdd(p)
  PROVE  RInv' /\ B!Publish
<1>0. PICK n : n = [id |-> NextId, exp |-> pub[p].exp, msg |-> sent + 1]
  OBVIOUS
<1>1. /\ stream' = stream \cup {n} /\ sent' = sent + 1
      /\ recycled' \in {recycled, recycled \cup {sent + 1}}
      /\ UNCHANGED <<clock, cursor, pc, last, hit, taken, received>>
  BY <1>0 DEF XAdd, conVars
<1>2. n.id \in Nat /\ n.id > lastId /\ n.msg = sent + 1 /\ sent \in Nat
  BY <1>0, NextIdFresh DEF TypeOK
<1>3. \A e \in stream : /\ e.id \in Nat /\ e.msg \in Nat /\ e.id < n.id
                         /\ e.msg \in 1..sent
  BY <1>2 DEF StreamShape, TypeOK, Entry, RInv, StreamOrder
<1>4. StreamOrder'
  <2>1. \A e \in stream' : e.msg \in 1..(sent + 1)
    BY <1>1, <1>2, <1>3
  <2>2. ASSUME NEW e \in stream', NEW f \in stream', e.id < f.id PROVE e.msg < f.msg
    <3>1. CASE f = n
      BY <3>1, <2>2, <1>1, <1>2, <1>3
    <3>2. CASE f # n /\ e = n
      BY <3>2, <2>2, <1>1, <1>2, <1>3
    <3>3. CASE f # n /\ e # n
      BY <3>3, <2>2, <1>1 DEF RInv, StreamOrder
    <3>. QED  BY <3>1, <3>2, <3>3
  <2>. QED  BY <1>1, <2>1, <2>2 DEF StreamOrder
<1>5. TakenOrder'
  <2> SUFFICES ASSUME NEW c \in Clients
               PROVE  /\ taken[c] \subseteq 1..(sent + 1)
                      /\ \A e \in stream' : e.id > cursor[c] => \A k \in taken[c] : k < e.msg
    BY <1>1 DEF TakenOrder
  <2>1. taken[c] \subseteq 1..sent
    BY DEF RInv, TakenOrder
  <2>2. \A k \in taken[c] : k < n.msg
    BY <2>1, <1>2
  <2>. QED  BY <1>1, <1>2, <2>1, <2>2 DEF RInv, TakenOrder
<1>6. ReceivedTaken'
  BY <1>1 DEF RInv, ReceivedTaken
<1>7. SetOrder'
  BY <1>1, <1>2 DEF RInv, SetOrder, TypeOK
<1>8. ReplyOrder'
  BY <1>1 DEF RInv, ReplyOrder
<1>9. B!Publish
  <2>1. \A e \in stream : Expired(e, clock)' = Expired(e, clock)
    BY <1>1 DEF Expired
  <2>2. \A e \in stream : e.msg \in recycled' <=> e.msg \in recycled
    BY <1>1, <1>2, <1>3
  <2>3. Live' \in {Live, Live \cup {sent + 1}}
    <3>1. CASE Expired(n, clock) \/ n.msg \in recycled'
      <4>1. Live' = Live
        BY <1>1, <2>1, <2>2, <3>1 DEF Live, Expired
      <4>. QED  BY <4>1
    <3>2. CASE ~Expired(n, clock) /\ n.msg \notin recycled'
      <4>1. Live' = Live \cup {n.msg}
        BY <1>1, <2>1, <2>2, <3>2 DEF Live, Expired
      <4>. QED  BY <4>1, <1>2
    <3>. QED  BY <3>1, <3>2
  <2>. QED  BY <1>1, <2>3 DEF B!Publish
<1>. QED  BY <1>4, <1>5, <1>6, <1>7, <1>8, <1>9 DEF RInv

(* Deletion, expiry of the key and the clock only ever lose messages.      *)
LEMMA EnvironmentRInv ==
  ASSUME TypeOK, RInv, DeleteQueue \/ KeyExpires \/ Tick
  PROVE  RInv' /\ B!Lose
<1> USE DEF redisVars, conVars, logVars
<1>1. CASE DeleteQueue \/ KeyExpires
  <2>1. /\ stream' = {}
        /\ UNCHANGED <<clock, cursor, pc, last, hit, sent, recycled, taken, received>>
    BY <1>1 DEF DeleteQueue, KeyExpires, DropKey
  <2>2. StreamOrder' /\ TakenOrder' /\ ReceivedTaken'
    BY <2>1 DEF RInv, StreamOrder, TakenOrder, ReceivedTaken
  <2>3. SetOrder' /\ ReplyOrder'
    BY <2>1 DEF RInv, SetOrder, ReplyOrder
  <2>4. Live' = {}
    BY <2>1 DEF Live
  <2>. QED  BY <2>1, <2>2, <2>3, <2>4 DEF RInv, B!Lose
<1>2. CASE Tick
  <2>1. /\ UNCHANGED <<stream, cursor, pc, last, hit, sent, recycled, taken, received>>
        /\ clock' = clock + 1 /\ clock \in Nat
    BY <1>2 DEF Tick, TypeOK
  <2>2. RInv'
    BY <2>1, FrameRInv
  <2>3. Live' \subseteq Live
    <3>1. \A e \in stream : ~Expired(e, clock') => ~Expired(e, clock)
      BY <2>1 DEF Expired, TypeOK, Entry
    <3>. QED  BY <2>1, <3>1 DEF Live, Expired
  <2>. QED  BY <2>1, <2>2, <2>3 DEF B!Lose
<1>. QED  BY <1>1, <1>2

(* Every step of the queue is a step of the broadcast, or none.            *)
LEMMA NextRInv ==
  ASSUME OneSlot, IInv, Ahead, RInv, [Next]_vars
  PROVE  RInv' /\ [B!Next]_(B!vars)
<1>0. TypeOK /\ StreamShape
  BY DEF IInv
<1>1. ASSUME UNCHANGED <<clock, stream, logVars, taken, received>>
      PROVE  UNCHANGED B!vars
  <2>1. Live' = Live
    BY <1>1 DEF Live, Expired, logVars
  <2>. QED  BY <1>1, <2>1 DEF B!vars, logVars
<1>2. ASSUME NEW r \in Requests, Consume(r) \/ AbortConsume(r)
      PROVE  RInv' /\ [B!Next]_(B!vars)
  <2>0. Client(r) \in Clients
    BY DEF Requests, Client
  <2>1. CASE SetCursor(r)
    BY <2>0, <2>1, SetRInv DEF B!Next
  <2>2. CASE Reply(r)
    BY <2>0, <2>2, <1>0, ReplyRInv DEF B!Next
  <2>3. CASE \/ GetCursor(r) \/ ReadClock(r) \/ XReadEmpty(r) \/ XReadHit(r)
             \/ XReadExpired(r) \/ SkipBatch(r) \/ AbortConsume(r)
    BY <2>3, <1>0, <1>1, ReadRInv
  <2>. QED  BY <1>2, <2>1, <2>2, <2>3 DEF Consume
<1>3. ASSUME NEW p \in Publishers, Publish(p) \/ AbortPublish(p)
      PROVE  RInv' /\ [B!Next]_(B!vars)
  <2>1. CASE XAdd(p)
    BY <2>1, <1>0, XAddRInv DEF B!Next
  <2>2. CASE ~XAdd(p)
    <3>1. UNCHANGED <<clock, stream, logVars, taken, received, cursor, pc, last, hit>>
      BY <2>2, <1>3 DEF Publish, BeginPublish, Expire, AbortPublish, redisVars, conVars
    <3>. QED  BY <3>1, <1>1, FrameRInv DEF logVars
  <2>. QED  BY <2>1, <2>2
<1>4. CASE DeleteQueue \/ KeyExpires \/ Tick
  BY <1>4, <1>0, EnvironmentRInv DEF B!Next
<1>5. CASE UNCHANGED vars
  <2>1. UNCHANGED <<clock, stream, logVars, taken, received, cursor, pc, last, hit>>
    BY <1>5 DEF vars, redisVars, conVars
  <2>. QED  BY <2>1, <1>1, FrameRInv DEF logVars
<1>. QED  BY <1>2, <1>3, <1>4, <1>5 DEF Next

(* The topic implements the broadcast for clients that send one request at *)
(* a time, whatever the number of clients, publishers and messages.        *)
THEOREM Implements ==
  ASSUME OneSlot
  PROVE  Spec => Broadcast
<1>1. Init => IInv /\ Ahead /\ RInv /\ B!Init
  BY InitIInv, InitRInv DEF Init, Ahead
<1>2. IInv /\ Ahead /\ RInv /\ [Next]_vars => (IInv /\ Ahead /\ RInv)' /\ [B!Next]_(B!vars)
  <2>1. IInv => TypeOK
    BY DEF IInv
  <2>. QED  BY <2>1, NextIInv, NextAhead, NextRInv
<1>. QED  BY <1>1, <1>2, PTL DEF Spec, Broadcast, B!Safety

---------------------------------------------------------------------------
(* Fifo holds in an empty queue, and every step of the broadcast keeps it. *)
LEMMA ReceiveFifo ==
  ASSUME TypeOK, Fifo, [B!Next]_(B!vars)
  PROVE  Fifo'
<1>1. CASE UNCHANGED received
  BY <1>1 DEF Fifo
<1>2. ASSUME NEW c \in Clients, B!Receive(c) PROVE Fifo'
  <2>1. PICK m \in taken[c] :
          /\ \A i \in DOMAIN received[c] : received[c][i] < m
          /\ received' = [received EXCEPT ![c] = Append(@, m)]
    BY <1>2 DEF B!Receive
  <2>2. received[c] \in Seq(Nat) /\ m \in Nat
    BY DEF TypeOK
  <2>3. received'[c] = Append(received[c], m)
    BY <2>1 DEF TypeOK
  <2>4. \A i, j \in DOMAIN received'[c] : i < j => received'[c][i] < received'[c][j]
    BY <2>1, <2>2, <2>3 DEF Fifo
  <2>5. \A d \in Clients : d # c => received'[d] = received[d]
    BY <2>1 DEF TypeOK
  <2>. QED  BY <2>4, <2>5 DEF Fifo
<1>3. CASE B!Publish \/ B!Lose \/ UNCHANGED B!vars
  BY <1>1, <1>3 DEF B!Publish, B!Lose, B!vars
<1>4. ASSUME NEW c \in Clients, B!Take(c) PROVE Fifo'
  BY <1>1, <1>4 DEF B!Take
<1>. QED  BY <1>2, <1>3, <1>4 DEF B!Next

(* A device that sends one request at a time gets messages in the order of *)
(* publication and none twice.                                             *)
THEOREM InOrder ==
  ASSUME OneSlot
  PROVE  Spec => []Fifo
<1>1. Init => Fifo
  BY DEF Init, Fifo
<1>2. TypeOK /\ Fifo /\ [B!Next]_(B!vars) => Fifo'
  BY ReceiveFifo
<1>3. Spec => Broadcast
  BY Implements
<1>. QED  BY <1>1, <1>2, <1>3, TypeCorrect, PTL DEF Spec, Broadcast, B!Safety
=============================================================================
