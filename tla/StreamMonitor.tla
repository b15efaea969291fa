--------------------------- MODULE StreamMonitor ---------------------------
(***************************************************************************)
(* The two pages that read a topic's stream without moving any cursor:     *)
(* stream_monitor, backward in batches up to a limit, and dump_heartbeats, *)
(* forward in pages to the end (routes_admin.py).  Devices publish while a *)
(* page is being read, and the topic may be deleted or expire.             *)
(***************************************************************************)
EXTENDS Pages

CONSTANTS
  Heartbeats, \* devices whose heartbeats the topic carries, by their ACL and
              \* the catalog, for a caller who may read it
  Batch,      \* _STREAM_FILTER_BATCH
  MaxBatches, \* _STREAM_FILTER_MAX_BATCHES
  PageSize,   \* _DUMP_HEARTBEATS_PAGE
  MaxTtl,     \* bound: seconds a message may be meant for
  MaxTime     \* bound: the clock

ASSUME MonitorAssumption ==
  /\ Heartbeats \subseteq Clients
  /\ {Batch, MaxBatches, PageSize} \subseteq Nat \ {0}
  /\ MaxTtl \in Nat /\ MaxTime \in Nat
  /\ None \notin Nat

VARIABLES
  stream,  \* q:<topic>, oldest message first
  newest,  \* the id of the newest message ever
  now,     \* the clock
  reading, \* the page that is being read
  page     \* the last page that was answered, with the stream it ended on

monitorVars == <<stream, newest, now, reading, page>>

Ids(s) == {s[i].id : i \in DOMAIN s}

MonitorInit == stream = <<>> /\ newest = 0 /\ now = 0 /\ reading = None /\ page = None

---------------------------------------------------------------------------
(* The topic                                                               *)

Publish(c, ttl) ==
  /\ newest < MaxSent
  /\ stream' = Append(stream, [id |-> newest + 1, client |-> c, exp |-> now + ttl])
  /\ newest' = newest + 1
  /\ UNCHANGED <<now, reading, page>>

(* DELETE /q/<topic>, or the key's expiry.                                 *)
DeleteQueue ==
  /\ stream # <<>> /\ stream' = <<>>
  /\ UNCHANGED <<newest, now, reading, page>>

Tick == now < MaxTime /\ now' = now + 1 /\ UNCHANGED <<stream, newest, reading, page>>

---------------------------------------------------------------------------
(* Reading it                                                              *)

(* XREVRANGE (<cursor - and XRANGE (<cursor +, at most n messages.         *)
Backward(cursor, n) ==
  LET older == {i \in DOMAIN stream : cursor # None => stream[i].id < cursor}
  IN  FirstN(Ext!Reverse(Only(stream, older)), n)

(* Mutant: the last message of a page is read again with the next.         *)
ForwardAgain(cursor, n) ==
  LET newer == {i \in DOMAIN stream : cursor # None => stream[i].id >= cursor}
  IN  FirstN(Only(stream, newer), n)

Forward(cursor, n) ==
  LET newer == {i \in DOMAIN stream : cursor # None => stream[i].id > cursor}
  IN  FirstN(Only(stream, newer), n)

Unexpired(s) == Only(s, {i \in DOMAIN s : now <= s[i].exp})

(* The messages of s from the clients asked for.                           *)
From(s, want) == Only(s, {i \in DOMAIN s : s[i].client \in want})

Reader(kind, want, limit) ==
  [kind |-> kind, want |-> want, limit |-> limit, cursor |-> None, batches |-> 0,
   found |-> <<>>, before |-> stream]

(* What a page answered; `capped` when it gave up on older messages.       *)
Done(r, found, rows, capped) ==
  [kind |-> r.kind, want |-> r.want, limit |-> r.limit, found |-> found, rows |-> rows,
   capped |-> capped, before |-> r.before, after |-> stream]

(* GET /stream/q/<topic>?limit=..&client_id=..                             *)
StreamMonitor(limit, want) ==
  /\ reading = None
  /\ reading' = Reader("monitor", want, limit) /\ page' = None
  /\ UNCHANGED <<stream, newest, now>>

(* Without client_id: one XREVRANGE of `limit` messages.                   *)
MonitorOnce ==
  /\ reading # None /\ reading.kind = "monitor" /\ reading.want = {}
  /\ \E found \in {Backward(None, reading.limit)} :
       page' = Done(reading, found, Unexpired(found), FALSE)
  /\ reading' = None
  /\ UNCHANGED <<stream, newest, now>>

(* Mutant: a batch without a match ends the search.                        *)
LastBatchEmpty(batch, hits, found) ==
  \/ Len(batch) < Batch \/ hits = <<>> \/ Len(found) >= reading.limit

(* The limit is reached, or the stream is exhausted, ...                   *)
LastBatch(batch, hits, found) ==
  Len(batch) < Batch \/ Len(found) >= reading.limit

(* ... or the cap on batches is (_xrevrange_filtered).                     *)
CapReached == reading.batches + 1 = MaxBatches

(* Messages that are over go from the page only after that.                *)
MonitorBatch ==
  /\ reading # None /\ reading.kind = "monitor" /\ reading.want # {}
  /\ \E batch \in {Backward(reading.cursor, Batch)} : \E hits \in {From(batch, reading.want)} :
       LET found == FirstN(reading.found \o hits, reading.limit)
           last == LastBatch(batch, hits, reading.found \o hits)
       IN  IF last \/ CapReached
           THEN page' = Done(reading, found, Unexpired(found), ~last) /\ reading' = None
           ELSE /\ reading' = [reading EXCEPT !.found = found, !.batches = @ + 1,
                                             !.cursor = batch[Len(batch)].id]
                /\ UNCHANGED page
  /\ UNCHANGED <<stream, newest, now>>

(* GET /dump_heartbeats/<client>: 404, 400 and 403 end it before it reads. *)
DumpHeartbeats(c) ==
  /\ reading = None
  /\ c \in Heartbeats
  /\ reading' = Reader("dump", {c}, 0) /\ page' = None
  /\ UNCHANGED <<stream, newest, now>>

(* The end of a dump: newest first; what is over is dumped too.            *)
Dumped(found) == page' = Done(reading, found, Ext!Reverse(found), FALSE) /\ reading' = None

(* Mutant: the cursor stays where it is.                                   *)
DumpPageStuck ==
  /\ reading # None /\ reading.kind = "dump"
  /\ \E messages \in {Forward(reading.cursor, PageSize)} :
       IF Len(messages) < PageSize
       THEN Dumped(reading.found \o From(messages, reading.want))
       ELSE UNCHANGED <<reading, page>>
  /\ UNCHANGED <<stream, newest, now>>

NextPage(messages, found) ==
  /\ reading' = [reading EXCEPT !.found = found, !.cursor = messages[Len(messages)].id]
  /\ UNCHANGED page

(* Mutant: a page without a heartbeat ends the dump.                       *)
DumpPageSparse ==
  /\ reading # None /\ reading.kind = "dump"
  /\ \E messages \in {Forward(reading.cursor, PageSize)} :
     \E found \in {reading.found \o From(messages, reading.want)} :
       IF Len(messages) < PageSize \/ found = reading.found
       THEN Dumped(found) ELSE NextPage(messages, found)
  /\ UNCHANGED <<stream, newest, now>>

(* Page by page to the end.                                                *)
DumpPage ==
  /\ reading # None /\ reading.kind = "dump"
  /\ \E messages \in {Forward(reading.cursor, PageSize)} :
     \E found \in {reading.found \o From(messages, reading.want)} :
       IF Len(messages) < PageSize THEN Dumped(found) ELSE NextPage(messages, found)
  /\ UNCHANGED <<stream, newest, now>>

---------------------------------------------------------------------------

Topic ==
  \/ \E c \in Clients, ttl \in 0..MaxTtl : Publish(c, ttl)
  \/ DeleteQueue \/ Tick

Read == MonitorOnce \/ MonitorBatch \/ DumpPage

Ask ==
  \/ \E limit \in Limits, want \in SUBSET Clients : StreamMonitor(limit, want)
  \/ \E c \in Clients : DumpHeartbeats(c)

MonitorNext == Topic \/ Read \/ Ask

(* A page that is being read goes on: nothing else is needed for it.       *)
MonitorSpec == MonitorInit /\ [][MonitorNext]_monitorVars /\ WF_monitorVars(Read)

---------------------------------------------------------------------------
(* Properties                                                              *)

(* "Response shape (newest-first)": no message is shown twice or out of    *)
(* order, though several reads make up a page and messages come and go     *)
(* between them.                                                           *)
NewestFirst ==
  page # None => \A i, j \in DOMAIN page.rows : i < j => page.rows[i].id > page.rows[j].id

Wants(p, m) == p.want # {} => m.client \in p.want
Beyond(p, m) == \A i \in DOMAIN p.found : p.found[i].id > m.id

(* stream_monitor: "a sparse publisher on a shared topic is not crowded    *)
(* out by chatty neighbors".  Of the messages that were there from the     *)
(* first read to the last and that the caller wants, the page misses none, *)
(* unless it is full of newer ones or was cut off by the cap on batches.   *)
NothingMissed ==
  page # None /\ page.kind = "monitor" =>
    \A i \in DOMAIN page.after :
      LET m == page.after[i] IN
      /\ m.id \in Ids(page.before) /\ Wants(page, m)
      /\ ~(Beyond(page, m) /\ (Len(page.found) = page.limit \/ page.capped))
      => m.id \in Ids(page.found)

(* dump_heartbeats: "Stream every heartbeat".  Whatever is in the stream   *)
(* when the dump ends is in the dump, published meanwhile or not.          *)
DumpComplete ==
  page # None /\ page.kind = "dump" =>
    \A i \in DOMAIN page.after :
      page.after[i].client \in page.want => page.after[i].id \in Ids(page.rows)

(* A page that is being read is answered: the cap ends one search, and the *)
(* end of the stream the other, once devices publish no faster than it is  *)
(* read.                                                                   *)
ReadsEnd == reading # None ~> reading = None
=============================================================================
