---------------------------- MODULE ActivityLog ----------------------------
(***************************************************************************)
(* The two logs: what the middleware in main.py writes down of each device *)
(* request around its handler, perf_log.py, and the pages that show the    *)
(* logs to an administrator, filtered by the ACL of Acl (get_logs and      *)
(* get_perf_log in routes_admin.py).                                       *)
(*                                                                         *)
(* A log is a sequence, oldest entry first.  A request is named by a       *)
(* serial number.                                                          *)
(***************************************************************************)
EXTENDS Acl, Pages

CONSTANTS
  Topics,     \* the queues and keys devices name
  Factor,     \* a scoped administrator's page is looked for in Factor * limit
              \* entries,
  PerfFactor, \* a page of the performance log in PerfFactor * limit,
  Ceiling,    \* and neither in more than Ceiling
  LogLen,     \* MAXLEN of either stream
  LogRows     \* bound: rows of the administrator once there is traffic

ASSUME LogAssumption ==
  /\ Topics \subseteq Paths /\ None \notin Topics
  /\ \A r \in LogRows : r = Missing \/ (r.there /\ r.acl \in Acls)
  /\ {Factor, PerfFactor, Ceiling, LogLen} \subseteq Nat \ {0}

VARIABLES
  log,     \* system:activity_log
  perf,    \* system:perf_log
  reqs,    \* each client's request; it has one at a time
  reader,  \* the page of the activity log an administrator asked for, with
           \* the ACL get_admin_context loaded
  shown,   \* the page of the activity log that has just been answered, with
           \* the log of that moment
  perfs,   \* the page of the performance log, likewise
  sent,    \* history: requests sent
  told,    \* history: requests whose client was told they succeeded
  broken   \* history: requests nobody was answered, and ones whose entry was
           \* written although the call that wrote it raised

logVars == <<log, perf>>
vars == <<row, logVars, reqs, reader, shown, perfs, sent, told, broken>>

IdleReq == [step |-> "idle", serial |-> 0, topic |-> None, status |-> "ok"]
NoPage == [limit |-> 0, want |-> {}, acl |-> <<>>, rows |-> <<>>, log |-> <<>>]

(* An entry from before the firmware route was removed names no resource.  *)
FirmwareEntry(c) == [serial |-> 0, client |-> c, topic |-> None, status |-> "ok"]

LogInit ==
  /\ Init
  /\ log \in {<<>>} \cup {<<FirmwareEntry(c)>> : c \in Clients}
  /\ perf = <<>>
  /\ reqs = [c \in Clients |-> IdleReq]
  /\ reader = None /\ shown = NoPage /\ perfs = NoPage
  /\ sent = 0 /\ told = {} /\ broken = {}

NothingShown == shown' = NoPage /\ perfs' = NoPage

---------------------------------------------------------------------------
(* A device request                                                        *)

(* XADD with an approximate MAXLEN: old entries go, never one of the       *)
(* newest LogLen.                                                          *)
Appended(s, e) ==
  LET all == Append(s, e)
  IN  {SubSeq(all, i, Len(all)) :
         i \in {1} \cup {j \in 1..Len(all) : Len(all) - j + 1 >= LogLen}}

(* A log with the entry of a client's request.                             *)
Logs(c) == Appended(log, [serial |-> reqs[c].serial, client |-> c,
                          topic |-> reqs[c].topic, status |-> reqs[c].status])
Perfs(c) == Appended(perf, [serial |-> reqs[c].serial, topic |-> reqs[c].topic])

(* The handler succeeds, or it fails: it refuses, it raises, or the client *)
(* is gone before its request was read.                                    *)
HandleRequest(c, topic, status) ==
  /\ reqs[c].step = "idle" /\ sent < MaxSent
  /\ reqs' = [reqs EXCEPT ![c] = [step |-> "log", serial |-> sent + 1,
                                  topic |-> topic, status |-> status]]
  /\ sent' = sent + 1
  /\ NothingShown
  /\ UNCHANGED <<row, logVars, reader, told, broken>>

(* activity_log_middleware, whatever became of the request.                *)
LogRequest(c) ==
  /\ reqs[c].step = "log"
  /\ log' \in Logs(c)
  /\ reqs' = [reqs EXCEPT ![c].step = "perf"]
  /\ NothingShown
  /\ UNCHANGED <<row, perf, reader, sent, told, broken>>

(* Mutant: a failing XADD is passed over.                                  *)
LogFailsQuietly(c, applied) ==
  /\ reqs[c].step = "log"
  /\ IF applied THEN log' \in Logs(c) ELSE log' = log
  /\ reqs' = [reqs EXCEPT ![c].step = "perf"]
  /\ NothingShown
  /\ UNCHANGED <<row, perf, reader, sent, told, broken>>

(* The XADD raises, and Redis has applied it or not: a 500, although the   *)
(* handler has done its work.                                              *)
LogFails(c, applied) ==
  /\ reqs[c].step = "log"
  /\ IF applied THEN log' \in Logs(c) ELSE log' = log
  /\ broken' = IF applied THEN broken \cup {reqs[c].serial} ELSE broken
  /\ reqs' = [reqs EXCEPT ![c].step = "perf", ![c].status = "failed"]
  /\ NothingShown
  /\ UNCHANGED <<row, perf, reader, sent, told>>

(* perf_log_middleware, for a request that took its time; then the answer. *)
(* A failing write of this log is swallowed.                               *)
Answer(c, slow) ==
  /\ reqs[c].step = "perf"
  /\ perf' \in {perf} \cup (IF slow THEN Perfs(c) ELSE {})
  /\ told' = IF reqs[c].status = "ok" THEN told \cup {reqs[c].serial} ELSE told
  /\ reqs' = [reqs EXCEPT ![c] = IdleReq]
  /\ NothingShown
  /\ UNCHANGED <<row, log, reader, sent, broken>>

(* The server is stopped at either middleware's write, which Redis may     *)
(* have got, or the connection is gone when the answer is sent.            *)
BreakOff(c) ==
  /\ reqs[c].step # "idle"
  /\ log' \in {log} \cup (IF reqs[c].step = "log" THEN Logs(c) ELSE {})
  /\ perf' \in {perf} \cup Perfs(c)
  /\ broken' = broken \cup {reqs[c].serial}
  /\ reqs' = [reqs EXCEPT ![c] = IdleReq]
  /\ NothingShown
  /\ UNCHANGED <<row, reader, sent, told>>

---------------------------------------------------------------------------
(* An administrator reads                                                  *)

(* The newest n entries of a log, newest first.                            *)
Newest(s, n) == Ext!Reverse(SubSeq(s, Len(s) - Lesser(n, Len(s)) + 1, Len(s)))

(* Mutant: anyone with an entry is taken to see everything.                *)
IsWildcardAny(acl) == acl # <<>>

IsWildcard(acl) == \E i \in DOMAIN acl : acl[i].prefix = Wildcard

FetchCount(limit, acl) ==
  IF IsWildcard(acl) THEN limit ELSE Lesser(limit * Factor, Ceiling)

(* The filter of get_logs; an empty set of clients is no filter.           *)
MayShow(e, want, acl) ==
  /\ want # {} => e.client \in want
  /\ e.topic # None => CheckAcl(acl, e.topic, "read")

(* GET /logs: the ACL is loaded ...                                        *)
GetLogs(limit, want) ==
  /\ reader = None
  /\ reader' = [limit |-> limit, want |-> want, acl |-> LoadAdminAcl(row)]
  /\ NothingShown
  /\ UNCHANGED <<row, logVars, reqs, sent, told, broken>>

(* ... then the newest entries are fetched and filtered.                   *)
ShowLogs ==
  /\ reader # None
  /\ LET records == Newest(log, FetchCount(reader.limit, reader.acl))
         kept == {i \in DOMAIN records : MayShow(records[i], reader.want, reader.acl)}
     IN  shown' = [limit |-> reader.limit, want |-> reader.want, acl |-> reader.acl,
                   log |-> log, rows |-> FirstN(Only(records, kept), reader.limit)]
  /\ reader' = None /\ perfs' = NoPage
  /\ UNCHANGED <<row, logVars, reqs, sent, told, broken>>

PerfWindow(limit) == Lesser(limit * PerfFactor, Ceiling)

(* GET /perf_log, for a superuser; want holds the paths that are asked for.*)
GetPerfLog(limit, want) ==
  /\ IsSuperuser(LoadAdminAcl(row))
  /\ LET records == Newest(perf, PerfWindow(limit))
         kept == {i \in DOMAIN records : want # {} => records[i].topic \in want}
     IN  perfs' = [limit |-> limit, want |-> want, acl |-> LoadAdminAcl(row), log |-> perf,
                   rows |-> FirstN(Only(records, kept), limit)]
  /\ shown' = NoPage
  /\ UNCHANGED <<row, logVars, reqs, reader, sent, told, broken>>

(* The row is edited: in any way before there is traffic, to one of        *)
(* LogRows in the middle of it.                                            *)
EditAcl ==
  /\ IF sent = 0 /\ reader = None
     THEN Next
     ELSE \E r \in LogRows :
            IF r.there THEN UpdateAdminUserAcl(r.acl) ELSE r = Missing /\ DeleteAdminUserAcl
  /\ NothingShown
  /\ UNCHANGED <<logVars, reqs, reader, sent, told, broken>>

---------------------------------------------------------------------------

Statuses == {"ok", "failed"}

Device ==
  \E c \in Clients :
    \/ \E topic \in Topics, status \in Statuses : row \in LogRows /\ HandleRequest(c, topic, status)
    \/ LogRequest(c) \/ BreakOff(c)
    \/ \E applied \in BOOLEAN : LogFails(c, applied)
    \/ \E slow \in BOOLEAN : Answer(c, slow)

Administrator ==
  \/ \E limit \in Limits, want \in SUBSET Clients : row \in LogRows /\ GetLogs(limit, want)
  \/ ShowLogs
  \/ \E limit \in Limits, want \in SUBSET Topics : row \in LogRows /\ GetPerfLog(limit, want)

LogNext == Device \/ Administrator \/ EditAcl

LogSpec == LogInit /\ [][LogNext]_vars

---------------------------------------------------------------------------
(* Properties                                                              *)

Over(serial) == \A c \in Clients : reqs[c].serial # serial

(* The activity log never says less than the devices were told: whoever    *)
(* was told of success has an entry that says so, which only ever goes     *)
(* when LogLen newer ones are there.  It says more only of a request that  *)
(* was broken off after its work was done, or whose entry was written by a *)
(* call that raised; a failed write alone turns the answer into a failure. *)
(* No request is logged twice.                                             *)
LogMatchesAnswers ==
  /\ \A i \in DOMAIN log : log[i].serial # 0 =>
       /\ Over(log[i].serial) =>
            /\ log[i].serial \in told => log[i].status = "ok"
            /\ log[i].status = "ok" => log[i].serial \in told \cup broken
       /\ \A j \in 1..(i - 1) : log[j].serial # log[i].serial
  /\ \A n \in told : (\E i \in DOMAIN log : log[i].serial = n) \/ Len(log) >= LogLen

Shows(page, e) == \E i \in DOMAIN page.rows : page.rows[i] = e

(* A page of the activity log shows nothing its reader may not read, and   *)
(* one that is short hides nothing: not within the Factor * limit newest   *)
(* entries for a scoped administrator, and nothing at all from one who     *)
(* sees everything and names no device.                                    *)
ActivityPage ==
  LET records == Newest(shown.log, Lesser(shown.limit * Factor, Ceiling)) IN
  /\ \A i \in DOMAIN shown.rows : MayShow(shown.rows[i], shown.want, shown.acl)
  /\ Len(shown.rows) < shown.limit =>
       IF \E i \in DOMAIN shown.acl : shown.acl[i].prefix = Wildcard
       THEN shown.want = {} => Len(shown.rows) = Len(shown.log)
       ELSE \A i \in DOMAIN records :
              MayShow(records[i], shown.want, shown.acl) => Shows(shown, records[i])

(* A short page of the performance log shows every entry it was asked for  *)
(* among the PerfFactor * limit newest.                                    *)
PerfPage ==
  LET records == Newest(perfs.log, Lesser(perfs.limit * PerfFactor, Ceiling)) IN
  Len(perfs.rows) < perfs.limit =>
    \A i \in DOMAIN records :
      (perfs.want # {} => records[i].topic \in perfs.want) => Shows(perfs, records[i])

(* Both listings filter what they fetched: neither shows what it should    *)
(* not, nor hides behind a short page what it should have shown.           *)
LogPage == ActivityPage /\ PerfPage
=============================================================================
