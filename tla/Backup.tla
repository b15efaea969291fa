------------------------------- MODULE Backup -------------------------------
(***************************************************************************)
(* Backup and restore of an instance or of one app: the collection of an   *)
(* envelope and its application to Redis (services/backup_io.py, with the  *)
(* filters and the wire format of backup_format.py) and the endpoints that *)
(* call them (routes_admin.py).                                            *)
(*                                                                         *)
(* Both are long runs of single Redis commands over live data; the other   *)
(* traffic is any command on any key.  What a Redis key holds is a set:    *)
(* empty if the key is missing, one value, or the entries of a stream.  An *)
(* item of the envelope has a main key and, for two kinds, a side key: the *)
(* ACL of a client, whose secret is the main key, and the :enc flag of a   *)
(* record.                                                                 *)
(***************************************************************************)
EXTENDS Integers

CONSTANTS
  Items,
  Kind,        \* the section of each item
  Apps,
  KeyApp,      \* the app a record's or a topic's name belongs to
  Secrets,     \* client secrets
  Null,        \* str(None)
  Values,      \* values of records
  Stock,       \* what the instance holds at first
  StockTop,    \* no stream entry has a higher id at first
  MaxTraffic,  \* bound: commands of other requests
  MaxRestores  \* bound: restores begun

Sections == <<"client", "admin", "kv", "queue", "index", "log">>  \* in order
Whole == "whole"  \* in place of an app
Stream(i) == Kind[i] \in {"queue", "log"}

Clients == {i \in Items : Kind[i] = "client"}
Entries == [id : Nat, by : Clients]
UpToOne(S) == {{}} \cup {{v} : v \in S}

(* What the keys of an item may hold; an ACL is the set of apps it names.  *)
Mains == [i \in Items |->
  CASE Kind[i] = "client" -> UpToOne(Secrets \cup {Null})
    [] Kind[i] = "admin" -> UpToOne(SUBSET Apps)
    [] Kind[i] = "kv" -> UpToOne(Values)
    [] Kind[i] = "index" -> UpToOne(Apps \cup {Null})
    [] OTHER -> SUBSET Entries]
Sides == [i \in Items |->
  CASE Kind[i] = "client" -> UpToOne(SUBSET Apps)
    [] Kind[i] = "kv" -> UpToOne({TRUE})
    [] OTHER -> {{}}]

Item(m, s) == [main |-> m, side |-> s]
Absent == Item({}, {})
Nothing == [i \in Items |-> Absent]

(* Ids are unique within a stream and not above the last one given out.    *)
IsItem(i, x, last) ==
  /\ x \in [main : Mains[i], side : Sides[i]]
  /\ Stream(i) => \A e, f \in x.main : e.id <= last /\ (e.id = f.id => e = f)
IsStore(s, last) == s = [i \in Items |-> s[i]] /\ \A i \in Items : IsItem(i, s[i], last)

ASSUME BackupAssumption ==
  /\ Items # {}
  /\ Kind \in [Items -> {Sections[n] : n \in 1..6}]
  /\ KeyApp \in [Items -> Apps] /\ Whole \notin Apps /\ Null \notin Apps
  /\ StockTop \in Nat /\ IsStore(Stock, StockTop)
  /\ MaxTraffic \in Nat /\ MaxRestores \in Nat

VARIABLES
  store,           \* the items' keys
  top,             \* highest stream id Redis has handed out
  dump,            \* the collection under way, or the last one
  env,             \* the envelope it makes, of the items in dump.has
  rest,            \* the restore under way, or how the last one ended
  before, start,   \* history: the store when each of the two began
  dirtyD, dirtyR,  \* history: the items others touched since
  traffic, restores

dumpVars == <<dump, env, before, dirtyD>>
restVars == <<rest, start, dirtyR, restores>>
vars == <<store, top, dumpVars, restVars, traffic>>

Dumps == [step : {"idle", "scan", "fetch", "side", "done"}, app : Apps \cup {Whole},
          logs : BOOLEAN, sec : 1..6, todo : SUBSET Items, flags : SUBSET Items,
          item : Items, has : SUBSET Items]
Restores == [step : {"idle", "check", "del", "write", "side", "done", "failed", "aborted"},
             app : Apps \cup {Whole}, force : BOOLEAN, todo : SUBSET Items, item : Items,
             left : SUBSET Entries]
NoDump == [step |-> "idle", app |-> Whole, logs |-> FALSE, sec |-> 1, todo |-> {}, flags |-> {},
           item |-> CHOOSE i \in Items : TRUE, has |-> {}]
NoRestore == [step |-> "idle", app |-> Whole, force |-> FALSE, todo |-> {},
              item |-> CHOOSE i \in Items : TRUE, left |-> {}]

Init ==
  /\ store = Stock /\ top = StockTop
  /\ dump = NoDump /\ env = Nothing
  /\ rest = NoRestore
  /\ before = Nothing /\ start = Nothing
  /\ dirtyD = {} /\ dirtyR = {}
  /\ traffic = 0 /\ restores = 0

Restoring == rest.step \in {"check", "del", "write", "side"}
Dumping == dump.step \in {"scan", "fetch", "side"}

(* client_matches_app, kv_key_belongs_to_app, queue_topic_belongs_to_app   *)
(* and the value of a device_to_app row.                                   *)
Names(acl) == UNION acl
Belongs(i, x, app) ==
  CASE Kind[i] = "client" -> app \in Names(x.side)
    [] Kind[i] = "admin" -> app \in Names(x.main)
    [] Kind[i] \in {"kv", "queue"} -> KeyApp[i] = app
    [] Kind[i] = "index" -> x.main = {app}
    [] OTHER -> TRUE
Admits(i, x, app) == app = Whole \/ Belongs(i, x, app)

---------------------------------------------------------------------------
(* GET /backup and /backup/app/<app>                                       *)

BeginDump(app, logs) ==
  /\ ~Dumping /\ ~Restoring
  /\ dump' = [NoDump EXCEPT !.step = "scan", !.app = app, !.logs = logs]
  /\ env' = Nothing
  /\ rest' = NoRestore
  /\ before' = store
  /\ start' = Nothing
  /\ dirtyD' = {} /\ dirtyR' = {}
  /\ UNCHANGED <<store, top, restores, traffic>>

(* KEYS of one section; the log is one known key.  For records it is also  *)
(* where the :enc flags are seen.                                          *)
Scan ==
  LET inSection == {i \in Items : Kind[i] = Sections[dump.sec]}
      found == {i \in inSection : IF Kind[i] = "log" THEN dump.logs ELSE store[i].main # {}}
  IN
  /\ dump.step = "scan"
  /\ dump' = [dump EXCEPT !.step = "fetch",
                !.todo = {i \in found : Kind[i] \in {"kv", "queue"} =>
                                          Admits(i, Absent, dump.app)},
                !.flags = {i \in inSection : store[i].side # {}}]
  /\ UNCHANGED <<store, top, env, before, dirtyD, restVars, traffic>>

Keep(i, x) ==
  /\ dump' = [dump EXCEPT !.step = "fetch", !.todo = @ \ {i}, !.has = @ \cup {i}]
  /\ env' = [env EXCEPT ![i] = x]
Leave(i) ==
  /\ dump' = [dump EXCEPT !.step = "fetch", !.todo = @ \ {i}]
  /\ UNCHANGED env

(* A key of a client or of the index that is gone by now reads None, which *)
(* from_json turns into a string.                                          *)
Text(i) == IF store[i].main = {} THEN {Null} ELSE store[i].main

LogSlice(s, has, app) == {e \in s : app = Whole \/ e.by \in has}

(* GET or XRANGE of one key.                                               *)
FetchMain(i) ==
  /\ dump.step = "fetch" /\ i \in dump.todo
  /\ CASE Kind[i] = "client" ->
            /\ dump' = [dump EXCEPT !.step = "side", !.item = i]
            /\ env' = [env EXCEPT ![i] = Item(Text(i), {})]
       [] Kind[i] = "admin" ->
            IF store[i].main # {} /\ Admits(i, store[i], dump.app)
              THEN Keep(i, store[i]) ELSE Leave(i)
       [] Kind[i] = "kv" ->
            IF store[i].main # {}
              THEN Keep(i, Item(store[i].main, IF i \in dump.flags THEN {TRUE} ELSE {}))
              ELSE Leave(i)
       [] Kind[i] = "index" ->
            IF Admits(i, Item(Text(i), {}), dump.app)
              THEN Keep(i, Item(Text(i), {})) ELSE Leave(i)
       [] Kind[i] = "queue" -> Keep(i, store[i])
       [] Kind[i] = "log" -> Keep(i, Item(LogSlice(store[i].main, dump.has, dump.app), {}))
  /\ UNCHANGED <<store, top, before, dirtyD, restVars, traffic>>

(* A client's secret is followed by its ACL; a missing one counts as {}.   *)
Acl(s) == IF s = {} THEN {{}} ELSE s

(* Mutant: a client whose ACL is missing is left out.                      *)
FetchAclSkipsBare ==
  LET i == dump.item
      x == Item(env[i].main, store[i].side)
  IN
  /\ dump.step = "side"
  /\ IF store[i].side # {} /\ Admits(i, x, dump.app) THEN Keep(i, x) ELSE Leave(i)
  /\ UNCHANGED <<store, top, before, dirtyD, restVars, traffic>>

(* Mutant: secret and ACL are swapped.                                     *)
FetchAclSwapped ==
  LET i == dump.item IN
  /\ dump.step = "side"
  /\ Keep(i, Item(Acl(store[i].side), env[i].main))
  /\ UNCHANGED <<store, top, before, dirtyD, restVars, traffic>>

FetchAcl ==
  LET i == dump.item
      x == Item(env[i].main, Acl(store[i].side))
  IN
  /\ dump.step = "side"
  /\ IF Admits(i, x, dump.app) THEN Keep(i, x) ELSE Leave(i)
  /\ UNCHANGED <<store, top, before, dirtyD, restVars, traffic>>

NextSection ==
  /\ dump.step = "fetch" /\ dump.todo = {}
  /\ dump' = IF dump.sec = 6
               THEN [dump EXCEPT !.step = "done"]
               ELSE [dump EXCEPT !.step = "scan", !.sec = @ + 1]
  /\ UNCHANGED <<store, top, env, before, dirtyD, restVars, traffic>>

AbortDump ==
  /\ Dumping
  /\ dump' = NoDump /\ env' = Nothing
  /\ before' = Nothing /\ dirtyD' = {}
  /\ UNCHANGED <<store, top, restVars, traffic>>

---------------------------------------------------------------------------
(* POST /restore and /restore/app/<app>                                    *)

(* The endpoints take a whole envelope, or one of the very app.            *)
BeginRestore(app, force) ==
  /\ dump.step = "done" /\ ~Restoring
  /\ dump.app \in {Whole, app}
  /\ restores < MaxRestores
  /\ rest' = [NoRestore EXCEPT !.step = "check", !.app = app, !.force = force, !.todo = dump.has]
  /\ start' = store
  /\ dirtyR' = {}
  /\ restores' = restores + 1
  /\ UNCHANGED <<store, top, dumpVars, traffic>>

Rank(i) == CHOOSE n \in 1..6 : Sections[n] = Kind[i]
Due(i) ==
  /\ rest.step = "check" /\ i \in rest.todo
  /\ \A j \in rest.todo : Rank(i) <= Rank(j)

(* The section of the log has no filter.                                   *)
Accepts(i) == Kind[i] = "log" \/ Admits(i, env[i], rest.app)

(* Rejected by the filter, or there already and not to be overwritten.     *)
Pass(i) ==
  /\ Due(i)
  /\ ~Accepts(i) \/ (store[i].main # {} /\ ~rest.force)
  /\ rest' = [rest EXCEPT !.todo = @ \ {i}]
  /\ UNCHANGED <<store, top, dumpVars, start, dirtyR, restores, traffic>>

(* Mutant: an existing stream is added to, not replaced.                   *)
TakeAppends(i) ==
  /\ Due(i)
  /\ Accepts(i) /\ (store[i].main = {} \/ rest.force)
  /\ rest' = [rest EXCEPT !.step = "write",
                          !.todo = @ \ {i}, !.item = i,
                          !.left = IF Stream(i) THEN env[i].main ELSE {}]
  /\ UNCHANGED <<store, top, dumpVars, start, dirtyR, restores, traffic>>

Take(i) ==
  /\ Due(i)
  /\ Accepts(i) /\ (store[i].main = {} \/ rest.force)
  /\ rest' = [rest EXCEPT !.step = IF Stream(i) /\ store[i].main # {} THEN "del" ELSE "write",
                          !.todo = @ \ {i}, !.item = i, 
                          !.left = IF Stream(i) THEN env[i].main ELSE {}]
  /\ UNCHANGED <<store, top, dumpVars, start, dirtyR, restores, traffic>>

(* SET of a main key.  Clients and records have a side key to follow.      *)
WriteMain ==
  LET i == rest.item IN
  /\ rest.step = "write" /\ ~Stream(i)
  /\ store' = [store EXCEPT ![i].main = env[i].main]
  /\ rest' = [rest EXCEPT !.step = IF Kind[i] \in {"client", "kv"} THEN "side" ELSE "check"]
  /\ UNCHANGED <<top, dumpVars, start, dirtyR, restores, traffic>>

(* Mutant: a plain record leaves a stale flag in place.                    *)
WriteSideSets ==
  LET i == rest.item IN
  /\ rest.step = "side"
  /\ store' = [store EXCEPT ![i].side = IF env[i].side = {} THEN @ ELSE env[i].side]
  /\ rest' = [rest EXCEPT !.step = "check"]
  /\ UNCHANGED <<top, dumpVars, start, dirtyR, restores, traffic>>

(* SET of the ACL; SET or DEL of the flag.                                 *)
WriteSide ==
  LET i == rest.item IN
  /\ rest.step = "side"
  /\ store' = [store EXCEPT ![i].side = env[i].side]
  /\ rest' = [rest EXCEPT !.step = "check"]
  /\ UNCHANGED <<top, dumpVars, start, dirtyR, restores, traffic>>

DropStream ==
  /\ rest.step = "del"
  /\ store' = [store EXCEPT ![rest.item].main = {}]
  /\ rest' = [rest EXCEPT !.step = "write"]
  /\ UNCHANGED <<top, dumpVars, start, dirtyR, restores, traffic>>

(* XADD of the next entry with its id, which Redis refuses unless it is    *)
(* the highest of the stream; the refusal ends the restore with a 500.     *)
AddEntry(e) ==
  LET i == rest.item
      refused == \E f \in store[i].main : f.id >= e.id
  IN
  /\ rest.step = "write" /\ Stream(i)
  /\ e \in rest.left /\ \A f \in rest.left : e.id <= f.id
  /\ store' = IF refused THEN store ELSE [store EXCEPT ![i].main = @ \cup {e}]
  /\ rest' = IF refused THEN [rest EXCEPT !.step = "failed"] ELSE [rest EXCEPT !.left = @ \ {e}]
  /\ UNCHANGED <<top, dumpVars, start, dirtyR, restores, traffic>>

EndStream ==
  /\ rest.step = "write" /\ Stream(rest.item) /\ rest.left = {}
  /\ rest' = [rest EXCEPT !.step = "check"]
  /\ UNCHANGED <<store, top, dumpVars, start, dirtyR, restores, traffic>>

EndRestore ==
  /\ rest.step = "check" /\ rest.todo = {}
  /\ rest' = [rest EXCEPT !.step = "done"]
  /\ UNCHANGED <<store, top, dumpVars, start, dirtyR, restores, traffic>>

AbortRestore ==
  /\ Restoring
  /\ rest' = [rest EXCEPT !.step = "aborted"]
  /\ UNCHANGED <<store, top, dumpVars, start, dirtyR, restores, traffic>>

---------------------------------------------------------------------------

(* One command of another request that changes something.  An entry is     *)
(* added with the id *.                                                    *)
Traffic(i) ==
  /\ traffic < MaxTraffic
  /\ \/ \E c \in {{}} \cup (IF Stream(i) THEN {} ELSE Mains[i]) :
          c # store[i].main /\ store' = [store EXCEPT ![i].main = c] /\ UNCHANGED top
     \/ \E c \in Clients :
          /\ Stream(i)
          /\ top' = top + 1
          /\ store' = [store EXCEPT ![i].main = @ \cup {[id |-> top', by |-> c]}]
     \/ \E c \in Sides[i] :
          c # store[i].side /\ store' = [store EXCEPT ![i].side = c] /\ UNCHANGED top
  /\ dirtyD' = IF dump.step = "idle" THEN {} ELSE dirtyD \cup {i}
  /\ dirtyR' = IF rest.step = "idle" THEN {} ELSE dirtyR \cup {i}
  /\ traffic' = traffic + 1
  /\ UNCHANGED <<dump, env, before, rest, start, restores>>

(* The envelope is taken to an instance that holds nothing.                *)
Migrate ==
  /\ dump.step = "done" /\ ~Restoring
  /\ store' = Nothing
  /\ rest' = NoRestore /\ start' = Nothing /\ dirtyR' = {}
  /\ UNCHANGED <<top, dumpVars, restores, traffic>>

Collect ==
  \/ \E app \in Apps \cup {Whole}, logs \in BOOLEAN : BeginDump(app, logs)
  \/ Scan \/ FetchAcl \/ NextSection \/ AbortDump
  \/ \E i \in Items : FetchMain(i)

Apply ==
  \/ \E app \in Apps \cup {Whole}, force \in BOOLEAN : BeginRestore(app, force)
  \/ \E i \in Items : Pass(i) \/ Take(i)
  \/ WriteMain \/ WriteSide \/ DropStream \/ EndStream
  \/ \E e \in rest.left : AddEntry(e)
  \/ EndRestore \/ AbortRestore

Next == Collect \/ Apply \/ Migrate \/ (\E i \in Items : Traffic(i))

Spec == Init /\ [][Next]_vars

---------------------------------------------------------------------------
(* Properties                                                              *)

TypeOK ==
  /\ IsStore(store, top) /\ top \in Nat
  /\ dump \in Dumps
  /\ IsStore(env, top) /\ IsStore(before, top) /\ IsStore(start, top)
  /\ rest \in Restores
  /\ dirtyD \subseteq Items /\ dirtyR \subseteq Items
  /\ traffic \in 0..MaxTraffic /\ restores \in 0..MaxRestores

Restored(i) == i \in dump.has /\ Accepts(i) /\ (rest.force \/ start[i].main = {})

(* The restore's contract (fr_backup_envelope_v1.md, skip-existing and     *)
(* force_overwrite): once it has ended, every item nobody else touched is  *)
(* as dumped if it was accepted and either missing or to be overwritten,   *)
(* and otherwise as it was, its side key included, whatever stale flags    *)
(* and half-written items deletions and aborted restores had left behind.  *)
RestoreExact ==
  rest.step = "done" =>
    \A i \in Items \ dirtyR : store[i] = IF Restored(i) THEN env[i] ELSE start[i]

(* The envelope shows every item nobody touched during the collection as   *)
(* it is stored, and no such item but those the filter admits, although    *)
(* the collection is one command per key and sees the :enc flags before    *)
(* it reads the values.                                                    *)
AsDumped(i) == IF Kind[i] = "client" THEN [before[i] EXCEPT !.side = Acl(@)] ELSE before[i]
DumpExact ==
  dump.step = "done" =>
    \A i \in {j \in Items \ dirtyD : Kind[j] # "log"} :
      IF before[i].main # {} /\ Admits(i, AsDumped(i), dump.app)
        THEN i \in dump.has /\ env[i] = AsDumped(i)
        ELSE i \notin dump.has

(* A restore of streams with their original ids only fails if somebody     *)
(* else added to the stream after it was deleted.                          *)
FailsOnlyOnTraffic == rest.step = "failed" => rest.item \in dirtyR
=============================================================================
