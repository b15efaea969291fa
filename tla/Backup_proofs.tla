--------------------------- MODULE Backup_proofs ---------------------------
(***************************************************************************)
(* Proofs about Backup for every set of items and apps, every content of   *)
(* the instance and any amount of other traffic.                           *)
(***************************************************************************)
EXTENDS Backup, TLAPS

SectionNames == {"client", "admin", "kv", "queue", "index", "log"}

(* Every item is in one of the six sections.                               *)
LEMMA KindType == \A i \in Items : Kind[i] \in SectionNames
  <1>1. \A n \in 1..6 : Sections[n] \in SectionNames
    BY DEF Sections, SectionNames
  <1> QED
    BY <1>1, BackupAssumption

(* A missing item is a possible one, and so is a store of them.            *)
LEMMA AbsentIsItem == \A i \in Items, last \in Nat : IsItem(i, Absent, last)
  BY KindType DEF SectionNames, IsItem, Absent, Item, Mains, Sides, UpToOne

(* The store of an empty instance.                                         *)
LEMMA NothingIsStore == ASSUME NEW last \in Nat PROVE IsStore(Nothing, last)
  BY AbsentIsItem DEF IsStore, Nothing

(* Replacing one item of a store.                                          *)
LEMMA StoreUpdate ==
  ASSUME NEW s, NEW last, IsStore(s, last), NEW i \in Items, NEW x, IsItem(i, x, last)
  PROVE  IsStore([s EXCEPT ![i] = x], last)
  <1>1. s = [j \in Items |-> s[j]] /\ \A j \in Items : IsItem(j, s[j], last)
    BY DEF IsStore
  <1> DEFINE t == [s EXCEPT ![i] = x]
  <1>2. t = [j \in Items |-> t[j]]
    BY <1>1
  <1>3. \A j \in Items : t[j] = IF j = i THEN x ELSE s[j]
    BY <1>1
  <1> HIDE DEF t
  <1>4. \A j \in Items : IsItem(j, t[j], last)
    BY <1>1, <1>3
  <1>5. IsStore(t, last)
    BY <1>2, <1>4 DEF IsStore
  <1> QED
    BY <1>5 DEF t

(* The entries of a stream.                                                *)
LEMMA StreamEntries ==
  ASSUME NEW i \in Items, Stream(i), NEW last, NEW x, IsItem(i, x, last)
  PROVE  /\ x.main \subseteq Entries /\ x.side = {}
         /\ \A e, f \in x.main : e.id \in Nat /\ e.id <= last /\ (e.id = f.id => e = f)
  BY KindType DEF IsItem, Mains, Sides, Stream, Entries, SectionNames

(* A store stays one when ids are handed out.                              *)
LEMMA StoreLater ==
  ASSUME NEW s, NEW last \in Nat, IsStore(s, last)
  PROVE  IsStore(s, last + 1)
  <1>1. ASSUME NEW i \in Items PROVE IsItem(i, s[i], last + 1)
    <2>1. IsItem(i, s[i], last)
      BY DEF IsStore
    <2>2. Stream(i) => \A e \in s[i].main : e.id \in Nat
      BY <2>1, StreamEntries
    <2> QED
      BY <2>1, <2>2 DEF IsItem
  <1> QED
    BY <1>1 DEF IsStore

(* Changing one key of an item.                                            *)
LEMMA MainUpdate ==
  ASSUME NEW i \in Items, NEW last, NEW x, IsItem(i, x, last),
         NEW m, m \in Mains[i], Stream(i) => \A e, f \in m : e.id <= last /\ (e.id = f.id => e = f)
  PROVE  IsItem(i, [x EXCEPT !.main = m], last)
  BY DEF IsItem

(* Likewise the side key.                                                  *)
LEMMA SideUpdate ==
  ASSUME NEW i \in Items, NEW last, NEW x, IsItem(i, x, last), NEW c \in Sides[i]
  PROVE  IsItem(i, [x EXCEPT !.side = c], last)
  BY DEF IsItem

---------------------------------------------------------------------------
(* Type correctness, with the shape of a restore under way                 *)

Busy == rest.step \in {"del", "write", "side"}

(* A restore works through the finished envelope: items it has to do, the  *)
(* one it is at, and what is left of a stream.                             *)
RestShape ==
  /\ rest.step # "idle" => dump.step = "done" /\ rest.todo \subseteq dump.has
  /\ rest.step = "done" => rest.todo = {}
  /\ Busy => rest.item \in dump.has \ rest.todo
  /\ rest.step = "side" => Kind[rest.item] \in {"client", "kv"}
  /\ rest.step = "del" => Stream(rest.item)
  /\ rest.step \in {"del", "write"} /\ Stream(rest.item) => rest.left \subseteq env[rest.item].main
  /\ dump.step = "side" => Kind[dump.item] = "client"

Inv == TypeOK /\ RestShape

(* Idle records of the two processes are well typed.                       *)
LEMMA IdleTypes == NoDump \in Dumps /\ NoRestore \in Restores
  <1>1. (CHOOSE i \in Items : TRUE) \in Items
    BY BackupAssumption
  <1> QED
    BY <1>1 DEF NoDump, NoRestore, Dumps, Restores

(* The initial state.                                                      *)
LEMMA InitInv == Init => Inv
  <1>1. StockTop \in Nat /\ IsStore(Stock, StockTop) /\ MaxTraffic \in Nat /\ MaxRestores \in Nat
    BY BackupAssumption
  <1>2. NoRestore.step = "idle" /\ NoDump.step = "idle" /\ 0 \in 0..MaxTraffic /\ 0 \in 0..MaxRestores
    BY <1>1 DEF NoRestore, NoDump
  <1>3. Init => RestShape
    BY <1>2 DEF Init, RestShape, Busy
  <1>4. IsStore(Nothing, StockTop)
    BY <1>1, NothingIsStore
  <1>5. Init => TypeOK
    <2> SUFFICES ASSUME Init PROVE TypeOK
      OBVIOUS
    <2>1. IsStore(store, top) /\ top \in Nat
      BY <1>1 DEF Init
    <2>2. IsStore(env, top) /\ IsStore(before, top) /\ IsStore(start, top)
      BY <1>4 DEF Init
    <2>3. dump = NoDump /\ rest = NoRestore /\ dirtyD = {} /\ dirtyR = {}
      BY DEF Init
    <2>4. traffic \in 0..MaxTraffic /\ restores \in 0..MaxRestores
      BY <1>2 DEF Init
    <2> QED
      BY <2>1, <2>2, <2>3, <2>4, IdleTypes DEF TypeOK
  <1> QED
    BY <1>3, <1>5 DEF Inv

(* Whether an item is kept or left out, the collection stays well typed.   *)
LEMMA KeepInv ==
  ASSUME Inv, Dumping, NEW i \in Items, NEW x, IsItem(i, x, top), Keep(i, x) \/ Leave(i),
         UNCHANGED <<store, top, before, dirtyD, restVars, traffic>>
  PROVE  Inv'
  <1>1. rest.step = "idle"
    BY DEF Inv, RestShape, Dumping
  <1>2. IsStore(env', top)
    BY StoreUpdate DEF Inv, TypeOK, Keep, Leave
  <1>3. dump' \in Dumps
    <2>1. dump \in Dumps
      BY DEF Inv, TypeOK
    <2>2. CASE Keep(i, x)
      BY <2>1, <2>2 DEF Keep, Dumps
    <2>3. CASE Leave(i)
      BY <2>1, <2>3 DEF Leave, Dumps
    <2> QED
      BY <2>2, <2>3
  <1>4. RestShape'
    BY <1>1 DEF RestShape, restVars, Busy, Keep, Leave, Inv, TypeOK, Dumps
  <1> QED
    BY <1>2, <1>3, <1>4 DEF Inv, TypeOK, restVars

(* The value of a step of the collection is that of an item.               *)
LEMMA TextType ==
  ASSUME Inv, NEW i \in Items, Kind[i] \in {"client", "index"}
  PROVE  Text(i) \in Mains[i] /\ IsItem(i, Item(Text(i), {}), top)
  <1>1. IsItem(i, store[i], top)
    BY DEF Inv, TypeOK, IsStore
  <1> QED
    BY <1>1 DEF IsItem, Text, Mains, Sides, UpToOne, Stream, Item

(* The read of one main key.                                               *)
LEMMA FetchMainInv ==
  ASSUME Inv, NEW i \in Items, FetchMain(i)
  PROVE  Inv'
  <1> USE DEF FetchMain
  <1>1. Dumping /\ IsItem(i, store[i], top)
    BY DEF Inv, TypeOK, IsStore, Dumping
  <1>2. CASE Kind[i] = "client"
    <2>1. IsItem(i, Item(Text(i), {}), top)
      BY <1>2, TextType
    <2>2. IsStore(env', top)
      BY <1>2, <2>1, StoreUpdate DEF Inv, TypeOK
    <2>3. rest.step = "idle"
      BY <1>1 DEF Inv, RestShape, Dumping
    <2>4. RestShape'
      BY <1>2, <2>3 DEF Inv, TypeOK, RestShape, restVars, Busy, Dumps
    <2> QED
      BY <1>2, <2>2, <2>4 DEF Inv, TypeOK, restVars, Dumps
  <1>3. CASE Kind[i] = "admin"
    BY <1>1, <1>3, KeepInv
  <1>4. CASE Kind[i] = "kv"
    <2> DEFINE x == Item(store[i].main, IF i \in dump.flags THEN {TRUE} ELSE {})
    <2>1. IsItem(i, x, top)
      BY <1>1, <1>4 DEF IsItem, Sides, UpToOne, Stream, Item
    <2> QED
      BY <1>1, <1>4, <2>1, KeepInv
  <1>5. CASE Kind[i] = "index"
    <2>1. IsItem(i, Item(Text(i), {}), top)
      BY <1>5, TextType
    <2> QED
      BY <1>1, <1>5, <2>1, KeepInv
  <1>6. CASE Kind[i] = "queue"
    BY <1>1, <1>6, KeepInv
  <1>7. CASE Kind[i] = "log"
    <2> DEFINE x == Item(LogSlice(store[i].main, dump.has, dump.app), {})
    <2>1. IsItem(i, x, top)
      BY <1>1, <1>7 DEF IsItem, Mains, Sides, Stream, Item, LogSlice
    <2> QED
      BY <1>1, <1>7, <2>1, KeepInv
  <1> QED
    BY <1>2, <1>3, <1>4, <1>5, <1>6, <1>7, KindType DEF SectionNames

(* The read of a client's ACL.                                             *)
LEMMA FetchAclInv ==
  ASSUME Inv, FetchAcl
  PROVE  Inv'
  <1> DEFINE i == dump.item
             x == Item(env[i].main, Acl(store[i].side))
  <1>1. Dumping /\ i \in Items /\ Kind[i] = "client"
    BY DEF FetchAcl, Dumping, Inv, TypeOK, RestShape, Dumps
  <1>2. IsItem(i, store[i], top) /\ IsItem(i, env[i], top)
    BY <1>1 DEF Inv, TypeOK, IsStore
  <1>3. IsItem(i, x, top)
    <2>1. Sides[i] = UpToOne(SUBSET Apps)
      BY <1>1 DEF Sides
    <2>2. Acl(store[i].side) \in Sides[i]
      BY <1>2, <2>1 DEF IsItem, Acl, UpToOne
    <2>3. env[i].main \in Mains[i] /\ ~Stream(i)
      BY <1>1, <1>2 DEF IsItem, Stream
    <2> QED
      BY <2>2, <2>3 DEF IsItem, Item
  <1> QED
    BY <1>1, <1>3, KeepInv DEF FetchAcl

(* The other steps of a collection.                                        *)
LEMMA CollectInv ==
  ASSUME Inv, Collect
  PROVE  Inv'
  <1> USE DEF restVars
  <1>0. top \in Nat /\ IsStore(Nothing, top) /\ dump \in Dumps /\ rest \in Restores
    BY NothingIsStore DEF Inv, TypeOK
  <1>1. ASSUME NEW app \in Apps \cup {Whole}, NEW logs \in BOOLEAN, BeginDump(app, logs) PROVE Inv'
    <2>1. dump' \in Dumps /\ dump'.step = "scan" /\ rest'.step = "idle"
      BY <1>1, IdleTypes DEF BeginDump, Dumps, NoRestore
    <2>2. RestShape'
      BY <2>1 DEF RestShape, Busy
    <2> QED
      BY <1>0, <1>1, <2>1, <2>2, IdleTypes DEF BeginDump, Inv, TypeOK
  <1>2. CASE Scan
    <2>1. dump' \in Dumps /\ dump'.step = "fetch"
      BY <1>0, <1>2 DEF Scan, Dumps
    <2>2. rest.step = "idle"
      BY <1>2 DEF Scan, Inv, RestShape
    <2>3. RestShape'
      BY <1>2, <2>1, <2>2 DEF Scan, RestShape, Busy
    <2> QED
      BY <1>2, <2>1, <2>3 DEF Scan, Inv, TypeOK
  <1>3. CASE FetchAcl
    BY <1>3, FetchAclInv
  <1>4. CASE NextSection
    <2>0. dump.sec \in 1..6 /\ (dump.sec # 6 => dump.sec + 1 \in 1..6)
      BY <1>0 DEF Dumps
    <2>1. dump' \in Dumps /\ dump'.step \in {"done", "scan"}
      BY <1>0, <1>4, <2>0 DEF NextSection, Dumps
    <2>2. rest.step = "idle"
      BY <1>4 DEF NextSection, Inv, RestShape
    <2>3. RestShape'
      BY <1>4, <2>1, <2>2 DEF NextSection, RestShape, Busy
    <2> QED
      BY <1>4, <2>1, <2>3 DEF NextSection, Inv, TypeOK
  <1>5. CASE AbortDump
    <2>1. rest.step = "idle" /\ dump'.step = "idle"
      BY <1>5 DEF AbortDump, Dumping, Inv, RestShape, NoDump
    <2>2. RestShape'
      BY <1>5, <2>1 DEF AbortDump, RestShape, Busy
    <2> QED
      BY <1>0, <1>5, <2>2, IdleTypes DEF AbortDump, Inv, TypeOK
  <1>6. ASSUME NEW i \in Items, FetchMain(i) PROVE Inv'
    BY <1>6, FetchMainInv
  <1> QED
    BY <1>1, <1>2, <1>3, <1>4, <1>5, <1>6 DEF Collect

(* The steps of a restore, which leave the envelope alone.                 *)
LEMMA ApplyInv ==
  ASSUME Inv, Apply
  PROVE  Inv'
  <1>0. /\ top \in Nat /\ IsStore(store, top) /\ IsStore(env, top)
        /\ dump \in Dumps /\ rest \in Restores /\ RestShape
    BY DEF Inv, TypeOK
  <1>01. \A i \in Items : IsItem(i, store[i], top) /\ IsItem(i, env[i], top)
    BY <1>0 DEF IsStore
  <1>1. ASSUME NEW app \in Apps \cup {Whole}, NEW force \in BOOLEAN, BeginRestore(app, force)
        PROVE  Inv'
    <2>1. rest' \in Restores /\ rest'.step = "check" /\ rest'.todo = dump.has
      BY <1>0, <1>1, IdleTypes DEF BeginRestore, Restores, Dumps
    <2>2. RestShape'
      BY <1>0, <1>1, <2>1 DEF BeginRestore, RestShape, Busy, dumpVars
    <2>3. restores' \in 0..MaxRestores
      BY <1>1, BackupAssumption DEF BeginRestore, Inv, TypeOK
    <2> QED
      BY <1>0, <1>1, <2>1, <2>2, <2>3 DEF BeginRestore, Inv, TypeOK, dumpVars
  <1>2. ASSUME NEW i \in Items, Pass(i) PROVE Inv'
    <2>1. rest' \in Restores /\ RestShape'
      BY <1>0, <1>2 DEF Pass, Due, RestShape, Restores, Busy, dumpVars
    <2> QED
      BY <1>2, <2>1 DEF Pass, Inv, TypeOK, dumpVars
  <1>3. ASSUME NEW i \in Items, Take(i) PROVE Inv'
    <2>1. Stream(i) => env[i].main \subseteq Entries
      BY <1>01, StreamEntries
    <2>2. rest' \in Restores /\ RestShape'
      BY <1>0, <1>3, <2>1 DEF Take, Due, RestShape, Restores, Busy, dumpVars
    <2> QED
      BY <1>3, <2>2 DEF Take, Inv, TypeOK, dumpVars
  <1>4. CASE WriteMain
    <2> DEFINE i == rest.item
    <2>1. i \in Items
      BY <1>0 DEF Restores
    <2>2. IsItem(i, [store[i] EXCEPT !.main = env[i].main], top)
      BY <1>01, <2>1, MainUpdate DEF IsItem
    <2>3. store' = [store EXCEPT ![i] = [store[i] EXCEPT !.main = env[i].main]]
      BY <1>4 DEF WriteMain
    <2>4. IsStore(store', top)
      BY <1>0, <2>1, <2>2, <2>3, StoreUpdate
    <2>5. rest' \in Restores /\ RestShape'
      BY <1>0, <1>4 DEF WriteMain, RestShape, Restores, Busy, dumpVars
    <2> QED
      BY <1>4, <2>4, <2>5 DEF WriteMain, Inv, TypeOK, dumpVars
  <1>5. CASE WriteSide
    <2> DEFINE i == rest.item
    <2>1. i \in Items
      BY <1>0 DEF Restores
    <2>2. IsItem(i, [store[i] EXCEPT !.side = env[i].side], top)
      BY <1>01, <2>1, SideUpdate DEF IsItem
    <2>3. store' = [store EXCEPT ![i] = [store[i] EXCEPT !.side = env[i].side]]
      BY <1>5 DEF WriteSide
    <2>4. IsStore(store', top)
      BY <1>0, <2>1, <2>2, <2>3, StoreUpdate
    <2>5. rest' \in Restores /\ RestShape'
      BY <1>0, <1>5 DEF WriteSide, RestShape, Restores, Busy, dumpVars
    <2> QED
      BY <1>5, <2>4, <2>5 DEF WriteSide, Inv, TypeOK, dumpVars
  <1>6. CASE DropStream
    <2> DEFINE i == rest.item
    <2>1. i \in Items /\ {} \in Mains[i]
      BY <1>0, <1>6, KindType DEF Restores, Mains, UpToOne, SectionNames
    <2>2. IsItem(i, [store[i] EXCEPT !.main = {}], top)
      BY <1>01, <2>1, MainUpdate
    <2>3. store' = [store EXCEPT ![i] = [store[i] EXCEPT !.main = {}]]
      BY <1>6 DEF DropStream
    <2>4. IsStore(store', top)
      BY <1>0, <2>1, <2>2, <2>3, StoreUpdate
    <2>5. rest' \in Restores /\ RestShape'
      BY <1>0, <1>6 DEF DropStream, RestShape, Restores, Busy, dumpVars
    <2> QED
      BY <1>6, <2>4, <2>5 DEF DropStream, Inv, TypeOK, dumpVars
  <1>7. ASSUME NEW e \in rest.left, AddEntry(e) PROVE Inv'
    <2> DEFINE i == rest.item
               m == store[i].main \cup {e}
    <2>1. i \in Items /\ Stream(i) /\ e \in env[i].main
      BY <1>0, <1>7 DEF Restores, RestShape, AddEntry
    <2>2. rest' \in Restores /\ RestShape'
      BY <1>0, <1>7 DEF AddEntry, RestShape, Restores, Busy, dumpVars
    <2>3. CASE \E f \in store[i].main : f.id >= e.id
      BY <1>7, <2>2, <2>3 DEF AddEntry, Inv, TypeOK, dumpVars
    <2>4. CASE ~ \E f \in store[i].main : f.id >= e.id
      <3>1. e \in Entries /\ e.id \in Nat /\ e.id <= top
        BY <1>01, <2>1, StreamEntries
      <3>2. /\ store[i].main \subseteq Entries
            /\ \A f, g \in store[i].main : f.id \in Nat /\ f.id <= top /\ (f.id = g.id => f = g)
        BY <1>01, <2>1, StreamEntries
      <3>3. \A f \in store[i].main : f.id # e.id
        BY <2>4, <3>1, <3>2
      <3>4. m \in Mains[i]
        BY <2>1, <3>1, <3>2 DEF Mains, Stream
      <3>5. \A f, g \in m : f.id <= top /\ (f.id = g.id => f = g)
        BY <3>1, <3>2, <3>3
      <3>6. IsItem(i, [store[i] EXCEPT !.main = m], top)
        BY <1>01, <2>1, <3>4, <3>5, MainUpdate
      <3>7. store' = [store EXCEPT ![i] = [store[i] EXCEPT !.main = m]]
        BY <1>7, <2>4 DEF AddEntry
      <3>8. IsStore(store', top)
        BY <1>0, <2>1, <3>6, <3>7, StoreUpdate
      <3> QED
        BY <1>7, <2>2, <3>8 DEF AddEntry, Inv, TypeOK, dumpVars
    <2> QED
      BY <2>3, <2>4
  <1>8. CASE EndStream \/ EndRestore \/ AbortRestore
    <2>1. rest' \in Restores /\ RestShape'
      BY <1>0, <1>8 DEF EndStream, EndRestore, AbortRestore, Restoring, RestShape, Restores, Busy,
                       dumpVars
    <2> QED
      BY <1>8, <2>1 DEF EndStream, EndRestore, AbortRestore, Inv, TypeOK, dumpVars
  <1> QED
    BY <1>1, <1>2, <1>3, <1>4, <1>5, <1>6, <1>7, <1>8 DEF Apply

(* Other requests and the move to an empty instance.                       *)
LEMMA TrafficInv ==
  ASSUME Inv, NEW i \in Items, Traffic(i)
  PROVE  Inv'
  <1>0. /\ top \in Nat /\ IsStore(store, top) /\ IsItem(i, store[i], top)
        /\ RestShape' /\ dirtyD' \subseteq Items /\ dirtyR' \subseteq Items
    BY DEF Inv, TypeOK, IsStore, Traffic, RestShape, Busy
  <1>1. traffic' \in 0..MaxTraffic
    BY BackupAssumption DEF Inv, TypeOK, Traffic
  <1>2. ASSUME NEW x, IsItem(i, x, top), store' = [store EXCEPT ![i] = x], UNCHANGED top PROVE Inv'
    <2>1. IsStore(store', top)
      BY <1>0, <1>2, StoreUpdate
    <2> QED
      BY <1>0, <1>1, <1>2, <2>1 DEF Inv, TypeOK, Traffic
  <1>3. CASE \E c \in {{}} \cup (IF Stream(i) THEN {} ELSE Mains[i]) :
               store' = [store EXCEPT ![i].main = c] /\ UNCHANGED top
    <2>1. PICK c \in {{}} \cup (IF Stream(i) THEN {} ELSE Mains[i]) :
            store' = [store EXCEPT ![i].main = c] /\ UNCHANGED top
      BY <1>3
    <2>2. {} \in Mains[i]
      BY KindType DEF Mains, UpToOne, SectionNames
    <2>3. c \in Mains[i] /\ (Stream(i) => c = {})
      BY <2>2
    <2>4. IsItem(i, [store[i] EXCEPT !.main = c], top)
      BY <1>0, <2>3, MainUpdate
    <2>5. store' = [store EXCEPT ![i] = [store[i] EXCEPT !.main = c]]
      BY <2>1
    <2> QED
      BY <1>2, <2>1, <2>4, <2>5
  <1>4. CASE \E c \in Sides[i] : store' = [store EXCEPT ![i].side = c] /\ UNCHANGED top
    <2>1. PICK c \in Sides[i] : store' = [store EXCEPT ![i].side = c] /\ UNCHANGED top
      BY <1>4
    <2>2. IsItem(i, [store[i] EXCEPT !.side = c], top)
      BY <1>0, SideUpdate
    <2>3. store' = [store EXCEPT ![i] = [store[i] EXCEPT !.side = c]]
      BY <2>1
    <2> QED
      BY <1>2, <2>1, <2>2, <2>3
  <1>5. ASSUME NEW c \in Clients, Stream(i), top' = top + 1,
               store' = [store EXCEPT ![i].main = @ \cup {[id |-> top', by |-> c]}]
        PROVE  Inv'
    <2> DEFINE e == [id |-> top + 1, by |-> c]
               m == store[i].main \cup {e}
    <2>1. /\ IsStore(store, top + 1) /\ IsStore(env, top + 1)
          /\ IsStore(before, top + 1) /\ IsStore(start, top + 1)
      BY <1>0, StoreLater DEF Inv, TypeOK
    <2>2. IsItem(i, store[i], top + 1)
      BY <2>1 DEF IsStore
    <2>3. /\ store[i].main \subseteq Entries
          /\ \A f, g \in store[i].main : f.id \in Nat /\ f.id <= top /\ (f.id = g.id => f = g)
      BY <1>0, <1>5, StreamEntries
    <2>4. e \in Entries /\ e.id = top + 1
      BY <1>0 DEF Entries
    <2>5. m \in Mains[i]
      BY <1>5, <2>3, <2>4 DEF Mains, Stream
    <2>6. \A f, g \in m : f.id <= top + 1 /\ (f.id = g.id => f = g)
      BY <1>0, <2>3, <2>4
    <2>7. IsItem(i, [store[i] EXCEPT !.main = m], top + 1)
      BY <2>2, <2>5, <2>6, MainUpdate
    <2>8. store' = [store EXCEPT ![i] = [store[i] EXCEPT !.main = m]]
      BY <1>5
    <2>9. IsStore(store', top + 1)
      BY <2>1, <2>7, <2>8, StoreUpdate
    <2> QED
      BY <1>0, <1>1, <1>5, <2>1, <2>9 DEF Inv, TypeOK, Traffic
  <1> QED
    BY <1>3, <1>4, <1>5 DEF Traffic

(* The move to an empty instance.                                         *)
LEMMA MigrateInv == ASSUME Inv, Migrate PROVE Inv'
  <1>1. rest'.step = "idle" /\ dump.step = "done"
    BY DEF Migrate, NoRestore
  <1>2. RestShape'
    BY <1>1 DEF Migrate, RestShape, Busy, dumpVars
  <1> QED
    BY <1>2, NothingIsStore, IdleTypes DEF Migrate, Inv, TypeOK, dumpVars

(* Every step of the specification.                                        *)
LEMMA StepInv == ASSUME Inv, [Next]_vars PROVE Inv'
  <1>1. CASE UNCHANGED vars
    BY <1>1 DEF vars, dumpVars, restVars, Inv, TypeOK, RestShape, Busy
  <1> QED
    BY <1>1, CollectInv, ApplyInv, MigrateInv, TrafficInv DEF Next

(* Hence the invariant holds throughout.                                   *)
LEMMA Invariance == Spec => []Inv
  <1>1. Inv /\ [Next]_vars => Inv'
    BY StepInv
  <1> QED
    BY <1>1, InitInv, PTL DEF Spec

(* The store, the envelope and the two processes stay well typed whatever  *)
(* is dumped, restored and written besides.                                *)
THEOREM TypeCorrect == Spec => []TypeOK
  <1>1. Inv => TypeOK
    BY DEF Inv
  <1> QED
    BY <1>1, Invariance, PTL

---------------------------------------------------------------------------
(* What a restore has done so far                                          *)

Expected(i) == IF Restored(i) THEN env[i] ELSE start[i]

(* The item the restore is at, or was at when it broke off.                *)
Current(i) == i = rest.item /\ rest.step \in {"del", "write", "side", "aborted", "failed"}

(* Of an item nobody else touched.                                         *)
Progress(i) ==
  /\ i \in rest.todo => store[i] = start[i]
  /\ i \notin rest.todo /\ ~Current(i) => store[i] = Expected(i)
  /\ Busy /\ i = rest.item => Restored(i)
  /\ rest.step = "del" /\ i = rest.item => rest.left = env[i].main
  /\ rest.step = "side" /\ i = rest.item => store[i].main = env[i].main
  /\ rest.step = "write" /\ i = rest.item /\ Stream(i) =>
       /\ store[i].main = env[i].main \ rest.left
       /\ \A f \in env[i].main \ rest.left, g \in rest.left : f.id < g.id

RestInv ==
  /\ rest.step # "idle" => \A i \in Items \ dirtyR : Progress(i)
  /\ rest.step = "failed" => rest.item \in dirtyR

(* Nothing is known of a restore that has not begun.                       *)
LEMMA IdleRestInv == ASSUME rest'.step = "idle" PROVE RestInv'
  BY DEF RestInv

(* No step of a collection meets a restore.                                *)
LEMMA CollectRestInv ==
  ASSUME Inv, RestInv, Collect
  PROVE  RestInv'
  <1>1. Dumping => rest.step = "idle"
    BY DEF Inv, RestShape, Dumping
  <1>2. ASSUME NEW app \in Apps \cup {Whole}, NEW logs \in BOOLEAN, BeginDump(app, logs)
        PROVE  rest'.step = "idle"
    BY <1>2 DEF BeginDump, NoRestore
  <1>3. CASE Scan \/ FetchAcl \/ NextSection \/ AbortDump \/ \E i \in Items : FetchMain(i)
    <2>1. Dumping /\ rest' = rest
      BY <1>3 DEF Scan, FetchAcl, NextSection, AbortDump, FetchMain, Dumping, restVars
    <2> QED
      BY <1>1, <2>1, IdleRestInv
  <1> QED
    BY <1>2, <1>3, IdleRestInv DEF Collect

(* Two items alike are the same if both of their keys are.                 *)
LEMMA SameItem ==
  ASSUME NEW i \in Items, NEW last, NEW x, NEW y, IsItem(i, x, last), IsItem(i, y, last),
         x.main = y.main, x.side = y.side
  PROVE  x = y
  BY DEF IsItem

(* The steps of a restore, each of which moves on the item it is at.       *)
LEMMA ApplyRestInv ==
  ASSUME Inv, RestInv, Apply
  PROVE  RestInv'
  <1> USE DEF dumpVars
  <1>0. /\ rest \in Restores /\ RestShape
        /\ \A i \in Items : IsItem(i, store[i], top) /\ IsItem(i, env[i], top)
        /\ store = [i \in Items |-> store[i]]
    BY DEF Inv, TypeOK, IsStore
  <1>1. ASSUME NEW app \in Apps \cup {Whole}, NEW force \in BOOLEAN, BeginRestore(app, force)
        PROVE  RestInv'
    <2>1. rest'.step = "check" /\ rest'.todo = dump.has /\ start' = store /\ store' = store
      BY <1>1 DEF BeginRestore, NoRestore
    <2>2. ASSUME NEW i \in Items PROVE Progress(i)'
      <3>1. i \notin dump.has => ~Restored(i)'
        BY <1>1 DEF Restored, BeginRestore
      <3> QED
        BY <1>1, <2>1, <3>1 DEF Progress, Current, Expected, Busy, BeginRestore
    <2> QED
      BY <2>1, <2>2 DEF RestInv
  <1>2. ASSUME NEW i \in Items, Pass(i) PROVE RestInv'
    <2>1. rest'.step = "check" /\ rest'.todo = rest.todo \ {i} /\ UNCHANGED <<store, start, env, dump, dirtyR>>
      BY <1>0, <1>2 DEF Pass, Due, Restores
    <2>2. ASSUME NEW j \in Items \ dirtyR PROVE Progress(j)'
      <3>1. Progress(j) /\ rest.step = "check" /\ i \in rest.todo
        BY <1>2 DEF RestInv, Pass, Due
      <3>2. Restored(j)' = Restored(j)
        BY <1>0, <1>2 DEF Restored, Pass, Accepts, Restores
      <3>3. j = i => ~Restored(i)
        BY <1>2, <3>1 DEF Pass, Restored, Progress
      <3> QED
        BY <2>1, <3>1, <3>2, <3>3 DEF Progress, Current, Expected, Busy
    <2> QED
      BY <2>1, <2>2 DEF RestInv
  <1>3. ASSUME NEW i \in Items, Take(i) PROVE RestInv'
    <2>1. /\ rest'.step = (IF Stream(i) /\ store[i].main # {} THEN "del" ELSE "write")
          /\ rest'.todo = rest.todo \ {i} /\ rest'.item = i
          /\ Stream(i) => rest'.left = env[i].main
          /\ UNCHANGED <<store, start, env, dump, dirtyR>>
      BY <1>0, <1>3 DEF Take, Due, Restores
    <2>2. ASSUME NEW j \in Items \ dirtyR PROVE Progress(j)'
      <3>1. Progress(j) /\ rest.step = "check" /\ i \in rest.todo
        BY <1>3 DEF RestInv, Take, Due
      <3>2. Restored(j)' = Restored(j)
        BY <1>0, <1>3 DEF Restored, Take, Accepts, Restores
      <3>3. j = i => Restored(i)
        BY <1>0, <1>3, <3>1 DEF Take, Due, Restored, Progress, RestShape
      <3>4. CASE j = i
        BY <2>1, <3>1, <3>2, <3>3, <3>4 DEF Progress, Current, Busy
      <3>5. CASE j # i
        BY <2>1, <3>1, <3>2, <3>5 DEF Progress, Current, Expected, Busy
      <3> QED
        BY <3>4, <3>5
    <2> QED
      BY <2>1, <2>2 DEF RestInv
  <1> DEFINE c == rest.item
  <1>4. CASE WriteMain
    <2>1. /\ rest'.step = (IF Kind[c] \in {"client", "kv"} THEN "side" ELSE "check")
          /\ rest'.todo = rest.todo /\ rest'.item = c /\ rest.step = "write" /\ ~Stream(c)
          /\ store' = [store EXCEPT ![c].main = env[c].main]
          /\ UNCHANGED <<start, env, dump, dirtyR>>
      BY <1>0, <1>4 DEF WriteMain, Restores
    <2>2. ASSUME NEW j \in Items \ dirtyR PROVE Progress(j)'
      <3>1. Progress(j) /\ c \in Items /\ c \notin rest.todo
        BY <1>0, <2>1 DEF RestInv, RestShape, Busy, Restores
      <3>2. Restored(j)' = Restored(j)
        BY <1>0, <1>4 DEF Restored, WriteMain, Accepts, Restores
      <3>3. CASE j = c
        <4>1. Restored(j) /\ IsItem(j, store[j], top) /\ IsItem(j, env[j], top)
          BY <1>0, <2>1, <3>1, <3>3 DEF Progress, Busy
        <4>2. store'[j].main = env[j].main /\ store'[j].side = store[j].side
              /\ IsItem(j, store'[j], top)
          BY <1>0, <2>1, <3>3, <4>1, MainUpdate DEF IsItem
        <4>3. Kind[j] \notin {"client", "kv"} => store'[j].side = env[j].side
          BY <2>1, <3>3, <4>1, <4>2, KindType DEF IsItem, Sides, Stream, SectionNames
        <4>4. Kind[j] \notin {"client", "kv"} => store'[j] = env[j]
          BY <4>1, <4>2, <4>3, SameItem
        <4> QED
          BY <2>1, <3>1, <3>2, <3>3, <4>1, <4>2, <4>4 DEF Progress, Current, Expected, Busy
      <3>4. CASE j # c
        <4>1. store'[j] = store[j]
          BY <1>0, <2>1, <3>4
        <4> QED
          BY <2>1, <3>1, <3>2, <3>4, <4>1 DEF Progress, Current, Expected, Busy
      <3> QED
        BY <3>3, <3>4
    <2> QED
      BY <2>1, <2>2 DEF RestInv
  <1>5. CASE WriteSide
    <2>1. /\ rest'.step = "check" /\ rest.step = "side"
          /\ rest'.todo = rest.todo /\ rest'.item = c
          /\ store' = [store EXCEPT ![c].side = env[c].side]
          /\ UNCHANGED <<start, env, dump, dirtyR>>
      BY <1>0, <1>5 DEF WriteSide, Restores
    <2>2. ASSUME NEW j \in Items \ dirtyR PROVE Progress(j)'
      <3>1. Progress(j) /\ c \in Items /\ c \notin rest.todo
        BY <1>0, <2>1 DEF RestInv, RestShape, Busy, Restores
      <3>2. Restored(j)' = Restored(j)
        BY <1>0, <1>5 DEF Restored, WriteSide, Accepts, Restores
      <3>3. CASE j = c
        <4>1. /\ Restored(j) /\ store[j].main = env[j].main
              /\ IsItem(j, store[j], top) /\ IsItem(j, env[j], top)
          BY <1>0, <2>1, <3>1, <3>3 DEF Progress, Busy
        <4>2. /\ store'[j].main = store[j].main /\ store'[j].side = env[j].side
              /\ IsItem(j, store'[j], top)
          BY <1>0, <2>1, <3>3, <4>1, SideUpdate DEF IsItem
        <4>3. store'[j] = env[j]
          BY <4>1, <4>2, SameItem
        <4> QED
          BY <2>1, <3>1, <3>2, <3>3, <4>1, <4>3 DEF Progress, Current, Expected, Busy
      <3>4. CASE j # c
        <4>1. store'[j] = store[j]
          BY <1>0, <2>1, <3>4
        <4> QED
          BY <2>1, <3>1, <3>2, <3>4, <4>1 DEF Progress, Current, Expected, Busy
      <3> QED
        BY <3>3, <3>4
    <2> QED
      BY <2>1, <2>2 DEF RestInv
  <1>6. CASE DropStream
    <2>1. /\ rest'.step = "write" /\ rest.step = "del" /\ rest'.left = rest.left
          /\ rest'.todo = rest.todo /\ rest'.item = c
          /\ store' = [store EXCEPT ![c].main = {}]
          /\ UNCHANGED <<start, env, dump, dirtyR>>
      BY <1>0, <1>6 DEF DropStream, Restores
    <2>2. ASSUME NEW j \in Items \ dirtyR PROVE Progress(j)'
      <3>1. Progress(j) /\ c \in Items /\ c \notin rest.todo
        BY <1>0, <2>1 DEF RestInv, RestShape, Busy, Restores
      <3>2. Restored(j)' = Restored(j)
        BY <1>0, <1>6 DEF Restored, DropStream, Accepts, Restores
      <3>3. CASE j = c
        <4>1. Restored(j) /\ rest.left = env[j].main
          BY <2>1, <3>1, <3>3 DEF Progress, Busy
        <4>2. store'[j].main = {}
          BY <1>0, <2>1, <3>3 DEF IsItem
        <4> QED
          BY <2>1, <3>1, <3>2, <3>3, <4>1, <4>2 DEF Progress, Current, Busy
      <3>4. CASE j # c
        <4>1. store'[j] = store[j]
          BY <1>0, <2>1, <3>4
        <4> QED
          BY <2>1, <3>1, <3>2, <3>4, <4>1 DEF Progress, Current, Expected, Busy
      <3> QED
        BY <3>3, <3>4
    <2> QED
      BY <2>1, <2>2 DEF RestInv
  <1>7. ASSUME NEW e \in rest.left, AddEntry(e) PROVE RestInv'
    <2> DEFINE refused == \E f \in store[c].main : f.id >= e.id
    <2>1. /\ rest.step = "write" /\ Stream(c) /\ c \in Items /\ c \notin rest.todo
          /\ \A f \in rest.left : e.id <= f.id
          /\ rest.left \subseteq env[c].main
          /\ rest'.todo = rest.todo /\ rest'.item = c
          /\ UNCHANGED <<start, env, dump, dirtyR>>
      BY <1>0, <1>7 DEF AddEntry, Restores, RestShape, Busy
    <2>2. \A f, g \in env[c].main : f.id \in Nat /\ (f.id = g.id => f = g)
      BY <1>0, <2>1, StreamEntries
    <2>3. c \notin dirtyR => ~refused
      <3>1. c \notin dirtyR => Progress(c)
        BY <2>1 DEF RestInv
      <3> QED
        BY <2>1, <2>2, <3>1 DEF Progress
    <2>4. IF refused THEN rest'.step = "failed" /\ store' = store
          ELSE /\ rest'.step = "write" /\ rest'.left = rest.left \ {e}
               /\ store' = [store EXCEPT ![c].main = store[c].main \cup {e}]
      BY <1>0, <1>7 DEF AddEntry, Restores
    <2>5. ASSUME NEW j \in Items \ dirtyR PROVE Progress(j)'
      <3>1. Progress(j)
        BY <2>1 DEF RestInv
      <3>2. Restored(j)' = Restored(j)
        BY <1>0, <1>7 DEF Restored, AddEntry, Accepts, Restores
      <3>3. CASE j = c
        <4>1. /\ rest'.step = "write" /\ rest'.left = rest.left \ {e}
              /\ store'[c].main = store[c].main \cup {e}
          <5>1. ~refused /\ c \in Items
            BY <2>1, <2>3, <3>3
          <5>2. store' = [store EXCEPT ![c] = [store[c] EXCEPT !.main = store[c].main \cup {e}]]
            BY <2>4, <5>1
          <5>3. store[c] \in [main : Mains[c], side : Sides[c]]
            BY <1>0, <5>1 DEF IsItem
          <5>4. store'[c] = [store[c] EXCEPT !.main = store[c].main \cup {e}]
            BY <1>0, <5>1, <5>2
          <5> QED
            BY <2>4, <5>1, <5>3, <5>4
        <4>2. /\ Restored(c) /\ store[c].main = env[c].main \ rest.left
              /\ \A f \in env[c].main \ rest.left, g \in rest.left : f.id < g.id
          BY <2>1, <3>1, <3>3 DEF Progress, Busy
        <4>3. e \in rest.left /\ e \in env[c].main
          BY <2>1
        <4>4. store'[c].main = env[c].main \ rest'.left
          BY <4>1, <4>2, <4>3
        <4>5. ASSUME NEW f \in env[c].main \ rest'.left, NEW g \in rest'.left PROVE f.id < g.id
          <5>1. g \in rest.left /\ g # e /\ g \in env[c].main
            BY <2>1, <4>1
          <5>2. e.id < g.id
            BY <2>1, <2>2, <4>3, <5>1
          <5>3. f = e \/ f \in env[c].main \ rest.left
            BY <4>1
          <5> QED
            BY <4>2, <5>1, <5>2, <5>3
        <4> QED
          BY <2>1, <3>2, <3>3, <4>1, <4>2, <4>4, <4>5 DEF Progress, Current, Busy
      <3>4. CASE j # c
        <4>1. store'[j] = store[j] /\ rest'.step \in {"write", "failed"}
          BY <1>0, <2>4, <3>4
        <4> QED
          BY <2>1, <3>1, <3>2, <3>4, <4>1 DEF Progress, Current, Expected, Busy
      <3> QED
        BY <3>3, <3>4
    <2> QED
      BY <2>1, <2>3, <2>4, <2>5 DEF RestInv
  <1>8. CASE EndStream
    <2>1. /\ rest'.step = "check" /\ rest.step = "write" /\ Stream(c) /\ rest.left = {}
          /\ rest'.todo = rest.todo /\ rest'.item = c /\ c \in Items /\ c \notin rest.todo
          /\ UNCHANGED <<store, start, env, dump, dirtyR>>
      BY <1>0, <1>8 DEF EndStream, Restores, RestShape, Busy
    <2>2. ASSUME NEW j \in Items \ dirtyR PROVE Progress(j)'
      <3>1. Progress(j)
        BY <2>1 DEF RestInv
      <3>2. Restored(j)' = Restored(j)
        BY <1>0, <1>8 DEF Restored, EndStream, Accepts, Restores
      <3>3. j = c => Restored(j) /\ store[j].main = env[j].main
        BY <2>1, <3>1 DEF Progress, Busy
      <3>4. j = c => store[j] = env[j]
        <4> SUFFICES ASSUME j = c PROVE store[j] = env[j]
          OBVIOUS
        <4>1. IsItem(j, store[j], top) /\ IsItem(j, env[j], top) /\ Stream(j)
          BY <1>0, <2>1
        <4>2. store[j].side = {} /\ env[j].side = {}
          BY <4>1, StreamEntries
        <4> QED
          BY <3>3, <4>1, <4>2, SameItem
      <3> QED
        BY <2>1, <3>1, <3>2, <3>3, <3>4 DEF Progress, Current, Expected, Busy
    <2> QED
      BY <2>1, <2>2 DEF RestInv
  <1>9. CASE EndRestore \/ AbortRestore
    <2>1. /\ rest'.step \in {"done", "aborted"} /\ rest'.todo = rest.todo /\ rest'.item = c
          /\ rest.step \in {"check", "del", "write", "side"}
          /\ rest'.step = "done" => rest.step = "check"
          /\ UNCHANGED <<store, start, env, dump, dirtyR>>
      BY <1>0, <1>9 DEF EndRestore, AbortRestore, Restoring, Restores
    <2>2. ASSUME NEW j \in Items \ dirtyR PROVE Progress(j)'
      <3>1. Progress(j)
        BY <2>1 DEF RestInv
      <3>2. Restored(j)' = Restored(j)
        BY <1>0, <1>9 DEF Restored, EndRestore, AbortRestore, Accepts, Restores
      <3> QED
        BY <2>1, <3>1, <3>2 DEF Progress, Current, Expected, Busy
    <2> QED
      BY <2>1, <2>2 DEF RestInv
  <1> QED
    BY <1>1, <1>2, <1>3, <1>4, <1>5, <1>6, <1>7, <1>8, <1>9 DEF Apply

(* What another request touches is no longer spoken of.                    *)
LEMMA TrafficRestInv ==
  ASSUME Inv, RestInv, NEW i \in Items, Traffic(i)
  PROVE  RestInv'
  <1>1. UNCHANGED <<rest, start, env, dump>>
    BY DEF Traffic
  <1>2. CASE rest.step = "idle"
    BY <1>1, <1>2 DEF RestInv
  <1>3. CASE rest.step # "idle"
    <2>1. dirtyR' = dirtyR \cup {i}
      BY <1>3 DEF Traffic
    <2>2. \A j \in Items : j # i => store'[j] = store[j]
      BY DEF Traffic, Inv, TypeOK, IsStore
    <2>3. ASSUME NEW j \in Items \ dirtyR' PROVE Progress(j)'
      <3>1. Progress(j) /\ store'[j] = store[j]
        BY <1>3, <2>1, <2>2 DEF RestInv
      <3> QED
        BY <1>1, <3>1 DEF Progress, Current, Expected, Busy, Restored, Accepts
    <2> QED
      BY <1>1, <2>1, <2>3 DEF RestInv
  <1> QED
    BY <1>2, <1>3

(* Every step keeps the account of the restore.                            *)
LEMMA RestInvariance == Spec => []RestInv
  <1>1. Init => RestInv
    BY DEF Init, RestInv, NoRestore
  <1>2. Inv /\ RestInv /\ [Next]_vars => RestInv'
    <2> SUFFICES ASSUME Inv, RestInv, [Next]_vars PROVE RestInv'
      OBVIOUS
    <2>1. CASE UNCHANGED vars
      BY <2>1 DEF vars, dumpVars, restVars, RestInv, Progress, Current, Expected, Busy, Restored,
                  Accepts
    <2>2. CASE Migrate
      BY <2>2, IdleRestInv DEF Migrate, NoRestore
    <2> QED
      BY <2>1, <2>2, CollectRestInv, ApplyRestInv, TrafficRestInv DEF Next
  <1> QED
    BY <1>1, <1>2, Invariance, PTL DEF Spec

(* A restore that ends leaves every item nobody else touched as dumped, if *)
(* it was accepted, and otherwise as it was.                               *)
THEOREM RestoreIsExact == Spec => []RestoreExact
  <1>1. Inv /\ RestInv => RestoreExact
    BY DEF Inv, RestShape, RestInv, Progress, Current, Expected, RestoreExact
  <1> QED
    BY <1>1, Invariance, RestInvariance, PTL

(* Redis refuses an entry of a restored stream only if somebody else has   *)
(* added to that stream since the restore began.                           *)
THEOREM FailuresAreForeign == Spec => []FailsOnlyOnTraffic
  <1>1. RestInv => FailsOnlyOnTraffic
    BY DEF RestInv, FailsOnlyOnTraffic
  <1> QED
    BY <1>1, RestInvariance, PTL

---------------------------------------------------------------------------
(* What a collection has found so far                                      *)

Wanted(i) == before[i].main # {} /\ Admits(i, AsDumped(i), dump.app)
Final(i) == IF Wanted(i) THEN i \in dump.has /\ env[i] = AsDumped(i) ELSE i \notin dump.has

(* An item that KEYS found and that has not been read yet, or half.        *)
Found(i) ==
  /\ i \notin dump.has /\ before[i].main # {}
  /\ Kind[i] \in {"kv", "queue"} => Admits(i, Absent, dump.app)
  /\ Kind[i] = "kv" => (i \in dump.flags <=> before[i].side # {})
  /\ dump.step = "side" /\ dump.item = i => env[i].main = before[i].main

Now(i) == Kind[i] = Sections[dump.sec]
Past(i) == \E n \in 1..6 : n < dump.sec /\ Kind[i] = Sections[n]

Account(i) ==
  /\ dump.step = "done" \/ Past(i) => Final(i)
  /\ ~Past(i) /\ Dumping /\ (Now(i) => dump.step = "scan") => i \notin dump.has
  /\ Now(i) /\ dump.step \in {"fetch", "side"} => IF i \in dump.todo THEN Found(i) ELSE Final(i)

DumpInv ==
  /\ Dumping => \A i \in Items \ dirtyD : store[i] = before[i]
  /\ dump.step \in {"fetch", "side"} => \A i \in dump.todo : Now(i)
  /\ dump.step = "side" => dump.item \in dump.todo
  /\ dump.step # "idle" => \A i \in Items \ dirtyD : Kind[i] # "log" => Account(i)

(* The sections are six different ones.                                    *)
LEMMA SectionsDiffer == \A m, n \in 1..6 : Sections[m] = Sections[n] => m = n
  BY DEF Sections

LEMMA EveryKind == \A i \in Items : \E n \in 1..6 : Kind[i] = Sections[n]
  BY BackupAssumption

(* Read or left out, as the filter wants it, an item is accounted for.     *)
LEMMA KeepDumpInv ==
  ASSUME Inv, DumpInv, dump.step \in {"fetch", "side"}, NEW i \in dump.todo, NEW x,
         \/ Keep(i, x) /\ (i \notin dirtyD /\ Kind[i] # "log" => Wanted(i) /\ x = AsDumped(i))
         \/ Leave(i) /\ (i \notin dirtyD /\ Kind[i] # "log" => ~Wanted(i)),
         UNCHANGED <<store, before, dirtyD>>
  PROVE  DumpInv'
  <1>0. dump \in Dumps /\ i \in Items /\ env = [j \in Items |-> env[j]] /\ Now(i)
    BY DEF Inv, TypeOK, Dumps, IsStore, DumpInv
  <1>1. /\ dump'.step = "fetch" /\ dump'.todo = dump.todo \ {i} /\ dump'.sec = dump.sec
        /\ dump'.app = dump.app /\ dump'.flags = dump.flags
        /\ dump'.has = dump.has \cup {i} \/ dump'.has = dump.has
        /\ \A j \in Items : j # i => env'[j] = env[j]
    BY <1>0 DEF Keep, Leave, Dumps
  <1>2. i \notin dirtyD /\ Kind[i] # "log" => Final(i)'
    <2>1. SUFFICES ASSUME i \notin dirtyD, Kind[i] # "log" PROVE Final(i)'
      OBVIOUS
    <2>2. AsDumped(i)' = AsDumped(i) /\ Wanted(i)' = Wanted(i)
      BY <1>1 DEF AsDumped, Wanted, Admits, Belongs
    <2>3. CASE Keep(i, x) /\ Wanted(i) /\ x = AsDumped(i)
      <3>1. env'[i] = x /\ i \in dump'.has
        BY <1>0, <2>3 DEF Keep, Dumps
      <3> QED
        BY <2>2, <2>3, <3>1 DEF Final
    <2>4. CASE Leave(i) /\ ~Wanted(i)
      <3>1. i \notin dump.has
        BY <1>0, <2>1 DEF DumpInv, Account, Found
      <3>2. i \notin dump'.has
        BY <1>0, <2>4, <3>1 DEF Leave, Dumps
      <3> QED
        BY <2>2, <2>4, <3>2 DEF Final
    <2> QED
      BY <2>1, <2>3, <2>4
  <1>3. ASSUME NEW j \in Items \ dirtyD, Kind[j] # "log" PROVE Account(j)'
    <2>1. /\ Account(j) /\ Now(j)' = Now(j) /\ Past(j)' = Past(j)
          /\ Dumping /\ Dumping' /\ dump'.step # "done"
      BY <1>1, <1>3 DEF DumpInv, Now, Past, Dumping
    <2>2. ~Past(i)
      BY <1>0, SectionsDiffer DEF Now, Past, Dumps
    <2>3. CASE j = i
      BY <1>0, <1>1, <1>2, <1>3, <2>1, <2>2, <2>3 DEF Account
    <2>4. CASE j # i
      <3>1. Final(j)' = Final(j)
        BY <1>1, <2>4 DEF Final, AsDumped, Wanted, Admits, Belongs
      <3>2. Found(j) => Found(j)'
        BY <1>1, <2>4 DEF Found, Admits, Belongs
      <3>3. j \in dump'.todo <=> j \in dump.todo
        BY <1>1, <2>4
      <3>4. j \in dump'.has <=> j \in dump.has
        BY <1>1, <2>4
      <3> QED
        BY <1>1, <2>1, <3>1, <3>2, <3>3, <3>4 DEF Account
    <2> QED
      BY <2>3, <2>4
  <1>4. \A j \in dump'.todo : Now(j)'
    BY <1>1 DEF DumpInv, Now
  <1>5. \A j \in Items \ dirtyD' : store'[j] = before'[j]
    BY DEF DumpInv, Dumping
  <1> QED
    BY <1>1, <1>3, <1>4, <1>5 DEF DumpInv

(* Records and topics are filtered by name.                                *)
LEMMA NameFilter ==
  ASSUME NEW i \in Items, Kind[i] \in {"kv", "queue"}, NEW x, NEW y, NEW app
  PROVE  Admits(i, x, app) <=> Admits(i, y, app)
  BY DEF Admits, Belongs

(* What an untouched item reads as.                                        *)
LEMMA ReadsAs ==
  ASSUME Inv, NEW i \in Items, Kind[i] # "log"
  PROVE  /\ IsItem(i, before[i], top)
         /\ Kind[i] # "client" => AsDumped(i) = before[i]
         /\ Kind[i] = "client" => AsDumped(i) = Item(before[i].main, Acl(before[i].side))
         /\ Kind[i] = "index" => before[i] = Item(before[i].main, {})
         /\ Kind[i] = "kv" =>
              before[i] = Item(before[i].main, IF before[i].side # {} THEN {TRUE} ELSE {})
  <1>1. IsItem(i, before[i], top)
    BY DEF Inv, TypeOK, IsStore
  <1>2. before[i] \in [main : Mains[i], side : Sides[i]]
    BY <1>1 DEF IsItem
  <1>3. Kind[i] = "index" => before[i].side = {}
    BY <1>2 DEF Sides
  <1>4. Kind[i] = "kv" => before[i].side = IF before[i].side # {} THEN {TRUE} ELSE {}
    BY <1>2 DEF Sides, UpToOne
  <1>5. before[i] = Item(before[i].main, before[i].side)
    BY <1>2 DEF Item
  <1>6. Kind[i] = "client" => AsDumped(i) = Item(before[i].main, Acl(before[i].side))
    <2>1. Kind[i] = "client" => AsDumped(i) = [before[i] EXCEPT !.side = Acl(before[i].side)]
      BY DEF AsDumped
    <2> QED
      BY <1>2, <2>1 DEF Item
  <1> QED
    BY <1>1, <1>3, <1>4, <1>5, <1>6 DEF AsDumped

(* The read of one main key.                                               *)
LEMMA FetchMainDumpInv ==
  ASSUME Inv, DumpInv, NEW i \in Items, FetchMain(i)
  PROVE  DumpInv'
  <1>0. /\ dump.step = "fetch" /\ i \in dump.todo /\ Dumping
        /\ UNCHANGED <<store, before, dirtyD>> /\ dump \in Dumps
    BY DEF FetchMain, Dumping, Inv, TypeOK
  <1>1. i \notin dirtyD /\ Kind[i] # "log" =>
          /\ Found(i) /\ store[i] = before[i] /\ IsItem(i, before[i], top)
          /\ Text(i) = before[i].main
    <2>1. i \notin dirtyD /\ Kind[i] # "log" => Found(i) /\ store[i] = before[i]
      BY <1>0 DEF DumpInv, Account
    <2> QED
      BY <2>1, ReadsAs DEF Found, Text
  <1>2. CASE Kind[i] = "client"
    <2>1. /\ dump' = [dump EXCEPT !.step = "side", !.item = i]
          /\ env' = [env EXCEPT ![i] = Item(Text(i), {})]
      BY <1>2 DEF FetchMain
    <2>2. /\ dump'.step = "side" /\ dump'.item = i /\ dump'.todo = dump.todo /\ dump'.has = dump.has
          /\ dump'.sec = dump.sec /\ dump'.app = dump.app /\ dump'.flags = dump.flags
      BY <1>0, <2>1 DEF Dumps
    <2>3. env'[i].main = Text(i) /\ \A j \in Items : j # i => env'[j] = env[j]
      BY <2>1 DEF Inv, TypeOK, IsStore, Item
    <2>4. ASSUME NEW j \in Items \ dirtyD, Kind[j] # "log" PROVE Account(j)'
      <3>1. /\ Account(j) /\ Now(j)' = Now(j) /\ Past(j)' = Past(j)
            /\ Dumping /\ Dumping' /\ dump'.step # "done"
        BY <1>0, <2>2, <2>4 DEF DumpInv, Now, Past, Dumping
      <3>2. CASE j = i
        <4>1. Now(i) /\ ~Past(i)
          BY <1>0, SectionsDiffer DEF DumpInv, Now, Past, Dumps
        <4>2. Found(i)'
          BY <1>0, <1>1, <1>2, <2>2, <2>3, <2>4, <3>2 DEF Found
        <4> QED
          BY <1>0, <2>2, <3>1, <3>2, <4>1, <4>2 DEF Account
      <3>3. CASE j # i
        <4>1. Final(j)' = Final(j)
          BY <1>0, <2>2, <2>3, <3>3 DEF Final, AsDumped, Wanted, Admits, Belongs
        <4>2. Found(j) => Found(j)'
          BY <1>0, <2>2, <2>3, <3>3 DEF Found, Admits, Belongs
        <4> QED
          BY <1>0, <2>2, <3>1, <4>1, <4>2 DEF Account
      <3> QED
        BY <3>2, <3>3
    <2>5. \A j \in dump'.todo : Now(j)'
      BY <1>0, <2>2 DEF DumpInv, Now
    <2>6. \A j \in Items \ dirtyD' : store'[j] = before'[j]
      BY <1>0 DEF DumpInv
    <2> QED
      BY <1>0, <2>2, <2>4, <2>5, <2>6 DEF DumpInv
  <1>3. CASE Kind[i] = "admin"
    <2>1. i \notin dirtyD => store[i] = AsDumped(i)
      BY <1>1, <1>3, ReadsAs
    <2>2. IF store[i].main # {} /\ Admits(i, store[i], dump.app)
            THEN Keep(i, store[i]) ELSE Leave(i)
      BY <1>3 DEF FetchMain
    <2>3. i \notin dirtyD =>
            (Wanted(i) <=> store[i].main # {} /\ Admits(i, store[i], dump.app))
      BY <1>1, <1>3, <2>1 DEF Wanted
    <2> QED
      BY <1>0, <2>1, <2>2, <2>3, KeepDumpInv
  <1>4. CASE Kind[i] = "kv"
    <2> DEFINE x == Item(store[i].main, IF i \in dump.flags THEN {TRUE} ELSE {})
    <2>1. i \notin dirtyD => AsDumped(i) = before[i] /\ x = before[i]
      BY <1>1, <1>4, ReadsAs DEF Found
    <2>2. IF store[i].main # {} THEN Keep(i, x) ELSE Leave(i)
      BY <1>4 DEF FetchMain
    <2>3. i \notin dirtyD => Wanted(i) /\ store[i].main # {}
      BY <1>1, <1>4, NameFilter DEF Wanted, Found
    <2> QED
      BY <1>0, <2>1, <2>2, <2>3, KeepDumpInv
  <1>5. CASE Kind[i] = "index"
    <2> DEFINE x == Item(Text(i), {})
    <2>1. i \notin dirtyD => AsDumped(i) = x
      BY <1>1, <1>5, ReadsAs
    <2>2. IF Admits(i, x, dump.app) THEN Keep(i, x) ELSE Leave(i)
      BY <1>5 DEF FetchMain
    <2>3. i \notin dirtyD => (Wanted(i) <=> Admits(i, x, dump.app))
      BY <1>1, <1>5, <2>1 DEF Wanted, Found
    <2> QED
      BY <1>0, <2>1, <2>2, <2>3, KeepDumpInv
  <1>6. CASE Kind[i] = "queue"
    <2>1. Keep(i, store[i])
      BY <1>6 DEF FetchMain
    <2>2. i \notin dirtyD => store[i] = AsDumped(i)
      BY <1>1, <1>6, ReadsAs
    <2>3. i \notin dirtyD => Wanted(i)
      BY <1>1, <1>6, NameFilter DEF Wanted, Found
    <2> QED
      BY <1>0, <2>1, <2>2, <2>3, KeepDumpInv
  <1>7. CASE Kind[i] = "log"
    <2>1. \E x : Keep(i, x)
      BY <1>7 DEF FetchMain
    <2> QED
      BY <1>0, <1>7, <2>1, KeepDumpInv
  <1> QED
    BY <1>2, <1>3, <1>4, <1>5, <1>6, <1>7, KindType DEF SectionNames

(* The read of a client's ACL.                                             *)
LEMMA FetchAclDumpInv ==
  ASSUME Inv, DumpInv, FetchAcl
  PROVE  DumpInv'
  <1> DEFINE i == dump.item
             x == Item(env[i].main, Acl(store[i].side))
  <1>1. /\ dump.step = "side" /\ i \in dump.todo /\ i \in Items /\ Kind[i] = "client"
        /\ UNCHANGED <<store, before, dirtyD>>
        /\ IF Admits(i, x, dump.app) THEN Keep(i, x) ELSE Leave(i)
    BY DEF FetchAcl, DumpInv, Inv, RestShape, TypeOK, Dumps
  <1>2. i \notin dirtyD => Found(i) /\ store[i] = before[i]
    BY <1>1 DEF DumpInv, Account, Dumping
  <1>3. i \notin dirtyD => x = AsDumped(i)
    BY <1>1, <1>2, ReadsAs DEF Found
  <1>4. i \notin dirtyD => (Wanted(i) <=> Admits(i, x, dump.app))
    BY <1>1, <1>2, <1>3 DEF Wanted, Found
  <1> HIDE DEF x
  <1> QED
    BY <1>1, <1>3, <1>4, KeepDumpInv

(* The other steps of a collection.                                        *)
LEMMA CollectDumpInv ==
  ASSUME Inv, DumpInv, Collect
  PROVE  DumpInv'
  <1>0. dump \in Dumps
    BY DEF Inv, TypeOK
  <1>1. ASSUME NEW app \in Apps \cup {Whole}, NEW logs \in BOOLEAN, BeginDump(app, logs)
        PROVE  DumpInv'
    <2>1. /\ dump'.step = "scan" /\ dump'.sec = 1 /\ dump'.has = {}
          /\ dirtyD' = {} /\ before' = store /\ store' = store
      BY <1>1, IdleTypes DEF BeginDump, NoDump
    <2>2. \A i \in Items : ~Past(i)'
      BY <2>1 DEF Past
    <2> QED
      BY <2>1, <2>2 DEF DumpInv, Account
  <1>2. CASE Scan
    <2> DEFINE inSection == {i \in Items : Kind[i] = Sections[dump.sec]}
               found == {i \in inSection : IF Kind[i] = "log" THEN dump.logs ELSE store[i].main # {}}
    <2>1. /\ dump.step = "scan" /\ UNCHANGED <<store, env, before, dirtyD>>
          /\ dump'.step = "fetch" /\ dump'.sec = dump.sec /\ dump'.has = dump.has
          /\ dump'.app = dump.app
          /\ dump'.flags = {i \in inSection : store[i].side # {}}
          /\ dump'.todo = {i \in found : Kind[i] \in {"kv", "queue"} => Admits(i, Absent, dump.app)}
      BY <1>0, <1>2 DEF Scan, Dumps
    <2>2. \A i \in Items \ dirtyD : store[i] = before[i]
      BY <2>1 DEF DumpInv, Dumping
    <2>3. ASSUME NEW i \in Items \ dirtyD, Kind[i] # "log" PROVE Account(i)'
      <3>1. /\ Account(i) /\ Now(i)' = Now(i) /\ Past(i)' = Past(i) /\ Final(i)' = Final(i)
            /\ Dumping
        BY <2>1, <2>3 DEF DumpInv, Now, Past, Final, AsDumped, Wanted, Admits, Belongs, Dumping
      <3>2. CASE ~Now(i)
        BY <2>1, <3>1, <3>2 DEF Account
      <3>3. CASE Now(i)
        <4>1. ~Past(i) /\ i \notin dump.has
          <5>1. ~Past(i)
            BY <1>0, <3>3, SectionsDiffer DEF Now, Past, Dumps
          <5> QED
            BY <2>1, <3>1, <5>1 DEF Account
        <4>2. i \in inSection
          BY <3>3 DEF Now
        <4>3. i \in dump'.todo <=> /\ before[i].main # {}
                                   /\ Kind[i] \in {"kv", "queue"} => Admits(i, Absent, dump.app)
          BY <2>1, <2>2, <2>3, <4>2
        <4>4. i \in dump'.flags <=> before[i].side # {}
          BY <2>1, <2>2, <4>2
        <4>5. CASE i \in dump'.todo
          <5>1. Found(i)'
            BY <2>1, <4>1, <4>3, <4>4, <4>5 DEF Found, Admits, Belongs
          <5> QED
            BY <2>1, <3>1, <3>3, <4>1, <4>5, <5>1 DEF Account
        <4>6. CASE i \notin dump'.todo
          <5>1. ~Wanted(i)
            BY <4>3, <4>6, NameFilter DEF Wanted
          <5>2. Final(i)'
            BY <3>1, <4>1, <5>1 DEF Final
          <5> QED
            BY <2>1, <3>1, <3>3, <4>1, <4>6, <5>2 DEF Account
        <4> QED
          BY <4>5, <4>6
      <3> QED
        BY <3>2, <3>3
    <2>4. \A i \in dump'.todo : Now(i)'
      BY <2>1 DEF Now
    <2> QED
      BY <2>1, <2>2, <2>3, <2>4 DEF DumpInv
  <1>3. CASE FetchAcl
    BY <1>3, FetchAclDumpInv
  <1>4. CASE NextSection
    <2>0. /\ dump.step = "fetch" /\ dump.todo = {} /\ dump.sec \in 1..6
          /\ UNCHANGED <<store, env, before, dirtyD>>
      BY <1>0, <1>4 DEF NextSection, Dumps
    <2>1. /\ dump'.has = dump.has /\ dump'.app = dump.app /\ dump'.todo = {}
          /\ IF dump.sec = 6 THEN dump'.step = "done" ELSE dump'.step = "scan" /\ dump'.sec = dump.sec + 1
      BY <1>0, <1>4, <2>0 DEF NextSection, Dumps
    <2>2. \A i \in Items \ dirtyD : store[i] = before[i]
      BY <2>0 DEF DumpInv, Dumping
    <2>3. ASSUME NEW i \in Items \ dirtyD, Kind[i] # "log" PROVE Account(i)'
      <3>1. Account(i) /\ Final(i)' = Final(i) /\ Dumping
        BY <2>0, <2>1, <2>3 DEF DumpInv, Final, AsDumped, Wanted, Admits, Belongs, Dumping
      <3>2. Past(i) \/ Now(i) => Final(i)
        BY <2>0, <3>1 DEF Account
      <3>3. CASE dump.sec = 6
        <4>1. Past(i) \/ Now(i)
          <5>1. PICK n \in 1..6 : Kind[i] = Sections[n]
            BY EveryKind
          <5>2. n < dump.sec \/ n = dump.sec
            BY <3>3
          <5> QED
            BY <5>1, <5>2 DEF Past, Now
        <4> QED
          BY <2>1, <3>1, <3>2, <3>3, <4>1 DEF Account, Dumping
      <3>4. CASE dump.sec # 6
        <4>1. Past(i)' <=> Past(i) \/ Now(i)
          <5>1. \A n \in 1..6 : n < dump'.sec <=> n < dump.sec \/ n = dump.sec
            BY <2>0, <2>1, <3>4
          <5> QED
            BY <2>0, <5>1 DEF Past, Now
        <4>2. ~Past(i) /\ ~Now(i) => i \notin dump.has
          BY <2>0, <3>1 DEF Account
        <4> QED
          BY <2>1, <3>1, <3>2, <3>4, <4>1, <4>2 DEF Account
      <3> QED
        BY <3>3, <3>4
    <2> QED
      BY <2>0, <2>1, <2>2, <2>3 DEF DumpInv
  <1>5. CASE AbortDump
    BY <1>5 DEF AbortDump, NoDump, DumpInv, Dumping
  <1>6. ASSUME NEW i \in Items, FetchMain(i) PROVE DumpInv'
    BY <1>6, FetchMainDumpInv
  <1> QED
    BY <1>1, <1>2, <1>3, <1>4, <1>5, <1>6 DEF Collect

(* A finished envelope stays as it is.                                     *)
LEMMA KeptDumpInv ==
  ASSUME DumpInv, UNCHANGED <<dump, env, before, dirtyD>>, ~Dumping
  PROVE  DumpInv'
  BY DEF DumpInv, Dumping, Account, Final, Wanted, AsDumped, Admits, Belongs, Past, Now, Found

LEMMA ApplyDumpInv ==
  ASSUME Inv, DumpInv, Apply
  PROVE  DumpInv'
  <1>1. UNCHANGED <<dump, env, before, dirtyD>>
    BY DEF Apply, BeginRestore, Pass, Take, WriteMain, WriteSide, DropStream, EndStream, AddEntry,
           EndRestore, AbortRestore, dumpVars
  <1>2. dump.step = "done"
    <2>1. CASE \E app \in Apps \cup {Whole}, force \in BOOLEAN : BeginRestore(app, force)
      BY <2>1 DEF BeginRestore
    <2>2. CASE rest.step # "idle"
      BY <2>2 DEF Inv, RestShape
    <2> QED
      BY <2>1, <2>2 DEF Apply, Pass, Take, Due, WriteMain, WriteSide, DropStream, EndStream,
                        AddEntry, EndRestore, AbortRestore, Restoring
  <1> QED
    BY <1>1, <1>2, KeptDumpInv DEF Dumping

LEMMA TrafficDumpInv ==
  ASSUME Inv, DumpInv, NEW i \in Items, Traffic(i)
  PROVE  DumpInv'
  <1>1. UNCHANGED <<dump, env, before>>
    BY DEF Traffic
  <1>2. CASE dump.step = "idle"
    BY <1>1, <1>2 DEF DumpInv, Dumping
  <1>3. CASE dump.step # "idle"
    <2>1. dirtyD' = dirtyD \cup {i}
      BY <1>3 DEF Traffic
    <2>2. \A j \in Items : j # i => store'[j] = store[j]
      BY DEF Traffic, Inv, TypeOK, IsStore
    <2>3. \A j \in Items : Account(j)' = Account(j)
      BY <1>1 DEF Account, Final, Wanted, AsDumped, Admits, Belongs, Past, Now, Found, Dumping
    <2> QED
      BY <1>1, <1>3, <2>1, <2>2, <2>3 DEF DumpInv, Dumping, Now
  <1> QED
    BY <1>2, <1>3

(* The envelope shows what nobody touched during the collection as it was, *)
(* and of it only what the filter admits, however long the collection      *)
(* takes and whatever else is written.                                     *)
THEOREM DumpIsExact == Spec => []DumpExact
  <1>1. Init => DumpInv
    BY DEF Init, NoDump, DumpInv, Dumping
  <1>2. Inv /\ DumpInv /\ [Next]_vars => DumpInv'
    <2> SUFFICES ASSUME Inv, DumpInv, [Next]_vars PROVE DumpInv'
      OBVIOUS
    <2>1. CASE UNCHANGED vars
      BY <2>1 DEF vars, dumpVars, DumpInv, Dumping, Account, Final, Wanted, AsDumped, Admits,
                  Belongs, Past, Now, Found
    <2>2. CASE Migrate
      BY <2>2, KeptDumpInv DEF Migrate, dumpVars, Dumping
    <2> QED
      BY <2>1, <2>2, CollectDumpInv, ApplyDumpInv, TrafficDumpInv DEF Next
  <1>3. DumpInv => DumpExact
    BY DEF DumpInv, DumpExact, Account, Final, Wanted
  <1> QED
    BY <1>1, <1>2, <1>3, Invariance, PTL DEF Spec
=============================================================================
