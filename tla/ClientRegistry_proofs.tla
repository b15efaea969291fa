----------------------- MODULE ClientRegistry_proofs -----------------------
(***************************************************************************)
(* Proofs about ClientRegistry, for any number of clients, apps, operators *)
(* and devices.  NoInheritedAcl follows from CoverInv: whatever secret may *)
(* meet the ACL of an id next (one that was shown, is about to be, or      *)
(* signed a request under way) is one the ACL is meant for.  It needs      *)
(* BoundInv (no secret is newer than an ACL written now, a restore writes  *)
(* what a backup showed) and LoneInv (a restore nobody overlaps is alone   *)
(* with its id), and no bound on how the other requests overlap.           *)
(* HandedSecretsWork and RevokedResolvesByRecord are about ids no two      *)
(* superuser requests were ever about at once: Alone says there is one     *)
(* request at most about such an id, and SecretInv and IndexInv what that  *)
(* request has seen still holds.                                           *)
(***************************************************************************)
EXTENDS ClientRegistry, TLAPS

(* What the idle records are.                                              *)
LEMMA Idle == /\ IdleOp \in Op /\ IdleOp.step = "idle"
              /\ IdleReq \in Req /\ IdleReq.step = "idle"
              /\ NoAcl \in AclRecord /\ NoAcl.app = Deny /\ NoAcl.at = 0
  <1>1. (CHOOSE i \in Ids : TRUE) \in Ids
    BY RegistryAssumption
  <1>2. NoAcl \in AclRecord /\ NoAcl.app = Deny /\ NoAcl.at = 0
    BY DEF NoAcl, AclRecord
  <1> QED
    BY <1>1, <1>2 DEF IdleOp, IdleReq, Op, Req, OpSteps

(* Shapes of the step of one request: what it leaves of the others, and    *)
(* of the histories of what overlapped.                                    *)
OnlyOp(o) ==
  /\ op \in [Operators -> Op] /\ op' \in [Operators -> Op]
  /\ \A p \in Operators : p # o => op'[p] = op[p]
  /\ raced \subseteq raced' /\ raced' \subseteq Ids
  /\ torn \subseteq torn' /\ torn' \subseteq Ids

BeginsAs(o, new) ==
  /\ OnlyOp(o) /\ op[o].step = "idle" /\ op'[o] = new
  /\ new.id \notin raced' => ~Busy(new.id)
  /\ new.id \notin torn' => ~Restoring(new.id)
  /\ new.id \notin torn' /\ new.step = "restore_secret" => ~Busy(new.id) /\ ~Asking(new.id)

Begins(o, step, i, app, s) ==
  /\ OnlyOp(o) /\ op[o].step = "idle"
  /\ op'[o].step = step /\ op'[o].id = i /\ op'[o].app = app /\ op'[o].secret = s
  /\ i \notin raced' => \A p \in Operators : op[p].step # "idle" => op[p].id # i
  /\ i \notin torn' => ~Restoring(i)

Goes(o, from, to, app, s) ==
  /\ OnlyOp(o) /\ raced' = raced /\ torn' = torn /\ op[o].step = from
  /\ op'[o].step = to /\ op'[o].id = op[o].id /\ op'[o].app = app /\ op'[o].secret = s
  /\ op'[o].at = op[o].at

Ends(o, from) ==
  /\ OnlyOp(o) /\ raced' = raced /\ op[o].step = from /\ op'[o].step = "idle"

(* The steps of a request: it begins, goes on, ends.                       *)
LEMMA StartOp ==
  ASSUME TypeOK, NEW o \in Operators, NEW new \in Op, StartAs(o, new)
  PROVE  BeginsAs(o, new)
  <1>1. op' = [op EXCEPT ![o] = new] /\ op[o].step = "idle" /\ op \in [Operators -> Op]
    BY DEF StartAs, TypeOK
  <1>2. new.id \in Ids /\ raced \subseteq Ids /\ torn \subseteq Ids
    BY DEF Op, TypeOK
  <1>3. /\ raced \subseteq raced' /\ raced' \subseteq Ids
        /\ torn \subseteq torn' /\ torn' \subseteq Ids
    BY <1>2 DEF StartAs
  <1>4. /\ new.id \notin raced' => ~Busy(new.id)
        /\ new.id \notin torn' => ~Restoring(new.id)
        /\ new.id \notin torn' /\ new.step = "restore_secret" => ~Busy(new.id) /\ ~Asking(new.id)
    BY DEF StartAs
  <1> QED
    BY <1>1, <1>3, <1>4 DEF BeginsAs, OnlyOp

LEMMA StartIt ==
  ASSUME TypeOK, NEW o \in Operators, NEW step \in OpSteps, NEW i \in Ids,
         NEW app \in Apps \cup {Deny}, NEW s \in Nat, Start(o, step, i, app, s)
  PROVE  Begins(o, step, i, app, s)
  <1> DEFINE new == [step |-> step, id |-> i, app |-> app, secret |-> s, at |-> 0]
  <1>1. new \in Op /\ new.step = step /\ new.id = i /\ new.app = app /\ new.secret = s
    BY DEF Op
  <1>2. StartAs(o, new)
    BY DEF Start
  <1> HIDE DEF new
  <1>3. BeginsAs(o, new)
    BY <1>1, <1>2, StartOp
  <1> QED
    BY <1>1, <1>3 DEF BeginsAs, Begins, Busy

LEMMA MoveOp ==
  ASSUME TypeOK, NEW o \in Operators, NEW from, NEW new \in Op, Move(o, from, new)
  PROVE  /\ OnlyOp(o) /\ op[o] \in Op /\ op[o].step = from
         /\ op'[o] = new /\ raced' = raced /\ torn' = torn
  BY DEF Move, TypeOK, OnlyOp, overVars

LEMMA Stepped ==
  ASSUME NEW r \in Op, NEW to \in OpSteps
  PROVE  /\ [r EXCEPT !.step = to] \in Op
         /\ [r EXCEPT !.step = to].step = to /\ [r EXCEPT !.step = to].id = r.id
         /\ [r EXCEPT !.step = to].app = r.app /\ [r EXCEPT !.step = to].secret = r.secret
         /\ [r EXCEPT !.step = to].at = r.at
  BY DEF Op

LEMMA Written ==
  ASSUME TypeOK, NEW a \in Apps \cup {Deny}
  PROVE  /\ WrittenAcl(a) \in AclRecord /\ WrittenAcl(a).app = a
         /\ a # Deny => WrittenAcl(a).at = minted
  BY DEF WrittenAcl, AclRecord, TypeOK

LEMMA IdleMove ==
  ASSUME TypeOK, NEW o \in Operators, NEW from, Finish(o, from)
  PROVE  Ends(o, from) /\ torn' = torn
  BY Idle, MoveOp DEF Finish, Ends

LEMMA ContinueOp ==
  ASSUME TypeOK, NEW o \in Operators, NEW from, NEW to \in OpSteps, Continue(o, from, to)
  PROVE  Goes(o, from, to, op[o].app, op[o].secret)
  <1> DEFINE new == [op[o] EXCEPT !.step = to]
  <1>1. op[o] \in Op
    BY DEF TypeOK
  <1>2. /\ new \in Op /\ new.step = to /\ new.id = op[o].id
        /\ new.app = op[o].app /\ new.secret = op[o].secret /\ new.at = op[o].at
    BY <1>1, Stepped
  <1>3. Move(o, from, new)
    BY DEF Continue
  <1> HIDE DEF new
  <1> QED
    BY <1>2, <1>3, MoveOp DEF Goes

LEMMA AbortedOp ==
  ASSUME TypeOK, NEW o \in Operators, AbortOp(o)
  PROVE  /\ Ends(o, op[o].step)
         /\ op[o].step = "restore_acl" => op[o].id \in torn'
  <1>1. op[o] \in Op /\ op[o].id \in Ids
    BY DEF TypeOK, Op
  <1>2. torn \subseteq torn' /\ torn' \subseteq Ids
    BY <1>1 DEF AbortOp, TypeOK
  <1> QED
    BY <1>1, <1>2, Idle DEF AbortOp, Ends, OnlyOp, TypeOK

(* A request's values have their types.                                    *)
LEMMA OpFields ==
  ASSUME TypeOK, NEW o \in Operators
  PROVE  /\ op[o].id \in Ids /\ op[o].app \in Apps \cup {Deny} /\ op[o].secret \in Nat
         /\ op[o].at \in Nat
  BY DEF TypeOK, Op

(* The request that restores a backup.                                     *)
Taken(f) ==
  [step |-> "restore_secret", id |-> f.id, app |-> f.app, secret |-> f.secret, at |-> f.at]
LEMMA TakenOp ==
  ASSUME NEW f \in File
  PROVE  /\ Taken(f) \in Op /\ Taken(f).step = "restore_secret" /\ Taken(f).id = f.id
         /\ Taken(f).app = f.app /\ Taken(f).secret = f.secret /\ Taken(f).at = f.at
         /\ f.id \in Ids /\ f.secret \in Nat
  BY DEF File, Op, OpSteps, Taken

(* Every step of a request, as the invariants below see it.                *)
LEMMA Steps ==
  ASSUME TypeOK, NEW o \in Operators
  PROVE  /\ \A i \in Ids : CreateSecret(o, i) => Begins(o, "create_acl", i, Deny, minted + 1)
         /\ CreateAcl(o) => Ends(o, "create_acl")
         /\ \A i \in Ids, a \in Apps : ProvisionCheck(o, i, a) =>
              Begins(o, IF secret[i] = 0 THEN "prov_secret" ELSE "prov_acl", i, a, 0)
         /\ ProvisionSecret(o) => Goes(o, "prov_secret", "prov_acl", op[o].app, minted + 1)
         /\ ProvisionAcl(o) => Goes(o, "prov_acl", "prov_index", op[o].app, op[o].secret)
         /\ ProvisionIndex(o) => Ends(o, "prov_index")
         /\ \A i \in Ids, a \in Apps \cup {Deny} : UpdateCheck(o, i, a) =>
              Begins(o, "update_acl", i, a, 0)
         /\ UpdateAcl(o) => Ends(o, "update_acl")
         /\ \A i \in Ids : RevokeSecret(o, i) => Begins(o, "revoke_acl", i, Deny, 0)
         /\ RevokeAcl(o) => Goes(o, "revoke_acl", "revoke_index", op[o].app, op[o].secret)
         /\ RevokeIndex(o) => Ends(o, "revoke_index")
         /\ \A i \in Ids : LookupMiss(o, i) => Begins(o, "scan", i, Deny, 0)
         /\ Scan(o) => \/ Ends(o, "scan")
                       \/ \E a \in Apps : /\ <<a, op[o].id>> \in data
                                          /\ Goes(o, "scan", "backfill", a, op[o].secret)
         /\ Backfill(o) => Ends(o, "backfill")
         /\ \A i \in Ids : BackupKeys(o, i) => Begins(o, "backup_secret", i, Deny, 0)
         /\ BackupSecret(o) => Goes(o, "backup_secret", "backup_acl", op[o].app, secret[op[o].id])
         /\ BackupAcl(o) => Ends(o, "backup_acl")
         /\ \A f \in files, force \in BOOLEAN : RestoreCheck(o, f, force) =>
              Begins(o, "restore_secret", f.id, f.app, f.secret) /\ BeginsAs(o, Taken(f))
         /\ RestoreSecret(o) => Goes(o, "restore_secret", "restore_acl", op[o].app, op[o].secret)
         /\ RestoreAcl(o) => Ends(o, "restore_acl")
         /\ AbortOp(o) => Ends(o, op[o].step)
         /\ CreateAcl(o) \/ ProvisionIndex(o) \/ UpdateAcl(o) \/ RevokeIndex(o) \/ Scan(o)
              \/ Backfill(o) \/ BackupAcl(o) \/ RestoreAcl(o) => torn' = torn
  <1>t. /\ op[o] \in Op /\ op[o].id \in Ids /\ op[o].app \in Apps \cup {Deny}
        /\ op[o].secret \in Nat /\ minted + 1 \in Nat /\ raced \subseteq Ids
        /\ secret[op[o].id] \in Nat
    BY OpFields DEF TypeOK
  <1>b. ASSUME NEW step \in OpSteps, NEW i \in Ids, NEW app \in Apps \cup {Deny}, NEW s \in Nat,
               Start(o, step, i, app, s)
        PROVE  Begins(o, step, i, app, s)
    BY <1>b, StartIt
  <1>c. ASSUME NEW from, NEW to \in OpSteps, Continue(o, from, to)
        PROVE  Goes(o, from, to, op[o].app, op[o].secret)
    BY <1>c, ContinueOp
  <1>e. ASSUME NEW from, Finish(o, from) PROVE Ends(o, from) /\ torn' = torn
    BY <1>e, IdleMove
  <1>s. \A s \in {"create_acl", "prov_secret", "prov_acl", "prov_index", "update_acl",
                  "revoke_acl", "revoke_index", "scan", "backfill", "backup_secret",
                  "backup_acl", "restore_secret", "restore_acl"} : s \in OpSteps
    BY DEF OpSteps
  <1>1. ASSUME NEW i \in Ids, CreateSecret(o, i)
        PROVE  Begins(o, "create_acl", i, Deny, minted + 1)
    <2>1. minted' = minted + 1 /\ Start(o, "create_acl", i, Deny, minted')
      BY <1>1 DEF CreateSecret
    <2>2. Start(o, "create_acl", i, Deny, minted + 1)
      BY <2>1
    <2> QED
      BY <2>2, <1>b, <1>s, <1>t
  <1>2. ASSUME NEW i \in Ids, NEW a \in Apps, ProvisionCheck(o, i, a)
        PROVE  Begins(o, IF secret[i] = 0 THEN "prov_secret" ELSE "prov_acl", i, a, 0)
    <2> DEFINE step == IF secret[i] = 0 THEN "prov_secret" ELSE "prov_acl"
    <2>1. step \in OpSteps /\ Start(o, step, i, a, 0)
      BY <1>2, <1>s DEF ProvisionCheck
    <2> HIDE DEF step
    <2>2. Begins(o, step, i, a, 0)
      BY <2>1, <1>b
    <2> QED
      BY <2>2 DEF step
  <1>3. ASSUME ProvisionSecret(o)
        PROVE  Goes(o, "prov_secret", "prov_acl", op[o].app, minted + 1)
    <2> DEFINE new == [op[o] EXCEPT !.step = "prov_acl", !.secret = minted + 1]
    <2>1. Move(o, "prov_secret", new)
      <3>1. minted' = minted + 1
            /\ Move(o, "prov_secret", [op[o] EXCEPT !.step = "prov_acl", !.secret = minted'])
        BY <1>3 DEF ProvisionSecret
      <3> QED
        BY <3>1
    <2>2. /\ new \in Op /\ new.step = "prov_acl" /\ new.id = op[o].id
          /\ new.app = op[o].app /\ new.secret = minted + 1 /\ new.at = op[o].at
      BY <1>t, <1>s DEF Op
    <2> HIDE DEF new
    <2> QED
      BY <2>1, <2>2, <1>t, MoveOp DEF Goes
  <1>4. ASSUME Scan(o)
        PROVE  \/ Ends(o, "scan")
               \/ \E a \in Apps : /\ <<a, op[o].id>> \in data
                                  /\ Goes(o, "scan", "backfill", a, op[o].secret)
    <2>1. CASE Finish(o, "scan")
      BY <2>1, <1>e
    <2>2. ASSUME NEW a \in Apps, <<a, op[o].id>> \in data,
                 Move(o, "scan", [op[o] EXCEPT !.step = "backfill", !.app = a])
          PROVE  Goes(o, "scan", "backfill", a, op[o].secret)
      <3> DEFINE new == [op[o] EXCEPT !.step = "backfill", !.app = a]
      <3>1. /\ new \in Op /\ new.step = "backfill" /\ new.id = op[o].id
            /\ new.app = a /\ new.secret = op[o].secret /\ new.at = op[o].at
        BY <1>t, <1>s DEF Op
      <3>2. Move(o, "scan", new)
        BY <2>2
      <3> HIDE DEF new
      <3> QED
        BY <3>1, <3>2, <1>t, MoveOp DEF Goes
    <2> QED
      BY <1>4, <2>1, <2>2 DEF Scan
  <1>5. ASSUME BackupSecret(o)
        PROVE  Goes(o, "backup_secret", "backup_acl", op[o].app, secret[op[o].id])
    <2> DEFINE s == secret[op[o].id]
               new == [op[o] EXCEPT !.step = "backup_acl", !.secret = s]
    <2>1. /\ new \in Op /\ new.step = "backup_acl" /\ new.id = op[o].id
          /\ new.app = op[o].app /\ new.secret = s /\ new.at = op[o].at
      BY <1>t, <1>s DEF Op
    <2>2. Move(o, "backup_secret", new)
      BY <1>5 DEF BackupSecret
    <2> HIDE DEF new
    <2> QED
      BY <2>1, <2>2, <1>t, MoveOp DEF Goes
  <1>6. /\ CreateAcl(o) => Ends(o, "create_acl")
        /\ ProvisionIndex(o) => Ends(o, "prov_index")
        /\ UpdateAcl(o) => Ends(o, "update_acl")
        /\ RevokeIndex(o) => Ends(o, "revoke_index")
        /\ Backfill(o) => Ends(o, "backfill")
        /\ BackupAcl(o) => Ends(o, "backup_acl")
        /\ RestoreAcl(o) => Ends(o, "restore_acl")
        /\ AbortOp(o) => Ends(o, op[o].step)
    BY <1>e, AbortedOp DEF CreateAcl, ProvisionIndex, UpdateAcl, RevokeIndex, Backfill, BackupAcl,
                           RestoreAcl
  <1>7. /\ ProvisionAcl(o) => Goes(o, "prov_acl", "prov_index", op[o].app, op[o].secret)
        /\ RevokeAcl(o) => Goes(o, "revoke_acl", "revoke_index", op[o].app, op[o].secret)
        /\ RestoreSecret(o) => Goes(o, "restore_secret", "restore_acl", op[o].app, op[o].secret)
    BY <1>c, <1>s DEF ProvisionAcl, RevokeAcl, RestoreSecret
  <1>8. /\ \A i \in Ids, a \in Apps \cup {Deny} : UpdateCheck(o, i, a) =>
             Begins(o, "update_acl", i, a, 0)
        /\ \A i \in Ids : RevokeSecret(o, i) => Begins(o, "revoke_acl", i, Deny, 0)
        /\ \A i \in Ids : LookupMiss(o, i) => Begins(o, "scan", i, Deny, 0)
        /\ \A i \in Ids : BackupKeys(o, i) => Begins(o, "backup_secret", i, Deny, 0)
    BY <1>b, <1>s DEF UpdateCheck, RevokeSecret, LookupMiss, BackupKeys
  <1>9. ASSUME NEW f \in files, NEW force \in BOOLEAN, RestoreCheck(o, f, force)
        PROVE  Begins(o, "restore_secret", f.id, f.app, f.secret) /\ BeginsAs(o, Taken(f))
    <2>1. f \in File
      BY DEF TypeOK
    <2>2. StartAs(o, Taken(f))
      BY <1>9 DEF RestoreCheck, Taken
    <2>3. BeginsAs(o, Taken(f))
      BY <2>1, <2>2, TakenOp, StartOp
    <2> QED
      BY <2>1, <2>3, TakenOp DEF BeginsAs, Begins, Busy
  <1>10. CreateAcl(o) \/ ProvisionIndex(o) \/ UpdateAcl(o) \/ RevokeIndex(o) \/ Scan(o)
           \/ Backfill(o) \/ BackupAcl(o) \/ RestoreAcl(o) => torn' = torn
    BY DEF CreateAcl, ProvisionIndex, UpdateAcl, RevokeIndex, Scan, Backfill, BackupAcl,
           RestoreAcl, Finish, Move, overVars
  <1> QED
    BY <1>1, <1>2, <1>3, <1>4, <1>5, <1>6, <1>7, <1>8, <1>9, <1>10

LEMMA NoAclType == NoAcl \in AclRecord
  BY Idle

(* What a superuser's request does to the records.                         *)
LEMMA AdminType ==
  ASSUME TypeOK, NEW o \in Operators, Admin(o)
  PROVE  TypeOK'
  <1>t. /\ op[o].id \in Ids /\ op[o].app \in Apps \cup {Deny} /\ op[o].secret \in Nat
        /\ minted \in Nat /\ minted + 1 \in Nat /\ secret \in [Ids -> Nat]
        /\ acl \in [Ids -> AclRecord] /\ index \in [Ids -> Apps \cup {Deny}]
        /\ data \subseteq Apps \X Ids /\ left \subseteq Apps \X Ids
        /\ files \subseteq File
        /\ req \in [Devices -> Req] /\ known \in [Ids -> SUBSET Nat]
        /\ promised \in [Ids -> SUBSET Nat] /\ gone \subseteq Ids
        /\ \A f \in files : f.id \in Ids
    BY OpFields DEF TypeOK, File
  <1>o. ASSUME OnlyOp(o), UNCHANGED <<data, req>>, left' \subseteq Apps \X Ids,
               minted' \in Nat, secret' \in [Ids -> Nat], acl' \in [Ids -> AclRecord],
               index' \in [Ids -> Apps \cup {Deny}],
               files' \subseteq File,
               known' \in [Ids -> SUBSET Nat], promised' \in [Ids -> SUBSET Nat], gone' \subseteq Ids
        PROVE  TypeOK'
    BY <1>o, <1>t DEF dataVars, TypeOK, OnlyOp
  <1>d. ASSUME NEW s \in Nat, Disclose(op[o].id, s)
        PROVE  known' \in [Ids -> SUBSET Nat] /\ promised' \in [Ids -> SUBSET Nat]
    BY <1>d, <1>t DEF Disclose
  <1>1. ASSUME NEW i \in Ids, CreateSecret(o, i) PROVE TypeOK'
    <2>1. OnlyOp(o)
      BY <1>1, Steps DEF Begins
    <2> QED
      BY <1>1, <2>1, <1>o, <1>t DEF dataVars, CreateSecret
  <1>2. CASE CreateAcl(o)
    <2>1. OnlyOp(o)
      BY <1>2, Steps DEF Ends
    <2>2. WrittenAcl(Deny) \in AclRecord
      BY Written
    <2> QED
      BY <1>2, <2>1, <2>2, <1>d, <1>o, <1>t DEF dataVars, CreateAcl
  <1>3. ASSUME NEW i \in Ids, NEW a \in Apps, ProvisionCheck(o, i, a) PROVE TypeOK'
    <2>1. OnlyOp(o)
      BY <1>3, Steps DEF Begins
    <2> QED
      BY <1>3, <2>1, <1>o, <1>t DEF dataVars, ProvisionCheck, recVars
  <1>4. CASE ProvisionSecret(o)
    <2>1. OnlyOp(o)
      BY <1>4, Steps DEF Goes
    <2> QED
      BY <1>4, <2>1, <1>o, <1>t DEF dataVars, ProvisionSecret, histVars
  <1>5. CASE ProvisionAcl(o)
    <2>1. OnlyOp(o)
      BY <1>5, Steps DEF Goes
    <2>2. WrittenAcl(op[o].app) \in AclRecord
      BY <1>t, Written
    <2> QED
      BY <1>5, <2>1, <2>2, <1>o, <1>t DEF dataVars, ProvisionAcl, histVars
  <1>6. CASE ProvisionIndex(o)
    <2>1. OnlyOp(o)
      BY <1>6, Steps DEF Ends
    <2>2. known' \in [Ids -> SUBSET Nat] /\ promised' \in [Ids -> SUBSET Nat]
      BY <1>6, <1>d, <1>t DEF ProvisionIndex
    <2> QED
      BY <1>6, <2>1, <2>2, <1>o, <1>t DEF dataVars, ProvisionIndex
  <1>7. ASSUME NEW i \in Ids, NEW a \in Apps \cup {Deny}, UpdateCheck(o, i, a) PROVE TypeOK'
    <2>1. OnlyOp(o)
      BY <1>7, Steps DEF Begins
    <2> QED
      BY <1>7, <2>1, <1>o, <1>t DEF dataVars, UpdateCheck, recVars, histVars
  <1>8. CASE UpdateAcl(o) \/ RestoreAcl(o)
    <2>1. OnlyOp(o)
      BY <1>8, Steps DEF Ends
    <2>2. /\ WrittenAcl(op[o].app) \in AclRecord
          /\ [there |-> TRUE, app |-> op[o].app, at |-> op[o].at] \in AclRecord
      BY <1>t, OpFields, Written DEF AclRecord
    <2> QED
      BY <1>8, <2>1, <2>2, <1>o, <1>t DEF dataVars, UpdateAcl, RestoreAcl, histVars
  <1>9. ASSUME NEW i \in Ids, RevokeSecret(o, i) PROVE TypeOK'
    <2>1. OnlyOp(o)
      BY <1>9, Steps DEF Begins
    <2> QED
      BY <1>9, <2>1, <1>o, <1>t DEF dataVars, RevokeSecret
  <1>10. CASE RevokeAcl(o)
    <2>1. OnlyOp(o)
      BY <1>10, Steps DEF Goes
    <2> QED
      BY <1>10, <2>1, <1>o, <1>t, NoAclType DEF dataVars, RevokeAcl, histVars
  <1>11. CASE RevokeIndex(o) \/ Backfill(o)
    <2>1. OnlyOp(o)
      BY <1>11, Steps DEF Ends
    <2> QED
      BY <1>11, <2>1, <1>o, <1>t DEF dataVars, Gone, RevokeIndex, Backfill, histVars
  <1>12. ASSUME NEW i \in Ids, LookupMiss(o, i) \/ BackupKeys(o, i) PROVE TypeOK'
    <2>1. OnlyOp(o)
      BY <1>12, Steps DEF Begins
    <2> QED
      BY <1>12, <2>1, <1>o, <1>t DEF dataVars, LookupMiss, BackupKeys, recVars, histVars
  <1>13. CASE Scan(o) \/ BackupSecret(o)
    <2>1. OnlyOp(o)
      BY <1>13, Steps DEF Ends, Goes
    <2> QED
      BY <1>13, <2>1, <1>o, <1>t DEF dataVars, Scan, BackupSecret, recVars, histVars
  <1>14. CASE BackupAcl(o)
    <2>1. OnlyOp(o)
      BY <1>14, Steps DEF Ends
    <2>2. acl[op[o].id].app \in Apps \cup {Deny} /\ acl[op[o].id].at \in Nat
      BY <1>t DEF AclRecord
    <2>3. files' \subseteq File
      BY <1>14, <1>t, <2>2 DEF BackupAcl, File
    <2>4. known' \in [Ids -> SUBSET Nat] /\ promised' \in [Ids -> SUBSET Nat]
      BY <1>14, <1>d, <1>t DEF BackupAcl
    <2> QED
      BY <1>14, <2>1, <2>3, <2>4, <1>o, <1>t DEF dataVars, BackupAcl, recVars
  <1>15. ASSUME NEW f \in files, NEW force \in BOOLEAN, RestoreCheck(o, f, force) PROVE TypeOK'
    <2>1. OnlyOp(o)
      BY <1>15, Steps DEF Begins
    <2> QED
      BY <1>15, <2>1, <1>o, <1>t DEF dataVars, RestoreCheck, recVars
  <1>16. CASE RestoreSecret(o)
    <2>1. OnlyOp(o)
      BY <1>16, Steps DEF Goes
    <2> QED
      BY <1>16, <2>1, <1>o, <1>t DEF dataVars, RestoreSecret
  <1>17. CASE AbortOp(o)
    <2>1. OnlyOp(o)
      BY <1>17, Steps DEF Ends
    <2> QED
      BY <1>17, <2>1, <1>o, <1>t DEF dataVars, AbortOp, recVars, histVars
  <1> QED
    BY <1>1, <1>2, <1>3, <1>4, <1>5, <1>6, <1>7, <1>8, <1>9, <1>10, <1>11, <1>12, <1>13,
       <1>14, <1>15, <1>16, <1>17 DEF Admin

(* A request is granted by an ACL that opens some app.                     *)
Granted == \A d \in Devices : req[d].step = "granted" => req[d].acl.app # Deny

(* And a device's.                                                         *)
LEMMA DeviceType ==
  ASSUME TypeOK, Granted, NEW d \in Devices, Device(d)
  PROVE  TypeOK'
  <1>1. ASSUME NEW i \in Ids, NEW s \in known[i], VerifySignature(d, i, s) PROVE TypeOK'
    <2>1. [step |-> "acl", id |-> i, secret |-> s, acl |-> NoAcl] \in Req
      BY Idle DEF Req, TypeOK
    <2>2. req' \in [Devices -> Req]
      <3> DEFINE new == [step |-> "acl", id |-> i, secret |-> s, acl |-> NoAcl]
      <3>1. req' = [req EXCEPT ![d] = new]
        BY <1>1 DEF VerifySignature
      <3> HIDE DEF new
      <3> QED
        BY <3>1, <2>1 DEF TypeOK, new
    <2>3. torn' \subseteq Ids
      BY <1>1 DEF VerifySignature, TypeOK
    <2> QED
      BY <1>1, <2>2, <2>3 DEF VerifySignature, TypeOK, recVars, dataVars, histVars
  <1>2. CASE FetchAcl(d)
    <2> DEFINE a == acl[req[d].id]
               new == [req[d] EXCEPT !.step = "granted", !.acl = a]
    <2>1. a \in AclRecord /\ new \in Req
      BY DEF TypeOK, Req
    <2>2. req' = [req EXCEPT ![d] = IF a.app # Deny THEN new ELSE IdleReq]
      BY <1>2 DEF FetchAcl, TypeOK
    <2> HIDE DEF new
    <2>3. req' \in [Devices -> Req]
      BY <2>1, <2>2, Idle DEF TypeOK
    <2> QED
      BY <1>2, <2>3 DEF FetchAcl, TypeOK, recVars, dataVars, histVars, overVars
  <1>3. CASE Serve(d)
    <2>1. req[d].acl.app \in Apps \cup {Deny} /\ req[d].id \in Ids
      BY DEF TypeOK, Req, AclRecord
    <2>2. req[d].acl.app \in Apps
      BY <1>3, <2>1 DEF Serve, Granted
    <2>3. data' \subseteq Apps \X Ids /\ left' \subseteq Apps \X Ids
      BY <1>3, <2>1, <2>2 DEF Serve, Stored, Deleted, dataVars, TypeOK
    <2>4. req' \in [Devices -> Req]
      BY <1>3, Idle DEF Serve, TypeOK
    <2> QED
      BY <1>3, <2>3, <2>4 DEF Serve, TypeOK, recVars, histVars, overVars
  <1> QED
    BY <1>1, <1>2, <1>3 DEF Device

LEMMA AdminReq == ASSUME NEW o \in Operators, Admin(o) PROVE UNCHANGED <<req, data>>
  BY DEF Admin, CreateSecret, CreateAcl, ProvisionCheck, ProvisionSecret, ProvisionAcl,
         ProvisionIndex, UpdateCheck, UpdateAcl, RevokeSecret, RevokeAcl, RevokeIndex, LookupMiss,
         Scan, Backfill, BackupKeys, BackupSecret, BackupAcl, RestoreCheck, RestoreSecret,
         RestoreAcl, AbortOp, dataVars

LEMMA DeviceRest ==
  ASSUME TypeOK, NEW d \in Devices, Device(d)
  PROVE  /\ UNCHANGED <<secret, acl, index, minted, files, op, known, promised, gone, raced>>
         /\ torn \subseteq torn' /\ torn' \subseteq Ids
  <1>1. UNCHANGED <<secret, acl, index, minted, files, op, known, promised, gone, raced>>
    BY DEF Device, VerifySignature, FetchAcl, Serve, recVars, histVars, overVars
  <1>2. ASSUME NEW i \in Ids, NEW s \in known[i], VerifySignature(d, i, s)
        PROVE  torn \subseteq torn' /\ torn' \subseteq Ids
    BY <1>2 DEF VerifySignature, TypeOK
  <1>3. CASE FetchAcl(d) \/ Serve(d)
    <2>1. UNCHANGED torn
      BY <1>3 DEF FetchAcl, Serve, overVars
    <2> QED
      BY <1>1, <2>1 DEF TypeOK
  <1> QED
    BY <1>1, <1>2, <1>3 DEF Device

(* And an administrator who writes or deletes a record.                    *)
LEMMA KvType ==
  ASSUME TypeOK, NEW a \in Apps, NEW i \in Ids, AdminKv(a, i)
  PROVE  /\ TypeOK'
         /\ UNCHANGED <<secret, acl, index, minted, files, op, req, known, promised, gone, raced,
                        torn>>
  BY DEF AdminKv, Stored, Deleted, TypeOK, recVars, histVars, overVars

LEMMA NextGranted == TypeOK /\ Granted /\ [Next]_vars => Granted'
  <1> SUFFICES ASSUME TypeOK, Granted, [Next]_vars PROVE Granted'
    OBVIOUS
  <1>1. CASE UNCHANGED req
    BY <1>1 DEF Granted
  <1>2. ASSUME NEW d \in Devices, Device(d) PROVE Granted'
    <2>1. PICK new \in Req : /\ req' = [req EXCEPT ![d] = new]
                             /\ new.step = "granted" => new.acl.app # Deny
      <3>1. ASSUME NEW i \in Ids, NEW s \in known[i], VerifySignature(d, i, s)
            PROVE  \E new \in Req : req' = [req EXCEPT ![d] = new] /\ new.step = "acl"
        <4> DEFINE new == [step |-> "acl", id |-> i, secret |-> s, acl |-> NoAcl]
        <4>1. new \in Req /\ new.step = "acl"
          BY Idle DEF Req, TypeOK
        <4>2. req' = [req EXCEPT ![d] = new]
          BY <3>1 DEF VerifySignature
        <4> HIDE DEF new
        <4> QED
          BY <4>1, <4>2
      <3>2. ASSUME FetchAcl(d)
            PROVE  \E new \in Req : req' = [req EXCEPT ![d] = new]
                                    /\ (new.step = "granted" => new.acl.app # Deny)
        <4> DEFINE a == acl[req[d].id]
                   granted == [req[d] EXCEPT !.step = "granted", !.acl = a]
        <4>1. a \in AclRecord /\ granted \in Req /\ granted.acl = a
          BY DEF TypeOK, Req
        <4>2. req' = [req EXCEPT ![d] = IF a.app # Deny THEN granted ELSE IdleReq]
          BY <3>2 DEF FetchAcl, TypeOK
        <4> HIDE DEF granted
        <4> QED
          BY <4>1, <4>2, Idle
      <3>3. CASE Serve(d)
        BY <3>3, Idle DEF Serve
      <3> QED
        BY <1>2, <3>1, <3>2, <3>3 DEF Device
    <2>2. req'[d] = new /\ \A e \in Devices : e # d => req'[e] = req[e]
      BY <2>1 DEF TypeOK
    <2> QED
      BY <2>1, <2>2 DEF Granted
  <1> QED
    BY <1>1, <1>2, AdminReq, KvType DEF Next, vars

(* Type correctness, for any number of clients, operators and devices: a   *)
(* request is only ever served under an ACL that opens some app.           *)
THEOREM TypeCorrect == Spec => []TypeOK
  <1>1. Init => TypeOK /\ Granted
    BY Idle DEF Init, TypeOK, Granted
  <1>2. TypeOK /\ Granted /\ [Next]_vars => TypeOK'
    <2>1. TypeOK /\ UNCHANGED vars => TypeOK'
      BY DEF TypeOK, vars, recVars, dataVars, histVars, overVars
    <2> QED
      BY <2>1, AdminType, DeviceType, KvType DEF Next
  <1> QED
    BY <1>1, <1>2, NextGranted, PTL DEF Spec

---------------------------------------------------------------------------
(* No inherited permissions                                                *)

Restores == {"restore_secret", "restore_acl"}
Fresh == {"create_acl", "prov_acl", "prov_index", "backup_acl"}

FileOf(o) == [id |-> op[o].id, secret |-> op[o].secret, app |-> op[o].app, at |-> op[o].at]

(* No secret is newer than the last one generated; those that were shown   *)
(* were generated; a backup shows what it holds, a restore writes what a   *)
(* backup holds, and a device signs with what was shown.                   *)
BoundInv ==
  /\ \A i \in Ids : secret[i] <= minted /\ \A s \in known[i] : 0 < s /\ s <= minted
  /\ \A f \in files : f.secret \in known[f.id]
  /\ \A o \in Operators :
       /\ op[o].step \in Fresh => op[o].secret <= minted
       /\ op[o].step = "create_acl" => 0 < op[o].secret
       /\ op[o].step \in Restores => FileOf(o) \in files
  /\ \A d \in Devices : req[d].step # "idle" => req[d].secret \in known[req[d].id]

LEMMA AdminKnown ==
  ASSUME TypeOK, BoundInv, NEW o \in Operators, Admin(o)
  PROVE  /\ files \subseteq files' /\ minted <= minted'
         /\ \A i \in Ids : known[i] \subseteq known'[i]
  <1>t. /\ known \in [Ids -> SUBSET Nat] /\ minted \in Nat /\ op[o].id \in Ids
    BY OpFields DEF TypeOK
  <1>1. ASSUME NEW s, Disclose(op[o].id, s) PROVE \A i \in Ids : known[i] \subseteq known'[i]
    BY <1>1, <1>t DEF Disclose
  <1>2. CASE CreateAcl(o) \/ ProvisionIndex(o) \/ BackupAcl(o)
    BY <1>1, <1>2, <1>t DEF CreateAcl, ProvisionIndex, BackupAcl
  <1>3. CASE ~(CreateAcl(o) \/ ProvisionIndex(o) \/ BackupAcl(o))
    <2>1. UNCHANGED <<files, known>> /\ (minted' = minted \/ minted' = minted + 1)
      BY <1>3 DEF Admin, CreateSecret, ProvisionCheck, ProvisionSecret, ProvisionAcl,
         UpdateCheck, UpdateAcl, RevokeSecret, RevokeAcl, RevokeIndex, LookupMiss,
         Scan, Backfill, BackupKeys, BackupSecret, RestoreCheck, RestoreSecret,
         RestoreAcl, AbortOp, histVars
    <2> QED
      BY <2>1, <1>t
  <1> QED
    BY <1>2, <1>3

LEMMA AdminBound ==
  ASSUME TypeOK, BoundInv, NEW o \in Operators, Admin(o)
  PROVE  BoundInv'
  <1>t. /\ op[o].id \in Ids /\ op[o].secret \in Nat /\ minted \in Nat /\ minted' \in Nat
        /\ secret \in [Ids -> Nat] /\ known \in [Ids -> SUBSET Nat] /\ files \subseteq File
        /\ \A p \in Operators : op[p].id \in Ids /\ op[p].secret \in Nat
        /\ \A d \in Devices : req[d].id \in Ids
        /\ \A f \in files : f.id \in Ids /\ f.secret \in Nat
    BY OpFields, AdminType DEF TypeOK, File, Req
  <1>n. /\ files \subseteq files' /\ minted <= minted' /\ UNCHANGED req
        /\ \A i \in Ids : known[i] \subseteq known'[i]
    BY AdminKnown, AdminReq
  (* What a step must show: the others' values stay in range.              *)
  <1>g. ASSUME OnlyOp(o),
               \A i \in Ids : secret'[i] = secret[i] \/ secret'[i] <= minted',
               \A i \in Ids : \A s \in known'[i] : s \in known[i] \/ (0 < s /\ s <= minted'),
               \A f \in files' : f \in files \/ f.secret \in known'[f.id],
               op'[o].step \in Fresh => op'[o].secret <= minted',
               op'[o].step = "create_acl" => 0 < op'[o].secret,
               op'[o].step \in Restores => FileOf(o)' \in files'
        PROVE  BoundInv'
    <2>1. ASSUME NEW i \in Ids
          PROVE  secret'[i] <= minted' /\ \A s \in known'[i] : 0 < s /\ s <= minted'
      <3>1. secret[i] <= minted'
        BY <1>t, <1>n DEF BoundInv
      <3>2. \A s \in known[i] : 0 < s /\ s <= minted'
        BY <1>t, <1>n DEF BoundInv
      <3> QED
        BY <1>g, <3>1, <3>2
    <2>2. ASSUME NEW f \in files' PROVE f.secret \in known'[f.id]
      BY <1>g, <1>t, <1>n DEF BoundInv
    <2>3. ASSUME NEW p \in Operators, p # o
          PROVE  /\ op'[p].step \in Fresh => op'[p].secret <= minted'
                 /\ op'[p].step = "create_acl" => 0 < op'[p].secret
                 /\ op'[p].step \in Restores => FileOf(p)' \in files'
      <3>1. op'[p] = op[p]
        BY <1>g, <2>3 DEF OnlyOp
      <3>2. op[p].step \in Fresh => op[p].secret <= minted'
        BY <1>t, <1>n DEF BoundInv
      <3> QED
        BY <3>1, <3>2, <1>n DEF BoundInv, FileOf
    <2>4. ASSUME NEW d \in Devices, req'[d].step # "idle"
          PROVE  req'[d].secret \in known'[req'[d].id]
      BY <2>4, <1>t, <1>n DEF BoundInv
    <2> QED
      BY <1>g, <2>1, <2>2, <2>3, <2>4 DEF BoundInv
  (* A step that shows nothing and sets no secret.                         *)
  <1>k. ASSUME OnlyOp(o), UNCHANGED <<secret, known, files, minted>>,
               op'[o].step \in Fresh => op'[o].secret <= minted,
               op'[o].step # "create_acl",
               op'[o].step \in Restores => FileOf(o)' \in files
        PROVE  BoundInv'
    BY <1>k, <1>g
  <1>1. ASSUME NEW i \in Ids, CreateSecret(o, i) PROVE BoundInv'
    <2>1. Begins(o, "create_acl", i, Deny, minted + 1)
      BY <1>1, Steps
    <2>2. /\ minted' = minted + 1 /\ secret' = [secret EXCEPT ![i] = minted + 1]
          /\ UNCHANGED <<known, files>>
      BY <1>1 DEF CreateSecret
    <2>3. \A j \in Ids : secret'[j] = secret[j] \/ secret'[j] <= minted'
      BY <2>2, <1>t
    <2> QED
      BY <2>1, <2>2, <2>3, <1>t, <1>g DEF Begins, Restores
  <1>2. CASE CreateAcl(o)
    <2>1. Ends(o, "create_acl")
      BY <1>2, Steps
    <2>2. UNCHANGED <<secret, minted, files>> /\ Disclose(op[o].id, op[o].secret)
      BY <1>2 DEF CreateAcl
    <2>3. 0 < op[o].secret /\ op[o].secret <= minted
      BY <2>1 DEF Ends, BoundInv, Fresh
    <2>4. \A i \in Ids : \A s \in known'[i] : s \in known[i] \/ (0 < s /\ s <= minted')
      BY <2>2, <2>3, <1>t DEF Disclose
    <2> QED
      BY <2>1, <2>2, <2>4, <1>g DEF Ends, Fresh, Restores
  <1>3. CASE ProvisionSecret(o)
    <2>1. Goes(o, "prov_secret", "prov_acl", op[o].app, minted + 1)
      BY <1>3, Steps
    <2>2. /\ minted' = minted + 1 /\ secret' = [secret EXCEPT ![op[o].id] = minted + 1]
          /\ UNCHANGED <<known, files>>
      BY <1>3 DEF ProvisionSecret, histVars
    <2>3. \A j \in Ids : secret'[j] = secret[j] \/ secret'[j] <= minted'
      BY <2>2, <1>t
    <2> QED
      BY <2>1, <2>2, <2>3, <1>t, <1>g DEF Goes, Restores
  <1>4. CASE ProvisionIndex(o)
    <2>1. Ends(o, "prov_index")
      BY <1>4, Steps
    <2>2. UNCHANGED <<secret, minted, files>>
      BY <1>4 DEF ProvisionIndex
    <2>3. op[o].secret <= minted
      BY <2>1 DEF Ends, BoundInv, Fresh
    <2>4. \A i \in Ids : \A s \in known'[i] : s \in known[i] \/ (0 < s /\ s <= minted')
      BY <1>4, <2>2, <2>3, <1>t DEF ProvisionIndex, Disclose
    <2> QED
      BY <2>1, <2>2, <2>4, <1>g DEF Ends, Fresh, Restores
  <1>5. CASE BackupAcl(o)
    <2> DEFINE f == [id |-> op[o].id, secret |-> op[o].secret, app |-> acl[op[o].id].app,
                     at |-> acl[op[o].id].at]
    <2>1. Ends(o, "backup_acl")
      BY <1>5, Steps
    <2>2. UNCHANGED <<secret, minted>>
      BY <1>5 DEF BackupAcl, recVars
    <2>3. op[o].secret <= minted
      BY <2>1 DEF Ends, BoundInv, Fresh
    <2>4. CASE op[o].secret = 0
      BY <1>5, <2>1, <2>2, <2>4, <1>k DEF BackupAcl, Ends, Fresh, Restores
    <2>5. CASE op[o].secret # 0
      <3>1. files' = files \cup {f} /\ Disclose(op[o].id, op[o].secret)
        BY <1>5, <2>5 DEF BackupAcl
      <3>2. \A i \in Ids : \A s \in known'[i] : s \in known[i] \/ (0 < s /\ s <= minted')
        BY <2>2, <2>3, <2>5, <3>1, <1>t DEF Disclose
      <3>3. f.secret \in known'[f.id]
        BY <3>1, <1>t DEF Disclose
      <3> HIDE DEF f
      <3> QED
        BY <2>1, <2>2, <3>1, <3>2, <3>3, <1>g DEF Ends, Fresh, Restores
    <2> QED
      BY <2>4, <2>5
  <1>6. CASE BackupSecret(o)
    <2>1. Goes(o, "backup_secret", "backup_acl", op[o].app, secret[op[o].id])
      BY <1>6, Steps
    <2>2. secret[op[o].id] <= minted
      BY <1>t DEF BoundInv
    <2> QED
      BY <1>6, <2>1, <2>2, <1>k DEF BackupSecret, Goes, Restores, recVars, histVars
  <1>7. ASSUME NEW f \in files, NEW force \in BOOLEAN, RestoreCheck(o, f, force) PROVE BoundInv'
    <2>1. BeginsAs(o, Taken(f)) /\ f \in File
      BY <1>7, <1>t, Steps
    <2>2. FileOf(o)' = f
      BY <2>1, TakenOp DEF BeginsAs, FileOf, File
    <2> QED
      BY <1>7, <2>1, <2>2, TakenOp, <1>k DEF RestoreCheck, BeginsAs, recVars, Fresh, Restores
  <1>8. CASE RestoreSecret(o)
    <2>1. Goes(o, "restore_secret", "restore_acl", op[o].app, op[o].secret)
      BY <1>8, Steps
    <2>2. FileOf(o) \in files /\ FileOf(o)' = FileOf(o)
      BY <2>1 DEF Goes, BoundInv, FileOf, Restores
    <2>3. op[o].secret <= minted
      BY <2>2, <1>t DEF BoundInv, FileOf
    <2>4. /\ secret' = [secret EXCEPT ![op[o].id] = op[o].secret]
          /\ UNCHANGED <<known, files, minted>>
      BY <1>8 DEF RestoreSecret
    <2>5. \A j \in Ids : secret'[j] = secret[j] \/ secret'[j] <= minted'
      BY <2>3, <2>4, <1>t
    <2> QED
      BY <2>1, <2>2, <2>4, <2>5, <1>g DEF Goes, Fresh
  <1>9. ASSUME NEW i \in Ids, RevokeSecret(o, i) PROVE BoundInv'
    <2>1. Begins(o, "revoke_acl", i, Deny, 0)
      BY <1>9, Steps
    <2>2. secret' = [secret EXCEPT ![i] = 0] /\ UNCHANGED <<known, files, minted>>
      BY <1>9 DEF RevokeSecret
    <2>3. \A j \in Ids : secret'[j] = secret[j] \/ secret'[j] <= minted'
      BY <2>2, <1>t
    <2> QED
      BY <2>1, <2>2, <2>3, <1>g DEF Begins, Fresh, Restores
  <1>10. ASSUME NEW i \in Ids, NEW a \in Apps \cup {Deny},
                UpdateCheck(o, i, a) \/ LookupMiss(o, i) \/ BackupKeys(o, i)
         PROVE  BoundInv'
    <2>1. OnlyOp(o) /\ op'[o].step \in {"update_acl", "scan", "backup_secret"}
      BY <1>10, Steps DEF Begins
    <2> QED
      BY <1>10, <2>1, <1>k DEF UpdateCheck, LookupMiss, BackupKeys, recVars, histVars, Fresh, Restores
  <1>11. ASSUME NEW i \in Ids, NEW a \in Apps, ProvisionCheck(o, i, a) PROVE BoundInv'
    <2>1. Begins(o, IF secret[i] = 0 THEN "prov_secret" ELSE "prov_acl", i, a, 0)
      BY <1>11, Steps
    <2> QED
      BY <1>11, <2>1, <1>k, <1>t DEF Begins, ProvisionCheck, recVars, Restores
  <1>12. CASE ProvisionAcl(o)
    <2>1. Goes(o, "prov_acl", "prov_index", op[o].app, op[o].secret)
      BY <1>12, Steps
    <2>2. op[o].secret <= minted
      BY <2>1 DEF Goes, BoundInv, Fresh
    <2> QED
      BY <1>12, <2>1, <2>2, <1>k DEF Goes, ProvisionAcl, histVars, Restores
  <1>13. CASE UpdateAcl(o) \/ RevokeAcl(o) \/ RevokeIndex(o) \/ Scan(o) \/ Backfill(o)
              \/ RestoreAcl(o) \/ AbortOp(o)
    <2>1. OnlyOp(o) /\ op'[o].step \in {"idle", "revoke_index", "backfill"}
      BY <1>13, Steps DEF Ends, Goes
    <2>2. UNCHANGED <<secret, known, files, minted>>
      BY <1>13 DEF UpdateAcl, RevokeAcl, RevokeIndex, Scan, Backfill, RestoreAcl, AbortOp,
                   recVars, histVars
    <2> QED
      BY <2>1, <2>2, <1>k DEF Fresh, Restores
  <1> QED
    BY <1>1, <1>2, <1>3, <1>4, <1>5, <1>6, <1>7, <1>8, <1>9, <1>10, <1>11, <1>12, <1>13 DEF Admin

(* What a step of a device's request is.                                   *)
DeviceStep(d) ==
  \/ \E i \in Ids : \E s \in known[i] :
       /\ secret[i] = s
       /\ req'[d].step = "acl" /\ req'[d].id = i /\ req'[d].secret = s
       /\ i \notin torn' => ~Restoring(i)
  \/ /\ req[d].step = "acl" /\ req'[d].step = "granted" /\ torn' = torn
     /\ req'[d].id = req[d].id /\ req'[d].secret = req[d].secret
     /\ req'[d].acl = acl[req[d].id] /\ acl[req[d].id].app # Deny
  \/ req'[d].step = "idle" /\ torn' = torn

LEMMA DeviceSteps ==
  ASSUME TypeOK, NEW d \in Devices, Device(d)
  PROVE  DeviceStep(d) /\ \A e \in Devices : e # d => req'[e] = req[e]
  <1>1. ASSUME NEW i \in Ids, NEW s \in known[i], VerifySignature(d, i, s)
        PROVE  DeviceStep(d) /\ \A e \in Devices : e # d => req'[e] = req[e]
    <2> DEFINE new == [step |-> "acl", id |-> i, secret |-> s, acl |-> NoAcl]
    <2>1. req' = [req EXCEPT ![d] = new] /\ secret[i] = s
      BY <1>1 DEF VerifySignature
    <2>2. i \notin torn' => ~Restoring(i)
      BY <1>1 DEF VerifySignature
    <2>3. req'[d] = new /\ \A e \in Devices : e # d => req'[e] = req[e]
      BY <2>1 DEF TypeOK
    <2> QED
      BY <2>1, <2>2, <2>3 DEF DeviceStep
  <1>2. CASE FetchAcl(d)
    <2> DEFINE a == acl[req[d].id]
               granted == [req[d] EXCEPT !.step = "granted", !.acl = a]
    <2>1. req[d] \in Req
      BY DEF TypeOK
    <2>2. /\ granted.step = "granted" /\ granted.acl = a
          /\ granted.id = req[d].id /\ granted.secret = req[d].secret
      BY <2>1 DEF Req
    <2>3. /\ req' = [req EXCEPT ![d] = IF a.app # Deny THEN granted ELSE IdleReq]
          /\ req[d].step = "acl" /\ torn' = torn
      BY <1>2 DEF FetchAcl, TypeOK, overVars
    <2> HIDE DEF granted
    <2>4. /\ req'[d] = IF a.app # Deny THEN granted ELSE IdleReq
          /\ \A e \in Devices : e # d => req'[e] = req[e]
      BY <2>3 DEF TypeOK
    <2> QED
      BY <2>2, <2>3, <2>4, Idle DEF DeviceStep
  <1>3. CASE Serve(d)
    <2>1. req' = [req EXCEPT ![d] = IdleReq] /\ torn' = torn
      BY <1>3 DEF Serve, overVars
    <2> QED
      BY <2>1, Idle DEF TypeOK, DeviceStep
  <1> QED
    BY <1>1, <1>2, <1>3 DEF Device

LEMMA NextBound == TypeOK /\ BoundInv /\ [Next]_vars => BoundInv'
  <1> SUFFICES ASSUME TypeOK, BoundInv, [Next]_vars PROVE BoundInv'
    OBVIOUS
  <1>1. ASSUME UNCHANGED <<secret, minted, files, op, req, known>> PROVE BoundInv'
    BY <1>1 DEF BoundInv, FileOf
  <1>2. ASSUME NEW d \in Devices, Device(d) PROVE BoundInv'
    <2>1. UNCHANGED <<secret, minted, files, op, known>>
      BY <1>2, DeviceRest
    <2>2. ASSUME NEW e \in Devices, req'[e].step # "idle"
          PROVE  req'[e].secret \in known[req'[e].id]
      <3>1. CASE e # d
        BY <1>2, <2>2, <3>1, DeviceSteps DEF BoundInv
      <3>2. CASE e = d
        <4>1. DeviceStep(d)
          BY <1>2, DeviceSteps
        <4> QED
          BY <2>2, <3>2, <4>1 DEF DeviceStep, BoundInv
      <3> QED
        BY <3>1, <3>2
    <2> QED
      BY <2>1, <2>2 DEF BoundInv, FileOf
  <1> QED
    BY <1>1, <1>2, AdminBound, KvType DEF Next, vars, recVars, histVars

(* A restore nobody else overlaps is alone with its id, and what it set    *)
(* first is still there when it goes on.                                   *)
LoneOf(o) ==
  op[o].step \in Restores /\ op[o].id \notin torn =>
    /\ \A p \in Operators : p # o /\ op[p].step # "idle" => op[p].id # op[o].id
    /\ \A d \in Devices : req[d].step # "idle" => req[d].id # op[o].id
    /\ op[o].step = "restore_acl" => secret[op[o].id] = op[o].secret
LoneInv == \A o \in Operators : LoneOf(o)

LEMMA AdminLone ==
  ASSUME TypeOK, LoneInv, NEW o \in Operators, Admin(o)
  PROVE  LoneInv'
  <1>t. /\ op[o].id \in Ids /\ secret \in [Ids -> Nat] /\ UNCHANGED req
        /\ \A p \in Operators : op[p].id \in Ids
        /\ \A f \in files : f \in File
    BY OpFields, AdminReq DEF TypeOK
  (* Request o is about id j, and no other restore is.                     *)
  <1>g. ASSUME OnlyOp(o), NEW j \in Ids,
               \A i \in Ids : i # j => secret'[i] = secret[i],
               op'[o].step # "idle" => op'[o].id = j,
               j \notin torn' => \A p \in Operators : p # o /\ op[p].step \in Restores => op[p].id # j,
               LoneOf(o)'
        PROVE  LoneInv'
    <2>1. ASSUME NEW p \in Operators, p # o PROVE LoneOf(p)'
      <3>1. op'[p] = op[p] /\ torn \subseteq torn' /\ op[p].id \in Ids
        BY <1>g, <1>t, <2>1 DEF OnlyOp
      <3> SUFFICES ASSUME op[p].step \in Restores, op[p].id \notin torn'
                   PROVE  LoneOf(p)'
        BY <3>1 DEF LoneOf
      <3>2. op[p].id # j
        BY <1>g, <2>1
      <3>3. secret'[op[p].id] = secret[op[p].id]
        BY <1>g, <3>1, <3>2
      <3>4. ASSUME NEW q \in Operators, q # p, op'[q].step # "idle" PROVE op'[q].id # op[p].id
        <4>1. CASE q = o
          BY <1>g, <3>2, <3>4, <4>1
        <4>2. CASE q # o
          <5>1. op'[q] = op[q]
            BY <1>g, <4>2 DEF OnlyOp
          <5> QED
            BY <3>1, <3>4, <5>1 DEF LoneInv, LoneOf
        <4> QED
          BY <4>1, <4>2
      <3> QED
        BY <3>1, <3>3, <3>4, <1>t DEF LoneInv, LoneOf
    <2> QED
      BY <1>g, <2>1 DEF LoneInv
  <1>o. op[o].step # "idle" /\ op[o].id \notin torn =>
          \A p \in Operators : p # o /\ op[p].step \in Restores => op[p].id # op[o].id
    BY DEF LoneInv, LoneOf
  (* A request goes on or ends, and is no restore that goes on.            *)
  <1>k. ASSUME OnlyOp(o), op[o].step # "idle",
               op'[o].step # "idle" => op'[o].id = op[o].id,
               op'[o].step \notin Restores,
               \A i \in Ids : i # op[o].id => secret'[i] = secret[i]
        PROVE  LoneInv'
    <2>1. LoneOf(o)'
      BY <1>k DEF LoneOf
    <2>2. op[o].id \notin torn' =>
            \A p \in Operators : p # o /\ op[p].step \in Restores => op[p].id # op[o].id
      BY <1>k, <1>o DEF OnlyOp
    <2> QED
      BY <1>k, <1>t, <2>1, <2>2, <1>g
  <1>1. ASSUME NEW step, NEW i \in Ids, NEW app, NEW s, Begins(o, step, i, app, s),
               step \notin Restores, \A j \in Ids : j # i => secret'[j] = secret[j]
        PROVE  LoneInv'
    <2>1. i \notin torn' => \A p \in Operators : p # o /\ op[p].step \in Restores => op[p].id # i
      BY <1>1 DEF Begins, Restoring, Restores
    <2>2. LoneOf(o)'
      BY <1>1 DEF LoneOf, Begins
    <2> QED
      BY <1>1, <2>1, <2>2, <1>g DEF Begins
  <1>2. ASSUME NEW i \in Ids, \/ CreateSecret(o, i) \/ RevokeSecret(o, i)
                              \/ LookupMiss(o, i) \/ BackupKeys(o, i)
                              \/ \E a \in Apps : ProvisionCheck(o, i, a)
                              \/ \E a \in Apps \cup {Deny} : UpdateCheck(o, i, a)
        PROVE  LoneInv'
    <2>1. \A j \in Ids : j # i => secret'[j] = secret[j]
      BY <1>2, <1>t DEF CreateSecret, RevokeSecret, LookupMiss, BackupKeys, ProvisionCheck,
                        UpdateCheck, recVars
    <2>2. \A step \in {"create_acl", "revoke_acl", "scan", "backup_secret", "prov_secret",
                       "prov_acl", "update_acl"} : step \notin Restores
      BY DEF Restores
    <2>3. \E step \in {"create_acl", "revoke_acl", "scan", "backup_secret", "prov_secret",
                       "prov_acl", "update_acl"}, app \in Apps \cup {Deny}, s \in {0, minted + 1} :
            Begins(o, step, i, app, s)
      BY <1>2, Steps
    <2> QED
      BY <2>1, <2>2, <2>3, <1>1
  <1>3. CASE ProvisionSecret(o)
    <2>1. Goes(o, "prov_secret", "prov_acl", op[o].app, minted + 1)
      BY <1>3, Steps
    <2>2. \A i \in Ids : i # op[o].id => secret'[i] = secret[i]
      BY <1>3, <1>t DEF ProvisionSecret
    <2> QED
      BY <2>1, <2>2, <1>k DEF Goes, Restores
  <1>4. CASE ProvisionAcl(o) \/ RevokeAcl(o) \/ BackupSecret(o)
    <2>1. /\ OnlyOp(o) /\ op[o].step # "idle" /\ op'[o].id = op[o].id
          /\ op'[o].step \in {"prov_index", "revoke_index", "backup_acl"}
      BY <1>4, Steps DEF Goes
    <2>2. UNCHANGED secret
      BY <1>4 DEF ProvisionAcl, RevokeAcl, BackupSecret, recVars
    <2> QED
      BY <2>1, <2>2, <1>k DEF Restores
  <1>5. CASE CreateAcl(o) \/ ProvisionIndex(o) \/ UpdateAcl(o) \/ RevokeIndex(o) \/ Backfill(o)
             \/ BackupAcl(o) \/ RestoreAcl(o) \/ AbortOp(o)
    <2>1. OnlyOp(o) /\ op[o].step # "idle" /\ op'[o].step = "idle"
      <3>1. CASE AbortOp(o)
        BY <3>1, Steps DEF Ends, AbortOp
      <3>2. CASE ~AbortOp(o)
        BY <1>5, <3>2, Steps DEF Ends
      <3> QED
        BY <3>1, <3>2
    <2>2. UNCHANGED secret
      BY <1>5 DEF CreateAcl, ProvisionIndex, UpdateAcl, RevokeIndex, Backfill, BackupAcl,
                  RestoreAcl, AbortOp, recVars
    <2> QED
      BY <2>1, <2>2, <1>k DEF Restores
  <1>6. CASE Scan(o)
    <2>1. /\ OnlyOp(o) /\ op[o].step # "idle" /\ op'[o].step \in {"idle", "backfill"}
          /\ op'[o].step # "idle" => op'[o].id = op[o].id
      BY <1>6, Steps DEF Ends, Goes
    <2>2. UNCHANGED secret
      BY <1>6 DEF Scan, recVars
    <2> QED
      BY <2>1, <2>2, <1>k DEF Restores
  <1>7. ASSUME NEW f \in files, NEW force \in BOOLEAN, RestoreCheck(o, f, force) PROVE LoneInv'
    <2>1. /\ BeginsAs(o, Taken(f)) /\ Taken(f).id = f.id /\ f.id \in Ids
          /\ Taken(f).step = "restore_secret" /\ UNCHANGED secret
      BY <1>7, <1>t, Steps, TakenOp DEF RestoreCheck, recVars
    <2>2. f.id \notin torn' => ~Restoring(f.id) /\ ~Busy(f.id) /\ ~Asking(f.id)
      BY <2>1 DEF BeginsAs
    <2>3. LoneOf(o)'
      BY <2>1, <2>2, <1>t DEF LoneOf, BeginsAs, OnlyOp, Busy, Asking
    <2>4. f.id \notin torn' => \A p \in Operators : p # o /\ op[p].step \in Restores => op[p].id # f.id
      BY <2>2 DEF Restoring, Restores
    <2> QED
      BY <2>1, <2>3, <2>4, <1>g DEF BeginsAs
  <1>8. CASE RestoreSecret(o)
    <2>1. Goes(o, "restore_secret", "restore_acl", op[o].app, op[o].secret)
      BY <1>8, Steps
    <2>2. secret' = [secret EXCEPT ![op[o].id] = op[o].secret]
      BY <1>8 DEF RestoreSecret
    <2>3. /\ secret'[op[o].id] = op[o].secret
          /\ \A i \in Ids : i # op[o].id => secret'[i] = secret[i]
      BY <2>2, <1>t
    <2>4. op[o].step \in Restores /\ LoneOf(o)
      BY <2>1 DEF Goes, LoneInv, Restores
    <2>5. LoneOf(o)'
      BY <2>1, <2>3, <2>4, <1>t DEF LoneOf, Goes, OnlyOp
    <2>6. op[o].id \notin torn' =>
            \A p \in Operators : p # o /\ op[p].step \in Restores => op[p].id # op[o].id
      BY <2>1, <1>o DEF Goes
    <2> QED
      BY <2>1, <2>3, <2>5, <2>6, <1>g, <1>t DEF Goes
  <1> QED
    BY <1>2, <1>3, <1>4, <1>5, <1>6, <1>7, <1>8 DEF Admin

LEMMA NextLone == TypeOK /\ LoneInv /\ [Next]_vars => LoneInv'
  <1> SUFFICES ASSUME TypeOK, LoneInv, [Next]_vars PROVE LoneInv'
    OBVIOUS
  <1>1. ASSUME UNCHANGED <<secret, op, req, torn>> PROVE LoneInv'
    BY <1>1 DEF LoneInv, LoneOf
  <1>2. ASSUME NEW d \in Devices, Device(d) PROVE LoneInv'
    <2>1. UNCHANGED <<secret, op>> /\ torn \subseteq torn'
      BY <1>2, DeviceRest
    <2>2. DeviceStep(d) /\ \A e \in Devices : e # d => req'[e] = req[e]
      BY <1>2, DeviceSteps
    <2>3. ASSUME NEW o \in Operators, op[o].step \in Restores, op[o].id \notin torn'
          PROVE  req'[d].step # "idle" => req'[d].id # op[o].id
      BY <2>1, <2>2, <2>3 DEF DeviceStep, Restoring, Restores, LoneInv, LoneOf
    <2> QED
      BY <2>1, <2>2, <2>3 DEF LoneInv, LoneOf
  <1> QED
    BY <1>1, <1>2, AdminLone, KvType DEF Next, vars, recVars, overVars

(* Whose secrets may meet the ACL of an id: the current one if it was      *)
(* shown (and no restore is between its two commands), the one a           *)
(* provisioning is about to show, and a verified request's.                *)
AtRestore(i) == \E o \in Operators : op[o].step = "restore_acl" /\ op[o].id = i
Current(i) == secret[i] \in known[i] /\ ~AtRestore(i)
Acts(i, s) ==
  \/ Current(i) /\ s = secret[i]
  \/ \E o \in Operators : op[o].step = "prov_index" /\ op[o].id = i /\ op[o].secret = s
  \/ \E d \in Devices : req[d].step = "acl" /\ req[d].id = i /\ req[d].secret = s
Covers(i, s) == acl[i].app = Deny \/ Meant(i, s, acl[i])
CoverInv == \A i \in Ids \ torn : \A s \in Nat : Acts(i, s) => Covers(i, s)

LEMMA AdminCover ==
  ASSUME TypeOK, BoundInv, LoneInv, CoverInv, NEW o \in Operators, Admin(o)
  PROVE  CoverInv'
  <1>t. /\ op[o].id \in Ids /\ op[o].app \in Apps \cup {Deny} /\ op[o].secret \in Nat
        /\ minted \in Nat /\ minted' \in Nat /\ UNCHANGED req /\ files \subseteq files'
        /\ known \in [Ids -> SUBSET Nat] /\ known' \in [Ids -> SUBSET Nat]
        /\ acl \in [Ids -> AclRecord] /\ secret \in [Ids -> Nat] /\ secret' \in [Ids -> Nat]
        /\ \A p \in Operators : op[p].id \in Ids /\ op[p].secret \in Nat
    BY OpFields, AdminType, AdminReq, AdminKnown DEF TypeOK
  <1>b. BoundInv'
    BY AdminBound
  <1>r. ASSUME OnlyOp(o), NEW i \in Ids, op[o].step # "restore_acl" \/ i # op[o].id, AtRestore(i)
        PROVE  AtRestore(i)'
    BY <1>r DEF AtRestore, OnlyOp
  (* The ACLs stay.                                                        *)
  <1>k. ASSUME OnlyOp(o), UNCHANGED acl, op'[o].step # "prov_index",
               \A i \in Ids \ torn' : Current(i)' =>
                 secret'[i] = secret[i] /\ (Current(i) \/ Covers(i, secret[i])')
        PROVE  CoverInv'
    <2> SUFFICES ASSUME NEW i \in Ids, i \notin torn', NEW s \in Nat, Acts(i, s)'
                 PROVE  Covers(i, s)'
      BY DEF CoverInv
    <2>1. i \notin torn
      BY <1>k DEF OnlyOp
    <2>2. ASSUME Acts(i, s) PROVE Covers(i, s)'
      BY <2>1, <2>2, <1>k, <1>t DEF CoverInv, Covers, Meant
    <2>3. CASE Current(i)' /\ s = secret'[i]
      BY <2>2, <2>3, <1>k DEF Acts
    <2>4. CASE \E p \in Operators : op'[p].step = "prov_index" /\ op'[p].id = i /\ op'[p].secret = s
      BY <2>2, <2>4, <1>k DEF Acts, OnlyOp
    <2>5. CASE \E d \in Devices : req'[d].step = "acl" /\ req'[d].id = i /\ req'[d].secret = s
      BY <2>2, <2>5, <1>t DEF Acts
    <2> QED
      BY <2>3, <2>4, <2>5 DEF Acts
  (* The ACL of one id is written now, or opens nothing.                   *)
  <1>w. ASSUME OnlyOp(o), NEW a \in AclRecord, a.app = Deny \/ a.at = minted', NEW j \in Ids,
               acl' = [acl EXCEPT ![j] = a], op'[o].step = "prov_index" => op'[o].id = j,
               op[o].step # "restore_acl",
               \A i \in Ids : i # j => secret'[i] = secret[i] /\ known'[i] = known[i]
        PROVE  CoverInv'
    <2> SUFFICES ASSUME NEW i \in Ids, i \notin torn', NEW s \in Nat, Acts(i, s)'
                 PROVE  Covers(i, s)'
      BY DEF CoverInv
    <2>1. CASE i = j
      <3>1. acl'[i] = a
        BY <1>w, <1>t, <2>1
      <3>2. s <= minted'
        BY <1>b, <1>t DEF Acts, Current, BoundInv, Fresh
      <3> QED
        BY <3>1, <3>2, <1>w DEF Covers, Meant
    <2>2. CASE i # j
      <3>1. acl'[i] = acl[i] /\ i \notin torn
        BY <1>w, <1>t, <2>2 DEF OnlyOp
      <3>2. Current(i)' => Current(i) /\ secret'[i] = secret[i]
        BY <1>w, <1>r, <2>2 DEF Current
      <3>3. ASSUME NEW p \in Operators, op'[p].step = "prov_index", op'[p].id = i
            PROVE  op'[p] = op[p]
        BY <1>w, <2>2, <3>3 DEF OnlyOp
      <3>4. Acts(i, s)
        BY <3>2, <3>3, <1>t DEF Acts
      <3> QED
        BY <3>1, <3>4, <1>t DEF CoverInv, Covers, Meant
    <2> QED
      BY <2>1, <2>2
  (* Nothing of secrets and ACLs changes.                                  *)
  <1>q. ASSUME OnlyOp(o), UNCHANGED <<acl, secret, known>>, op'[o].step # "prov_index",
               op[o].step # "restore_acl"
        PROVE  CoverInv'
    BY <1>q, <1>k, <1>r DEF Current
  (* A secret nobody was shown is set.                                     *)
  <1>m. ASSUME OnlyOp(o), NEW j \in Ids, NEW s \in Nat, secret' = [secret EXCEPT ![j] = s],
               s = 0 \/ s = minted + 1, UNCHANGED <<acl, known>>, op'[o].step # "prov_index",
               op[o].step # "restore_acl"
        PROVE  CoverInv'
    <2>1. s \notin known[j]
      BY <1>m, <1>t DEF BoundInv
    <2>2. secret'[j] = s /\ \A i \in Ids : i # j => secret'[i] = secret[i]
      BY <1>m, <1>t
    <2>3. ASSUME NEW i \in Ids, Current(i)' PROVE Current(i) /\ secret'[i] = secret[i]
      <3>1. i # j
        BY <1>m, <2>1, <2>2, <2>3 DEF Current
      <3> QED
        BY <1>m, <1>r, <2>2, <2>3, <3>1 DEF Current
    <2> QED
      BY <1>m, <2>3, <1>k
  <1>1. ASSUME NEW i \in Ids, CreateSecret(o, i) PROVE CoverInv'
    <2>1. Begins(o, "create_acl", i, Deny, minted + 1)
      BY <1>1, Steps
    <2>2. secret' = [secret EXCEPT ![i] = minted + 1] /\ UNCHANGED <<acl, known>>
      BY <1>1 DEF CreateSecret
    <2>3. minted + 1 \in Nat /\ OnlyOp(o) /\ op'[o].step # "prov_index" /\ op[o].step # "restore_acl"
      BY <2>1, <1>t DEF Begins
    <2> QED
      BY <2>2, <2>3, <1>m
  <1>2. ASSUME NEW i \in Ids, RevokeSecret(o, i) PROVE CoverInv'
    <2>1. Begins(o, "revoke_acl", i, Deny, 0)
      BY <1>2, Steps
    <2>2. secret' = [secret EXCEPT ![i] = 0] /\ UNCHANGED <<acl, known>>
      BY <1>2 DEF RevokeSecret
    <2>3. OnlyOp(o) /\ op'[o].step # "prov_index" /\ op[o].step # "restore_acl"
      BY <2>1 DEF Begins
    <2> QED
      BY <2>2, <2>3, <1>m
  <1>3. CASE ProvisionSecret(o)
    <2>1. Goes(o, "prov_secret", "prov_acl", op[o].app, minted + 1)
      BY <1>3, Steps
    <2>2. secret' = [secret EXCEPT ![op[o].id] = minted + 1] /\ UNCHANGED <<acl, known>>
      BY <1>3 DEF ProvisionSecret, histVars
    <2>3. minted + 1 \in Nat /\ OnlyOp(o) /\ op'[o].step # "prov_index" /\ op[o].step # "restore_acl"
      BY <2>1, <1>t DEF Goes
    <2> QED
      BY <2>2, <2>3, <1>t, <1>m
  <1>4. CASE CreateAcl(o)
    <2>1. Ends(o, "create_acl")
      BY <1>4, Steps
    <2>2. WrittenAcl(Deny) \in AclRecord /\ WrittenAcl(Deny).app = Deny
      BY Written
    <2>3. /\ acl' = [acl EXCEPT ![op[o].id] = WrittenAcl(Deny)]
          /\ UNCHANGED secret
      BY <1>4 DEF CreateAcl
    <2>4. \A i \in Ids : i # op[o].id => known'[i] = known[i]
      BY <1>4, <1>t DEF CreateAcl, Disclose
    <2> QED
      BY <2>1, <2>2, <2>3, <2>4, <1>t, <1>w DEF Ends
  <1>5. CASE ProvisionAcl(o) \/ UpdateAcl(o)
    <2>1. /\ OnlyOp(o) /\ op[o].step # "restore_acl"
          /\ op'[o].step = "prov_index" => op'[o].id = op[o].id
      BY <1>5, Steps DEF Goes, Ends
    <2>2. /\ WrittenAcl(op[o].app) \in AclRecord
          /\ WrittenAcl(op[o].app).app = Deny \/ WrittenAcl(op[o].app).at = minted
      BY <1>t, Written
    <2>3. /\ acl' = [acl EXCEPT ![op[o].id] = WrittenAcl(op[o].app)]
          /\ UNCHANGED <<secret, known, minted>>
      BY <1>5 DEF ProvisionAcl, UpdateAcl, histVars
    <2> QED
      BY <2>1, <2>2, <2>3, <1>t, <1>w
  <1>6. CASE RevokeAcl(o)
    <2>1. Goes(o, "revoke_acl", "revoke_index", op[o].app, op[o].secret)
      BY <1>6, Steps
    <2>2. acl' = [acl EXCEPT ![op[o].id] = NoAcl] /\ UNCHANGED <<secret, known>>
      BY <1>6 DEF RevokeAcl, histVars
    <2> QED
      BY <2>1, <2>2, Idle, <1>t, <1>w DEF Goes
  <1>7. CASE ProvisionIndex(o)
    <2>1. Ends(o, "prov_index")
      BY <1>7, Steps
    <2>2. UNCHANGED <<secret, acl, files>>
      BY <1>7 DEF ProvisionIndex
    <2>3. \A i \in Ids : known'[i] \subseteq known[i] \cup
            (IF i = op[o].id THEN {op[o].secret} ELSE {})
      BY <1>7, <1>t DEF ProvisionIndex, Disclose
    <2>4. op[o].id \notin torn => Covers(op[o].id, op[o].secret)
      BY <2>1, <1>t DEF Ends, CoverInv, Acts
    <2>5. ASSUME NEW i \in Ids, i \notin torn', Current(i)'
          PROVE  Current(i) \/ Covers(i, secret[i])'
      <3>1. i \notin torn /\ ~AtRestore(i)
        BY <2>1, <2>5, <1>r DEF Ends, OnlyOp, Current
      <3>2. CASE secret[i] \in known[i]
        BY <3>1, <3>2 DEF Current
      <3>3. CASE secret[i] \notin known[i]
        <4>1. i = op[o].id /\ secret[i] = op[o].secret
          BY <2>2, <2>3, <2>5, <3>3 DEF Current
        <4> QED
          BY <2>2, <2>4, <3>1, <4>1 DEF Covers, Meant
      <3> QED
        BY <3>2, <3>3
    <2> QED
      BY <2>1, <2>2, <2>5, <1>k DEF Ends
  <1>8. CASE BackupAcl(o)
    <2>1. Ends(o, "backup_acl")
      BY <1>8, Steps
    <2>2. UNCHANGED <<secret, acl>>
      BY <1>8 DEF BackupAcl, recVars
    <2>3. CASE op[o].secret = 0
      BY <1>8, <2>1, <2>2, <2>3, <1>q DEF BackupAcl, Ends
    <2>4. CASE op[o].secret # 0
      <3>1. /\ files' = files \cup {[id |-> op[o].id, secret |-> op[o].secret,
                                     app |-> acl[op[o].id].app, at |-> acl[op[o].id].at]}
            /\ Disclose(op[o].id, op[o].secret)
        BY <1>8, <2>4 DEF BackupAcl
      <3>2. \A i \in Ids : known'[i] \subseteq known[i] \cup
              (IF i = op[o].id THEN {op[o].secret} ELSE {})
        BY <3>1, <1>t DEF Disclose
      <3>3. [id |-> op[o].id, secret |-> op[o].secret, app |-> acl[op[o].id].app,
             at |-> acl[op[o].id].at] \in files'
        BY <3>1
      <3>4. ASSUME NEW i \in Ids, Current(i)'
            PROVE  Current(i) \/ Covers(i, secret[i])'
        <4>1. ~AtRestore(i)
          BY <2>1, <3>4, <1>r DEF Ends, Current
        <4>2. CASE secret[i] \in known[i]
          BY <4>1, <4>2 DEF Current
        <4>3. CASE secret[i] \notin known[i]
          <5>1. i = op[o].id /\ secret[i] = op[o].secret
            BY <2>2, <3>2, <3>4, <4>3 DEF Current
          <5> QED
            BY <2>2, <3>3, <5>1 DEF Covers, Meant
        <4> QED
          BY <4>2, <4>3
      <3> QED
        BY <2>1, <2>2, <3>4, <1>k DEF Ends
    <2> QED
      BY <2>3, <2>4
  <1>9. CASE RestoreSecret(o)
    <2>1. Goes(o, "restore_secret", "restore_acl", op[o].app, op[o].secret)
      BY <1>9, Steps
    <2>2. secret' = [secret EXCEPT ![op[o].id] = op[o].secret] /\ UNCHANGED <<acl, known>>
      BY <1>9 DEF RestoreSecret
    <2>3. op'[o].step = "restore_acl" /\ op'[o].id = op[o].id
      BY <2>1 DEF Goes
    <2>4. ASSUME NEW i \in Ids, Current(i)' PROVE Current(i) /\ secret'[i] = secret[i]
      <3>1. i # op[o].id
        BY <2>3, <2>4 DEF Current, AtRestore
      <3>2. secret'[i] = secret[i]
        BY <2>2, <3>1, <1>t
      <3> QED
        BY <2>1, <2>2, <2>4, <3>2, <1>r DEF Goes, Current
    <2> QED
      BY <2>1, <2>2, <2>4, <1>k DEF Goes
  <1>10. CASE RestoreAcl(o)
    <2> DEFINE a == [there |-> TRUE, app |-> op[o].app, at |-> op[o].at]
               j == op[o].id
    <2>1. Ends(o, "restore_acl") /\ torn' = torn
      BY <1>10, Steps
    <2>2. acl' = [acl EXCEPT ![j] = a] /\ UNCHANGED <<secret, known, files>>
      BY <1>10 DEF RestoreAcl, histVars
    <2>3. op[o].step \in Restores /\ op[o].step = "restore_acl"
      BY <2>1 DEF Ends, Restores
    <2>4. FileOf(o) \in files
      BY <2>3 DEF BoundInv
    <2> SUFFICES ASSUME NEW i \in Ids, i \notin torn', NEW s \in Nat, Acts(i, s)'
                 PROVE  Covers(i, s)'
      BY DEF CoverInv
    <2>5. CASE i = j
      <3>1. /\ \A p \in Operators : p # o /\ op[p].step # "idle" => op[p].id # j
            /\ \A d \in Devices : req[d].step # "idle" => req[d].id # j
            /\ secret[j] = op[o].secret
        BY <2>1, <2>3, <2>5 DEF LoneInv, LoneOf
      <3>2. s = secret[j]
        <4>1. CASE Current(i)' /\ s = secret'[i]
          BY <2>2, <2>5, <4>1
        <4>2. ASSUME NEW p \in Operators, op'[p].step = "prov_index", op'[p].id = i PROVE FALSE
          <5>1. p # o /\ op'[p] = op[p]
            BY <2>1, <4>2 DEF Ends, OnlyOp
          <5> QED
            BY <2>5, <3>1, <4>2, <5>1
        <4>3. ASSUME NEW d \in Devices, req'[d].step = "acl", req'[d].id = i PROVE FALSE
          BY <2>5, <3>1, <4>3, <1>t
        <4> QED
          BY <4>1, <4>2, <4>3 DEF Acts
      <3>3. acl'[j] = a
        BY <2>2, <1>t
      <3>4. [id |-> i, secret |-> s, app |-> acl'[i].app, at |-> acl'[i].at] \in files'
        BY <2>2, <2>4, <2>5, <3>1, <3>2, <3>3 DEF FileOf
      <3> QED
        BY <3>4 DEF Covers, Meant
    <2>6. CASE i # j
      <3>1. acl'[i] = acl[i]
        BY <2>2, <2>6, <1>t
      <3>2. Current(i)' => Current(i)
        BY <2>1, <2>2, <2>6, <1>r DEF Current, Ends
      <3>3. ASSUME NEW p \in Operators, op'[p].step = "prov_index" PROVE op'[p] = op[p]
        BY <2>1, <3>3 DEF Ends, OnlyOp
      <3>4. Acts(i, s)
        BY <2>2, <3>2, <3>3, <1>t DEF Acts
      <3> QED
        BY <2>1, <2>2, <3>1, <3>4 DEF CoverInv, Covers, Meant
    <2> QED
      BY <2>5, <2>6
  <1>11. CASE AbortOp(o)
    <2>1. /\ Ends(o, op[o].step) /\ UNCHANGED <<secret, acl, known>>
          /\ op[o].step = "restore_acl" => op[o].id \in torn'
      BY <1>11, Steps, AbortedOp DEF AbortOp, recVars, histVars
    <2>2. ASSUME NEW i \in Ids, i \notin torn', Current(i)' PROVE Current(i)
      BY <2>1, <2>2, <1>r DEF Ends, Current
    <2> QED
      BY <2>1, <2>2, <1>k DEF Ends
  <1>12. ASSUME NEW i \in Ids, NEW a \in Apps \cup {Deny},
                \/ LookupMiss(o, i) \/ BackupKeys(o, i) \/ UpdateCheck(o, i, a)
                \/ a # Deny /\ ProvisionCheck(o, i, a)
         PROVE  CoverInv'
    <2>1. OnlyOp(o) /\ op[o].step # "restore_acl" /\ op'[o].step # "prov_index"
      BY <1>12, Steps DEF Begins
    <2>2. UNCHANGED <<acl, secret, known>>
      BY <1>12 DEF LookupMiss, BackupKeys, ProvisionCheck, UpdateCheck, recVars, histVars
    <2> QED
      BY <2>1, <2>2, <1>q
  <1>14. ASSUME NEW f \in files, NEW force \in BOOLEAN, RestoreCheck(o, f, force) PROVE CoverInv'
    <2>1. OnlyOp(o) /\ op[o].step # "restore_acl" /\ op'[o].step # "prov_index"
      BY <1>14, Steps DEF Begins
    <2>2. UNCHANGED <<acl, secret, known>>
      BY <1>14 DEF RestoreCheck, recVars
    <2> QED
      BY <2>1, <2>2, <1>q
  <1>13. CASE RevokeIndex(o) \/ Scan(o) \/ Backfill(o) \/ BackupSecret(o)
    <2>1. OnlyOp(o) /\ op[o].step # "restore_acl" /\ op'[o].step # "prov_index"
      BY <1>13, Steps DEF Ends, Goes
    <2>2. UNCHANGED <<acl, secret, known>>
      BY <1>13 DEF RevokeIndex, Scan, Backfill, BackupSecret, recVars, histVars
    <2> QED
      BY <2>1, <2>2, <1>q
  <1> QED
    <2>1. ASSUME NEW i \in Ids, \/ CreateSecret(o, i) \/ RevokeSecret(o, i)
                                \/ LookupMiss(o, i) \/ BackupKeys(o, i)
                                \/ \E a \in Apps : ProvisionCheck(o, i, a)
                                \/ \E a \in Apps \cup {Deny} : UpdateCheck(o, i, a)
          PROVE  CoverInv'
      BY <2>1, <1>1, <1>2, <1>12, RegistryAssumption
    <2>2. CASE CreateAcl(o) \/ ProvisionSecret(o) \/ ProvisionAcl(o) \/ ProvisionIndex(o)
               \/ UpdateAcl(o) \/ RevokeAcl(o) \/ RevokeIndex(o) \/ Scan(o) \/ Backfill(o)
      BY <2>2, <1>3, <1>4, <1>5, <1>6, <1>7, <1>13
    <2>3. CASE BackupSecret(o) \/ BackupAcl(o) \/ RestoreSecret(o) \/ RestoreAcl(o) \/ AbortOp(o)
      BY <2>3, <1>8, <1>9, <1>10, <1>11, <1>13
    <2> QED
      BY <2>1, <2>2, <2>3, <1>14 DEF Admin

(* The ACL a device's request reads is one that its secret is meant for.   *)
MeantOf(d) == Meant(req[d].id, req[d].secret, req[d].acl)
LEMMA NextCover ==
  TypeOK /\ BoundInv /\ LoneInv /\ CoverInv /\ NoInheritedAcl /\ [Next]_vars
    => CoverInv' /\ NoInheritedAcl'
  <1> SUFFICES ASSUME TypeOK, BoundInv, LoneInv, CoverInv, NoInheritedAcl, [Next]_vars
               PROVE  CoverInv' /\ NoInheritedAcl'
    OBVIOUS
  <1>1. ASSUME UNCHANGED <<secret, acl, minted, files, op, req, known, torn>>
        PROVE  CoverInv' /\ NoInheritedAcl'
    BY <1>1 DEF CoverInv, Acts, Current, AtRestore, Covers, Meant, NoInheritedAcl
  <1>2. ASSUME NEW o \in Operators, Admin(o) PROVE CoverInv' /\ NoInheritedAcl'
    <2>1. UNCHANGED req /\ files \subseteq files'
      BY <1>2, AdminKnown, AdminReq
    <2>2. torn \subseteq torn'
      BY <1>2, Steps DEF Admin, Begins, Goes, Ends, OnlyOp
    <2>3. NoInheritedAcl'
      BY <2>1, <2>2 DEF NoInheritedAcl, Meant
    <2> QED
      BY <1>2, <2>3, AdminCover
  <1>3. ASSUME NEW d \in Devices, Device(d) PROVE CoverInv' /\ NoInheritedAcl'
    <2>1. UNCHANGED <<secret, acl, files, op, known>> /\ torn \subseteq torn'
      BY <1>3, DeviceRest
    <2>2. DeviceStep(d) /\ \A e \in Devices : e # d => req'[e] = req[e]
      BY <1>3, DeviceSteps
    <2>3. \A i \in Ids : Current(i)' <=> Current(i)
      BY <2>1 DEF Current, AtRestore
    <2>4. ASSUME NEW i \in Ids, i \notin torn', NEW s \in Nat, Acts(i, s)' PROVE Covers(i, s)'
      <3>1. i \notin torn /\ (Covers(i, s) => Covers(i, s)')
        BY <2>1, <2>4 DEF Covers, Meant
      <3>2. CASE Acts(i, s)
        BY <3>1, <3>2 DEF CoverInv
      <3>3. CASE ~Acts(i, s)
        <4>1. req'[d].step = "acl" /\ req'[d].id = i /\ req'[d].secret = s
          BY <2>1, <2>2, <2>3, <2>4, <3>3 DEF Acts
        <4>2. s \in known[i] /\ secret[i] = s /\ ~Restoring(i)
          BY <2>2, <2>4, <4>1 DEF DeviceStep
        <4>3. Current(i)
          BY <4>2 DEF Current, AtRestore, Restoring
        <4> QED
          BY <3>3, <4>2, <4>3 DEF Acts
      <3> QED
        BY <3>2, <3>3
    <2>5. ASSUME NEW e \in Devices, req'[e].step = "granted", req'[e].id \notin torn'
          PROVE  MeantOf(e)'
      <3>1. CASE e # d
        BY <2>1, <2>2, <2>5, <3>1 DEF NoInheritedAcl, MeantOf, Meant
      <3>2. CASE e = d
        <4>1. /\ req[d].step = "acl" /\ req'[d].id = req[d].id /\ req'[d].secret = req[d].secret
              /\ req'[d].acl = acl[req[d].id] /\ acl[req[d].id].app # Deny
          BY <2>2, <2>5, <3>2 DEF DeviceStep
        <4>2. req[d].id \in Ids /\ req[d].secret \in Nat /\ req[d].id \notin torn
          BY <2>1, <2>5, <3>2, <4>1 DEF TypeOK, Req
        <4>3. Covers(req[d].id, req[d].secret)
          BY <4>1, <4>2 DEF CoverInv, Acts
        <4> QED
          BY <2>1, <3>2, <4>1, <4>3 DEF Covers, MeantOf, Meant
      <3> QED
        BY <3>1, <3>2
    <2> QED
      BY <2>4, <2>5 DEF CoverInv, NoInheritedAcl, MeantOf
  <1> QED
    BY <1>1, <1>2, <1>3, KvType DEF Next, vars, recVars, histVars, overVars

(* A request is never served under the permissions of an earlier holder of *)
(* its id, however many requests run at once and break off wherever, but   *)
(* for ids a restore was torn over.                                        *)
THEOREM NothingInherited == Spec => []NoInheritedAcl
  <1>1. Init => BoundInv /\ LoneInv /\ CoverInv /\ NoInheritedAcl
    BY Idle DEF Init, BoundInv, Fresh, Restores, LoneInv, LoneOf, CoverInv, Acts, Current,
                Covers, NoInheritedAcl
  <1> QED
    BY <1>1, NextBound, NextLone, NextCover, TypeCorrect, PTL DEF Spec

---------------------------------------------------------------------------
(* One request at a time about an id                                       *)

Alone ==
  \A o, p \in Operators :
    op[o].step # "idle" /\ op[p].step # "idle" /\ op[o].id = op[p].id /\ op[o].id \notin raced
      => o = p

LEMMA AdminAlone ==
  ASSUME TypeOK, Alone, NEW o \in Operators, Admin(o)
  PROVE  Alone'
  <1>1. ASSUME NEW step, NEW i, NEW app, NEW s, Begins(o, step, i, app, s) PROVE Alone'
    BY <1>1 DEF Alone, Begins, OnlyOp
  <1>2. ASSUME NEW from, NEW to, NEW app, NEW s, Goes(o, from, to, app, s), from # "idle"
        PROVE  Alone'
    BY <1>2 DEF Alone, Goes, OnlyOp
  <1>3. ASSUME NEW from, Ends(o, from) PROVE Alone'
    BY <1>3 DEF Alone, Ends, OnlyOp
  <1>4. ASSUME NEW i \in Ids, \/ CreateSecret(o, i) \/ RevokeSecret(o, i)
                              \/ LookupMiss(o, i) \/ BackupKeys(o, i)
                              \/ \E a \in Apps : ProvisionCheck(o, i, a)
                              \/ \E a \in Apps \cup {Deny} : UpdateCheck(o, i, a)
        PROVE  Alone'
    BY <1>4, Steps, <1>1
  <1>5. CASE ProvisionSecret(o) \/ ProvisionAcl(o) \/ RevokeAcl(o) \/ BackupSecret(o)
             \/ RestoreSecret(o)
    BY <1>5, Steps, <1>2
  <1>6. CASE CreateAcl(o) \/ ProvisionIndex(o) \/ UpdateAcl(o) \/ RevokeIndex(o) \/ Backfill(o)
             \/ BackupAcl(o) \/ RestoreAcl(o) \/ AbortOp(o)
    BY <1>6, Steps, <1>3
  <1>7. CASE Scan(o)
    BY <1>7, Steps, <1>2, <1>3
  <1>8. CASE \E f \in files, force \in BOOLEAN : RestoreCheck(o, f, force)
    BY <1>8, Steps, <1>1
  <1> QED
    BY <1>4, <1>5, <1>6, <1>7, <1>8 DEF Admin

LEMMA NextAlone == TypeOK /\ Alone /\ [Next]_vars => Alone'
  <1> SUFFICES ASSUME TypeOK, Alone, [Next]_vars PROVE Alone'
    OBVIOUS
  <1>1. ASSUME NEW d \in Devices, Device(d) PROVE Alone'
    BY <1>1, DeviceRest DEF Alone
  <1>2. CASE UNCHANGED vars
    BY <1>2 DEF vars, overVars, Alone
  <1>3. ASSUME NEW a \in Apps, NEW i \in Ids, AdminKv(a, i) PROVE Alone'
    BY <1>3, KvType DEF Alone
  <1> QED
    BY <1>1, <1>2, <1>3, AdminAlone DEF Next

---------------------------------------------------------------------------
(* Secrets that were handed out                                            *)

(* What the one request about an id knows of its secret.                   *)
SeenOf(o) ==
  op[o].id \notin raced =>
    /\ op[o].step = "prov_secret" => secret[op[o].id] = 0
    /\ op[o].step = "create_acl" => secret[op[o].id] = op[o].secret
    /\ op[o].step \in {"prov_acl", "prov_index"} /\ op[o].secret # 0
         => secret[op[o].id] = op[o].secret
    /\ op[o].step = "backup_acl" => secret[op[o].id] = op[o].secret

SecretInv ==
  /\ \A i \in Ids : 0 \notin promised[i]
  /\ HandedSecretsWork
  /\ \A o \in Operators : SeenOf(o) /\ (op[o].step = "create_acl" => op[o].secret # 0)

LEMMA AdminSecret ==
  ASSUME TypeOK, Alone, SecretInv, NEW o \in Operators, Admin(o)
  PROVE  SecretInv'
  <1>t. /\ op[o].id \in Ids /\ op[o].secret \in Nat /\ minted \in Nat
        /\ secret \in [Ids -> Nat] /\ promised \in [Ids -> SUBSET Nat]
        /\ \A p \in Operators : op[p].id \in Ids
    BY OpFields DEF TypeOK
  (* One id may get another secret, or lose or gain a promise; no other    *)
  (* request is about it, unless it is raced.                              *)
  <1>g. ASSUME OnlyOp(o), NEW i \in Ids,
               \A j \in Ids : j # i => secret'[j] = secret[j] /\ promised'[j] = promised[j],
               i \notin raced' => \A p \in Operators : p # o /\ op[p].step # "idle" => op[p].id # i,
               0 \notin promised'[i],
               i \notin raced' => promised'[i] \subseteq {secret'[i]},
               SeenOf(o)', op'[o].step = "create_acl" => op'[o].secret # 0
        PROVE  SecretInv'
    <2>1. \A j \in Ids : 0 \notin promised'[j]
      BY <1>g DEF SecretInv
    <2>2. HandedSecretsWork'
      BY <1>g DEF SecretInv, HandedSecretsWork, OnlyOp
    <2>3. ASSUME NEW p \in Operators
          PROVE  SeenOf(p)' /\ (op'[p].step = "create_acl" => op'[p].secret # 0)
      <3>1. CASE p = o
        BY <3>1, <1>g
      <3>2. CASE p # o
        <4>1. op'[p] = op[p] /\ raced \subseteq raced'
          BY <3>2, <1>g DEF OnlyOp
        <4>2. op[p].step # "idle" /\ op[p].id \notin raced' => secret'[op[p].id] = secret[op[p].id]
          BY <3>2, <1>g, <1>t
        <4> QED
          BY <4>1, <4>2 DEF SecretInv, SeenOf
      <3> QED
        BY <3>1, <3>2
    <2> QED
      BY <2>1, <2>2, <2>3 DEF SecretInv
  (* A request that leaves secrets and promises alone.                     *)
  <1>k. ASSUME OnlyOp(o), UNCHANGED <<secret, promised>>, SeenOf(o)', op'[o].step # "create_acl"
        PROVE  SecretInv'
    <2>1. HandedSecretsWork'
      BY <1>k DEF SecretInv, HandedSecretsWork, OnlyOp
    <2>2. ASSUME NEW p \in Operators
          PROVE  SeenOf(p)' /\ (op'[p].step = "create_acl" => op'[p].secret # 0)
      <3>1. CASE p = o
        BY <3>1, <1>k
      <3>2. CASE p # o
        <4>1. op'[p] = op[p] /\ raced \subseteq raced'
          BY <3>2, <1>k DEF OnlyOp
        <4> QED
          BY <4>1, <1>k DEF SecretInv, SeenOf
      <3> QED
        BY <3>1, <3>2
    <2> QED
      BY <1>k, <2>1, <2>2 DEF SecretInv
  <1>o. op[o].step # "idle" /\ op[o].id \notin raced =>
          \A p \in Operators : p # o /\ op[p].step # "idle" => op[p].id # op[o].id
    BY DEF Alone
  <1>1. ASSUME NEW i \in Ids, CreateSecret(o, i) PROVE SecretInv'
    <2>1. Begins(o, "create_acl", i, Deny, minted + 1)
      BY <1>1, Steps
    <2>2. /\ secret' = [secret EXCEPT ![i] = minted + 1] /\ promised' = [promised EXCEPT ![i] = {}]
      BY <1>1 DEF CreateSecret
    <2>3. secret'[i] = minted + 1 /\ promised'[i] = {} /\ minted + 1 # 0
      BY <2>2, <1>t
    <2>4. \A j \in Ids : j # i => secret'[j] = secret[j] /\ promised'[j] = promised[j]
      BY <2>2, <1>t
    <2>5. SeenOf(o)'
      BY <2>1, <2>3 DEF SeenOf, Begins
    <2> QED
      BY <2>1, <2>3, <2>4, <2>5, <1>g DEF Begins
  <1>2. CASE CreateAcl(o)
    <2>1. Ends(o, "create_acl")
      BY <1>2, Steps
    <2>2. /\ UNCHANGED secret
          /\ promised' = [promised EXCEPT ![op[o].id] = @ \cup {op[o].secret}]
      BY <1>2 DEF CreateAcl, Disclose
    <2>3. op[o].id \notin raced => secret[op[o].id] = op[o].secret
      BY <2>1 DEF Ends, SecretInv, SeenOf
    <2>4. op[o].secret # 0 /\ op[o].step # "idle"
      BY <2>1 DEF Ends, SecretInv
    <2>5. SeenOf(o)'
      BY <2>1 DEF SeenOf, Ends
    <2>6. promised'[op[o].id] = promised[op[o].id] \cup {op[o].secret}
      BY <2>2, <1>t
    <2>7. \A j \in Ids : j # op[o].id => promised'[j] = promised[j]
      BY <2>2, <1>t
    <2> QED
      BY <2>1, <2>2, <2>3, <2>4, <2>5, <2>6, <2>7, <1>g, <1>o, <1>t
         DEF Ends, SecretInv, HandedSecretsWork
  <1>3. ASSUME NEW i \in Ids, NEW a \in Apps, ProvisionCheck(o, i, a) PROVE SecretInv'
    <2>1. Begins(o, IF secret[i] = 0 THEN "prov_secret" ELSE "prov_acl", i, a, 0)
      BY <1>3, Steps
    <2>2. UNCHANGED <<secret, promised>>
      BY <1>3 DEF ProvisionCheck, recVars
    <2>3. SeenOf(o)'
      BY <2>1, <2>2 DEF SeenOf, Begins
    <2> QED
      BY <2>1, <2>2, <2>3, <1>k DEF Begins
  <1>4. CASE ProvisionSecret(o)
    <2>1. Goes(o, "prov_secret", "prov_acl", op[o].app, minted + 1)
      BY <1>4, Steps
    <2>2. secret' = [secret EXCEPT ![op[o].id] = minted + 1] /\ UNCHANGED promised
      BY <1>4 DEF ProvisionSecret, histVars
    <2>3. /\ secret'[op[o].id] = minted + 1
          /\ \A j \in Ids : j # op[o].id => secret'[j] = secret[j]
      BY <2>2, <1>t
    <2>4. op[o].id \notin raced => promised[op[o].id] = {}
      <3>1. op[o].id \notin raced => secret[op[o].id] = 0
        BY <2>1 DEF Goes, SecretInv, SeenOf
      <3> QED
        BY <3>1, <1>t DEF SecretInv, HandedSecretsWork
    <2>5. SeenOf(o)'
      BY <2>1, <2>3 DEF SeenOf, Goes
    <2>6. op[o].step # "idle"
      BY <2>1 DEF Goes
    <2> QED
      BY <2>1, <2>2, <2>3, <2>4, <2>5, <2>6, <1>g, <1>o, <1>t DEF Goes, SecretInv
  <1>5. CASE ProvisionAcl(o)
    <2>1. Goes(o, "prov_acl", "prov_index", op[o].app, op[o].secret)
      BY <1>5, Steps
    <2>2. UNCHANGED <<secret, promised>>
      BY <1>5 DEF ProvisionAcl, histVars
    <2>3. SeenOf(o)'
      BY <2>1, <2>2 DEF SeenOf, Goes, SecretInv
    <2> QED
      BY <2>1, <2>2, <2>3, <1>k DEF Goes
  <1>6. CASE ProvisionIndex(o)
    <2>1. Ends(o, "prov_index")
      BY <1>6, Steps
    <2>2. SeenOf(o)' /\ op'[o].step # "create_acl"
      BY <2>1 DEF SeenOf, Ends
    <2>3. CASE op[o].secret = 0
      BY <1>6, <2>1, <2>2, <2>3, <1>k DEF Ends, ProvisionIndex
    <2>4. CASE op[o].secret # 0
      <3>1. /\ UNCHANGED secret
            /\ promised' = [promised EXCEPT ![op[o].id] = @ \cup {op[o].secret}]
        BY <1>6, <2>4 DEF ProvisionIndex, Disclose
      <3>2. op[o].id \notin raced => secret[op[o].id] = op[o].secret
        BY <2>1, <2>4 DEF Ends, SecretInv, SeenOf
      <3>3. op[o].step # "idle"
        BY <2>1 DEF Ends
      <3>4. promised'[op[o].id] = promised[op[o].id] \cup {op[o].secret}
        BY <3>1, <1>t
      <3>5. \A j \in Ids : j # op[o].id => promised'[j] = promised[j]
        BY <3>1, <1>t
      <3> QED
        BY <2>1, <2>2, <2>4, <3>1, <3>2, <3>3, <3>4, <3>5, <1>g, <1>o, <1>t
           DEF Ends, SecretInv, HandedSecretsWork
    <2> QED
      BY <2>3, <2>4
  <1>7. ASSUME NEW i \in Ids, RevokeSecret(o, i) PROVE SecretInv'
    <2>1. Begins(o, "revoke_acl", i, Deny, 0)
      BY <1>7, Steps
    <2>2. secret' = [secret EXCEPT ![i] = 0] /\ promised' = [promised EXCEPT ![i] = {}]
      BY <1>7 DEF RevokeSecret
    <2>3. /\ promised'[i] = {}
          /\ \A j \in Ids : j # i => secret'[j] = secret[j] /\ promised'[j] = promised[j]
      BY <2>2, <1>t
    <2>4. SeenOf(o)'
      BY <2>1 DEF SeenOf, Begins
    <2> QED
      BY <2>1, <2>3, <2>4, <1>g DEF Begins
  <1>8. CASE RestoreSecret(o)
    <2>1. Goes(o, "restore_secret", "restore_acl", op[o].app, op[o].secret)
      BY <1>8, Steps
    <2>2. /\ secret' = [secret EXCEPT ![op[o].id] = op[o].secret]
          /\ promised' = [promised EXCEPT ![op[o].id] = {}]
      BY <1>8 DEF RestoreSecret
    <2>3. /\ promised'[op[o].id] = {}
          /\ \A j \in Ids : j # op[o].id => secret'[j] = secret[j] /\ promised'[j] = promised[j]
      BY <2>2, <1>t
    <2>4. SeenOf(o)' /\ op[o].step # "idle" /\ op'[o].step # "create_acl"
      BY <2>1 DEF SeenOf, Goes
    <2> QED
      BY <2>1, <2>3, <2>4, <1>g, <1>o, <1>t DEF Goes
  <1>9. CASE \/ \E i \in Ids : \/ LookupMiss(o, i) \/ BackupKeys(o, i)
                              \/ \E a \in Apps \cup {Deny} : UpdateCheck(o, i, a)
             \/ \E f \in files, force \in BOOLEAN : RestoreCheck(o, f, force)
    <2>1. OnlyOp(o) /\ op'[o].step \in {"update_acl", "scan", "backup_secret", "restore_secret"}
      BY <1>9, Steps DEF Begins
    <2>2. SeenOf(o)'
      BY <2>1 DEF SeenOf
    <2> QED
      BY <1>9, <2>1, <2>2, <1>k
         DEF UpdateCheck, LookupMiss, BackupKeys, RestoreCheck, recVars, histVars
  <1>10. CASE UpdateAcl(o) \/ RevokeAcl(o) \/ RevokeIndex(o) \/ Scan(o) \/ Backfill(o)
              \/ RestoreAcl(o) \/ AbortOp(o)
    <2>1. OnlyOp(o) /\ op'[o].step \in {"idle", "revoke_index", "backfill"}
      BY <1>10, Steps DEF Ends, Goes
    <2>2. SeenOf(o)'
      BY <2>1 DEF SeenOf
    <2>3. UNCHANGED <<secret, promised>>
      BY <1>10 DEF UpdateAcl, RevokeAcl, RevokeIndex, Scan, Backfill, RestoreAcl, AbortOp,
                   recVars, histVars
    <2> QED
      BY <2>1, <2>2, <2>3, <1>k
  <1>11. CASE BackupSecret(o)
    <2>1. Goes(o, "backup_secret", "backup_acl", op[o].app, secret[op[o].id])
      BY <1>11, Steps
    <2>2. UNCHANGED <<secret, promised>>
      BY <1>11 DEF BackupSecret, recVars, histVars
    <2>3. SeenOf(o)'
      BY <2>1, <2>2 DEF SeenOf, Goes
    <2> QED
      BY <2>1, <2>2, <2>3, <1>k DEF Goes
  <1>12. CASE BackupAcl(o)
    <2>1. Ends(o, "backup_acl")
      BY <1>12, Steps
    <2>2. SeenOf(o)' /\ op'[o].step # "create_acl" /\ op[o].step # "idle"
      BY <2>1 DEF SeenOf, Ends
    <2>3. UNCHANGED secret
      BY <1>12 DEF BackupAcl, recVars
    <2>4. CASE op[o].secret = 0
      BY <1>12, <2>1, <2>2, <2>3, <2>4, <1>k DEF Ends, BackupAcl
    <2>5. CASE op[o].secret # 0
      <3>1. promised' = [promised EXCEPT ![op[o].id] = @ \cup {op[o].secret}]
        BY <1>12, <2>5 DEF BackupAcl, Disclose
      <3>2. op[o].id \notin raced => secret[op[o].id] = op[o].secret
        BY <2>1 DEF Ends, SecretInv, SeenOf
      <3>3. promised'[op[o].id] = promised[op[o].id] \cup {op[o].secret}
        BY <3>1, <1>t
      <3>4. \A j \in Ids : j # op[o].id => promised'[j] = promised[j]
        BY <3>1, <1>t
      <3> QED
        BY <2>1, <2>2, <2>3, <2>5, <3>2, <3>3, <3>4, <1>g, <1>o, <1>t
           DEF Ends, SecretInv, HandedSecretsWork
    <2> QED
      BY <2>4, <2>5
  <1> QED
    BY <1>1, <1>2, <1>3, <1>4, <1>5, <1>6, <1>7, <1>8, <1>9, <1>10, <1>11, <1>12 DEF Admin

LEMMA NextSecret == TypeOK /\ Alone /\ SecretInv /\ [Next]_vars => SecretInv'
  <1> SUFFICES ASSUME TypeOK, Alone, SecretInv, [Next]_vars PROVE SecretInv'
    OBVIOUS
  <1>1. ASSUME UNCHANGED <<op, raced, secret, promised>> PROVE SecretInv'
    BY <1>1 DEF SecretInv, HandedSecretsWork, SeenOf
  <1>2. ASSUME NEW d \in Devices, Device(d) PROVE SecretInv'
    BY <1>1, <1>2, DeviceRest
  <1> QED
    BY <1>1, <1>2, AdminSecret, KvType DEF Next, vars, recVars, histVars, overVars

(* A secret that was shown keeps working until something that is meant to  *)
(* end it, for every id no two requests were about at once.                *)
THEOREM SecretsLast == Spec => []HandedSecretsWork
  <1>1. Init => Alone /\ SecretInv
    BY Idle, RegistryAssumption DEF Init, Alone, SecretInv, HandedSecretsWork, SeenOf
  <1>2. SecretInv => HandedSecretsWork
    BY DEF SecretInv
  <1> QED
    BY <1>1, <1>2, NextAlone, NextSecret, TypeCorrect, PTL DEF Spec

---------------------------------------------------------------------------
(* Ids that were revoked                                                   *)

(* What a lookup of a revoked id found was left, and a client that is      *)
(* being provisioned is not gone.                                          *)
FoundOf(o) ==
  op[o].id \in gone \ raced =>
    /\ op[o].step = "backfill" => <<op[o].app, op[o].id>> \in left
    /\ op[o].step \notin {"prov_secret", "prov_acl", "prov_index"}

IndexInv ==
  /\ RevokedResolvesByRecord
  /\ \A i \in gone, a \in Apps : <<a, i>> \in data => <<a, i>> \in left
  /\ \A o \in Operators : FoundOf(o)

LEMMA AdminIndex ==
  ASSUME TypeOK, Alone, IndexInv, NEW o \in Operators, Admin(o)
  PROVE  IndexInv'
  <1>t. /\ op[o].id \in Ids /\ index \in [Ids -> Apps \cup {Deny}] /\ gone \subseteq Ids
        /\ gone' \subseteq Ids /\ UNCHANGED data
        /\ \A p \in Operators : op[p].id \in Ids /\ op[p].app \in Apps \cup {Deny}
    BY OpFields, AdminReq, AdminType DEF TypeOK
  (* What the step does to one id; nothing is forgotten of the others.     *)
  <1>g. ASSUME OnlyOp(o), NEW i \in Ids,
               \A j \in Ids : j # i => index'[j] = index[j] /\ (j \in gone' => j \in gone),
               \A j \in Ids, a \in Apps \cup {Deny} :
                 j # i /\ <<a, j>> \in left => <<a, j>> \in left',
               \/ i \notin gone'
               \/ op[o].step = "revoke_index" /\ i = op[o].id
               \/ i \in gone /\ \A a \in Apps \cup {Deny} : <<a, i>> \in left => <<a, i>> \in left',
               \A a \in Apps : i \in gone' /\ <<a, i>> \in data => <<a, i>> \in left',
               i \in gone' \ raced' /\ index'[i] # Deny => <<index'[i], i>> \in left',
               FoundOf(o)'
        PROVE  IndexInv'
    <2>1. ASSUME NEW j \in gone' \ raced', index'[j] # Deny PROVE <<index'[j], j>> \in left'
      <3>1. CASE j = i
        BY <1>g, <2>1, <3>1
      <3>2. CASE j # i
        <4>1. index'[j] = index[j] /\ j \in gone \ raced /\ j \in Ids
          BY <1>g, <1>t, <2>1, <3>2 DEF OnlyOp
        <4>2. <<index[j], j>> \in left /\ index[j] \in Apps \cup {Deny}
          BY <1>t, <2>1, <4>1 DEF IndexInv, RevokedResolvesByRecord
        <4> QED
          BY <1>g, <3>2, <4>1, <4>2
      <3> QED
        BY <3>1, <3>2
    <2>2. ASSUME NEW j \in gone', NEW a \in Apps, <<a, j>> \in data PROVE <<a, j>> \in left'
      BY <1>g, <1>t, <2>2 DEF IndexInv
    <2>3. ASSUME NEW p \in Operators, p # o PROVE FoundOf(p)'
      <3>1. op'[p] = op[p] /\ raced \subseteq raced'
        BY <2>3, <1>g DEF OnlyOp
      <3> SUFFICES ASSUME op[p].id \in gone' \ raced',
                          op[p].step \in {"backfill", "prov_secret", "prov_acl", "prov_index"}
                   PROVE  FoundOf(p)'
        BY <3>1 DEF FoundOf
      <3>2. ~(op[o].step = "revoke_index" /\ op[p].id = op[o].id)
        BY <2>3, <3>1 DEF Alone
      <3>3. op[p].id \in gone \ raced
        BY <1>g, <1>t, <3>1, <3>2
      <3>4. <<op[p].app, op[p].id>> \in left => <<op[p].app, op[p].id>> \in left'
        BY <1>g, <1>t, <3>2, <3>3
      <3> QED
        BY <3>1, <3>3, <3>4 DEF IndexInv, FoundOf
    <2> QED
      BY <2>1, <2>2, <2>3, <1>g, <1>t DEF IndexInv, RevokedResolvesByRecord
  (* A request that leaves the index alone and takes nobody for gone.      *)
  <1>k. ASSUME OnlyOp(o), UNCHANGED <<index, left>>, gone' \subseteq gone, FoundOf(o)' PROVE IndexInv'
    BY <1>k, <1>g, <1>t DEF IndexInv, RevokedResolvesByRecord, OnlyOp
  <1>1. ASSUME NEW i \in Ids, NEW a \in Apps, ProvisionCheck(o, i, a) PROVE IndexInv'
    <2>1. OnlyOp(o) /\ op'[o].id = i /\ op'[o].step \in {"prov_secret", "prov_acl"}
      BY <1>1, Steps DEF Begins
    <2>2. UNCHANGED <<index, left>> /\ gone' = gone \ {i}
      BY <1>1 DEF ProvisionCheck, recVars, dataVars
    <2>3. FoundOf(o)'
      BY <2>1, <2>2 DEF FoundOf
    <2> QED
      BY <2>1, <2>2, <2>3, <1>k
  <1>2. CASE ProvisionSecret(o) \/ ProvisionAcl(o)
    <2>1. /\ OnlyOp(o) /\ op'[o].id = op[o].id /\ raced' = raced
          /\ op[o].step \in {"prov_secret", "prov_acl"}
          /\ op'[o].step \in {"prov_acl", "prov_index"}
      BY <1>2, Steps DEF Goes
    <2>2. UNCHANGED <<index, gone, left>>
      BY <1>2 DEF ProvisionSecret, ProvisionAcl, histVars, dataVars
    <2>3. FoundOf(o)'
      BY <2>1, <2>2 DEF FoundOf, IndexInv
    <2> QED
      BY <2>1, <2>2, <2>3, <1>k
  <1>3. CASE ProvisionIndex(o)
    <2>1. Ends(o, "prov_index")
      BY <1>3, Steps
    <2>2. index' = [index EXCEPT ![op[o].id] = op[o].app] /\ UNCHANGED <<gone, left>>
      BY <1>3 DEF ProvisionIndex, dataVars
    <2>3. op[o].id \notin raced => op[o].id \notin gone
      BY <2>1 DEF Ends, FoundOf, IndexInv
    <2>4. FoundOf(o)'
      BY <2>1 DEF FoundOf, Ends
    <2>5. \A j \in Ids : j # op[o].id => index'[j] = index[j]
      BY <2>2, <1>t
    <2>6. \A a \in Apps : op[o].id \in gone /\ <<a, op[o].id>> \in data => <<a, op[o].id>> \in left
      BY DEF IndexInv
    <2> QED
      BY <2>1, <2>2, <2>3, <2>4, <2>5, <2>6, <1>g, <1>t DEF Ends
  <1>4. CASE RevokeIndex(o)
    <2>1. Ends(o, "revoke_index")
      BY <1>4, Steps
    <2>2. /\ index' = [index EXCEPT ![op[o].id] = Deny] /\ gone' = gone \cup {op[o].id}
          /\ left' = {r \in left : r[2] # op[o].id} \cup {r \in data : r[2] = op[o].id}
      BY <1>4 DEF RevokeIndex, Gone
    <2>3. FoundOf(o)'
      BY <2>1 DEF FoundOf, Ends
    <2>4. index'[op[o].id] = Deny /\ \A j \in Ids : j # op[o].id => index'[j] = index[j]
      BY <2>2, <1>t
    <2>5. /\ \A a \in Apps : <<a, op[o].id>> \in data => <<a, op[o].id>> \in left'
          /\ \A j \in Ids, a \in Apps \cup {Deny} :
               j # op[o].id /\ <<a, j>> \in left => <<a, j>> \in left'
      BY <2>2
    <2> QED
      BY <2>1, <2>2, <2>3, <2>4, <2>5, <1>g, <1>t DEF Ends
  <1>5. CASE Scan(o)
    <2>1. UNCHANGED <<index, gone, left>>
      BY <1>5 DEF Scan, recVars, histVars, dataVars
    <2>2. OnlyOp(o) /\ FoundOf(o)'
      <3>1. CASE Ends(o, "scan")
        BY <3>1 DEF FoundOf, Ends
      <3>2. ASSUME NEW a \in Apps, <<a, op[o].id>> \in data,
                   Goes(o, "scan", "backfill", a, op[o].secret)
            PROVE  OnlyOp(o) /\ FoundOf(o)'
        BY <3>2, <2>1, <1>t DEF FoundOf, Goes, IndexInv
      <3> QED
        BY <1>5, <3>1, <3>2, Steps
    <2> QED
      BY <2>1, <2>2, <1>k
  <1>6. CASE Backfill(o)
    <2>1. Ends(o, "backfill")
      BY <1>6, Steps
    <2>2. index' = [index EXCEPT ![op[o].id] = op[o].app] /\ UNCHANGED <<gone, left>>
      BY <1>6 DEF Backfill, histVars, dataVars
    <2>3. op[o].id \in gone \ raced => <<op[o].app, op[o].id>> \in left
      BY <2>1 DEF Ends, FoundOf, IndexInv
    <2>4. FoundOf(o)'
      BY <2>1 DEF FoundOf, Ends
    <2>5. index'[op[o].id] = op[o].app /\ \A j \in Ids : j # op[o].id => index'[j] = index[j]
      BY <2>2, <1>t
    <2>6. \A a \in Apps : op[o].id \in gone /\ <<a, op[o].id>> \in data => <<a, op[o].id>> \in left
      BY DEF IndexInv
    <2> QED
      BY <2>1, <2>2, <2>3, <2>4, <2>5, <2>6, <1>g, <1>t DEF Ends
  <1>7. CASE \/ \E i \in Ids : \/ CreateSecret(o, i) \/ RevokeSecret(o, i)
                               \/ LookupMiss(o, i) \/ BackupKeys(o, i)
                               \/ \E a \in Apps \cup {Deny} : UpdateCheck(o, i, a)
             \/ \E f \in files, force \in BOOLEAN : RestoreCheck(o, f, force)
    <2>1. /\ OnlyOp(o)
          /\ op'[o].step \in {"create_acl", "revoke_acl", "scan", "backup_secret", "update_acl",
                              "restore_secret"}
      BY <1>7, Steps DEF Begins
    <2>2. UNCHANGED <<index, left>> /\ gone' \subseteq gone
      BY <1>7 DEF CreateSecret, RevokeSecret, LookupMiss, BackupKeys, UpdateCheck, RestoreCheck,
                  recVars, histVars, dataVars
    <2>3. FoundOf(o)'
      BY <2>1 DEF FoundOf
    <2> QED
      BY <2>1, <2>2, <2>3, <1>k
  <1>8. CASE CreateAcl(o) \/ UpdateAcl(o) \/ RevokeAcl(o) \/ BackupSecret(o) \/ BackupAcl(o)
             \/ RestoreSecret(o) \/ RestoreAcl(o) \/ AbortOp(o)
    <2>1. OnlyOp(o) /\ op'[o].step \in {"idle", "revoke_index", "backup_acl", "restore_acl"}
      BY <1>8, Steps DEF Ends, Goes
    <2>2. UNCHANGED <<index, gone, left>>
      BY <1>8 DEF CreateAcl, UpdateAcl, RevokeAcl, BackupSecret, BackupAcl, RestoreSecret,
                  RestoreAcl, AbortOp, recVars, histVars, dataVars
    <2>3. FoundOf(o)'
      BY <2>1 DEF FoundOf
    <2> QED
      BY <2>1, <2>2, <2>3, <1>k
  <1> QED
    BY <1>1, <1>2, <1>3, <1>4, <1>5, <1>6, <1>7, <1>8 DEF Admin

LEMMA NextIndex == TypeOK /\ Alone /\ IndexInv /\ [Next]_vars => IndexInv'
  <1> SUFFICES ASSUME TypeOK, Alone, IndexInv, [Next]_vars PROVE IndexInv'
    OBVIOUS
  (* Records come and go, and what came is in left.                        *)
  <1>1. ASSUME UNCHANGED <<op, raced, index, gone>>, left \subseteq left',
               \A r \in data' : r \in data \/ r \in left'
        PROVE  IndexInv'
    BY <1>1 DEF IndexInv, RevokedResolvesByRecord, FoundOf
  <1>2. ASSUME NEW a, NEW i, Stored(a, i) \/ Deleted(a, i) \/ UNCHANGED dataVars
        PROVE  left \subseteq left' /\ \A r \in data' : r \in data \/ r \in left'
    BY <1>2 DEF Stored, Deleted, dataVars
  <1>3. ASSUME NEW d \in Devices, Device(d) PROVE IndexInv'
    <2>1. left \subseteq left' /\ \A r \in data' : r \in data \/ r \in left'
      <3>1. CASE Serve(d)
        BY <1>2, <3>1 DEF Serve
      <3>2. CASE ~Serve(d)
        BY <1>2, <1>3, <3>2 DEF Device, VerifySignature, FetchAcl, dataVars
      <3> QED
        BY <3>1, <3>2
    <2> QED
      BY <1>1, <1>3, <2>1, DeviceRest
  <1>4. ASSUME NEW a \in Apps, NEW i \in Ids, AdminKv(a, i) PROVE IndexInv'
    <2>1. left \subseteq left' /\ \A r \in data' : r \in data \/ r \in left'
      BY <1>2, <1>4 DEF AdminKv
    <2> QED
      BY <1>1, <1>4, <2>1, KvType
  <1>5. CASE UNCHANGED vars
    BY <1>1, <1>5 DEF vars, recVars, dataVars, histVars, overVars
  <1> QED
    BY <1>3, <1>4, <1>5, AdminIndex DEF Next

(* A revoked id resolves again only to an app under which it left a record *)
(* or got one since, unless requests about it overlapped.                  *)
THEOREM RevokedOnlyByRecord == Spec => []RevokedResolvesByRecord
  <1>1. Init => Alone /\ IndexInv
    BY Idle DEF Init, Alone, IndexInv, RevokedResolvesByRecord, FoundOf
  <1>2. IndexInv => RevokedResolvesByRecord
    BY DEF IndexInv
  <1> QED
    BY <1>1, <1>2, NextAlone, NextIndex, TypeCorrect, PTL DEF Spec
=============================================================================
