--------------------------- MODULE ClientRegistry ---------------------------
(***************************************************************************)
(* HMAC clients: client:<id>:secret, client:<id>:acl and the reverse index *)
(* device_to_app:<id>, as the superuser routes of routes_admin.py write    *)
(* them, lookup_device in routes_app.py completes them and                 *)
(* verify_device_request in dependencies.py reads them.                    *)
(*                                                                         *)
(* The three records of a client are never written together: every Redis   *)
(* command is a step, several operators and devices are served at once and *)
(* a request may be aborted at any await.  An ACL is the app whose         *)
(* namespace it opens (module Acl has the matching), secrets are numbered  *)
(* in the order they are generated, and an ACL remembers, for the history  *)
(* only, how many there were when an operator decided on it: a restore     *)
(* brings an ACL back as old as it was.                                    *)
(***************************************************************************)
EXTENDS Integers, FiniteSets

CONSTANTS
  Ids,        \* client ids, RESERVED_CLIENT_IDS left out
  Apps,
  Deny,       \* the ACL with no permissions; also "no app"
  Operators,  \* superuser requests served at once
  Devices,    \* device requests served at once
  MaxSecrets, \* bound: secrets generated
  MaxFiles    \* bound: no backup begins once there are that many

ASSUME RegistryAssumption ==
  /\ Ids # {} /\ Deny \notin Apps
  /\ MaxSecrets \in Nat /\ MaxFiles \in Nat

VARIABLES
  secret,   \* client:<id>:secret; 0 if missing
  acl,      \* client:<id>:acl
  index,    \* device_to_app:<id>; Deny if missing
  data,     \* the <<app, id>> with a record under kv:<app>/<id>/
  minted,   \* secrets generated so far
  files,    \* the key backups taken, each of one client
  op,       \* the superuser requests, and lookups
  req,      \* the device requests
  known,    \* secrets that were returned to an operator, by client
  promised, \* history: those no later create, revoke or restore put an end to
  gone,     \* history: clients revoked and not registered again
  left,     \* history: records there at, or since, an id's last revocation
  raced,    \* history: ids two superuser requests were ever about at once
  torn      \* history: ids of which a restore overlapped another request
            \* about them, or broke off half done

recVars == <<secret, acl, index>>
histVars == <<known, promised, gone>>
dataVars == <<data, left>>
overVars == <<raced, torn>>
vars == <<recVars, dataVars, minted, files, op, req, histVars, overVars>>

(* An ACL record: is it there, what it opens, and how many secrets there   *)
(* were when it was written (0 if it opens nothing).                       *)
NoAcl == [there |-> FALSE, app |-> Deny, at |-> 0]
WrittenAcl(app) == [there |-> TRUE, app |-> app, at |-> IF app = Deny THEN 0 ELSE minted]
AclRecord == [there : BOOLEAN, app : Apps \cup {Deny}, at : Nat]

OpSteps == {"idle", "create_acl", "prov_secret", "prov_acl", "prov_index", "update_acl",
            "revoke_acl", "revoke_index", "scan", "backfill", "backup_secret", "backup_acl",
            "restore_secret", "restore_acl"}
Op == [step : OpSteps, id : Ids, app : Apps \cup {Deny}, secret : Nat, at : Nat]
Req == [step : {"idle", "acl", "granted"}, id : Ids, secret : Nat, acl : AclRecord]
IdleOp == [step |-> "idle", id |-> CHOOSE i \in Ids : TRUE, app |-> Deny, secret |-> 0, at |-> 0]
IdleReq == [step |-> "idle", id |-> CHOOSE i \in Ids : TRUE, secret |-> 0, acl |-> NoAcl]
File == [id : Ids, secret : Nat, app : Apps \cup {Deny}, at : Nat]

Init ==
  /\ secret = [i \in Ids |-> 0]
  /\ acl = [i \in Ids |-> NoAcl]
  /\ index = [i \in Ids |-> Deny]
  /\ data = {} /\ minted = 0 /\ files = {}
  /\ op = [o \in Operators |-> IdleOp]
  /\ req = [d \in Devices |-> IdleReq]
  /\ known = [i \in Ids |-> {}]
  /\ promised = [i \in Ids |-> {}]
  /\ gone = {} /\ left = {}
  /\ raced = {} /\ torn = {}

Busy(i) == \E p \in Operators : op[p].step # "idle" /\ op[p].id = i
Asking(i) == \E d \in Devices : req[d].step # "idle" /\ req[d].id = i
Restoring(i) == \E p \in Operators : op[p].step \in {"restore_secret", "restore_acl"} /\ op[p].id = i

StartAs(o, new) ==
  /\ op[o].step = "idle"
  /\ op' = [op EXCEPT ![o] = new]
  /\ raced' = raced \cup (IF Busy(new.id) THEN {new.id} ELSE {})
  /\ torn' = torn \cup (IF \/ Restoring(new.id)
                           \/ new.step = "restore_secret" /\ (Busy(new.id) \/ Asking(new.id))
                         THEN {new.id} ELSE {})
Start(o, step, i, app, s) ==
  StartAs(o, [step |-> step, id |-> i, app |-> app, secret |-> s, at |-> 0])

Move(o, from, new) ==
  /\ op[o].step = from
  /\ op' = [op EXCEPT ![o] = new]
  /\ UNCHANGED overVars
Continue(o, from, to) == Move(o, from, [op[o] EXCEPT !.step = to])
Finish(o, from) == Move(o, from, IdleOp)

(* The response shows the secret to the operator, who gives it to a device. *)
Disclose(i, s) ==
  /\ known' = [known EXCEPT ![i] = @ \cup {s}]
  /\ promised' = [promised EXCEPT ![i] = @ \cup {s}]

---------------------------------------------------------------------------
(* POST /keys: a new secret and an empty ACL, over whatever was there.     *)

CreateSecret(o, i) ==
  /\ minted < MaxSecrets
  /\ minted' = minted + 1
  /\ secret' = [secret EXCEPT ![i] = minted']
  /\ Start(o, "create_acl", i, Deny, minted')
  /\ promised' = [promised EXCEPT ![i] = {}]
  /\ gone' = gone \ {i}
  /\ UNCHANGED <<acl, index, dataVars, files, req, known>>

(* Mutant: an ACL that is already there is kept.                           *)
CreateAclIfNone(o) ==
  /\ Finish(o, "create_acl")
  /\ acl' = [acl EXCEPT ![op[o].id] = IF @.there THEN @ ELSE WrittenAcl(Deny)]
  /\ Disclose(op[o].id, op[o].secret)
  /\ UNCHANGED <<secret, index, dataVars, minted, files, req, gone>>

CreateAcl(o) ==
  /\ Finish(o, "create_acl")
  /\ acl' = [acl EXCEPT ![op[o].id] = WrittenAcl(Deny)]
  /\ Disclose(op[o].id, op[o].secret)
  /\ UNCHANGED <<secret, index, dataVars, minted, files, req, gone>>

---------------------------------------------------------------------------
(* POST /provision_device: GET the secret, SET one if there is none, SET   *)
(* the device's ACL, SET the index.                                        *)

(* Mutant: a client that exists gets a new secret all the same.            *)
ProvisionAlwaysMints(o, i, app) ==
  /\ Start(o, "prov_secret", i, app, 0)
  /\ gone' = gone \ {i}
  /\ UNCHANGED <<recVars, dataVars, minted, files, req, known, promised>>

ProvisionCheck(o, i, app) ==
  /\ Start(o, IF secret[i] = 0 THEN "prov_secret" ELSE "prov_acl", i, app, 0)
  /\ gone' = gone \ {i}
  /\ UNCHANGED <<recVars, dataVars, minted, files, req, known, promised>>

ProvisionSecret(o) ==
  /\ minted < MaxSecrets
  /\ minted' = minted + 1
  /\ Move(o, "prov_secret", [op[o] EXCEPT !.step = "prov_acl", !.secret = minted'])
  /\ secret' = [secret EXCEPT ![op[o].id] = minted']
  /\ UNCHANGED <<acl, index, dataVars, files, req, histVars>>

ProvisionAcl(o) ==
  /\ Continue(o, "prov_acl", "prov_index")
  /\ acl' = [acl EXCEPT ![op[o].id] = WrittenAcl(op[o].app)]
  /\ UNCHANGED <<secret, index, dataVars, minted, files, req, histVars>>

(* The answer holds the secret only if this request generated it.          *)
ProvisionIndex(o) ==
  /\ Finish(o, "prov_index")
  /\ index' = [index EXCEPT ![op[o].id] = op[o].app]
  /\ IF op[o].secret = 0 THEN UNCHANGED <<known, promised>> ELSE Disclose(op[o].id, op[o].secret)
  /\ UNCHANGED <<secret, acl, dataVars, minted, files, req, gone>>

---------------------------------------------------------------------------
(* PUT /keys/<id>/acl: 404 unless there is a secret, then SET the ACL.     *)

UpdateCheck(o, i, app) ==
  /\ secret[i] # 0
  /\ Start(o, "update_acl", i, app, 0)
  /\ UNCHANGED <<recVars, dataVars, minted, files, req, histVars>>

UpdateAcl(o) ==
  /\ Finish(o, "update_acl")
  /\ acl' = [acl EXCEPT ![op[o].id] = WrittenAcl(op[o].app)]
  /\ UNCHANGED <<secret, index, dataVars, minted, files, req, histVars>>

---------------------------------------------------------------------------
(* DELETE /keys/<id>: three DELs, one after the other.                     *)

RevokeSecret(o, i) ==
  /\ Start(o, "revoke_acl", i, Deny, 0)
  /\ secret' = [secret EXCEPT ![i] = 0]
  /\ promised' = [promised EXCEPT ![i] = {}]
  /\ UNCHANGED <<acl, index, dataVars, minted, files, req, known, gone>>

RevokeAcl(o) ==
  /\ Continue(o, "revoke_acl", "revoke_index")
  /\ acl' = [acl EXCEPT ![op[o].id] = NoAcl]
  /\ UNCHANGED <<secret, index, dataVars, minted, files, req, histVars>>

(* For the history: nothing else of the id is deleted, its records stay.   *)
Gone(i) ==
  /\ gone' = gone \cup {i}
  /\ left' = {r \in left : r[2] # i} \cup {r \in data : r[2] = i}

(* Mutant: the reverse index is left where it is.                          *)
RevokeIndexStays(o) ==
  /\ Finish(o, "revoke_index")
  /\ Gone(op[o].id)
  /\ UNCHANGED <<recVars, data, minted, files, req, known, promised>>

RevokeIndex(o) ==
  /\ Finish(o, "revoke_index")
  /\ index' = [index EXCEPT ![op[o].id] = Deny]
  /\ Gone(op[o].id)
  /\ UNCHANGED <<secret, acl, data, minted, files, req, known, promised>>

---------------------------------------------------------------------------
(* GET /api/app/lookup_device, by any administrator.                       *)

(* The index does not know the device: look for its records ...            *)
LookupMiss(o, i) ==
  /\ index[i] = Deny
  /\ Start(o, "scan", i, Deny, 0)
  /\ UNCHANGED <<recVars, dataVars, minted, files, req, histVars>>

(* ... and remember the app of the first one found, or answer 404.         *)
Scan(o) ==
  /\ \/ \E a \in Apps :
          /\ <<a, op[o].id>> \in data
          /\ Move(o, "scan", [op[o] EXCEPT !.step = "backfill", !.app = a])
     \/ /\ \A a \in Apps : <<a, op[o].id>> \notin data
        /\ Finish(o, "scan")
  /\ UNCHANGED <<recVars, dataVars, minted, files, req, histVars>>

Backfill(o) ==
  /\ Finish(o, "backfill")
  /\ index' = [index EXCEPT ![op[o].id] = op[o].app]
  /\ UNCHANGED <<secret, acl, dataVars, minted, files, req, histVars>>

---------------------------------------------------------------------------
(* GET /keys/backup and POST /keys/restore, client by client.              *)

(* KEYS finds the client; the secret and the ACL are read after that.      *)
BackupKeys(o, i) ==
  /\ secret[i] # 0 /\ Cardinality(files) < MaxFiles
  /\ Start(o, "backup_secret", i, Deny, 0)
  /\ UNCHANGED <<recVars, dataVars, minted, files, req, histVars>>

BackupSecret(o) ==
  /\ Move(o, "backup_secret", [op[o] EXCEPT !.step = "backup_acl", !.secret = secret[op[o].id]])
  /\ UNCHANGED <<recVars, dataVars, minted, files, req, histVars>>

(* The answer is the file, and shows the secret in it.  A secret that was  *)
(* revoked meanwhile is null there: no such file can be restored.          *)
BackupAcl(o) ==
  /\ Finish(o, "backup_acl")
  /\ LET i == op[o].id  s == op[o].secret IN
       IF s = 0 THEN UNCHANGED <<files, known, promised>>
       ELSE /\ files' = files \cup {[id |-> i, secret |-> s, app |-> acl[i].app, at |-> acl[i].at]}
            /\ Disclose(i, s)
  /\ UNCHANGED <<recVars, dataVars, minted, req, gone>>

(* Any backup may be restored at any time; an existing client is skipped   *)
(* unless the restore is forced.                                           *)
RestoreCheck(o, f, force) ==
  /\ secret[f.id] = 0 \/ force
  /\ StartAs(o, [step |-> "restore_secret", id |-> f.id, app |-> f.app, secret |-> f.secret,
                 at |-> f.at])
  /\ gone' = gone \ {f.id}
  /\ UNCHANGED <<recVars, dataVars, minted, files, req, known, promised>>

RestoreSecret(o) ==
  /\ Continue(o, "restore_secret", "restore_acl")
  /\ secret' = [secret EXCEPT ![op[o].id] = op[o].secret]
  /\ promised' = [promised EXCEPT ![op[o].id] = {}]
  /\ UNCHANGED <<acl, index, dataVars, minted, files, req, known, gone>>

(* The ACL of the file, as old as it was when the backup was taken.        *)
RestoreAcl(o) ==
  /\ Finish(o, "restore_acl")
  /\ acl' = [acl EXCEPT ![op[o].id] = [there |-> TRUE, app |-> op[o].app, at |-> op[o].at]]
  /\ UNCHANGED <<secret, index, dataVars, minted, files, req, histVars>>

(* A request breaks off before its next command, or before its answer.     *)
AbortOp(o) ==
  /\ op[o].step # "idle"
  /\ op' = [op EXCEPT ![o] = IdleOp]
  /\ torn' = torn \cup (IF op[o].step = "restore_acl" THEN {op[o].id} ELSE {})
  /\ UNCHANGED <<recVars, dataVars, minted, files, req, histVars, raced>>

---------------------------------------------------------------------------
(* A device request, signed with a secret the device was given.            *)

(* GET the secret; 401 unless it is the one the request is signed with.    *)
VerifySignature(d, i, s) ==
  /\ req[d].step = "idle"
  /\ s \in known[i]
  /\ secret[i] = s
  /\ req' = [req EXCEPT ![d] = [step |-> "acl", id |-> i, secret |-> s, acl |-> NoAcl]]
  /\ torn' = torn \cup (IF Restoring(i) THEN {i} ELSE {})
  /\ UNCHANGED <<recVars, dataVars, minted, files, op, histVars, raced>>

(* GET the ACL.  A missing one is taken for {"read_write": "*"}, which has *)
(* no "permissions": check_acl refuses, as it does for an empty one.       *)
FetchAcl(d) ==
  /\ req[d].step = "acl"
  /\ LET a == acl[req[d].id] IN
       req' = [req EXCEPT ![d] = IF a.app # Deny THEN [@ EXCEPT !.step = "granted", !.acl = a]
                                 ELSE IdleReq]
  /\ UNCHANGED <<recVars, dataVars, minted, files, op, histVars, overVars>>

(* Records come and go under kv:<app>/<id>/ (module KvStore has the        *)
(* requests).                                                              *)
Stored(a, i) == data' = data \cup {<<a, i>>} /\ left' = left \cup {<<a, i>>}
Deleted(a, i) == data' = data \ {<<a, i>>} /\ UNCHANGED left

(* The request is served: it reads, writes or deletes under the device's   *)
(* own namespace.                                                          *)
Serve(d) ==
  /\ req[d].step = "granted"
  /\ \/ Stored(req[d].acl.app, req[d].id)
     \/ Deleted(req[d].acl.app, req[d].id)
     \/ UNCHANGED dataVars
  /\ req' = [req EXCEPT ![d] = IdleReq]
  /\ UNCHANGED <<recVars, minted, files, op, histVars, overVars>>

(* An administrator writes or deletes a device's record.                   *)
AdminKv(a, i) ==
  /\ Stored(a, i) \/ Deleted(a, i)
  /\ UNCHANGED <<recVars, minted, files, op, req, histVars, overVars>>

---------------------------------------------------------------------------

Admin(o) ==
  \/ \E i \in Ids : \/ CreateSecret(o, i) \/ RevokeSecret(o, i)
                    \/ LookupMiss(o, i) \/ BackupKeys(o, i)
                    \/ \E a \in Apps : ProvisionCheck(o, i, a)
                    \/ \E a \in Apps \cup {Deny} : UpdateCheck(o, i, a)
  \/ CreateAcl(o)
  \/ ProvisionSecret(o) \/ ProvisionAcl(o) \/ ProvisionIndex(o)
  \/ UpdateAcl(o)
  \/ RevokeAcl(o) \/ RevokeIndex(o)
  \/ Scan(o) \/ Backfill(o)
  \/ BackupSecret(o) \/ BackupAcl(o)
  \/ \E f \in files, force \in BOOLEAN : RestoreCheck(o, f, force)
  \/ RestoreSecret(o) \/ RestoreAcl(o)
  \/ AbortOp(o)

Device(d) ==
  \/ \E i \in Ids : \E s \in known[i] : VerifySignature(d, i, s)
  \/ FetchAcl(d) \/ Serve(d)

Next ==
  \/ \E o \in Operators : Admin(o)
  \/ \E d \in Devices : Device(d)
  \/ \E a \in Apps, i \in Ids : AdminKv(a, i)

Spec == Init /\ [][Next]_vars

---------------------------------------------------------------------------
(* Properties                                                              *)

TypeOK ==
  /\ secret \in [Ids -> Nat]
  /\ acl \in [Ids -> AclRecord]
  /\ index \in [Ids -> Apps \cup {Deny}]
  /\ data \subseteq Apps \X Ids /\ left \subseteq Apps \X Ids
  /\ minted \in Nat
  /\ files \subseteq File
  /\ op \in [Operators -> Op]
  /\ req \in [Devices -> Req]
  /\ known \in [Ids -> SUBSET Nat]
  /\ promised \in [Ids -> SUBSET Nat]
  /\ gone \subseteq Ids
  /\ raced \subseteq Ids /\ torn \subseteq Ids

(* What an id's ACL may open to the holder of a secret: what was decided   *)
(* after the secret was generated, or what a backup showed the operator    *)
(* next to that secret.                                                    *)
Meant(i, s, a) ==
  a.at >= s \/ [id |-> i, secret |-> s, app |-> a.app, at |-> a.at] \in files

(* A client never acts with the permissions of whoever had its id before,  *)
(* although create, provision, update, revoke, backup and restore of one   *)
(* id are several commands each, run at once and break off anywhere (each  *)
(* sets the secret first, the ACL next, and answers last).  Left out are   *)
(* ids of which a restore broke off between its two commands or overlapped *)
(* another request: there one holder's secret can meet the other's ACL.    *)
NoInheritedAcl ==
  \A d \in Devices : req[d].step = "granted" /\ req[d].id \notin torn
    => Meant(req[d].id, req[d].secret, req[d].acl)

(* Unless two requests about an id ever overlapped, a secret an operator   *)
(* was shown for it, by the request that generated it or by a backup,      *)
(* keeps working through any number of re-provisionings, ACL edits,        *)
(* lookups, backups and aborted requests, until a create, a revoke or a    *)
(* restore (provision_device generates none for a client that has one).    *)
HandedSecretsWork == \A i \in Ids \ raced : promised[i] \subseteq {secret[i]}

(* A revoked id, unless requests about it overlapped, resolves again only  *)
(* to an app under which a record of its was there when it was revoked or  *)
(* appeared since: lookup_device brings the index back for such a record,  *)
(* and the index may outlive it.                                           *)
RevokedResolvesByRecord ==
  \A i \in gone \ raced : index[i] # Deny => <<index[i], i>> \in left
=============================================================================
