-------------------------------- MODULE Acl --------------------------------
(***************************************************************************)
(* The ACL of one administrator (admin_acls:<user>) and what it allows:    *)
(* check_acl and load_admin_acl in dependencies.py, the two routes that    *)
(* edit the row and the listings that read it in routes_admin.py.  Device  *)
(* ACLs go through the same check_acl.                                     *)
(*                                                                         *)
(* A path and a prefix are sequences of segments, the "q" or "kv" in front *)
(* already dropped; <<"*">> is the wildcard.                               *)
(***************************************************************************)
EXTENDS Integers, Sequences

CONSTANTS
  Prefixes,  \* prefixes permissions are given for
  Paths,     \* keys and topics requests name
  Rescue,    \* is the user one of RESCUE_USERS
  MaxPerms   \* bound: entries of an ACL

Wildcard == <<"*">>
CatalogRoot == "_catalog"
Modes == {"read", "write"}
Perm == [prefix : Prefixes, access : {"r", "rw"}]

ASSUME AclAssumption ==
  /\ \A p \in Prefixes \cup Paths \cup {Wildcard} : p \in Seq(STRING) /\ p # <<>>
  /\ Rescue \in BOOLEAN
  /\ MaxPerms \in Nat

VARIABLE row  \* admin_acls:<user>: is it there, and its permissions

Missing == [there |-> FALSE, acl |-> <<>>]
Acls == UNION {[1..n -> Perm] : n \in 0..MaxPerms}

Init == row = Missing

---------------------------------------------------------------------------
(* What an ACL allows                                                      *)

PrefixMatches(prefix, path) ==
  \/ prefix = Wildcard
  \/ Len(prefix) <= Len(path) /\ SubSeq(path, 1, Len(prefix)) = prefix

(* A catalog stash answers to its own path and to its app's.               *)
CandidatePaths(path) ==
  {path} \cup (IF path[1] = CatalogRoot /\ Len(path) > 1 THEN {Tail(path)} ELSE {})

Covers(perm, path) == \E p \in CandidatePaths(path) : PrefixMatches(perm.prefix, p)

(* Mutant: the last covering entry decides.                                *)
CheckAclLast(acl, path, mode) ==
  \E i \in DOMAIN acl :
    /\ Covers(acl[i], path)
    /\ \A j \in (i + 1)..Len(acl) : ~Covers(acl[j], path)
    /\ mode = "write" => acl[i].access = "rw"

(* The first entry that covers the path decides; none is a refusal.        *)
CheckAcl(acl, path, mode) ==
  \E i \in DOMAIN acl :
    /\ Covers(acl[i], path)
    /\ \A j \in 1..(i - 1) : ~Covers(acl[j], path)
    /\ mode = "write" => acl[i].access = "rw"

RescueAcl == <<[prefix |-> Wildcard, access |-> "rw"]>>

(* A missing row is deny-all, and everything for a rescue user.            *)
LoadAdminAcl(r) ==
  IF r.there THEN r.acl ELSE IF Rescue THEN RescueAcl ELSE <<>>

(* Mutant: only entries with write access are looked at.                   *)
VisibleWritable(acl, path) ==
  \E i \in DOMAIN acl : acl[i].access = "rw" /\ PrefixMatches(acl[i].prefix, path)

(* list_visible_clients: is the device at this path shown to the caller.   *)
Visible(acl, path) == \E i \in DOMAIN acl : PrefixMatches(acl[i].prefix, path)

(* list_admins_for_device: the access shown for an administrator with a    *)
(* row; the most permissive entry counts.                                  *)
ListedAccess(acl, path) ==
  LET accesses == {acl[i].access : i \in {j \in DOMAIN acl : PrefixMatches(acl[j].prefix, path)}}
  IN  IF "rw" \in accesses THEN "rw" ELSE IF accesses # {} THEN "r" ELSE "none"

(* require_admin_superuser: any entry gives it, wherever it stands.        *)
IsSuperuser(acl) == \E i \in DOMAIN acl : acl[i] = RescueAcl[1]

(* list_catalog_devices: is the device at this path listed with its app.   *)
DeviceListed(acl, path) ==
  CheckAcl(acl, <<CatalogRoot, path[1]>>, "read") /\ CheckAcl(acl, path, "write")

Writable(acl) == {i \in DOMAIN acl : acl[i].access = "rw"}

(* Mutant: the first writable entry is taken for the only one.             *)
ScopeFirst(acl) ==
  IF Writable(acl) = {} \/ IsSuperuser(acl) THEN <<>>
  ELSE acl[CHOOSE i \in Writable(acl) : \A j \in Writable(acl) : i <= j].prefix

(* get_me: the app or the device the pages are laid out for, or neither.   *)
Scope(acl) ==
  IF ~IsSuperuser(acl) /\ \E i \in Writable(acl) : Writable(acl) = {i} /\ Len(acl[i].prefix) <= 2
  THEN acl[CHOOSE i \in Writable(acl) : TRUE].prefix
  ELSE <<>>

---------------------------------------------------------------------------
(* Edits by a superuser                                                    *)

(* PUT /admin_users/<user>/acl replaces the whole list.                    *)
UpdateAdminUserAcl(acl) == row' = [there |-> TRUE, acl |-> acl]

(* DELETE /admin_users/<user>/acl.                                         *)
DeleteAdminUserAcl == row.there /\ row' = Missing

Next == (\E acl \in Acls : UpdateAdminUserAcl(acl)) \/ DeleteAdminUserAcl

Spec == Init /\ [][Next]_row

---------------------------------------------------------------------------
(* Properties                                                              *)

Extends(new, old) == Len(new) >= Len(old) /\ SubSeq(new, 1, Len(old)) = old

(* Putting entries at the end of a user's list never takes away what the   *)
(* entries before them allow (check_acl lets the first covering one win).  *)
AppendKeepsAccess ==
  [][\A path \in Paths, mode \in Modes :
       Extends(LoadAdminAcl(row'), LoadAdminAcl(row)) /\ CheckAcl(LoadAdminAcl(row), path, mode)
         => CheckAcl(LoadAdminAcl(row'), path, mode)]_row

StashRule(acl) == \E i \in DOMAIN acl : acl[i].prefix[1] = CatalogRoot

(* _acl_candidate_paths: "governed by the same ACL rules as <app>[/...]".  *)
(* Unless an entry names the stash itself, the stash of an app and the app *)
(* are allowed or refused together.                                        *)
CatalogFollowsApp ==
  ~StashRule(LoadAdminAcl(row)) =>
    \A path \in Paths, mode \in Modes :
      Len(path) > 1 /\ path[1] = CatalogRoot /\ path[2] # CatalogRoot =>
        (CheckAcl(LoadAdminAcl(row), path, mode) <=> CheckAcl(LoadAdminAcl(row), Tail(path), mode))

(* An entry for reading alone stands before one for writing.               *)
ReadOnlyBefore(acl, path) ==
  \E i, j \in DOMAIN acl :
    /\ i < j /\ PrefixMatches(acl[i].prefix, path) /\ PrefixMatches(acl[j].prefix, path)
    /\ acl[i].access = "r" /\ acl[j].access = "rw"

(* How far the listings agree with check_acl.  The clients                 *)
(* list_visible_clients shows an administrator are exactly the ones whose  *)
(* records that administrator may read, and list_admins_for_device names   *)
(* exactly the administrators with a row who may read the device.  Whoever *)
(* may write it is shown as "rw"; an administrator shown as "rw" may not   *)
(* only where an entry for reading alone comes first in the list.          *)
ListingsMatchCheck ==
  \A path \in Paths : path[1] # CatalogRoot =>
    /\ Visible(LoadAdminAcl(row), path) <=> CheckAcl(LoadAdminAcl(row), path, "read")
    /\ row.there =>
         /\ ListedAccess(row.acl, path) # "none" <=> CheckAcl(row.acl, path, "read")
         /\ CheckAcl(row.acl, path, "write") => ListedAccess(row.acl, path) = "rw"
         /\ ListedAccess(row.acl, path) = "rw" =>
              CheckAcl(row.acl, path, "write") \/ ReadOnlyBefore(row.acl, path)

(* An administrator the pages take for one of an app or a device can write *)
(* nothing outside it, and finds no other device in the list of an app.    *)
ScopeHonest ==
  LET acl == LoadAdminAcl(row)
      scope == Scope(acl)
  IN  scope # <<>> => \A path \in Paths :
        CheckAcl(acl, path, "write") \/ (Len(path) = 2 /\ DeviceListed(acl, path))
          => \E p \in CandidatePaths(path) : PrefixMatches(scope, p)
=============================================================================
