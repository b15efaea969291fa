------------------------------- MODULE MCLog -------------------------------
(***************************************************************************)
(* Every ACL of up to MaxPerms entries over a few prefixes, edited in      *)
(* every way, for the rescue user.  Then two devices and two apps: the     *)
(* logs are read by that user without a row and by an administrator of one *)
(* app, and the row changes between the two.                               *)
(***************************************************************************)
EXTENDS ActivityLog, TLC

CONSTANTS c1, c2

DeviceSymmetry == Permutations({c1, c2})

SomePrefixes == {Wildcard, <<"app">>, <<"app", "dev">>, <<"other">>,
                 <<"_catalog">>, <<"_catalog", "app">>}

SomePaths == {<<"app", "dev">>, <<"app", "public">>, <<"other", "dev">>,
              <<"_catalog", "app">>, <<"_catalog", "app", "dev">>}

SomeTopics == {<<"app", "public">>, <<"other", "dev">>}

Entry(prefix, access) == [prefix |-> prefix, access |-> access]
Row(acl) == [there |-> TRUE, acl |-> acl]

SomeRows == {Missing,
             Row(<<Entry(<<"app">>, "rw")>>)}
=============================================================================
