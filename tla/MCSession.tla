----------------------------- MODULE MCSession -----------------------------
(***************************************************************************)
(* Two tabs at the browser-facing host and at the device host, with        *)
(* Google sign-in and without it, with a secret per image and a pinned one.*)
(***************************************************************************)
EXTENDS AdminSession, TLC

CONSTANTS t1, t2

TabSymmetry == Permutations({t1, t2})

SomeSites == {[browser |-> TRUE, oauth |-> TRUE, home |-> TRUE, pinned |-> FALSE],
              [browser |-> FALSE, oauth |-> TRUE, home |-> FALSE, pinned |-> FALSE],
              [browser |-> TRUE, oauth |-> FALSE, home |-> TRUE, pinned |-> TRUE]}

SomePages == {AdminUsers, <<"app", "a", "d">>, <<"app", "a", "_theme.css">>}
=============================================================================
