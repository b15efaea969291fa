---------------------------- MODULE MCRegistry ----------------------------
(***************************************************************************)
(* Small instances of ClientRegistry: one client id, whose records several *)
(* operators and devices race for.                                         *)
(***************************************************************************)
EXTENDS ClientRegistry, TLC

CONSTANTS i1, a1, d1, o1, o2

(* Nothing tells one operator's requests from another's.                   *)
OperatorSymmetry == Permutations(Operators)
=============================================================================
