-------------------------------- MODULE MCKv --------------------------------
(***************************************************************************)
(* A small instance of KvStore: one text, which json.loads takes for a     *)
(* number.                                                                 *)
(***************************************************************************)
EXTENDS KvStore, TLC

CONSTANTS k1, c1, w1, w2, s1, s2

(* Write requests differ in nothing, nor do the reads of one client.       *)
Interchangeable == Permutations(Writers) \cup Permutations(Slots)
=============================================================================
