------------------------------ MODULE MCQueue ------------------------------
(***************************************************************************)
(* Small instances of QueueStream.  A message expires within the second it *)
(* is published in, or its ttl is cut to the cap (MaxTtl + 1 is above it).  *)
(***************************************************************************)
EXTENDS QueueStream, TLC

CONSTANTS c1, s1, s2, p1, p2

TtlExtremes == {0, MaxTtl + 1}

(* The requests of a client differ in nothing, nor do the publishers.      *)
Interchangeable == Permutations(Slots) \cup Permutations(Publishers)
=============================================================================
