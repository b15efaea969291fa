-------------------------------- MODULE Pages --------------------------------
(***************************************************************************)
(* What the pages of routes_admin.py that list a stream have in common: a  *)
(* piece of the stream is fetched, the entries the caller asked for are    *)
(* picked from it, and the page is cut at its limit.                       *)
(***************************************************************************)
EXTENDS Naturals, Sequences, FiniteSets

Ext == INSTANCE SequencesExt

CONSTANTS
  Clients, \* devices that send requests and messages
  Limits,  \* page lengths callers ask for
  None,    \* no value
  MaxSent  \* bound: requests or messages

ASSUME PagesAssumption == Limits \subseteq Nat \ {0} /\ MaxSent \in Nat

Lesser(a, b) == IF a < b THEN a ELSE b

(* The first n elements of s.                                              *)
FirstN(s, n) == SubSeq(s, 1, Lesser(n, Len(s)))

(* The elements of s at the positions K, in their order.                   *)
Only(s, K) ==
  LET Nth(n) == CHOOSE i \in K : Cardinality({j \in K : j <= i}) = n
  IN  [n \in 1..Cardinality(K) |-> s[Nth(n)]]
=============================================================================
