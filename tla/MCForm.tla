------------------------------- MODULE MCForm -------------------------------
(***************************************************************************)
(* Small instances of AppForm: pages, and one other writer (a device or an *)
(* operator).  The store's readers play no part here.                      *)
(***************************************************************************)
EXTENDS AppForm

CONSTANTS dev, pub, p1, p2, w1
=============================================================================
