------------------------------ MODULE MCBackup ------------------------------
(***************************************************************************)
(* Small instances of Backup: one item of each section, of which app a     *)
(* has some and app b the others.                                          *)
(***************************************************************************)
EXTENDS Backup

CONSTANTS ca, ua, ka, qb, xa, lg, a, b, s1, v1, v2

KindOf == [i \in {ca, ua, ka, qb, xa, lg} |->
  CASE i = ca -> "client" [] i = ua -> "admin" [] i = ka -> "kv"
    [] i = qb -> "queue" [] i = xa -> "index" [] i = lg -> "log"]
Key == [i \in DOMAIN KindOf |-> IF i = qb THEN b ELSE a]
Full == [i \in DOMAIN KindOf |->
  CASE i = ca -> Item({s1}, {{a}})
    [] i = ua -> Item({{b}}, {})
    [] i = ka -> Item({v1}, {TRUE})
    [] i = xa -> Item({a}, {})
    [] OTHER -> Item({[id |-> 1, by |-> ca]}, {})]
=============================================================================
