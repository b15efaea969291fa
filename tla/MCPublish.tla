----------------------------- MODULE MCPublish -----------------------------
(***************************************************************************)
(* Small instances of CatalogPublish.  The trees replace a file by         *)
(* another, change a file in place, drop the directory, empty it, change   *)
(* only the markdown and go back to an earlier theme; two are refused.     *)
(***************************************************************************)
EXTENDS CatalogPublish, TLC

CONSTANTS a, b, x, y, bad, red, blue, m1, m2

NoAssets == [f \in {a, b} |-> None]
Only(f, c) == [NoAssets EXCEPT ![f] = c]
Cat(logo, theme, blurb) == [logo |-> logo, theme |-> theme, blurb |-> blurb]
TreeOf(dir, assets, cat) == [dir |-> dir, assets |-> assets, catalog |-> cat]

SmallTrees == {
  TreeOf(TRUE, Only(a, x), Cat(a, red, m1)),
  TreeOf(TRUE, Only(a, y), Cat(a, red, m2)),
  TreeOf(TRUE, Only(b, x), Cat(b, blue, m2)),
  TreeOf(TRUE, NoAssets, Cat(None, red, m1)),
  TreeOf(FALSE, NoAssets, Cat(a, blue, m1)),
  TreeOf(TRUE, Only(b, x), Cat(a, blue, m1)),
  TreeOf(TRUE, Only(a, bad), Cat(a, red, m1)) }
=============================================================================
