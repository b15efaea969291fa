SPECIFICATION Spec
CONSTANTS
  a = a
  b = b
  x = x
  y = y
  bad = bad
  red = red
  blue = blue
  m1 = m1
  m2 = m2
  None = None
  Files = {a, b}
  Contents = {x, y, bad}
  Refused = {bad}
  Themes = {red, blue}
  Blurbs = {m1, m2}
  Trees <- SmallTrees
  MaxPublishes = 3
INVARIANTS LiveLogoStored RenderedLogoServed ListedIsStored BlockOfItsCatalog StylesheetUnlessRaced
