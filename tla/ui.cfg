\* Renders of two pages on each host, with batches small and large.
CONSTANTS
  home = home
  other = other
  top = top
  text = text
  list = list
  row = row
  surface = surface
  top2 = top2
  text2 = text2
  a = a
  b = b
  v1 = v1
  v2 = v2
  None = None
  Nodes = {top, text, list, row, surface, top2, text2}
  Pages = {home, other}
  Root <- MCRoot
  Children <- MCChildren
  Kind <- MCKind
  Bound <- MCBound
  Slots = {a, b}
  Values = {v1, v2}
  Declared <- MCDeclared
  Hosts = {"Android", "UIKit", "SwiftUI", "Harmony"}
  Sizes = {TRUE, FALSE}
  MaxRenders = 4
SPECIFICATION FairSpec
INVARIANT ScreenFollows
PROPERTY NewestCommitted
CHECK_DEADLOCK FALSE
