\* Android, each batch small enough to be applied at once.
CONSTANTS
  home = home
  other = other
  top = top
  text = text
  list = list
  row = row
  surface = surface
  top2 = top2
  text2 = text2
  a = a
  b = b
  v1 = v1
  v2 = v2
  None = None
  Nodes = {top, text, list, row, surface, top2, text2}
  Pages = {home, other}
  Root <- MCRoot
  Children <- MCChildren
  Kind <- MCKind
  Bound <- MCBound
  Slots = {a, b}
  Values = {v1, v2}
  Declared <- MCDeclared
  Hosts = {"Android"}
  Sizes = {FALSE}
  MaxRenders = 3
SPECIFICATION Spec
INVARIANT FallbackIsFull
CHECK_DEADLOCK FALSE
