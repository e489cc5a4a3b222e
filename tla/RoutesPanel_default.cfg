SPECIFICATION Spec
CONSTANTS
  left = left
  right = right
  Views = {left}
  r1 = r1
  r2 = r2
  r3 = r3
  u1 = u1
  a1 = a1
  Obj = {r1, r2, r3}
  Class <- MCClass
  Proxy = {}
  TableOf <- MCTable
  Named <- MCNamed
  Defaults = {r1, r3}
  StdTables = {0, 1}
  mcinetPanelValid = FALSE
  mcinet6PanelValid = FALSE
  MenuPicks = {1, 3}
  Toggles = {}
  External = {}
PROPERTIES
  OnlyNamedDeleted
