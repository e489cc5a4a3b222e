SPECIFICATION Spec
CONSTANTS
  left = left
  right = right
  Views = {left}
  r1 = r1
  r2 = r2
  r3 = r3
  u1 = u1
  a1 = a1
  Obj = {r1, r2, u1, a1}
  Class <- MCClass
  Proxy = {}
  TableOf <- MCTable
  Named <- MCNamed
  Defaults = {r1}
  StdTables = {0, 1}
  mcinetPanelValid = FALSE
  mcinet6PanelValid = FALSE
  MenuPicks = {1, 3}
  Toggles = {}
  External = {}
INVARIANTS
  TypeOK
  TrustedLists
  ListShowsStore
  NoGhosts
  RulesHaveExit
