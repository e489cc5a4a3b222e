SPECIFICATION Spec
CONSTANTS
  left = left
  right = right
  Views = {left, right}
  r1 = r1
  r2 = r2
  r3 = r3
  u1 = u1
  a1 = a1
  Obj = {r1, a1}
  Class <- MCClass
  Proxy = {}
  TableOf <- MCTable
  Named <- MCNamed
  Defaults = {r1}
  StdTables = {0, 1}
  mcinetPanelValid = FALSE
  mcinet6PanelValid = FALSE
  MenuPicks = {1}
  Toggles = {"ipv4_forwarding"}
  External = {r1}
SYMMETRY MCSymmetry
INVARIANTS
  UnsyncedIsPending
  ForwardingSynced
