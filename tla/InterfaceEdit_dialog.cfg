SPECIFICATION Spec
CONSTANTS
  Four = 2
  Six = 1
  Width = 3
  Prefixes = {1, 3}
  DefaultMask = 2
  Names = {"eth", "lan"}
  Initially <- MCInitially
  Blank = Blank
  Faulty = TRUE
  MaxCells = 2
  MaxDialogs = 1
INVARIANTS TypeOK CopyFollows UntouchedSurvive EditTakesEffect PanelFollows
CHECK_DEADLOCK FALSE
