SPECIFICATION Spec
CONSTANTS
  Four = 2
  Six = 1
  Width = 3
  Prefixes = {1, 3}
  DefaultMask = 2
  Names = {"eth", "lan"}
  Initially <- MCInitially
  Blank = Blank
  Faulty = FALSE
  MaxCells = 2
  MaxDialogs = 1
INVARIANT MaskFollows
CHECK_DEADLOCK FALSE
