SPECIFICATION Spec
CONSTANTS
  MaxValue = 2
  MaxDialogs = 2
  MaxTouches = 2
  Samples <- MCSamples
  Unset = Unset
  None = None
INVARIANTS
  TypeOK
  MadeAsShown
  HiddenKept
  HopsAsMarked
  IdleRunsNothing
  RefusedForReason
  EncapAsShown
CHECK_DEADLOCK FALSE
