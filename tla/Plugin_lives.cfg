SPECIFICATION Spec
CONSTANTS
  br0 = br0
  br01 = br01
  Names = {br0, br01}
  Longer <- MCLonger
  Short = {br0}
  MaxCaptures = 2
  None = None
  MaxLives = 2
  MaxTouches = 1
  MaxWork = 6
INVARIANTS
  TypeOK
  ReloadStaysDue
  CapturesKnown
  SettingsHold
  OpensNamed
CHECK_DEADLOCK FALSE
