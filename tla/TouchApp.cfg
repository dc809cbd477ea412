SPECIFICATION FairSpec
CONSTANTS
  MaxTouches = 2
  AppTouches = 2
  MaxBatch = 2
  TouchIds = {0,1,2}
  Positions = {p1,p2}
  Origin = p1
  Up = Up
  Other = Other
  NoEvent = NoEvent
INVARIANT AppTypeOK
INVARIANT TablesAreSound
INVARIANT AppAgreesWithDriver
PROPERTY SyncEndsFrame
PROPERTY PressIsWhole
PROPERTY ScreenSettles
