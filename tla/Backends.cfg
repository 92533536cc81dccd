CONSTANTS
  TotalSnapshots = 2
  Ticks = {0, 1, 2, 3}
  Data = {0, 1, 2}
  Zero = 0
  MmapBufferSize = 2
  MaxRecords = 4
  Attrs <- MCAttrs
  Defined = 1
  MaskBits = 2
  MaxSnapshots = 1
  InRange = {0, 1}
  Values = {0, 1, 2}
  ShotTicks = {0, 1}
  MaxNodes = 3
  MaxList = 1
  MaxOps = 5
SPECIFICATION BackendSpec
INVARIANTS
  DictsAgree
  QueryReturnsLastTaken
  ValuesAreKept
PROPERTIES
  SameAsRawBackend
CHECK_DEADLOCK FALSE
