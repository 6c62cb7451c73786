SPECIFICATION Spec
CONSTANTS
  IntMax = 15
  Base = 2
  Page = 4
  InitialMap = 4
  Bar = 12
  Offset <- MCOffset
  Count <- MCCount
  Data <- MCData
  Image <- MCImage
  Volatile = {5}
  ReadOnly = {7}
INVARIANTS
  TypeOK
  InsideMapping
  OutputDetermines
PROPERTIES
  WritesLastRead
