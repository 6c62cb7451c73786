SPECIFICATION Spec
CONSTANTS
  Base = 2
  Page = 7
  Offset = 1
  Size = 4
  Addr <- MCAddr
  Len <- MCLen
  Val <- MCVal
  Inc <- MCInc
PROPERTY FillTruncated
