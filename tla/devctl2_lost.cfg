SPECIFICATION Spec
CONSTANTS
  p1 = p1
  p2 = p2
  Proc <- MCProc
  Codes <- MCCodes
  Others <- MCOthers
PROPERTY OtherBitsUnchanged
