SPECIFICATION Spec
CONSTANTS
  Iterations <- MCIterations
  DetachTurns <- MCDetachTurns
  AppearTurns <- MCAppearTurns
INVARIANTS
  TypeOK
  CompletedMeansRebound
PROPERTIES
  ReportedAlone
  OnlyLateMountsLost
  Ends
