SPECIFICATION Spec
CONSTANTS
  MaxLines = 3
  Excluded = {"todo"}
  Stacks <- MCStacks
  Strips = {0, 1, 2, 5}
INVARIANTS
  TypeOK
  TableIsPrefix
  PrintedRest
  NothingLeaks
  FreedOnce
PROPERTIES
  Ends
