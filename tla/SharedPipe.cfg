SPECIFICATION FairSpec
CONSTANTS
  Outputs = {o1, o2}
  MaxChunks = 4
INVARIANTS
  TypeOK
  NoDangling
  TailAsserts
PROPERTIES
  InOrder
  FreedOnlyIfPlayed
  PipeDrains
