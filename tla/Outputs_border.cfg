SPECIFICATION FairSpec
CONSTANTS
  N = 1
  AlwaysOn = {}
  FixedFormat = {}
  EnableMethod = {}
  Formats = {f1}
  Ops = {"open", "play", "border"}
  Faults = {}
  MaxOps = 2
  MaxToggles = 0
  MaxChunks = 1
  Portions = {0, 1}
PROPERTY MethodsAlwaysReturn
