SPECIFICATION Spec
CONSTANTS
  N = 2
  AlwaysOn = {}
  FixedFormat = {}
  EnableMethod = {}
  Formats = {f1}
  Ops = {"open", "play", "cancel"}
  Faults = {"thread", "play"}
  MaxOps = 2
  MaxToggles = 0
  MaxChunks = 2
  Portions = {1}
INVARIANTS ChunkInUse NoLostWakeup
PROPERTIES ImplementsSharedPipe
