SPECIFICATION FairSpec
CONSTANTS
  N = 1
  AlwaysOn = {1}
  FixedFormat = {1}
  EnableMethod = {1}
  Formats = {f1, f2}
  Ops = {"open", "play", "pause", "drain", "cancel", "release", "update_audio", "border", "kill"}
  Faults = {"thread", "enable", "filter_open", "open", "convert", "filter", "play", "pause", "drain"}
  MaxOps = 3
  MaxToggles = 1
  MaxChunks = 2
  Portions = {0, 1}
INVARIANTS TypeOK ClientAsserts OpenIsHealthy PipeAlive ChunkInUse 
PROPERTY OutputsSettle
