SPECIFICATION Spec
CONSTANTS
  Songs = {"a", "c"}
  FormatOf <- MCFormatOf
  Seekable = {}
  BufferSize = 2
  OutputSize = 2
  BeforePlay = 1
  WakeThreshold = 1
  CrossFade = 0
  Ops = {"play", "requeue"}
  Faults = {}
  SeekTimes = {}
  MaxOps = 2
INVARIANT OpenKeepsFormat
