SPECIFICATION FairSpec
CONSTANTS
  Songs = {"a"}
  FormatOf <- MCFormatOf
  Seekable = {}
  BufferSize = 2
  OutputSize = 2
  BeforePlay = 1
  WakeThreshold = 1
  CrossFade = 0
  Ops = {"stop", "play"}
  Faults = {}
  SeekTimes = {}
  MaxOps = 2
PROPERTY CommandsAlwaysFinish
CHECK_DEADLOCK FALSE
