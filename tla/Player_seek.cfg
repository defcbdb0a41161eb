SPECIFICATION FairSpec
CONSTANTS
  Songs = {"a"}
  FormatOf <- MCFormatOf
  Seekable = {"a"}
  BufferSize = 1
  OutputSize = 2
  BeforePlay = 1
  WakeThreshold = 1
  CrossFade = 0
  Ops = {"seek"}
  Faults = {"seek", "start"}
  SeekTimes = {0, 1}
  MaxOps = 2
PROPERTY SeekReturns
CHECK_DEADLOCK FALSE
