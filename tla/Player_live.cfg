SPECIFICATION FairSpec
CONSTANTS
  Songs = {"a"}
  FormatOf <- MCFormatOf
  Seekable = {"a"}
  BufferSize = 1
  OutputSize = 2
  BeforePlay = 1
  WakeThreshold = 1
  CrossFade = 0
  Ops = {"seek"}
  Faults = {"seek", "start"}
  SeekTimes = {0}
  MaxOps = 2
PROPERTIES CommandsFinish SongEnds
CHECK_DEADLOCK FALSE
