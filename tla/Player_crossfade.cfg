SPECIFICATION Spec
CONSTANTS
  Songs = {"a"}
  FormatOf <- MCFormatOf
  Seekable = {}
  BufferSize = 3
  OutputSize = 2
  BeforePlay = 1
  WakeThreshold = 1
  CrossFade = 1
  Ops = {"seek", "requeue"}
  Faults = {}
  SeekTimes = {0, 1}
  MaxOps = 2
INVARIANTS CrossFadeNeedsNext NextSongKept QueueAccepted NothingLeft
