SPECIFICATION Spec
CONSTANTS
  Songs = {"a"}
  FormatOf <- MCFormatOf
  Seekable = {}
  BufferSize = 1
  OutputSize = 2
  BeforePlay = 1
  WakeThreshold = 1
  CrossFade = 0
  Ops = {"play", "pause", "border_pause", "update_audio"}
  Faults = {"open", "play"}
  SeekTimes = {}
  MaxOps = 3
INVARIANTS OutputsOpened StateAgrees
