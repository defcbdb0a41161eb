SPECIFICATION Spec
CONSTANTS
  Songs = {"a"}
  FormatOf <- MCFormatOf
  Seekable = {"a"}
  BufferSize = 1
  OutputSize = 2
  BeforePlay = 1
  WakeThreshold = 1
  CrossFade = 0
  Ops = {"play", "seek", "stop", "exit", "status", "update_audio"}
  Faults = {"path", "start", "no_ready", "convert", "read", "seek"}
  SeekTimes = {0, 1}
  MaxOps = 2
INVARIANTS TypeOK DecoderStartsClean NextSongTaken SeekSeesNoStart PendingSeekAwaited BufferReturned
