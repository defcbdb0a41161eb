------------------------------ MODULE Outputs ------------------------------
(***************************************************************************)
(* The audio outputs of one partition: the output threads                 *)
(* (output/Thread.cxx), the command protocol between them and the player  *)
(* thread (output/Control.cxx), what each thread reads from the pipe      *)
(* (output/Source.cxx, output/SharedPipeConsumer.cxx) and the operations  *)
(* the player thread calls (output/MultipleOutputs.cxx).                  *)
(*                                                                         *)
(* An output thread holds AudioOutputControl::mutex except where the code *)
(* unlocks it or waits.  pc[o] says where the thread is; while pc[o] is   *)
(* in Holding the mutex is taken and the player cannot touch output o.    *)
(* The player runs a "program", the sequence of loops over the outputs    *)
(* that one MultipleOutputs method consists of.                           *)
(***************************************************************************)
EXTENDS Integers, Sequences

CONSTANTS
  N,              \* number of outputs; MultipleOutputs::outputs is 1..N
  AlwaysOn,       \* outputs configured with "always_on"
  FixedFormat,    \* outputs with a configured device format
  EnableMethod,   \* outputs whose plugin has Enable() and Disable()
  Formats,        \* audio formats
  Ops,            \* the MultipleOutputs methods the client may call
  Faults,         \* the calls that may fail
  MaxOps,         \* bound on the calls other than Play() and CheckPipe()
  MaxToggles,     \* bound on "enableoutput" and "disableoutput"
  MaxChunks,      \* bound on the chunks ever played
  Portions        \* the numbers of portions a chunk may be played in

NoFormat == "no format"

OpNames == {"open", "play", "pause", "drain", "cancel", "release",
            "update_audio", "border", "kill"}

FaultNames == {"thread", "enable", "filter_open", "open", "convert", "filter",
               "play", "pause", "drain"}

ASSUME OutputsAssumption ==
  /\ N \in Nat \ {0}
  /\ AlwaysOn \subseteq 1..N /\ FixedFormat \subseteq 1..N
  /\ EnableMethod \subseteq 1..N
  /\ NoFormat \notin Formats
  /\ Ops \subseteq OpNames /\ Faults \subseteq FaultNames
  /\ MaxOps \in Nat /\ MaxToggles \in Nat /\ MaxChunks \in Nat
  /\ Portions \subseteq Nat

VARIABLES
  ao,          \* the AudioOutputControl of each output, with its source
  pc,          \* where each output thread is
  head, tail,  \* the chunks of the pipe: head .. tail-1
  pipe,        \* identity of MultipleOutputs::pipe, 0 for nullptr
  pipes,       \* number of pipes ever allocated
  format,      \* MultipleOutputs::input_audio_format
  prog,        \* loops left of the method the player executes
  i,           \* the output its current loop is at
  stage,       \* progress within that iteration
  ok,          \* what Update() or Open() has found: {"enabled", "open"}
  paused,      \* the client has paused the outputs (Player::paused)
  locked,      \* the player thread holds PlayerControl::mutex
  ops, toggles \* calls left

client == <<pipe, pipes, format, paused, locked, ops>>
loop == <<prog, i, stage, ok>>
vars == <<ao, pc, head, tail, client, loop, toggles>>

Outs == 1..N

-----------------------------------------------------------------------------
(* The state of an output, a record with the fields                        *)
(*   command, enabled, really (really_enabled), open, pause, allow         *)
(*   (allow_play), caught (caught_interrupted), loop (in_playback_loop),   *)
(*   woken (woken_for_play), failed (fail_timer is defined),               *)
(*   request.audio_format and request.pipe (rformat, rpipe),               *)
(*   interrupted: the plugin's flag set by Interrupt(),                    *)
(*   device: filter_audio_format, what the device is open for,             *)
(* and of AudioOutputSource and SharedPipeConsumer                         *)
(*   format (in_audio_format), filter (the format the filter is open for), *)
(*   current (current_chunk), tag (pending_tag), data (what is left of     *)
(*   pending_data), mp (the pipe), chunk, consumed.                        *)
(* "last" is a history field: the chunk started last since the output was  *)
(* attached to the pipe, -1 while it is detached.                          *)

Fresh ==
  [command |-> "NONE", enabled |-> TRUE, really |-> FALSE, open |-> FALSE,
   pause |-> FALSE, allow |-> TRUE, caught |-> FALSE, loop |-> FALSE,
   woken |-> FALSE, failed |-> FALSE, rformat |-> NoFormat, rpipe |-> 0,
   interrupted |-> FALSE, device |-> NoFormat, format |-> NoFormat,
   filter |-> NoFormat, current |-> 0, tag |-> FALSE, data |-> 0,
   mp |-> 0, chunk |-> 0, consumed |-> FALSE, last |-> -1]

Init ==
  /\ ao = [o \in Outs |-> Fresh]
  /\ pc = [o \in Outs |-> "none"]
  /\ head = 1 /\ tail = 1
  /\ pipe = 0 /\ pipes = 0 /\ format = NoFormat
  /\ prog = <<>> /\ i = 1 /\ stage = "enter" /\ ok = {}
  /\ paused = FALSE /\ locked = FALSE
  /\ ops = MaxOps /\ toggles = MaxToggles

Holding ==
  {"task", "disable", "fill", "filled", "nofill", "data", "source_open",
   "device_open", "open_failed"}

\* InternalClose() and InternalCloseOutput() clear "open", unlock for the
\* plugin's Close(), and continue here.
AfterClose ==
  [close_finish |-> "finish", close_disable |-> "disable",
   close_nofill |-> "nofill", close_loop |-> "consumed",
   close_pause |-> "end_pause", reopen |-> "device_open",
   close_convert |-> "open_failed"]

Unlocked ==
  {"none", "wait", "awake", "dead", "enabling", "disabling", "opening",
   "mixer", "filter", "notify", "send_tag", "delay", "play", "consumed",
   "begin_pause", "pause_delay", "pause", "end_pause", "draining",
   "cancelling"} \cup DOMAIN AfterClose

Fails(f) == f \in Faults

\* AudioOutputSource::Cancel() and Close().  Without a current chunk, what is
\* left of its tag and data has no meaning.
SourceCancel(a) ==
  [a EXCEPT !.current = 0, !.tag = FALSE, !.data = 0, !.chunk = 0,
            !.last = IF @ = -1 THEN -1 ELSE 0]

SourceClose(a) ==
  [SourceCancel(a) EXCEPT !.format = NoFormat, !.filter = NoFormat]

\* CommandFinished().  After KILL, the source is cancelled and the thread ends.
CommandFinished(a) ==
  [(IF a.command = "KILL" THEN SourceCancel(a) ELSE a) EXCEPT !.command = "NONE"]

\* The thread of output o moves on, leaving state a behind; "finish" reports
\* the command and goes back to the top of Task().
Thread(o, from, a, to) ==
  /\ pc[o] = from
  /\ ao' = [ao EXCEPT ![o] = IF to = "finish" THEN CommandFinished(a) ELSE a]
  /\ pc' = [pc EXCEPT ![o] = IF to # "finish" THEN to
                             ELSE IF a.command = "KILL" THEN "dead" ELSE "task"]
  /\ UNCHANGED <<head, tail, client, loop, toggles>>

Failure(a) == [a EXCEPT !.failed = TRUE]

\* The output becomes unusable; the plugin's Close() comes next.
Shut(a) == [a EXCEPT !.open = FALSE, !.last = -1]

-----------------------------------------------------------------------------
(* AudioOutputControl::Task(). *)

\* Faulty variant of Get(): the "next == nullptr" test is missing.
GetUnchecked(a) ==
  CASE a.chunk = 0 /\ head = tail -> [a EXCEPT !.current = 0]
    [] a.chunk = 0 /\ head < tail ->
         [a EXCEPT !.consumed = FALSE, !.chunk = head, !.current = head]
    [] a.chunk # 0 /\ ~a.consumed -> [a EXCEPT !.current = a.chunk]
    [] OTHER ->
         [a EXCEPT !.consumed = FALSE, !.chunk = @ + 1, !.current = a.chunk + 1]

\* SharedPipeConsumer::Get(), as a function of the state it runs in.
Get(a) ==
  CASE a.chunk = 0 /\ head = tail ->
         [a EXCEPT !.consumed = FALSE, !.current = 0]
    [] a.chunk = 0 /\ head < tail ->
         [a EXCEPT !.consumed = FALSE, !.chunk = head, !.current = head]
    [] a.chunk # 0 /\ ~a.consumed ->
         [a EXCEPT !.current = a.chunk]
    [] a.chunk # 0 /\ a.consumed /\ a.chunk + 1 < tail ->
         [a EXCEPT !.consumed = FALSE, !.chunk = @ + 1, !.current = a.chunk + 1]
    [] OTHER -> a

DropCurrentChunk(a) == [a EXCEPT !.consumed = TRUE, !.current = 0]

Playable(a) == a.open /\ a.allow /\ ~a.caught

TaskNone(o) ==
  LET a == ao[o] IN
  /\ a.command = "NONE"
  /\ \/ Playable(a) /\ Thread(o, "task", a, "fill")
     \/ ~Playable(a) /\ Thread(o, "task", [a EXCEPT !.woken = FALSE], "wait")

TaskEnable(o) ==
  LET a == ao[o] IN
  /\ a.command = "ENABLE"
  /\ Thread(o, "task", a, IF a.really THEN "finish" ELSE "enabling")

TaskDisable(o) ==
  LET a == ao[o] IN
  /\ a.command \in {"DISABLE", "KILL"}
  /\ \/ ~a.really /\ Thread(o, "task", a, "finish")
     \/ a.really /\ a.open /\ Thread(o, "task", Shut(a), "close_disable")
     \/ a.really /\ ~a.open /\ Thread(o, "task", a, "disable")

TaskOpen(o) ==
  LET a == ao[o] IN
  /\ a.command = "OPEN"
  /\ Thread(o, "task", a, IF a.really THEN "source_open" ELSE "enabling")

TaskClose(o) ==
  LET a == ao[o] IN
  /\ a.command = "CLOSE"
  /\ \/ a.open /\ Thread(o, "task", Shut(a), "close_finish")
     \/ ~a.open /\ Thread(o, "task", a, "finish")

TaskPause(o) ==
  LET a == ao[o] IN
  /\ a.command = "PAUSE"
  /\ \/ a.open /\ Thread(o, "task", [a EXCEPT !.caught = FALSE], "begin_pause")
     \/ ~a.open /\ Thread(o, "task", a, "finish")

\* With always_on, the output keeps its device but lets go of the pipe.
TaskRelease(o) ==
  LET a == [ao[o] EXCEPT !.caught = FALSE] IN
  /\ a.command = "RELEASE"
  /\ \/ ~a.open /\ Thread(o, "task", ao[o], "finish")
     \/ /\ a.open /\ o \in AlwaysOn
        /\ Thread(o, "task", [SourceCancel(a) EXCEPT !.last = -1], "begin_pause")
     \/ /\ a.open /\ o \notin AlwaysOn
        /\ Thread(o, "task", Shut(a), "close_finish")

TaskDrain(o) ==
  LET a == ao[o] IN
  /\ a.command = "DRAIN"
  /\ Thread(o, "task", a, IF a.open THEN "draining" ELSE "finish")

TaskCancel(o) ==
  LET a == SourceCancel([ao[o] EXCEPT !.caught = FALSE]) IN
  /\ a.command = "CANCEL"
  /\ Thread(o, "task", a, IF a.open THEN "cancelling" ELSE "finish")

\* wake_cond.wait() returns, or the thread starts: take the mutex.
Wake(o) == Thread(o, "awake", ao[o], "task")

\* The plugin's Close() returns: source.Close() unless only the device was
\* closed, pause is left (a no-op unless IteratePause() has failed).
Closed(o) ==
  /\ pc[o] \in DOMAIN AfterClose
  /\ Thread(o, pc[o],
            IF pc[o] \in {"reopen", "close_convert"} THEN ao[o]
            ELSE [SourceClose(ao[o]) EXCEPT !.pause = FALSE],
            AfterClose[pc[o]])

Disable(o) ==
  \/ Thread(o, "disable", [ao[o] EXCEPT !.really = FALSE], "disabling")
  \/ Thread(o, "disabling", ao[o], "finish")

\* InternalEnable(), for ENABLE and for OPEN.
Enable(o) ==
  \/ Thread(o, "enabling", [ao[o] EXCEPT !.really = TRUE],
            IF ao[o].command = "OPEN" THEN "source_open" ELSE "finish")
  \/ Fails("enable") /\ Thread(o, "enabling", Failure(ao[o]), "finish")

Cancelled(o) ==
  Thread(o, "cancelling", [ao[o] EXCEPT !.interrupted = FALSE], "finish")

\* Faulty variant: after an error the output is not closed.
DrainWithoutClose(o) ==
  \/ Thread(o, "draining", ao[o], "finish")
  \/ Fails("drain") /\ Thread(o, "draining", Failure(ao[o]), "finish")

\* InternalDrain().
Drain(o) ==
  \/ Thread(o, "draining", ao[o], "finish")
  \/ Fails("drain") /\ Thread(o, "draining", Failure(Shut(ao[o])), "close_finish")

(* InternalOpen(), after InternalEnable(). *)

\* Faulty variant: an open source is never attached to another pipe.
AttachIfClosed(a) ==
  IF a.format = NoFormat
  THEN [a EXCEPT !.current = 0, !.chunk = 0, !.mp = a.rpipe,
                 !.last = IF a.open THEN 0 ELSE -1]
  ELSE a

\* AudioOutputSource::Open() attaches the source to the requested pipe ...
Attach(a) ==
  IF a.format = NoFormat \/ a.rpipe # a.mp
  THEN [a EXCEPT !.current = 0, !.chunk = 0, !.mp = a.rpipe,
                 !.last = IF a.open THEN 0 ELSE -1]
  ELSE a

\* FilteredAudioOutput::config_audio_format applied to a format.
WithMask(o, f) == IF o \in FixedFormat THEN "fixed" ELSE f

\* ... and opens the filter unless it already fits.  If the device is open
\* for another format, it is closed first.
SourceOpen(o) ==
  LET a == Attach([ao[o] EXCEPT !.failed = FALSE, !.caught = FALSE])
      b == [a EXCEPT !.filter = a.rformat, !.format = a.rformat]
      fits == a.filter # NoFormat /\ a.format = a.rformat
  IN \/ /\ ~fits /\ Fails("filter_open")
        /\ Thread(o, "source_open", Failure([a EXCEPT !.filter = NoFormat]), "finish")
     \/ IF b.open /\ WithMask(o, b.format) # b.device
        THEN Thread(o, "source_open", Shut(b), "reopen")
        ELSE Thread(o, "source_open", b, "device_open")

\* InternalOpen2(): open the device, or only reconfigure its ConvertFilter.
DeviceOpen(o) ==
  LET a == [ao[o] EXCEPT !.device = WithMask(o, ao[o].format)] IN
  \/ ~a.open /\ Thread(o, "device_open", a, "opening")
  \/ a.open /\ Thread(o, "device_open", a, "mixer")
  \/ /\ a.open /\ Fails("convert")
     /\ Thread(o, "device_open", Shut(a), "close_convert")

\* OpenOutputAndConvert() returns or throws; OpenSoftwareMixer() returns.
Opened(o) ==
  \/ Thread(o, "opening",
            [ao[o] EXCEPT !.open = TRUE, !.interrupted = FALSE, !.last = 0],
            "mixer")
  \/ Fails("open") /\ Thread(o, "opening", ao[o], "open_failed")
  \/ Thread(o, "open_failed", Failure(SourceClose(ao[o])), "finish")
  \/ Thread(o, "mixer", ao[o], "finish")

-----------------------------------------------------------------------------
(* InternalPlay(). *)

\* What the thread does is undefined: it reads a pipe that MultipleOutputs has
\* freed, or applies a filter that could not be opened.  The model ends here.
Undefined(o) ==
  \/ pc[o] = "fill" /\ ao[o].mp # pipe
  \/ pc[o] = "filter" /\ ao[o].filter = NoFormat

\* AudioOutputSource::Fill() up to where it unlocks for the filter.
Fill(o) ==
  LET a == IF ao[o].current # 0 /\ ~ao[o].tag /\ ao[o].data = 0
           THEN DropCurrentChunk(ao[o]) ELSE ao[o]
      g == Get(a)
  IN /\ ~Undefined(o)
     /\ \/ a.current # 0 /\ Thread(o, "fill", a, "filled")
        \/ a.current = 0 /\ g.current = 0 /\ Thread(o, "fill", g, "nofill")
        \/ /\ a.current = 0 /\ g.current # 0
           /\ Thread(o, "fill", [g EXCEPT !.last = g.current], "filter")

\* FilterChunk() returns any amount of data, or throws.
Filter(o) ==
  /\ ~Undefined(o)
  /\ \/ \E d \in Portions, t \in BOOLEAN :
          Thread(o, "filter", [ao[o] EXCEPT !.data = d, !.tag = t], "filled")
     \/ /\ Fails("filter")
        /\ Thread(o, "filter", Failure(Shut([ao[o] EXCEPT !.current = 0])),
                  "close_nofill")

\* PlayChunk() first sends the tag, if there is one; an error is only logged.
PlayChunk(o, from) ==
  Thread(o, from, [ao[o] EXCEPT !.loop = TRUE, !.tag = FALSE],
         IF ao[o].tag THEN "send_tag" ELSE "data")

\* The top of the loop.  Every 64 chunks it wakes up the player first.
PlayLoop(o) ==
  \/ /\ ao[o].command # "NONE"
     /\ Thread(o, "filled", [ao[o] EXCEPT !.loop = FALSE], "task")
  \/ ao[o].command = "NONE" /\ PlayChunk(o, "filled")
  \/ /\ ao[o].command = "NONE"
     /\ Thread(o, "filled", [ao[o] EXCEPT !.loop = TRUE], "notify")

\* Faulty variant: woken_for_play is not reset.
NoFillStaysWoken(o) ==
  \/ ao[o].loop /\ Thread(o, "nofill", ao[o], "consumed")
  \/ ~ao[o].loop /\ Thread(o, "nofill", ao[o], "wait")

\* No chunk available: before or after having played some.
NoFill(o) ==
  \/ ao[o].loop /\ Thread(o, "nofill", ao[o], "consumed")
  \/ ~ao[o].loop /\ Thread(o, "nofill", [ao[o] EXCEPT !.woken = FALSE], "wait")

\* AudioOutputClient::ChunksConsumed() takes PlayerControl::mutex.
ChunksConsumed(o) ==
  /\ ~locked
  /\ \/ PlayChunk(o, "notify")
     \/ Thread(o, "consumed", [ao[o] EXCEPT !.loop = FALSE], "task")

\* The plugin throws AudioOutputInterrupted.
Interrupted(o) ==
  /\ ao[o].interrupted
  /\ pc[o] \in {"send_tag", "play"}
  /\ Thread(o, pc[o], [ao[o] EXCEPT !.caught = TRUE], "consumed")

\* SendTag() returns.
SendTag(o) == Thread(o, "send_tag", ao[o], "data")

\* PlayChunk() plays until the data are used up or a command arrives, and
\* waits for the device in between.
PlayData(o) ==
  LET a == ao[o]
      more == a.command = "NONE" /\ a.data > 0
  IN \/ ~more /\ Thread(o, "data", a, "fill")
     \/ more /\ \E next \in {"delay", "play"} : Thread(o, "data", a, next)
     \/ Thread(o, "delay", a, IF a.command = "NONE" THEN "play" ELSE "fill")

Play(o) ==
  \/ \E n \in 1..ao[o].data :
       LET a == [ao[o] EXCEPT !.data = @ - n]
       IN Thread(o, "play", IF a.data = 0 THEN DropCurrentChunk(a) ELSE a, "data")
  \/ Fails("play") /\ Thread(o, "play", Failure(Shut(ao[o])), "close_loop")

-----------------------------------------------------------------------------
(* InternalPause(). *)

BeginPause(o) ==
  \E next \in {"pause_delay", "pause"} :
    Thread(o, "begin_pause",
           [ao[o] EXCEPT !.pause = TRUE, !.command = "NONE",
                         !.interrupted = FALSE],
           next)

IteratePause(o) ==
  LET a == ao[o]
      over == [a EXCEPT !.pause = FALSE]
  IN \/ /\ pc[o] \in {"pause_delay", "pause"} /\ a.command # "NONE"
        /\ Thread(o, pc[o], over, "end_pause")
     \/ a.command = "NONE" /\ Thread(o, "pause_delay", a, "pause")
     \/ a.command = "NONE" /\ Thread(o, "pause", a, "pause_delay")
     \/ /\ Fails("pause") \/ a.interrupted
        /\ Thread(o, "pause", Shut(a), "close_pause")

EndPause(o) == Thread(o, "end_pause", ao[o], "task")

OutputThread(o) ==
  \/ TaskNone(o) \/ TaskEnable(o) \/ TaskDisable(o) \/ TaskOpen(o)
  \/ TaskClose(o) \/ TaskPause(o) \/ TaskRelease(o) \/ TaskDrain(o)
  \/ TaskCancel(o) \/ Wake(o) \/ Closed(o) \/ Disable(o)
  \/ Enable(o) \/ Cancelled(o) \/ Drain(o) \/ SourceOpen(o) \/ DeviceOpen(o)
  \/ Opened(o) \/ Fill(o) \/ Filter(o) \/ PlayLoop(o) \/ NoFill(o)
  \/ ChunksConsumed(o) \/ Interrupted(o) \/ SendTag(o) \/ PlayData(o) \/ Play(o)
  \/ BeginPause(o) \/ IteratePause(o) \/ EndPause(o)

-----------------------------------------------------------------------------
(* The player thread: MultipleOutputs, and AudioOutputControl as it uses it. *)

At(phase) == prog # <<>> /\ Head(prog) = phase

\* The loop is at output i, whose mutex is free.
Visits(phase) == At(phase) /\ i <= N /\ pc[i] \notin Holding

Call(p) == prog' = p /\ i' = 1 /\ stage' = "enter" /\ ok' = {}

Advance == i' = i + 1 /\ stage' = "enter" /\ UNCHANGED <<prog, ok>>

Await == stage' = "waiting" /\ UNCHANGED <<prog, i, ok>>

\* wake_cond.notify_one(): lost unless the thread is waiting.
Notify(o, p) == [p EXCEPT ![o] = IF @ = "wait" THEN "awake" ELSE @]

Visit(a) == ao' = [ao EXCEPT ![i] = a] /\ UNCHANGED <<head, tail, client, toggles>>

\* CommandAsync(), after StartThread() if there is no thread yet.
Command(a, cmd) ==
  /\ Visit([a EXCEPT !.command = cmd])
  /\ pc' = IF pc[i] = "none" THEN [pc EXCEPT ![i] = "awake"] ELSE Notify(i, pc)

\* output->Interrupt() comes before the mutex is taken.
Interrupt ==
  /\ prog # <<>> /\ Head(prog) \in {"pause", "cancel", "close", "release", "kill"}
  /\ i <= N /\ stage = "enter"
  /\ Visit([ao[i] EXCEPT !.interrupted = TRUE])
  /\ stage' = "interrupted"
  /\ UNCHANGED <<pc, prog, i, ok>>

\* StartThread() throws in EnableAsync(): Open() throws, and the client pauses
\* itself; for UPDATE_AUDIO nobody catches the exception, and MPD terminates.
EnableThrows ==
  /\ Visits("enable") /\ Fails("thread")
  /\ ao[i].enabled /\ ~ao[i].really /\ pc[i] = "none" /\ i \in EnableMethod
  /\ IF Tail(prog) = <<"wait">> THEN Call(<<"end">>) /\ UNCHANGED paused
     ELSE Call(<<>>) /\ paused' = TRUE
  /\ UNCHANGED <<ao, pc, head, tail, pipe, pipes, format, locked, ops, toggles>>

EnableDisableAsync ==
  LET a == ao[i] IN
  /\ Visits("enable")
  /\ Advance
  /\ \/ /\ a.enabled # a.really
        /\ pc[i] # "none" \/ (a.enabled /\ i \in EnableMethod)
        /\ Command(a, IF a.enabled THEN "ENABLE" ELSE "DISABLE")
     \/ /\ a.enabled # a.really
        /\ pc[i] = "none" /\ i \notin EnableMethod
        /\ Visit([a EXCEPT !.really = a.enabled])
        /\ UNCHANGED pc
     \/ /\ a.enabled = a.really
        /\ Visit(a)
        /\ UNCHANGED pc

\* Faulty variant: WaitAll() does not wait.
WaitForNothing ==
  /\ Visits("wait")
  /\ Advance
  /\ UNCHANGED <<ao, pc, head, tail, client, toggles>>

WaitForCommand ==
  /\ Visits("wait")
  /\ ao[i].command = "NONE"
  /\ Advance
  /\ UNCHANGED <<ao, pc, head, tail, client, toggles>>

\* AudioOutputControl::Open().  It fails if StartThread() throws.
OpenOutput(a) ==
  LET b == [a EXCEPT !.failed = FALSE, !.rformat = format, !.rpipe = pipe]
      fits == a.open /\ format = a.rformat /\ ~a.pause
  IN \/ /\ fits
        /\ Visit([a EXCEPT !.failed = FALSE])
        /\ i' = i + 1 /\ ok' = ok \cup {"open"} /\ UNCHANGED <<prog, stage, pc>>
     \/ ~fits /\ Command(b, "OPEN") /\ Await
     \/ /\ ~fits /\ pc[i] = "none" /\ Fails("thread")
        /\ Visit(b) /\ Advance /\ UNCHANGED pc

\* LockUpdate(); "reopen" is Update(true).  Whether REOPEN_AFTER has elapsed
\* is left open.
LockUpdate ==
  LET a == ao[i]
      usable == a.enabled /\ a.really
  IN /\ Visits("update") \/ Visits("reopen")
     /\ format # NoFormat /\ stage = "enter"
     /\ \/ usable /\ OpenOutput(a)
        \/ /\ usable /\ a.failed /\ At("update")
           /\ Visit(a) /\ Advance /\ UNCHANGED pc
        \/ ~usable /\ a.open /\ Command(a, "CLOSE") /\ Await
        \/ ~usable /\ ~a.open /\ Visit(a) /\ Advance /\ UNCHANGED pc

\* WaitForCommand() at the end of CommandWait().
CommandWait ==
  /\ prog # <<>> /\ Visits(Head(prog))
  /\ stage = "waiting" /\ ao[i].command = "NONE"
  /\ i' = i + 1 /\ stage' = "enter"
  /\ ok' = IF ao[i].open THEN ok \cup {"open"} ELSE ok
  /\ UNCHANGED <<prog, ao, pc, head, tail, client, toggles>>

\* Open() looks at what Update() has achieved.
OpenCheck ==
  LET a == ao[i] IN
  /\ Visits("check")
  /\ i' = i + 1 /\ UNCHANGED <<prog, stage>>
  /\ ok' = ok \cup (IF a.open THEN {"open"} ELSE {})
             \cup (IF a.enabled THEN {"enabled"} ELSE {})
  /\ Visit(a) /\ UNCHANGED pc

\* Faulty variant: LockCancelAsync() does not suspend playback.
CommandAsyncKeepsPlaying ==
  LET a == ao[i]
      cmd == CASE At("pause") -> "PAUSE" [] At("drain") -> "DRAIN"
               [] At("cancel") -> "CANCEL" [] OTHER -> "NONE"
  IN /\ \/ Visits("drain")
        \/ (Visits("pause") \/ Visits("cancel")) /\ stage = "interrupted"
     /\ Advance
     /\ \/ a.open /\ Command(a, cmd)
        \/ ~a.open /\ Visit(a) /\ UNCHANGED pc

\* The asynchronous commands: PAUSE, DRAIN and CANCEL, to open outputs.
CommandAsync ==
  LET a == ao[i]
      cmd == CASE At("pause") -> "PAUSE" [] At("drain") -> "DRAIN"
               [] At("cancel") -> "CANCEL" [] OTHER -> "NONE"
  IN /\ \/ Visits("drain")
        \/ (Visits("pause") \/ Visits("cancel")) /\ stage = "interrupted"
     /\ Advance
     /\ \/ a.open /\ Command([a EXCEPT !.allow = @ /\ cmd # "CANCEL"], cmd)
        \/ ~a.open /\ Visit(a) /\ UNCHANGED pc

\* LockCloseWait() and LockRelease().
LockCloseWait ==
  LET a == ao[i] IN
  /\ Visits("close") \/ Visits("release")
  /\ stage = "interrupted"
  /\ \/ /\ a.open
        /\ Command(a, IF At("close") THEN "CLOSE" ELSE "RELEASE")
        /\ Await
     \/ /\ ~a.open
        /\ Visit([a EXCEPT !.failed = FALSE])
        /\ Advance /\ UNCHANGED pc

LockPlay ==
  LET a == ao[i]
      wake == a.open /\ ~a.loop /\ ~a.woken
  IN /\ Visits("play")
     /\ Advance
     /\ Visit([a EXCEPT !.woken = @ \/ wake])
     /\ pc' = IF wake THEN Notify(i, pc) ELSE pc

\* Faulty variant: the thread is woken up, but playback is not allowed again.
LockAllowPlayForgotten ==
  /\ Visits("allow")
  /\ Advance
  /\ Visit(ao[i])
  /\ pc' = IF ao[i].open THEN Notify(i, pc) ELSE pc

LockAllowPlay ==
  /\ Visits("allow")
  /\ Advance
  /\ Visit([ao[i] EXCEPT !.allow = TRUE])
  /\ pc' = IF ao[i].open THEN Notify(i, pc) ELSE pc

\* BeginDestroy(), then StopThread() joins.
BeginDestroy ==
  /\ Visits("kill") /\ stage = "interrupted"
  /\ Advance
  /\ \/ pc[i] # "none" /\ Command(ao[i], "KILL")
     \/ pc[i] = "none" /\ Visit(ao[i]) /\ UNCHANGED pc

Join ==
  /\ Visits("join") /\ pc[i] \in {"none", "dead"}
  /\ Advance /\ Visit(ao[i]) /\ UNCHANGED pc

\* The end of a loop over the outputs (Update() does nothing unless open).
\* Open() ignores what Update(true) returns.
EndLoop ==
  /\ prog # <<>>
  /\ i > N \/ (At("update") /\ format = NoFormat)
  /\ Head(prog) \notin {"check", "ask", "clear_tail"}
  /\ prog' = Tail(prog) /\ i' = 1 /\ stage' = "enter"
  /\ ok' = IF At("reopen") THEN {} ELSE ok
  /\ UNCHANGED <<ao, pc, head, tail, client, toggles>>

\* Open() succeeds, or closes all outputs and throws.
OpenResult ==
  /\ At("check") /\ i > N
  /\ \/ /\ ok = {"enabled", "open"}
        /\ Call(<<>>) /\ paused' = FALSE
     \/ /\ ok # {"enabled", "open"}
        /\ Call(<<"close", "reset">>) /\ UNCHANGED paused
  /\ UNCHANGED <<ao, pc, head, tail, pipe, pipes, format, locked, ops, toggles>>

\* Play(): MusicPipe::Push(), or an exception when no output is open, upon
\* which the client considers itself paused.
Push ==
  /\ At("push")
  /\ \/ "open" \in ok /\ tail' = tail + 1 /\ Call(<<"play">>) /\ UNCHANGED paused
     \/ "open" \notin ok /\ UNCHANGED tail /\ Call(<<>>) /\ paused' = TRUE
  /\ UNCHANGED <<ao, pc, head, pipe, pipes, format, locked, ops, toggles>>

\* Cancel(): MusicPipe::Clear().
Clear ==
  /\ At("clear")
  /\ head' = tail
  /\ Call(Tail(prog))
  /\ UNCHANGED <<ao, pc, tail, client, toggles>>

\* Close() and Release(): pipe.reset(), input_audio_format.Clear().
Reset ==
  /\ At("reset")
  /\ head' = tail /\ pipe' = 0 /\ format' = NoFormat
  /\ Call(Tail(prog))
  /\ UNCHANGED <<ao, pc, tail, pipes, paused, locked, ops, toggles>>

Unlock ==
  /\ At("unlock")
  /\ locked' = FALSE
  /\ Call(<<>>)
  /\ UNCHANGED <<ao, pc, head, tail, pipe, pipes, format, paused, ops, toggles>>

-----------------------------------------------------------------------------
(* CheckPipe(). *)

\* Faulty variant: an output that has not started yet does not count.
ConsumedIfNotStarted(a) ==
  ~a.open \/ (a.chunk = head => a.consumed /\ head + 1 = tail)

\* AudioOutputControl::IsChunkConsumed() for the head of the pipe.
IsChunkConsumed(a) ==
  \/ ~a.open
  \/ /\ a.chunk # 0
     /\ a.chunk = head => a.consumed /\ head + 1 = tail

Ask ==
  /\ Visits("ask")
  /\ IF IsChunkConsumed(ao[i]) THEN Advance ELSE Call(<<>>)
  /\ UNCHANGED <<ao, pc, head, tail, client, toggles>>

\* All outputs have consumed the head: Shift(), unless it is the tail.
Asked ==
  /\ At("ask") /\ i > N
  /\ \/ head + 1 < tail /\ head' = head + 1 /\ Call(<<"ask">>)
     \/ head + 1 = tail /\ UNCHANGED head /\ Call(<<"clear_tail">>)
  /\ UNCHANGED <<ao, pc, tail, client, toggles>>

LockClearTailChunk ==
  LET a == ao[i] IN
  /\ Visits("clear_tail")
  /\ Advance
  /\ Visit(IF a.open THEN [a EXCEPT !.chunk = 0, !.allow = FALSE] ELSE a)
  /\ UNCHANGED pc

ShiftTail ==
  /\ At("clear_tail") /\ i > N
  /\ head' = head + 1
  /\ Call(<<"allow">>)
  /\ UNCHANGED <<ao, pc, tail, client, toggles>>

Method ==
  \/ Interrupt \/ EnableThrows \/ EnableDisableAsync \/ WaitForCommand \/ LockUpdate
  \/ CommandWait \/ OpenCheck \/ CommandAsync \/ LockCloseWait \/ LockPlay
  \/ LockAllowPlay \/ BeginDestroy \/ Join \/ EndLoop \/ OpenResult \/ Push
  \/ Clear \/ Reset \/ Unlock \/ Ask \/ Asked \/ LockClearTailChunk \/ ShiftTail

-----------------------------------------------------------------------------
(* The client: which methods Player and PlayerControl call when. *)

Start(op, p) ==
  /\ op \in Ops /\ prog = <<>> /\ ops > 0
  /\ ops' = ops - 1
  /\ Call(p)
  /\ UNCHANGED <<ao, pc, head, tail, toggles>>

\* The format may only change when the pipe is empty.
StartOpen(f) ==
  /\ pipe = 0 \/ head = tail \/ f = format
  /\ Start("open", <<"enable", "wait", "reopen", "check">>)
  /\ format' = f
  /\ pipes' = IF pipe = 0 THEN pipes + 1 ELSE pipes
  /\ pipe' = IF pipe = 0 THEN pipes + 1 ELSE pipe
  /\ UNCHANGED <<paused, locked>>

\* Player::PlayNextChunk().
StartPlay ==
  /\ "play" \in Ops /\ prog = <<>> /\ pipe # 0 /\ ~paused
  /\ tail <= MaxChunks
  /\ Call(<<"update", "push">>)
  /\ UNCHANGED <<ao, pc, head, tail, client, toggles>>

StartCheckPipe ==
  /\ prog = <<>> /\ pipe # 0 /\ head < tail
  /\ Call(<<"ask">>)
  /\ UNCHANGED <<ao, pc, head, tail, client, toggles>>

StartPause ==
  /\ Start("pause", <<"update", "pause", "wait">>)
  /\ paused' = TRUE
  /\ UNCHANGED <<pipe, pipes, format, locked>>

StartDrain ==
  /\ Start("drain", <<"drain", "wait">>)
  /\ pipe # 0 /\ head = tail /\ ~paused
  /\ UNCHANGED <<pipe, pipes, format, paused, locked>>

\* Player::SeekDecoder() cancels whether or not the outputs are open.
StartCancel ==
  /\ Start("cancel", <<"cancel", "wait", "clear", "allow">>)
  /\ UNCHANGED <<pipe, pipes, format, paused, locked>>

StartRelease ==
  /\ Start("release", <<"release", "reset">>)
  /\ paused' = FALSE
  /\ UNCHANGED <<pipe, pipes, format, locked>>

StartUpdateAudio ==
  /\ Start("update_audio", <<"enable", "wait">>)
  /\ UNCHANGED <<pipe, pipes, format, paused, locked>>

\* Player::SongBorder() with border_pause: Drain() and Pause() are called
\* with PlayerControl::mutex held.
StartBorderPause ==
  /\ Start("border", <<"drain", "wait", "update", "pause", "wait", "unlock">>)
  /\ pipe # 0 /\ head = tail /\ ~paused
  /\ locked' = TRUE /\ paused' = TRUE
  /\ UNCHANGED <<pipe, pipes, format>>

StartKill ==
  /\ Start("kill", <<"close", "reset", "kill", "join", "end">>)
  /\ UNCHANGED <<pipe, pipes, format, paused, locked>>

\* LockSetEnabled(), by the main thread.
LockSetEnabled(o) ==
  /\ toggles > 0 /\ pc[o] \notin Holding
  /\ toggles' = toggles - 1
  /\ ao' = [ao EXCEPT ![o].enabled = ~@]
  /\ UNCHANGED <<pc, head, tail, client, loop>>

\* A command came while InternalPlay() closed the output because its first
\* Fill() had failed: Task() goes to sleep without having looked at it.
CommandLost(o) ==
  Fails("filter") /\ pc[o] = "wait" /\ ~ao[o].open /\ ao[o].command # "NONE"

\* Three ways to wait for ever: behaviour is undefined, a command was lost, or
\* the player waits, with PlayerControl::mutex held, for an output thread that
\* needs it.
Stuck ==
  \E o \in Outs :
    \/ Undefined(o) \/ CommandLost(o)
    \/ locked /\ pc[o] \in {"notify", "consumed"} /\ ao[o].command # "NONE"

\* The player waits for a command, has exited, or waits for ever.
Rest == (prog = <<>> \/ At("end") \/ Stuck) /\ UNCHANGED vars

Next ==
  \/ Method
  \/ \E f \in Formats : StartOpen(f)
  \/ StartPlay \/ StartCheckPipe \/ StartPause \/ StartDrain \/ StartCancel
  \/ StartRelease \/ StartUpdateAudio \/ StartBorderPause
  \/ StartKill \/ Rest
  \/ \E o \in Outs : OutputThread(o) \/ LockSetEnabled(o)

Spec == Init /\ [][Next]_vars

\* Threads that can run do run, plugin calls return, a device that is given
\* data plays them, and the player polls CheckPipe() while there are chunks.
Fairness ==
  /\ \A o \in Outs : WF_vars(OutputThread(o))
  /\ WF_vars(Method)
  /\ WF_vars(StartCheckPipe)

FairSpec == Spec /\ Fairness

-----------------------------------------------------------------------------
(* Properties. *)

\* Every variable keeps its type, and no output refers to a chunk that was
\* never pushed.
TypeOK ==
  /\ \A o \in Outs :
       /\ DOMAIN ao[o] = DOMAIN Fresh
       /\ ao[o].command \in {"NONE", "ENABLE", "DISABLE", "OPEN", "CLOSE", "PAUSE",
                             "RELEASE", "DRAIN", "CANCEL", "KILL"}
       /\ {ao[o].current, ao[o].chunk} \subseteq 0 .. tail - 1
       /\ pc[o] \in Holding \cup Unlocked
  /\ head \in 1..tail
  /\ pipe \in 0..pipes
  /\ i \in 1 .. N + 1

\* The commands each loop of the player issues.
Issuing == {"enable", "reopen", "update", "pause", "drain", "cancel", "close",
            "release", "kill"}

\* RELEASE has kept the device of an "always_on" output open, and no OPEN has
\* attached it to a pipe since.
Released(o) == o \in AlwaysOn /\ ao[o].open /\ ao[o].last = -1

\* The asserts of AudioOutputControl on the player's calls: CommandAsync()
\* finds no command pending, and playback is allowed when a method other than
\* LockAllowPlay() is entered; and an output that is open for the format has
\* the pipe, unless Release() has left it open.
ClientAsserts ==
  prog # <<>> /\ i <= N /\ stage # "waiting" =>
    /\ Head(prog) \in Issuing => ao[i].command = "NONE"
    /\ Head(prog) \in (Issuing \cup {"play"}) \ {"enable", "cancel", "kill"} =>
         ao[i].allow
    /\ /\ At("reopen") \/ At("update")
       /\ ao[i].open /\ format = ao[i].rformat /\ ~Released(i)
       => ao[i].rpipe = pipe

\* An output that works has no pending reopen timer: LockRelease(),
\* LockCloseWait() and CloseWait() assert it.  The one error that leaves the
\* device open is that InternalOpen() cannot open the filter for a new format;
\* the source has no filter then, until it is opened again or closed.
OpenIsHealthy ==
  \A o \in Outs : ao[o].open /\ ao[o].failed => ao[o].filter = NoFormat

\* The output thread reads from a pipe only while that pipe exists, except if
\* Cancel() ends the pause of an output that Release() has left open.
\* An OPEN that has been executed for the current pipe ends the exception.
PipeAlive ==
  \A o \in Outs :
    LET unopened == ao[o].rpipe # pipe \/ ao[o].command = "OPEN" IN
    pc[o] = "fill" /\ ~(Released(o) /\ unopened) => ao[o].mp = pipe /\ pipe # 0

\* The output thread reads from a pipe only while that pipe exists.
PipeAlwaysAlive ==
  \A o \in Outs : pc[o] = "fill" => ao[o].mp = pipe /\ pipe # 0

\* Whatever the output thread does to a chunk without holding its mutex
\* (filtering, sending the tag, playing the data), the chunk is still in the
\* pipe; and the filter, unless it could not be opened, is the one for the
\* format of the pipe.
ChunkInUse ==
  \A o \in Outs :
    pc[o] \in {"filter", "send_tag", "delay", "play", "notify"} =>
      /\ head <= ao[o].current /\ ao[o].current < tail
      /\ ao[o].filter # NoFormat =>
           ao[o].filter = format /\ ao[o].format = format

\* No wake-up is lost: an output thread that sleeps has no command to execute
\* (but for a filter that has failed) and no chunk it could play, except while
\* the player is on its way to wake it up.
NoLostWakeup ==
  \A o \in Outs : pc[o] = "wait" =>
    /\ ao[o].command = "NONE" \/ CommandLost(o)
    /\ Playable(ao[o]) /\ Get(ao[o]).current # 0 => At("play") /\ i <= o

\* Every method the player calls returns, whatever the output threads were doing
\* when its commands arrived; and once the player calls no more of them but
\* CheckPipe(), all chunks are played and freed, unless it has paused.  The only
\* exceptions are the cases of Stuck.
OutputsSettle ==
  prog # <<>> \/ head < tail ~>
    (prog = <<>> /\ (head = tail \/ paused)) \/ At("end") \/ Stuck

\* Every method the player calls returns.
MethodsAlwaysReturn == (prog # <<>>) ~> (prog = <<>> \/ At("end"))

-----------------------------------------------------------------------------
(* Outputs implements SharedPipe.  An output takes part in the sharing     *)
(* while it is open, but not while a RELEASE has paused an "always_on"     *)
(* output.  Between ConsumeData() and the next Fill(), both under one      *)
(* lock, the chunk still counts as the current one.                        *)

Attached(a) == a.open /\ a.last # -1

Dropped(a, p) == Attached(a) /\ p \in {"data", "fill"} /\ a.loop /\ a.current = 0

SharedOpen == [o \in Outs |-> Attached(ao[o])]

\* Without a pipe there is nothing to be played or to be cancelled.
SharedAllow == [o \in Outs |-> ao[o].allow \/ pipe = 0]

SharedCancelling ==
  [o \in Outs |-> /\ ao[o].command = "CANCEL" /\ pc[o] # "cancelling"
                  /\ pipe # 0]

SharedChunk == [o \in Outs |-> IF Attached(ao[o]) THEN ao[o].chunk ELSE 0]

SharedConsumed == [o \in Outs |-> ao[o].consumed /\ ~Dropped(ao[o], pc[o])]

SharedCurrent ==
  [o \in Outs |-> CASE Dropped(ao[o], pc[o]) -> ao[o].chunk
                    [] Attached(ao[o]) /\ ~Dropped(ao[o], pc[o]) -> ao[o].current
                    [] OTHER -> 0]

SharedLast == [o \in Outs |-> IF Attached(ao[o]) THEN ao[o].last ELSE 0]

\* Cancel() waits for the outputs, or has done so.
Waited ==
  \/ At("clear")
  \/ At("wait") /\ Tail(prog) # <<>> /\ Head(Tail(prog)) = "clear"

PlayerState ==
  CASE At("ask") -> "asking" [] At("clear_tail") -> "clearing"
    [] At("allow") -> "allowing" [] At("cancel") \/ Waited -> "cancel"
    [] OTHER -> "idle"

Done ==
  CASE Waited -> Outs
    [] At("ask") \/ At("clear_tail") \/ At("allow") \/ At("cancel") ->
         {o \in Outs : o < i}
    [] OTHER -> {}

SP == INSTANCE SharedPipe WITH
  Outputs <- Outs, open <- SharedOpen, allow_play <- SharedAllow,
  cancelling <- SharedCancelling, chunk <- SharedChunk,
  consumed <- SharedConsumed, current <- SharedCurrent, last <- SharedLast,
  player <- PlayerState, done <- Done

\* The output threads and the player share the pipe as SharedPipe says:
\* every step of theirs is a step of SharedPipe or leaves its state alone.
ImplementsSharedPipe == SP!Spec

=============================================================================
