------------------------------- MODULE Player -------------------------------
(***************************************************************************)
(* The player thread (player/Thread.cxx), the decoder thread               *)
(* (decoder/Thread.cxx, decoder/Bridge.cxx), the commands that the main    *)
(* thread sends to the former (player/Control.cxx) and the former to the   *)
(* latter (decoder/Control.cxx), and how the playlist in the main thread   *)
(* keeps itself in step (queue/Playlist.cxx).  The outputs are what        *)
(* Outputs promises: a queue of chunks that is played in order.            *)
(*                                                                         *)
(* All three threads share PlayerControl::mutex.  An action is what a      *)
(* thread does between two points where it does not hold that mutex; "at"  *)
(* and "dat" say at which point the player and the decoder are.            *)
(***************************************************************************)
EXTENDS Integers, Sequences, SequencesExt

CONSTANTS
  Songs,
  FormatOf,       \* the audio format each song is decoded to
  Seekable,       \* the songs the decoder plugin can seek in
  BufferSize,     \* chunks in the MusicBuffer
  OutputSize,     \* the player sends chunks while the outputs have fewer
  BeforePlay,     \* buffer_before_play
  WakeThreshold,  \* decoder_wakeup_threshold
  CrossFade,      \* bound on cross_fade_chunks; 0 disables cross-fading
  Ops,            \* what the user may do
  Faults,         \* what may fail
  SeekTimes,      \* the positions the user may seek to
  MaxOps          \* bound on user operations

None == "none"

OpNames == {"play", "seek", "stop", "pause", "status", "update_audio",
            "requeue", "border_pause", "exit"}

FaultNames == {"path", "start", "no_ready", "convert", "read", "seek", "open",
               "play"}

ASSUME PlayerAssumption ==
  /\ None \notin Songs
  /\ None \notin {FormatOf[s] : s \in Songs}
  /\ Seekable \subseteq Songs
  /\ BufferSize \in Nat /\ OutputSize \in Nat \ {0} /\ BeforePlay \in Nat
  /\ WakeThreshold \in Nat /\ CrossFade \in Nat /\ SeekTimes \subseteq Nat
  /\ MaxOps \in Nat
  /\ Ops \subseteq OpNames /\ Faults \subseteq FaultNames

VARIABLES
  pc,      \* PlayerControl
  pl,      \* Player, the object that plays
  at,      \* where the player thread is
  dc,      \* DecoderControl
  br,      \* DecoderBridge
  dat,     \* where the decoder thread is
  pipes,   \* the two music pipes between decoder and player
  out,     \* MultipleOutputs
  main,    \* the main thread
  sync,    \* an OnPlayerSync() event is pending
  asleep   \* which of the player and the decoder wait to be signalled

vars == <<pc, pl, at, dc, br, dat, pipes, out, main, sync, asleep>>

PipeIds == {1, 2}

\* An empty MusicPipe has no format.
EmptyPipe == [size |-> 0, format |-> None]

\* No Player and no DecoderBridge object exists.  Here and elsewhere a field
\* that will be written before it is next read has a fixed value.
NoPlayer ==
  [pipe |-> 0, song |-> None, buffering |-> FALSE, starting |-> FALSE,
   woken |-> FALSE, paused |-> FALSE, queued |-> FALSE, output_open |-> FALSE,
   xfade |-> "UNKNOWN", fade |-> 0, format |-> None, pending |-> 0]

NoBridge ==
  [initial |-> "no", seeking |-> FALSE, chunk |-> FALSE, essential |-> FALSE,
   error |-> FALSE, success |-> TRUE, target |-> 0]

Init ==
  /\ pc = [command |-> "NONE", state |-> "STOP", next_song |-> None,
           seek_time |-> 0, seeking |-> FALSE, error |-> "NONE",
           border_pause |-> FALSE, occupied |-> FALSE]
  /\ pl = NoPlayer
  /\ at = "idle"
  /\ dc = [command |-> "NONE", state |-> "STOP", song |-> None, pipe |-> 0,
           format |-> None, seekable |-> FALSE, start |-> 0, seek_time |-> 0,
           essential |-> FALSE, seek_error |-> FALSE, quit |-> FALSE]
  /\ br = NoBridge
  /\ dat = "idle"
  /\ pipes = [p \in PipeIds |-> EmptyPipe]
  /\ out = [open |-> FALSE, paused |-> FALSE, queue |-> <<>>, consumed |-> 0,
            format |-> None, tell |-> FALSE, enabled |-> TRUE, really |-> FALSE]
  /\ main = [prog |-> <<>>, stage |-> "enter", song |-> None, time |-> 0,
             playing |-> FALSE, queued |-> FALSE, ops |-> MaxOps]
  /\ sync = FALSE
  /\ asleep = {}

\* Places where the player goes on to the rest of its loop with the mutex
\* still held.
Free == at \notin {"body", "multiplex"}

-----------------------------------------------------------------------------
(* Shared operators. *)

Fails(f) == f \in Faults

\* Chunks taken from the MusicBuffer.
Used ==
  pipes[1].size + pipes[2].size + (IF br.chunk THEN 1 ELSE 0)
    + FoldSeq(LAMBDA n, sum : n + sum, 0, out.queue)

\* Faulty variant: one chunk too many.
BufferOverfull == Used > BufferSize

BufferFull == Used >= BufferSize

Size(p) == IF p = 0 THEN 0 ELSE pipes[p].size

\* Clear(), Push() of the decoder, and Shift().
Cleared(p) == IF p = 0 THEN pipes ELSE [pipes EXCEPT ![p] = EmptyPipe]

\* Faulty variant: only the decoder's pipe is cleared.
OneCleared == Cleared(dc.pipe)

\* The decoder's pipe and the player's.
BothCleared == [p \in PipeIds |-> EmptyPipe]

Pushed ==
  [pipes EXCEPT ![dc.pipe] = [size |-> @.size + 1, format |-> dc.format]]

Shifted(ps, p) ==
  [ps EXCEPT ![p] = IF @.size = 1 THEN EmptyPipe ELSE [@ EXCEPT !.size = @ - 1]]

\* std::make_shared<MusicPipe>(), while the player still holds pl.pipe.
OtherPipe == CHOOSE p \in PipeIds : p # pl.pipe

DecoderIdle == dc.state \in {"STOP", "ERROR"}

IsCurrentSong(s) == ~DecoderIdle /\ dc.song = s

IsDecoderAtCurrentSong == dc.pipe = pl.pipe

IsDecoderAtNextSong == dc.pipe # 0 /\ ~IsDecoderAtCurrentSong

\* CommandFinished() and CancelPendingSeek() of PlayerControl.
Finished(c) == [c EXCEPT !.command = "NONE"]

\* CheckPipe() of the outputs.
Checked(o) ==
  [o EXCEPT !.queue = SubSeq(@, o.consumed + 1, Len(@)), !.consumed = 0]

Remaining(o) == Len(o.queue) - o.consumed

\* All outputs are closed, by an error or because they are disabled: none of
\* them needs the chunks any more.
OutDown(o) == [o EXCEPT !.open = FALSE, !.consumed = Len(o.queue)]

\* An output that is opened again begins with the first chunk that is left.
OutUp(o) ==
  [o EXCEPT !.open = TRUE, !.consumed = IF o.open THEN @ ELSE 0]

\* The flags "enabled" and "really_enabled", the same of all outputs.
Usable(o) == o.enabled /\ o.really

EnableDisable(o) ==
  [(IF o.enabled THEN o ELSE OutDown(o)) EXCEPT !.really = o.enabled]

\* Pause(), after an Update() that may open the outputs again.
OutPauses(o) ==
  {[u EXCEPT !.paused = TRUE] :
     u \in IF ~Usable(o) THEN {OutDown(o)}
           ELSE {o} \cup (IF o.format # None THEN {OutUp(o)} ELSE {})}

\* Open(), Cancel() and Close() or Release() of the outputs.
OutOpen(o, f) == [OutUp(o) EXCEPT !.paused = FALSE, !.format = f]

\* Faulty: the devices are told to cancel, the pipe keeps its chunks.
OutCancelKeepsPipe(o) == o

OutCancel(o) == [o EXCEPT !.queue = <<>>, !.consumed = 0]

OutClose(o) ==
  [OutCancel(o) EXCEPT !.open = FALSE, !.paused = FALSE, !.format = None,
                       !.tell = FALSE]

Wake(t) == asleep' = asleep \ {t}

Sleep(t) == asleep' = asleep \cup {t}

-----------------------------------------------------------------------------
(* The decoder thread. *)

DecoderTo(to) ==
  /\ dat' = to
  /\ UNCHANGED <<pc, pl, at, out, main, sync>>

\* DecoderControl::RunThread() with no command, or with STOP.
DecoderWait ==
  /\ dat = "idle" /\ Free /\ "decoder" \notin asleep
  /\ dc.command = "NONE"
  /\ Sleep("decoder")
  /\ DecoderTo("idle") /\ UNCHANGED <<dc, br, pipes>>

DecoderStopped ==
  /\ dat = "idle" /\ Free /\ "decoder" \notin asleep
  /\ dc.command = "STOP"
  /\ dc' = [dc EXCEPT !.command = "NONE"]
  /\ Wake("player")
  /\ DecoderTo(IF dc.quit THEN "dead" ELSE "idle") /\ UNCHANGED <<br, pipes>>

\* Faulty variant: a late seek does not clear the pipe.
LateSeekKeepsPipe == pipes

\* The pipe that a decoder starts with after a late seek.
LateSeekPipe == Cleared(dc.pipe)

\* START, or SEEK that arrived after the song was finished: decoder_run()
\* up to where decoder_run_song() unlocks.
DecoderRun ==
  LET late == dc.command = "SEEK"
      start == IF late THEN dc.seek_time ELSE dc.start
      d == [dc EXCEPT !.command = "NONE", !.start = 0, !.seek_time = 0]
  IN /\ dat = "idle" /\ Free /\ "decoder" \notin asleep
     /\ dc.command \in {"START", "SEEK"}
     /\ pipes' = IF late THEN LateSeekPipe ELSE pipes
     /\ Wake("player")
     /\ \/ /\ dc' = [d EXCEPT !.state = "START"]
           /\ br' = [NoBridge EXCEPT
                       !.initial = IF start > 0 THEN "pending" ELSE "no",
                       !.essential = dc.essential, !.target = start]
           /\ DecoderTo("start")
        \/ /\ Fails("path")
           /\ dc' = [d EXCEPT !.state = "ERROR"]
           /\ UNCHANGED br /\ DecoderTo("idle")

\* The plugin is probed until it calls Ready(), fails, or is stopped.
Ready ==
  /\ dat = "start" /\ Free
  /\ dc' = [dc EXCEPT !.state = "DECODE", !.format = FormatOf[dc.song],
                      !.seekable = dc.song \in Seekable]
  /\ UNCHANGED pipes
  /\ \/ UNCHANGED br
     \/ Fails("convert") /\ br' = [br EXCEPT !.error = TRUE]
  /\ Wake("player")
  /\ DecoderTo("decode")

\* No plugin accepts the song; StopDecoder; or decoder_run_file() returns true
\* after an exception although no plugin has called Ready().
NotReady ==
  /\ dat = "start"
  /\ \/ Fails("start") /\ br' = [br EXCEPT !.success = FALSE]
     \/ dc.command = "STOP" /\ br' = [br EXCEPT !.success = TRUE]
     \/ Fails("no_ready") /\ br' = [br EXCEPT !.success = TRUE]
  /\ DecoderTo("end") /\ UNCHANGED <<dc, pipes, asleep>>

\* GetVirtualCommand() in the plugin's loop: STOP, SEEK (a real one, or the
\* initial one), or go on decoding until the end of the file or an error.
GetCommand ==
  LET initial == /\ br.initial = "pending" /\ dc.seekable
                 /\ dc.command = "NONE"
      b == [br EXCEPT !.initial = IF initial THEN "running" ELSE "no"]
  IN /\ dat = "decode" /\ Free
     /\ \/ br.error /\ UNCHANGED br /\ DecoderTo("end")
        \/ ~br.error /\ initial /\ br' = b /\ DecoderTo("seek")
        \/ /\ ~br.error /\ ~initial /\ dc.command = "STOP"
           /\ br' = b /\ DecoderTo("end")
        \/ /\ ~br.error /\ ~initial /\ dc.command = "SEEK"
           /\ br' = [b EXCEPT !.seeking = TRUE] /\ DecoderTo("seek")
        \/ /\ ~br.error /\ ~initial /\ dc.command = "NONE"
           /\ br' = b /\ DecoderTo("chunk")
        \/ /\ ~br.error /\ ~initial /\ dc.command = "NONE"
           /\ br' = b /\ DecoderTo("end")
        \/ /\ ~br.error /\ ~initial /\ dc.command = "NONE" /\ Fails("read")
           /\ br' = [b EXCEPT !.error = TRUE] /\ DecoderTo("end")
     /\ UNCHANGED <<dc, pipes, asleep>>

\* DecoderBridge::CommandFinished() and SeekError().
SeekFinished ==
  LET b == [br EXCEPT !.initial = "no", !.seeking = FALSE] IN
  /\ dat = "seek" /\ Free
  /\ DecoderTo("decode")
  /\ IF br.initial = "running"
     THEN /\ \/ br' = b
             \/ Fails("seek") /\ br' = [b EXCEPT !.error = br.essential]
          /\ UNCHANGED <<dc, pipes, asleep>>
     ELSE /\ Wake("player")
          /\ \/ /\ br' = [b EXCEPT !.chunk = FALSE, !.target = dc.seek_time]
                /\ pipes' = Cleared(dc.pipe)
                /\ dc' = [dc EXCEPT !.command = "NONE", !.seek_time = 0]
             \/ /\ Fails("seek")
                /\ br' = b /\ UNCHANGED pipes
                /\ dc' = [dc EXCEPT !.command = "NONE", !.seek_time = 0,
                                    !.seek_error = TRUE]

\* GetChunk(): Allocate(), or NeedChunks() if the buffer is full.
GetChunk ==
  /\ dat = "chunk" /\ "decoder" \notin asleep
  /\ \/ /\ br.chunk \/ ~BufferFull
        /\ br' = [br EXCEPT !.chunk = TRUE]
        /\ DecoderTo(IF br.chunk THEN "fill" ELSE "push") /\ UNCHANGED <<dc, pipes, asleep>>
     \/ /\ ~br.chunk /\ BufferFull
        /\ DecoderTo("need") /\ UNCHANGED <<dc, br, pipes, asleep>>

\* The signal may have come between the two: it is lost then.
NeedChunks ==
  /\ dat = "need" /\ Free
  /\ \/ /\ dc.command = "NONE"
        /\ Sleep("decoder") /\ DecoderTo("needed")
     \/ /\ dc.command # "NONE"
        /\ UNCHANGED asleep /\ DecoderTo("decode")
  /\ UNCHANGED <<dc, br, pipes>>

NeededChunks ==
  /\ dat = "needed" /\ Free /\ "decoder" \notin asleep
  /\ DecoderTo(IF dc.command = "NONE" THEN "chunk" ELSE "decode")
  /\ UNCHANGED <<dc, br, pipes, asleep>>

\* The chunk is full and FlushChunk() pushes it, or the plugin goes on.  A second
\* SubmitData() fills it.
FlushChunk ==
  /\ \/ /\ dat \in {"push", "fill"}
        /\ br' = [br EXCEPT !.chunk = FALSE]
        /\ pipes' = Pushed
        /\ DecoderTo("pushed")
     \/ dat = "push" /\ UNCHANGED <<br, pipes>> /\ DecoderTo("decode")
  /\ UNCHANGED <<dc, asleep>>

\* ... and notifies the player.
Flushed ==
  /\ dat = "pushed" /\ Free
  /\ Wake("player")
  /\ DecoderTo("decode") /\ UNCHANGED <<dc, br, pipes>>

\* The end of decoder_run_song(): CheckFlushChunk() ...
CheckFlushChunk ==
  /\ dat = "end"
  /\ br' = [br EXCEPT !.chunk = FALSE]
  /\ pipes' = IF br.chunk THEN Pushed ELSE pipes
  /\ DecoderTo("ended") /\ UNCHANGED <<dc, asleep>>

\* ... and the result.  The handler in decoder_run() clears the command.
DecoderEnded ==
  /\ dat = "ended" /\ Free
  /\ dc' = IF br.success /\ ~br.error
           THEN [dc EXCEPT !.state = "STOP"]
           ELSE [dc EXCEPT !.state = "ERROR", !.command = "NONE",
                           !.seek_time = 0]
  /\ Wake("player")
  /\ DecoderTo("idle") /\ br' = NoBridge
  /\ UNCHANGED pipes

Decoder ==
  \/ DecoderWait \/ DecoderStopped \/ DecoderRun \/ Ready \/ NotReady
  \/ GetCommand \/ SeekFinished \/ GetChunk \/ NeedChunks \/ NeededChunks
  \/ FlushChunk \/ Flushed \/ CheckFlushChunk \/ DecoderEnded

-----------------------------------------------------------------------------
(* The outputs, as Outputs describes them. *)

\* An output finishes a chunk, or fails and closes itself; at the latest after
\* the last chunk, it will notify the player.
Consume ==
  /\ out.open /\ ~out.paused /\ Remaining(out) > 0
  /\ \/ \E t \in {Remaining(out) = 1, TRUE} :
          out' = [out EXCEPT !.consumed = @ + 1, !.tell = @ \/ t]
     \/ /\ Fails("play")
        /\ out' = [OutDown(out) EXCEPT !.tell = TRUE]
  /\ UNCHANGED <<pc, pl, at, dc, br, dat, pipes, main, sync, asleep>>

ChunksConsumed ==
  /\ out.tell /\ Free
  /\ out' = [out EXCEPT !.tell = FALSE]
  /\ Wake("player")
  /\ UNCHANGED <<pc, pl, at, dc, br, dat, pipes, main, sync>>

OutputThread == Consume \/ ChunksConsumed

-----------------------------------------------------------------------------
(* The player thread: common parts. *)

\* The player thread is at "from" and can run.
PlayerAt(from) == at = from /\ "player" \notin asleep

\* The head of the loop in Run(); "slept" and "slept_busy" are waits that began
\* on what the player saw before it locked the mutex.
AtLoop == \E l \in {"loop", "slept", "slept_busy"} : PlayerAt(l)

\* The rest of the loop in Run(), reached after a command or without one.
Body == at = "body" \/ (AtLoop /\ pc.command = "NONE")

PlayerTo(to) == at' = to /\ UNCHANGED <<br, dat, main>>

\* dc.WaitForDecoder() and pc.Wait().
PlayerWaits(to) == PlayerTo(to) /\ Sleep("player")

\* StartDecoder(), up to the wait for the START command.
StartDecoder(p, essential, to) ==
  /\ dc' = [dc EXCEPT !.song = pc.next_song, !.start = pc.seek_time,
                      !.essential = essential, !.pipe = p, !.command = "START",
                      !.state = IF @ = "ERROR" THEN "STOP" ELSE @]
  /\ Wake("decoder")
  /\ PlayerTo(to)

\* The condition for which the synchronous commands to the decoder wait.
DecoderDone == dc.command = "NONE"

\* Faulty variant: the song remains queued.
ActivatedStillQueued(p) ==
  [p EXCEPT !.song = pc.next_song, !.starting = TRUE,
            !.pending = 0]

\* ActivateDecoder().
Activated(p) ==
  [p EXCEPT !.queued = FALSE, !.song = pc.next_song, !.starting = TRUE,
            !.pending = 0]

\* StopDecoder(), up to the wait for the STOP command, if there is one.
StopDecoder(to) ==
  /\ dc' = IF DecoderIdle THEN dc ELSE [dc EXCEPT !.command = "STOP"]
  /\ Wake("decoder")
  /\ PlayerTo(to)

\* Faulty variant: cross-fading is not cancelled.
StoppedStillFading(p) == p

\* The end of StopDecoder().
Stopped(p) == IF dc.pipe # 0 THEN [p EXCEPT !.xfade = "UNKNOWN", !.fade = 0] ELSE p

-----------------------------------------------------------------------------
(* PlayerControl::RunThread(), while nothing is played. *)

ThreadWait ==
  /\ PlayerAt("idle") /\ pc.command = "NONE"
  /\ PlayerWaits("idle")
  /\ UNCHANGED <<pc, pl, dc, pipes, out, sync>>

\* SEEK and QUEUE create a Player and call Run().
ThreadPlay ==
  /\ PlayerAt("idle") /\ pc.command \in {"SEEK", "QUEUE"}
  /\ pl' = [NoPlayer EXCEPT !.pipe = 1, !.buffering = TRUE, !.queued = TRUE]
  /\ StartDecoder(1, TRUE, "start_run")
  /\ UNCHANGED <<pc, pipes, out, sync>>

ThreadCommand ==
  /\ PlayerAt("idle")
  /\ \/ /\ pc.command \in {"PAUSE", "CANCEL"}
        /\ pc' = Finished([pc EXCEPT !.next_song = None]) /\ UNCHANGED out
     \/ /\ pc.command = "CLOSE_AUDIO"
        /\ pc' = Finished(pc) /\ out' = OutClose(out)
     \/ /\ pc.command \in {"UPDATE_AUDIO", "REFRESH"}
        /\ pc' = Finished(pc)
        /\ out' = IF pc.command = "REFRESH" THEN out ELSE EnableDisable(out)
  /\ PlayerTo("idle") /\ UNCHANGED <<pl, dc, pipes, sync, asleep>>

\* EXIT: dc.Quit() and outputs.Close().
ThreadExit ==
  \/ /\ PlayerAt("idle") /\ pc.command = "EXIT"
     /\ dc' = [dc EXCEPT !.quit = TRUE, !.command = "STOP"]
     /\ Wake("decoder")
     /\ PlayerTo("join") /\ UNCHANGED <<pc, pl, pipes, out, sync>>
  \/ /\ at = "join" /\ dat = "dead"
     /\ pc' = Finished(pc) /\ out' = OutClose(out)
     /\ PlayerTo("dead") /\ UNCHANGED <<pl, dc, pipes, sync, asleep>>

-----------------------------------------------------------------------------
(* Player::Run(): beginning, and the commands. *)

RunStarted ==
  /\ at = "start_run" /\ DecoderDone
  /\ pl' = Activated(pl)
  /\ pc' = Finished([pc EXCEPT !.next_song = None, !.state = "PLAY"])
  /\ sync' = TRUE
  /\ PlayerTo("loop") /\ UNCHANGED <<dc, pipes, out, asleep>>

CommandStop ==
  /\ AtLoop
  /\ \/ pc.command \in {"EXIT", "CLOSE_AUDIO"}
     \/ pc.command = "CANCEL" /\ pc.next_song = None
  /\ PlayerTo("end") /\ UNCHANGED <<pc, pl, dc, pipes, out, sync, asleep>>

CommandQueue ==
  /\ AtLoop /\ pc.command = "QUEUE"
  /\ pl' = [pl EXCEPT !.queued = TRUE]
  /\ pc' = Finished(pc)
  /\ IF DecoderIdle THEN StartDecoder(OtherPipe, FALSE, "start_loop")
     ELSE PlayerTo("body") /\ UNCHANGED <<dc, asleep>>
  /\ UNCHANGED <<pipes, out, sync>>

CommandPause ==
  /\ AtLoop /\ pc.command = "PAUSE"
  /\ \/ /\ ~pl.paused
        /\ pl' = [pl EXCEPT !.paused = TRUE]
        /\ pc' = Finished([pc EXCEPT !.state = "PAUSE"])
        /\ out' \in OutPauses(out)
        /\ PlayerTo("body")
     \/ /\ pl.paused /\ pl.format = None
        /\ pl' = [pl EXCEPT !.paused = FALSE]
        /\ pc' = Finished([pc EXCEPT !.state = "PLAY"])
        /\ UNCHANGED out /\ PlayerTo("body")
     \/ /\ pl.paused /\ pl.format # None
        /\ pl' = [pl EXCEPT !.paused = FALSE]
        /\ UNCHANGED <<pc, out>> /\ PlayerTo("open_resume")
  /\ UNCHANGED <<dc, pipes, sync, asleep>>

\* Faulty variant: "queued" is not reset.
CancelledStillQueued(p) == p

Cancelled(p) == [p EXCEPT !.queued = FALSE]

CommandCancel ==
  /\ AtLoop /\ pc.command = "CANCEL" /\ pc.next_song # None
  /\ \/ /\ IsDecoderAtNextSong
        /\ pc' = [pc EXCEPT !.occupied = TRUE]
        /\ StopDecoder("stop_cancel") /\ UNCHANGED pl
     \/ /\ ~IsDecoderAtNextSong
        /\ pc' = Finished([pc EXCEPT !.next_song = None])
        /\ pl' = Cancelled(pl)
        /\ PlayerTo("body") /\ UNCHANGED <<dc, asleep>>
  /\ UNCHANGED <<pipes, out, sync>>

CancelStopped ==
  /\ at = "stop_cancel" /\ DecoderDone
  /\ pc' = Finished([pc EXCEPT !.next_song = None, !.occupied = FALSE])
  /\ pl' = Cancelled(Stopped(pl))
  /\ pipes' = Cleared(dc.pipe)
  /\ dc' = [dc EXCEPT !.pipe = 0]
  /\ PlayerTo("body") /\ UNCHANGED <<out, sync, asleep>>

CommandUpdateAudio ==
  /\ AtLoop /\ pc.command = "UPDATE_AUDIO"
  /\ pc' = Finished(pc)
  /\ out' = EnableDisable(out)
  /\ PlayerTo("body") /\ UNCHANGED <<pl, dc, pipes, sync, asleep>>

CommandRefresh ==
  /\ AtLoop /\ pc.command = "REFRESH"
  /\ pc' = Finished(pc)
  /\ out' = IF pl.output_open /\ ~pl.paused THEN Checked(out) ELSE out
  /\ PlayerTo("body") /\ UNCHANGED <<pl, dc, pipes, sync, asleep>>

\* Faulty variant: a failure does not pause.
OpenFailedKeepsPlaying(p) == [p EXCEPT !.output_open = FALSE]

OpenFailed(p) == [p EXCEPT !.output_open = FALSE, !.paused = TRUE]

\* OpenOutput(), for PAUSE ("open_resume") and CheckDecoderStartup().
OpenOutput ==
  LET resume == at = "open_resume"
      Done(c) == IF resume THEN Finished(c) ELSE c
      o == EnableDisable(out)
  IN /\ at \in {"open_resume", "open_start"}
     /\ \/ /\ o.enabled
           /\ out' = OutOpen(o, pl.format)
           /\ pl' = [pl EXCEPT !.output_open = TRUE, !.paused = FALSE]
           /\ pc' = Done([pc EXCEPT !.state = "PLAY"])
        \/ /\ Fails("open") \/ ~o.enabled
           /\ out' = OutClose(o)
           /\ pl' = OpenFailed(pl)
           /\ pc' = Done([pc EXCEPT !.error = "OUTPUT", !.state = "PAUSE"])
     /\ PlayerTo(IF resume THEN "body" ELSE "loop")
     /\ UNCHANGED <<dc, pipes, sync, asleep>>

-----------------------------------------------------------------------------
(* Player::SeekDecoder(). *)

\* Not seekable: fail early.  Otherwise the outputs are cancelled first.
CommandSeek ==
  /\ AtLoop /\ pc.command = "SEEK"
  /\ IF pc.seek_time > 0 /\ ~dc.seekable /\ IsCurrentSong(pc.next_song)
     THEN /\ pc' = Finished([pc EXCEPT !.next_song = None, !.error = "DECODER"])
          /\ PlayerTo("body") /\ UNCHANGED <<pl, out>>
     ELSE /\ pc' = [pc EXCEPT !.seeking = FALSE]
          /\ pl' = [pl EXCEPT !.pending = 0]
          /\ out' = OutCancel(out)
          /\ PlayerTo("cancelled")
  /\ UNCHANGED <<dc, pipes, sync, asleep>>

\* dc.Seek(), up to the wait for the SEEK command.
SeekDecoder(t, to) ==
  /\ dc' = [dc EXCEPT !.seek_time = t, !.seek_error = FALSE, !.command = "SEEK"]
  /\ Wake("decoder")
  /\ PlayerTo(to)

\* Faulty variants: the seek is not postponed, or nobody waits for it.
NeverPostponed == FALSE
PostponedSilently(c) == Finished(c)

\* The decoder is not ready: the seek is postponed, and the main thread waits.
MustPostpone == pl.starting

Postponed(c) == Finished([c EXCEPT !.seeking = TRUE])

SeekCancelled ==
  LET same == dc.seekable /\ IsCurrentSong(pc.next_song)
      p == [pl EXCEPT !.queued = FALSE, !.pipe = dc.pipe,
                      !.xfade = IF IsDecoderAtCurrentSong THEN @ ELSE "UNKNOWN"]
      c == [pc EXCEPT !.next_song = None]
  IN /\ at = "cancelled"
     /\ \/ /\ ~same
           /\ pc' = [pc EXCEPT !.occupied = TRUE]
           /\ StopDecoder("stop_seek") /\ UNCHANGED pl
        \/ /\ same /\ MustPostpone
           /\ pl' = [p EXCEPT !.pending = pc.seek_time]
           /\ pc' = Postponed(c)
           /\ PlayerTo("body") /\ UNCHANGED <<dc, asleep>>
        \/ /\ same /\ ~MustPostpone /\ pl' = p
           /\ pc' = [c EXCEPT !.occupied = TRUE]
           /\ SeekDecoder(pc.seek_time, "seek")
     /\ UNCHANGED <<pipes, out, sync>>

\* Another song, or the decoder has left this one: start it again.
SeekStopped ==
  /\ at = "stop_seek" /\ DecoderDone
  /\ pl' = Stopped(pl)
  /\ pc' = [pc EXCEPT !.occupied = FALSE]
  /\ pipes' = BothCleared
  /\ StartDecoder(pl.pipe, TRUE, "start_seek")
  /\ UNCHANGED <<out, sync>>

SeekStarted ==
  /\ at = "start_seek" /\ DecoderDone
  /\ pl' = Activated(pl)
  /\ pc' = Finished([pc EXCEPT !.next_song = None, !.seeking = TRUE])
  /\ sync' = TRUE
  /\ PlayerTo("body") /\ UNCHANGED <<dc, pipes, out, asleep>>

\* dc.Seek() returns, unless it has to wait for a restarted decoder.
SeekDone ==
  /\ at = "seek" /\ DecoderDone /\ dc.state # "START"
  /\ \/ /\ dc.seek_error
        /\ pc' = Finished([pc EXCEPT !.occupied = FALSE, !.error = "DECODER"])
        /\ PlayerTo("end") /\ UNCHANGED <<pl, sync>>
     \/ /\ ~dc.seek_error
        /\ pc' = Finished([pc EXCEPT !.occupied = FALSE])
        /\ pl' = [pl EXCEPT !.buffering = TRUE]
        /\ sync' = TRUE
        /\ PlayerTo("sought")
  /\ UNCHANGED <<dc, pipes, out, asleep>>

\* OnPlayerSync() was called without the mutex: the rest of the loop does not
\* look at a command that has come meanwhile.
SeekSynced ==
  /\ at = "sought"
  /\ PlayerTo("body") /\ UNCHANGED <<pc, pl, dc, pipes, out, sync, asleep>>

-----------------------------------------------------------------------------
(* Player::CheckDecoderStartup(). *)

\* Faulty variant: "seeking" is not reset.
StillSeeking(c) == c

SeekOver(c) == [c EXCEPT !.seeking = FALSE]

\* The format that the outputs will be opened with.
PlayFormat == dc.format

\* The decoder is ready, and the outputs have played all of the last song.
StartedDecoder ==
  LET p == [pl EXCEPT !.format = PlayFormat, !.starting = FALSE,
                      !.buffering = @ \/ pc.seeking]
      dead == dc.state = "STOP" \/ ~dc.seekable
  IN \/ /\ pl.pending > 0 /\ dead
        /\ pl' = p
        /\ pc' = [pc EXCEPT !.seeking = FALSE, !.error = "DECODER"]
        /\ PlayerTo("end") /\ UNCHANGED <<dc, asleep>>
     \/ /\ pl.pending > 0 /\ ~dead
        /\ pl' = p
        /\ pc' = [pc EXCEPT !.occupied = TRUE]
        /\ SeekDecoder(pl.pending, "seek_pending")
     \/ /\ pl.pending = 0
        /\ pl' = p
        /\ pc' = SeekOver(pc)
        /\ PlayerTo(IF p.paused THEN "loop" ELSE "open_start")
        /\ UNCHANGED <<dc, asleep>>

\* The call of WaitOutputConsumed(1) only checks the pipe: NothingLeft shows that,
\* called with output_open, it never finds a chunk to wait for (if it did, this
\* action would be stuck).
CheckDecoderStartup ==
  /\ Body /\ pl.starting
  /\ \/ /\ dc.state = "ERROR"
        /\ pc' = [pc EXCEPT !.error = "DECODER"]
        /\ PlayerTo("end") /\ UNCHANGED <<pl, dc, out, asleep>>
     \/ /\ dc.state = "START"
        /\ PlayerWaits("loop") /\ UNCHANGED <<pc, pl, dc, out>>
     \/ /\ dc.state \notin {"START", "ERROR"}
        /\ pl.output_open => Remaining(out) = 0
        /\ out' = IF pl.output_open THEN Checked(out) ELSE out
        /\ StartedDecoder
  /\ UNCHANGED <<pipes, sync>>

PendingSeekDone ==
  /\ at = "seek_pending" /\ DecoderDone /\ dc.state # "START"
  /\ LET c == [pc EXCEPT !.occupied = FALSE, !.seeking = FALSE]
     IN \/ /\ dc.seek_error
           /\ pc' = [c EXCEPT !.error = "DECODER"]
           /\ PlayerTo("end") /\ UNCHANGED pl
        \/ /\ ~dc.seek_error
           /\ pc' = c /\ pl' = [pl EXCEPT !.buffering = TRUE]
           /\ PlayerTo(IF pl.paused THEN "loop" ELSE "open_start")
  /\ UNCHANGED <<dc, pipes, out, sync, asleep>>

-----------------------------------------------------------------------------
(* The rest of the loop in Player::Run(). *)

Buffering ==
  /\ Body /\ ~pl.starting /\ pl.buffering
  /\ IF Size(pl.pipe) < BeforePlay /\ ~DecoderIdle /\ ~BufferFull
     THEN PlayerWaits("loop") /\ UNCHANGED pl
     ELSE /\ pl' = [pl EXCEPT !.buffering = FALSE]
          /\ PlayerTo("body") /\ UNCHANGED asleep
  /\ UNCHANGED <<pc, dc, pipes, out, sync>>

\* Faulty variant: nobody starts the decoder again.
NextNeverDue == FALSE

\* The decoder has finished the current song: make it decode the next one.
NextDue == DecoderIdle /\ pl.queued /\ IsDecoderAtCurrentSong

StartNext ==
  /\ Body /\ ~pl.starting /\ ~pl.buffering /\ NextDue
  /\ StartDecoder(OtherPipe, FALSE, "start_loop")
  /\ UNCHANGED <<pc, pl, pipes, out, sync>>

NextStarted ==
  /\ at = "start_loop" /\ DecoderDone
  /\ PlayerTo("body") /\ UNCHANGED <<pc, pl, dc, pipes, out, sync, asleep>>

\* CheckCrossFade(): enough is known about the next song.
Undecided ==
  /\ pl.xfade = "UNKNOWN" /\ ~pc.border_pause
  /\ IsDecoderAtNextSong /\ dc.state # "START"

\* What Calculate() may find.
Decide ==
  \/ pl' = [pl EXCEPT !.xfade = "DISABLED"]
  \/ \E n \in 1..CrossFade : pl' = [pl EXCEPT !.xfade = "ENABLED", !.fade = n]

\* CanCrossFade(), MixRampScannerReady(), Calculate().  The scanner works
\* without the mutex, or needs more chunks of the next song first.
CheckCrossFade ==
  /\ Body /\ ~pl.starting /\ ~pl.buffering /\ ~NextDue /\ Undecided
  /\ \/ /\ pl' = [pl EXCEPT !.xfade = "DISABLED"]
        /\ PlayerTo("multiplex") /\ UNCHANGED asleep
     \/ /\ CrossFade > 0 /\ dc.format = pl.format
        /\ \/ Decide /\ PlayerTo("multiplex") /\ UNCHANGED asleep
           \/ PlayerTo("scan") /\ UNCHANGED <<pl, asleep>>
           \/ /\ PlayerTo("multiplex")
              /\ IF BufferFull THEN UNCHANGED <<pl, asleep>>
                 ELSE pl' = [pl EXCEPT !.woken = TRUE] /\ Wake("decoder")
  /\ UNCHANGED <<pc, dc, pipes, out, sync>>

\* The end of a song or the beginning of the next one has been analysed.
MixRampScanned ==
  /\ at = "scan"
  /\ UNCHANGED pl \/ Decide
  /\ PlayerTo("multiplex")
  /\ UNCHANGED <<pc, dc, pipes, out, sync, asleep>>

\* Paused; a chunk to be played; or nothing from the decoder: UnlockCheckOutputs().
Multiplex ==
  /\ \/ at = "multiplex"
     \/ Body /\ ~pl.starting /\ ~pl.buffering /\ ~NextDue /\ ~Undecided
  /\ \/ /\ pl.paused
        /\ IF pc.command = "NONE" THEN PlayerWaits("loop")
           ELSE PlayerTo("loop") /\ UNCHANGED asleep
        /\ UNCHANGED <<pl, out>>
     \/ /\ ~pl.paused /\ Size(pl.pipe) > 0
        /\ PlayerTo("play") /\ UNCHANGED <<pl, out, asleep>>
     \/ /\ ~pl.paused /\ Size(pl.pipe) = 0
        /\ out' = Checked(out)
        /\ PlayerTo(IF Remaining(out) > 0 THEN "busy" ELSE "checked")
        /\ UNCHANGED <<pl, asleep>>
  /\ UNCHANGED <<pc, dc, pipes, sync>>

\* dc.Signal() and dc.WaitForDecoder().
KickDecoder(to) ==
  /\ asleep' = {"player"}
  /\ PlayerTo(to)

OutputsChecked ==
  /\ \/ at = "busy" /\ KickDecoder("slept_busy") /\ UNCHANGED pl
     \/ /\ at = "checked" /\ IsDecoderAtNextSong
        /\ pl' = [pl EXCEPT !.pipe = dc.pipe, !.xfade = "UNKNOWN", !.fade = 0]
        /\ PlayerTo("border") /\ UNCHANGED asleep
     \/ /\ at = "checked" /\ ~IsDecoderAtNextSong /\ DecoderIdle
        /\ PlayerTo(IF pl.queued \/ Size(pl.pipe) > 0 THEN "loop" ELSE "end")
        /\ UNCHANGED <<pl, asleep>>
     \/ /\ at = "checked" /\ ~IsDecoderAtNextSong /\ ~DecoderIdle
        /\ IF pl.output_open THEN KickDecoder("slept")
           ELSE PlayerTo("loop") /\ UNCHANGED asleep
        /\ UNCHANGED pl
  /\ UNCHANGED <<pc, dc, pipes, out, sync>>

\* Faulty variant: the state is not updated.
BorderPauseUntold(c) == c

ApplyBorderPause(c) == [c EXCEPT !.state = "PAUSE"]

\* SongBorder(): ActivateDecoder(), and border_pause.
SongBorder ==
  \/ /\ at = "border"
     /\ pl' = Activated(pl)
     /\ pc' = [pc EXCEPT !.next_song = None]
     /\ sync' = TRUE
     /\ PlayerTo("bordered") /\ UNCHANGED <<dc, pipes, out, asleep>>
  \/ /\ at = "bordered"
     /\ IF pc.border_pause
        THEN /\ pc' = ApplyBorderPause(pc)
             /\ pl' = [pl EXCEPT !.paused = TRUE]
             /\ out' \in OutPauses(out)
        ELSE UNCHANGED <<pc, pl, out>>
     /\ PlayerTo("loop") /\ UNCHANGED <<dc, pipes, sync, asleep>>

\* Faulty variant: next_song is not freed.
LeftNextSongKept == pc.next_song

\* What the end of Run() makes of next_song.
LeftNextSong == IF pl.queued THEN None ELSE pc.next_song

\* The end of Run(): StopDecoder(), and leave.
RunEnd ==
  \/ /\ at = "end"
     /\ pl' = [pl EXCEPT !.pending = 0]
     /\ pc' = [pc EXCEPT !.seeking = FALSE, !.occupied = TRUE]
     /\ StopDecoder("stop_end")
     /\ UNCHANGED <<pipes, out, sync>>
  \/ /\ at = "stop_end" /\ DecoderDone
     /\ pc' = [pc EXCEPT !.occupied = FALSE, !.state = "STOP",
                         !.next_song = LeftNextSong]
     /\ pl' = NoPlayer
     /\ pipes' = BothCleared
     /\ dc' = [dc EXCEPT !.pipe = 0]
     /\ sync' = TRUE
     /\ PlayerTo("idle") /\ UNCHANGED <<out, asleep>>

-----------------------------------------------------------------------------
(* Player::PlayNextChunk(). *)

\* LockWaitOutputConsumed(64).
WaitOutputConsumed ==
  LET o == Checked(out) IN
  /\ out' = o
  /\ \/ /\ at = "play" /\ Len(o.queue) >= OutputSize /\ pc.command = "NONE"
        /\ PlayerWaits("play_wait")
     \/ /\ at = "play" /\ Len(o.queue) >= OutputSize /\ pc.command # "NONE"
        /\ PlayerTo("loop") /\ UNCHANGED asleep
     \/ /\ PlayerAt("play_wait") /\ Len(o.queue) >= OutputSize
        /\ PlayerTo("loop") /\ UNCHANGED asleep
     \/ /\ at = "play" \/ PlayerAt("play_wait")
        /\ Len(o.queue) < OutputSize
        /\ PlayerTo("send") /\ UNCHANGED asleep
  /\ UNCHANGED <<pc, pl, dc, pipes, sync>>

\* outputs.Play() with a chunk that occupies n buffers; or it throws.
PlayChunk(n) ==
  \/ /\ Usable(out)
     /\ out' = [OutUp(out) EXCEPT !.queue = Append(@, n)]
     /\ PlayerTo("sent")
  \/ /\ Fails("play") \/ ~Usable(out)
     /\ out' = OutDown(out)
     /\ PlayerTo("send_failed")

\* Shift chunks off the pipe, and off the next one while cross-fading.
Send ==
  LET begin == /\ pl.xfade = "ENABLED" /\ IsDecoderAtNextSong
               /\ Size(pl.pipe) <= pl.fade
      p == IF begin THEN [pl EXCEPT !.xfade = "ACTIVE", !.fade = Size(pl.pipe)]
           ELSE pl
      shifted == Shifted(pipes, pl.pipe)
  IN /\ at = "send"
     /\ \/ /\ p.xfade = "ACTIVE" /\ Size(dc.pipe) > 0
           /\ pl' = p
           /\ pipes' = Shifted(shifted, dc.pipe)
           /\ PlayChunk(2) /\ UNCHANGED asleep
        \/ /\ p.xfade = "ACTIVE" /\ Size(dc.pipe) = 0
           /\ pl' = p
           /\ PlayerTo("starved") /\ UNCHANGED <<pipes, out, asleep>>
        \/ /\ p.xfade # "ACTIVE"
           /\ pl' = p /\ pipes' = shifted
           /\ PlayChunk(1) /\ UNCHANGED asleep
     /\ UNCHANGED <<pc, dc, sync>>

\* No chunk of the next song: wait for the decoder, or give up cross-fading.
Starved ==
  /\ at = "starved"
  /\ \/ /\ DecoderIdle
        /\ pl' = [pl EXCEPT !.xfade = "DISABLED", !.fade = 0]
        /\ pipes' = Shifted(pipes, pl.pipe)
        /\ PlayChunk(1) /\ UNCHANGED asleep
     \/ ~DecoderIdle /\ KickDecoder("slept") /\ UNCHANGED <<pl, pipes, out>>
  /\ UNCHANGED <<pc, dc, sync>>

\* Wake up the decoder, but not for each chunk.
Sent ==
  LET low == ~DecoderIdle /\ Size(dc.pipe) <= WakeThreshold IN
  /\ at = "sent"
  /\ pl' = [pl EXCEPT !.woken = low]
  /\ IF low /\ ~pl.woken THEN Wake("decoder") ELSE UNCHANGED asleep
  /\ PlayerTo("loop") /\ UNCHANGED <<pc, dc, pipes, out, sync>>

\* No output works: paused is set first, then PlayerControl is told.
SendFailed ==
  \/ /\ at = "send_failed"
     /\ pl' = [pl EXCEPT !.paused = TRUE]
     /\ PlayerTo("output_error") /\ UNCHANGED <<pc, dc, pipes, out, sync, asleep>>
  \/ /\ at = "output_error"
     /\ pc' = [pc EXCEPT !.error = "OUTPUT", !.state = "PAUSE"]
     /\ PlayerTo("loop") /\ UNCHANGED <<pl, dc, pipes, out, sync, asleep>>

PlayerThread ==
  \/ ThreadWait \/ ThreadPlay \/ ThreadCommand \/ ThreadExit \/ RunStarted
  \/ CommandStop \/ CommandQueue \/ CommandPause \/ CommandCancel
  \/ CancelStopped \/ CommandUpdateAudio \/ CommandRefresh \/ OpenOutput
  \/ CommandSeek
  \/ SeekCancelled \/ SeekStopped \/ SeekStarted \/ SeekDone \/ SeekSynced
  \/ CheckDecoderStartup \/ PendingSeekDone \/ Buffering
  \/ StartNext \/ NextStarted \/ CheckCrossFade \/ MixRampScanned \/ Multiplex
  \/ OutputsChecked \/ SongBorder \/ RunEnd \/ WaitOutputConsumed \/ Send
  \/ Starved \/ Sent \/ SendFailed

-----------------------------------------------------------------------------
(* The main thread: what playlist calls in PlayerControl. *)

MainOnly == UNCHANGED <<pl, at, dc, br, dat, pipes>>

\* The playlist starts a sequence of calls.
Calls(m, prog) == [m EXCEPT !.prog = prog, !.stage = "enter"]

\* PlayOrder() and SeekSongOrder().
Plays(m, prog, s, t) ==
  [Calls(m, prog) EXCEPT !.song = s, !.time = t, !.playing = TRUE,
                         !.queued = FALSE]

UserOperation ==
  LET m == [main EXCEPT !.ops = @ - 1]
      May(op) == op \in Ops
  IN /\ main.prog = <<>> /\ main.ops > 0
     /\ \/ /\ May("play")
           /\ \E s \in Songs : main' = Plays(m, <<"seek", "unpause">>, s, 0)
           /\ UNCHANGED pc
        \/ /\ May("seek")
           /\ \E s \in Songs, t \in SeekTimes :
                main' = Plays(m, <<"seek", "requeue">>, s, t)
           /\ UNCHANGED pc
        \/ May("stop") /\ main.playing /\ main' = Calls(m, <<"close">>) /\ UNCHANGED pc
        \/ May("pause") /\ main' = Calls(m, <<"pause">>) /\ UNCHANGED pc
        \/ May("pause") /\ main' = Calls(m, <<"resume">>) /\ UNCHANGED pc
        \/ May("status") /\ main' = Calls(m, <<"refresh">>) /\ UNCHANGED pc
        \/ /\ May("requeue") /\ main.playing
           /\ main' = Calls(m, IF main.queued THEN <<"cancel", "requeue">>
                               ELSE <<"requeue">>)
           /\ UNCHANGED pc
        \/ /\ May("border_pause") /\ Free
           /\ pc' = [pc EXCEPT !.border_pause = ~@] /\ main' = m
        \/ /\ May("exit")
           /\ main' = [Calls(m, <<"exit">>) EXCEPT !.ops = 0] /\ UNCHANGED pc
     /\ MainOnly /\ UNCHANGED <<out, sync, asleep>>

\* "enableoutput" and "disableoutput": LockSetEnabled(), LockUpdateAudio().
ToggleOutputs ==
  /\ "update_audio" \in Ops /\ main.prog = <<>> /\ main.ops > 0
  /\ main' = Calls([main EXCEPT !.ops = @ - 1], <<"update">>)
  /\ out' = [out EXCEPT !.enabled = ~@]
  /\ MainOnly /\ UNCHANGED <<pc, sync, asleep>>

\* The OnPlayerSync() event: playlist::SyncWithPlayer() and ResumePlayback().
SyncWithPlayer ==
  /\ sync /\ main.prog = <<>> /\ Free /\ at # "dead"
  /\ sync' = FALSE
  /\ \/ ~main.playing /\ UNCHANGED main
     \/ /\ main.playing /\ pc.state = "STOP"
        /\ \/ main' = Calls(main, <<"close">>)
           \/ /\ pc.error # "OUTPUT"
              /\ \E s \in Songs : main' = Plays(main, <<"seek", "unpause">>, s, 0)
     \/ /\ main.playing /\ pc.state # "STOP"
        /\ main' = IF pc.next_song = None
                   THEN [Calls(main, <<"requeue">>) EXCEPT !.queued = FALSE]
                   ELSE main
  /\ MainOnly /\ UNCHANGED <<pc, out, asleep>>

Call(name, stage) == main.prog # <<>> /\ Head(main.prog) = name
                       /\ main.stage = stage /\ Free

\* Faulty variant: the player is not signalled.
CommandUnsignalled(c, cmd, m, stage) ==
  /\ pc' = [c EXCEPT !.command = cmd]
  /\ main' = [m EXCEPT !.stage = stage]
  /\ UNCHANGED asleep

\* SynchronousCommand(), up to the wait.
Command(c, cmd, m, stage) ==
  /\ pc' = [c EXCEPT !.command = cmd]
  /\ main' = [m EXCEPT !.stage = stage]
  /\ Wake("player")

\* The call returns; an exception leaves the whole sequence if "all".
Returned(m, all) ==
  LET rest == IF all THEN <<>> ELSE Tail(m.prog)
  IN [m EXCEPT !.prog = rest, !.stage = "enter",
               !.song = None, !.time = 0]

Return(m) == main' = Returned(m, FALSE) /\ UNCHANGED <<pc, asleep>>

\* SeekLocked(): CANCEL first if a song is queued.
SeekLocked ==
  \/ /\ Call("seek", "enter") /\ pc.next_song # None
     /\ Command(pc, "CANCEL", main, "cancelling")
  \/ /\ \/ Call("seek", "enter") /\ pc.next_song = None
        \/ Call("seek", "cancelling") /\ pc.command = "NONE"
     /\ Command([pc EXCEPT !.error = "NONE", !.next_song = main.song,
                           !.seek_time = main.time], "SEEK", main, "sent")

\* ... and its return.  Play() unpauses, with the mutex still held.
SeekReturned ==
  LET unpause == Tail(main.prog) = <<"unpause">>
      m == Returned(main, unpause /\ (pc.error # "NONE" \/ pc.state # "PAUSE"))
  IN /\ Call("seek", "sent") /\ pc.command = "NONE" /\ ~pc.seeking
     /\ IF unpause /\ pc.error = "NONE" /\ pc.state = "PAUSE"
        THEN Command(pc, "PAUSE", m, "sent")
        ELSE main' = m /\ UNCHANGED <<pc, asleep>>

\* UpdateQueuedSong(): LockEnqueueSong(), unless there is no next song.
EnqueueSong ==
  \/ /\ Call("requeue", "enter")
     /\ \E s \in Songs :
          Command([pc EXCEPT !.next_song = s, !.seek_time = 0], "QUEUE",
                  [main EXCEPT !.queued = TRUE], "sent")
  \/ Call("requeue", "enter") /\ Return(main)

\* LockCancel(), LockStop(), LockSetPause(), LockGetStatus(), LockUpdateAudio()
\* and Kill().
SendCommand ==
  \/ Call("cancel", "enter") /\ Command(pc, "CANCEL", main, "sent")
  \/ Call("close", "enter") /\ Command(pc, "CLOSE_AUDIO", main, "sent")
  \/ /\ Call("pause", "enter")
     /\ IF pc.state = "PLAY" THEN Command(pc, "PAUSE", main, "sent") ELSE Return(main)
  \/ /\ Call("resume", "enter")
     /\ IF pc.state = "PAUSE" THEN Command(pc, "PAUSE", main, "sent") ELSE Return(main)
  \/ /\ Call("refresh", "enter")
     /\ IF pc.occupied THEN Return(main) ELSE Command(pc, "REFRESH", main, "sent")
  \/ Call("update", "enter") /\ Command(pc, "UPDATE_AUDIO", main, "sent")
  \/ Call("exit", "enter") /\ Command(pc, "EXIT", main, "sent")

\* WaitCommandLocked() returns, for all but SeekLocked().
CommandReturned ==
  /\ main.prog # <<>> /\ Head(main.prog) # "seek" /\ main.stage = "sent" /\ Free
  /\ pc.command = "NONE"
  /\ Return([main EXCEPT
               !.queued = @ /\ Head(main.prog) \notin {"cancel", "close"},
               !.playing = @ /\ Head(main.prog) # "close"])

PlayerCall ==
  /\ SeekLocked \/ SeekReturned \/ EnqueueSong \/ SendCommand \/ CommandReturned
  /\ MainOnly /\ UNCHANGED <<out, sync>>

MainThread == SyncWithPlayer \/ PlayerCall

-----------------------------------------------------------------------------
\* Nothing has to happen: no call is in progress, and the user does nothing more.
Quiet ==
  /\ main.prog = <<>> /\ main.ops = 0
  /\ UNCHANGED vars

\* What the player waits for came after it had looked and before it locked the
\* mutex to sleep: the outputs have played their last chunk, or the decoder has
\* filled the MusicBuffer.
Overslept ==
  /\ "player" \in asleep
  /\ \/ at = "slept_busy" /\ Remaining(out) = 0 /\ ~out.tell
     \/ at = "slept" /\ dat = "needed" /\ "decoder" \in asleep

\* The program hangs then, until a signal wakes the player up.
Hang == Overslept /\ UNCHANGED vars

Next ==
  \/ UserOperation \/ ToggleOutputs \/ MainThread
  \/ PlayerThread \/ Decoder \/ OutputThread
  \/ Quiet \/ Hang

Spec == Init /\ [][Next]_vars

\* Each thread runs, and the outputs play; the user need not do anything, and
\* nothing bounds how long a song is.
Fairness ==
  /\ WF_vars(PlayerThread)
  /\ WF_vars(Decoder)
  /\ WF_vars(OutputThread)
  /\ WF_vars(MainThread)

FairSpec == Spec /\ Fairness

-----------------------------------------------------------------------------
(* Properties. *)

Labels ==
  {"idle", "start_run", "loop", "slept", "slept_busy", "body", "start_loop",
   "stop_cancel", "open_resume", "open_start", "cancelled", "stop_seek",
   "start_seek", "seek", "sought", "seek_pending", "scan", "multiplex", "play",
   "play_wait", "send", "starved", "sent", "send_failed", "output_error", "busy",
   "checked", "border", "bordered", "end", "stop_end", "join", "dead"}

\* The values of all fields; no more chunks are in use than the MusicBuffer has.
TypeOK ==
  LET SongOrNone == Songs \cup {None}
      FormatOrNone == {FormatOf[s] : s \in Songs} \cup {None}
      Times == SeekTimes \cup {0}
  IN /\ pc \in [command : {"NONE", "SEEK", "QUEUE", "CANCEL", "PAUSE", "CLOSE_AUDIO",
                           "REFRESH", "UPDATE_AUDIO", "EXIT"},
                state : {"STOP", "PLAY", "PAUSE"}, next_song : SongOrNone,
                seek_time : Times, seeking : BOOLEAN,
                error : {"NONE", "DECODER", "OUTPUT"},
                border_pause : BOOLEAN, occupied : BOOLEAN]
     /\ pl \in [pipe : 0..2, song : SongOrNone, buffering : BOOLEAN,
                starting : BOOLEAN, woken : BOOLEAN, paused : BOOLEAN,
                queued : BOOLEAN, output_open : BOOLEAN,
                xfade : {"UNKNOWN", "DISABLED", "ENABLED", "ACTIVE"},
                fade : 0..CrossFade, format : FormatOrNone, pending : Times]
     /\ at \in Labels
     /\ dc \in [command : {"NONE", "START", "STOP", "SEEK"},
                state : {"STOP", "START", "DECODE", "ERROR"}, song : SongOrNone,
                pipe : 0..2, format : FormatOrNone, seekable : BOOLEAN,
                start : Times, seek_time : Times, essential : BOOLEAN,
                seek_error : BOOLEAN, quit : BOOLEAN]
     /\ pipes \in [PipeIds -> [size : 0..BufferSize, format : FormatOrNone]]
     /\ Used <= BufferSize
     /\ asleep \subseteq {"player", "decoder"}

\* When Player::ProcessCommand() gets QUEUE, there is a song, none is queued yet,
\* and the decoder has not gone ahead (its three assertions).
QueueAccepted ==
  AtLoop /\ pc.command = "QUEUE" =>
    pc.next_song # None /\ ~pl.queued /\ ~IsDecoderAtNextSong

\* DecoderControl::Start() and SetReady() find an empty pipe, and no song is
\* started while the decoder thread is still in another one.
DecoderStartsClean ==
  /\ dc.command = "START" =>
       dc.song # None /\ dat = "idle" /\ Size(dc.pipe) = 0
  /\ dat = "start" => dc.state = "START" /\ Size(dc.pipe) = 0

\* A song that the player has accepted is still there when ActivateDecoder()
\* needs it, however many calls have been interleaved.
NextSongKept ==
  /\ pl.queued => pc.next_song # None
  /\ at \in {"border", "start_run"} => pl.queued

\* After CANCEL, SEEK and CLOSE_AUDIO the main thread finds next_song empty, and
\* EnqueueSongLocked() never overwrites one.
NextSongTaken ==
  main.prog # <<>> =>
    /\ /\ Head(main.prog) \in {"cancel", "close", "seek"}
       /\ main.stage \in {"sent", "cancelling"} /\ pc.command = "NONE"
       => pc.next_song = None
    /\ Head(main.prog) = "requeue" /\ main.stage = "enter" => pc.next_song = None

\* Once cross-fading is decided there is a next song to fade to, until the
\* decision is reset, and no more chunks remain than it was begun with.
CrossFadeNeedsNext ==
  /\ pl.xfade # "UNKNOWN" => IsDecoderAtNextSong
  /\ pl.xfade = "ACTIVE" => Size(pl.pipe) <= pl.fade

\* DecoderControl::Seek() is not called while the decoder starts or has failed,
\* and seeks in the pipe that the player reads.
SeekSeesNoStart ==
  dc.command = "SEEK" =>
    dc.state \in {"DECODE", "STOP"} /\ dc.seekable /\ dc.pipe = pl.pipe

\* A postponed seek is waited for by the main thread, and the outputs hold
\* nothing of what was played before it.
PendingSeekAwaited ==
  pl.starting /\ pl.pending > 0 => pc.seeking /\ out.queue = <<>>

\* When CheckDecoderStartup() looks and this Run() has the outputs open, they have
\* played everything: no new song or position is started with chunks of the last
\* one left.  Nothing is said of chunks that an earlier Run() has left behind
\* (see OpenKeepsFormat).
NothingLeft ==
  pl.starting /\ pl.output_open => Remaining(out) = 0

\* When Run() has returned, all chunks but those in the outputs have been given
\* back, so CLOSE_AUDIO leaves the MusicBuffer empty (assert after Release()).
BufferReturned ==
  at = "idle" => Size(1) = 0 /\ Size(2) = 0 /\ ~br.chunk

\* The outputs have been opened whenever the player checks or plays chunks
\* (MultipleOutputs asserts that its pipe exists).
OutputsOpened ==
  /\ pl.output_open => out.format # None
  /\ at \in {"play", "play_wait", "send", "starved", "busy", "checked"} =>
       out.format # None

\* PlayerControl::state, which the main thread decides on, says what the player
\* does, whenever the player is not inside of one of its steps.
StateAgrees ==
  at \in {"loop", "slept", "slept_busy", "body", "sought", "scan", "multiplex"} =>
    pc.state = IF pl.paused THEN "PAUSE" ELSE "PLAY"

\* OpenOutput() has an audio format (its first assertion).
OpenDefined ==
  at \in {"open_resume", "open_start"} => pl.format # None

\* The format of what is played: chunks in the player's pipe have the format that
\* the outputs were opened with (assertions of PlayChunk() and Play()).
FormatsAgree ==
  at \in {"send", "starved"} =>
    pipes[pl.pipe].format = pl.format /\ out.format = pl.format

\* MultipleOutputs::Open() does not change the format under chunks that have not
\* been played.
OpenKeepsFormat ==
  at \in {"open_resume", "open_start"} /\ out.queue # <<>> => out.format = pl.format

\* "pause 1" leaves the player paused, or stopped.
PauseSticks ==
  /\ main.prog = <<"pause">> /\ main.stage = "sent" /\ pc.command = "NONE"
  => pc.state # "PLAY"

\* When a seek has returned without error and the song can be sought in, the
\* decoder is at the requested position.
SeekTakesEffect ==
  /\ main.prog # <<>> /\ Head(main.prog) = "seek" /\ main.stage = "sent"
  /\ pc.command = "NONE" /\ ~pc.seeking /\ pc.error = "NONE"
  /\ dat = "decode" /\ dc.song = main.song /\ dc.command = "NONE" /\ dc.seekable
  => br.target = main.time

\* The comment of DecoderState::ERROR: once the state is DECODE, decoding does
\* not fail any more.
DecodeCannotFail ==
  [][dc.state = "DECODE" => dc.state' # "ERROR"]_vars

\* Each command to the player is finished, except if the player has overslept.
CommandsFinish == pc.command # "NONE" ~> pc.command = "NONE" \/ Overslept

\* Each command to the player is finished.
CommandsAlwaysFinish == pc.command # "NONE" ~> pc.command = "NONE"

\* The main thread does not wait for a seek for ever: "seeking" is reset when the
\* decoder is ready and a postponed seek is done, when one of them fails, or when
\* Run() ends.
SeekReturns == pc.seeking ~> ~pc.seeking

\* A song that has been decoded completely is played to its end: the player stops,
\* pauses or goes on to another song, except if it has overslept.
SongEnds ==
  pc.state = "PLAY" /\ DecoderIdle ~> pc.state # "PLAY" \/ ~DecoderIdle \/ Overslept

=============================================================================
