----------------------------- MODULE SharedPipe -----------------------------
(***************************************************************************)
(* One MusicPipe shared by one feeder, the player thread, and any number  *)
(* of consumers, the output threads.  The pipe owns its chunks; an output *)
(* only points into it (SharedPipeConsumer).  The player may free the     *)
(* head of the pipe as soon as MultipleOutputs::CheckPipe() has found     *)
(* that no output needs it any more.  This module keeps what that         *)
(* agreement depends on and leaves out devices, filters, formats and      *)
(* commands, which module Outputs adds.                                   *)
(*                                                                         *)
(* A chunk is its serial number; 0 stands for nullptr.  The pipe holds    *)
(* the chunks head .. tail-1, so that "c->next" is c+1 when c+1 < tail.   *)
(* Every action runs under AudioOutputControl::mutex of one output, or    *)
(* under MusicPipe::mutex, or touches the player's own state only.        *)
(***************************************************************************)
EXTENDS Integers

CONSTANTS
  Outputs,     \* MultipleOutputs::outputs
  MaxChunks    \* bound on the number of chunks ever pushed

ASSUME MaxChunksAssumption == MaxChunks \in Nat

VARIABLES
  head, tail,  \* the pipe: chunks head .. tail-1
  open,        \* AudioOutputControl::open
  allow_play,  \* AudioOutputControl::allow_play
  cancelling,  \* a CANCEL command is pending at this output
  chunk,       \* SharedPipeConsumer::chunk
  consumed,    \* SharedPipeConsumer::consumed
  current,     \* AudioOutputSource::current_chunk
  last,        \* history: the chunk this output started last, 0 if none yet
  player,      \* what the player thread is doing with the pipe
  done         \* the outputs its current loop over "outputs" has visited

outs == <<open, allow_play, cancelling, chunk, consumed, current, last>>

vars == <<head, tail, outs, player, done>>

PlayerStates == {"idle", "asking", "clearing", "cancel", "allowing"}

-----------------------------------------------------------------------------

Init ==
  /\ head = 1
  /\ tail = 1
  /\ open = [o \in Outputs |-> FALSE]
  /\ allow_play = [o \in Outputs |-> TRUE]
  /\ cancelling = [o \in Outputs |-> FALSE]
  /\ chunk = [o \in Outputs |-> 0]
  /\ consumed = [o \in Outputs |-> FALSE]
  /\ current = [o \in Outputs |-> 0]
  /\ last = [o \in Outputs |-> 0]
  /\ player = "idle"
  /\ done = {}

-----------------------------------------------------------------------------
(* The output threads. *)

\* Faulty variant of Get(): the "next == nullptr" test is missing.
GetUnchecked(o, c) ==
  CASE chunk[o] = 0       -> IF head < tail THEN head ELSE 0
    [] chunk[o] # 0 /\ ~c -> chunk[o]
    [] chunk[o] # 0 /\ c  -> chunk[o] + 1

\* What SharedPipeConsumer::Get() returns when "consumed" is c.
Get(o, c) ==
  CASE chunk[o] = 0       -> IF head < tail THEN head ELSE 0
    [] chunk[o] # 0 /\ ~c -> chunk[o]
    [] chunk[o] # 0 /\ c  -> IF chunk[o] + 1 < tail THEN chunk[o] + 1 ELSE 0

\* Point the consumer at chunk c and start processing it.
Take(o, c) ==
  /\ chunk' = [chunk EXCEPT ![o] = c]
  /\ consumed' = [consumed EXCEPT ![o] = FALSE]
  /\ current' = [current EXCEPT ![o] = c]
  /\ last' = [last EXCEPT ![o] = c]

\* Task() sees no command and may play: the first Fill() of InternalPlay()
\* finds a chunk, or an empty pipe.
BeginPlay(o) ==
  /\ open[o]
  /\ allow_play[o]
  /\ ~cancelling[o]
  /\ current[o] = 0
  /\ \/ /\ Get(o, consumed[o]) # 0
        /\ Take(o, Get(o, consumed[o]))
     \/ /\ chunk[o] = 0 /\ head = tail
        /\ consumed' = [consumed EXCEPT ![o] = FALSE]
        /\ UNCHANGED <<chunk, current, last>>
  /\ UNCHANGED <<head, tail, open, allow_play, cancelling, player, done>>

\* The current chunk has been played: DropCurrentChunk(), and the Fill() that
\* follows it under the same lock, whatever command or allow_play say.
FinishChunk(o) ==
  /\ open[o]
  /\ current[o] # 0
  /\ \/ /\ Get(o, TRUE) # 0
        /\ Take(o, Get(o, TRUE))
     \/ /\ Get(o, TRUE) = 0
        /\ consumed' = [consumed EXCEPT ![o] = TRUE]
        /\ current' = [current EXCEPT ![o] = 0]
        /\ UNCHANGED <<chunk, last>>
  /\ UNCHANGED <<head, tail, open, allow_play, cancelling, player, done>>

\* The device fails, is closed, or is released: the output lets go of the
\* pipe.  (InternalClose() clears "open" first and the references later, but
\* nothing follows the references of an output that is not open.)
Close(o) ==
  /\ open[o]
  /\ open' = [open EXCEPT ![o] = FALSE]
  /\ chunk' = [chunk EXCEPT ![o] = 0]
  /\ current' = [current EXCEPT ![o] = 0]
  /\ last' = [last EXCEPT ![o] = 0]
  /\ UNCHANGED <<head, tail, allow_play, cancelling, consumed, player, done>>

\* Command::CANCEL: AudioOutputSource::Cancel().
ThreadCancel(o) ==
  /\ cancelling[o]
  /\ cancelling' = [cancelling EXCEPT ![o] = FALSE]
  /\ chunk' = [chunk EXCEPT ![o] = 0]
  /\ current' = [current EXCEPT ![o] = 0]
  /\ last' = [last EXCEPT ![o] = 0]
  /\ UNCHANGED <<head, tail, open, allow_play, consumed, player, done>>

-----------------------------------------------------------------------------
(* The player thread. *)

\* MultipleOutputs::Play(): MusicPipe::Push().
Push ==
  /\ player = "idle"
  /\ tail <= MaxChunks
  /\ tail' = tail + 1
  /\ UNCHANGED <<head, outs, player, done>>

\* AudioOutputControl::Open(): the source is initialised afresh.
Open(o) ==
  /\ player = "idle"
  /\ ~open[o]
  /\ open' = [open EXCEPT ![o] = TRUE]
  /\ chunk' = [chunk EXCEPT ![o] = 0]
  /\ current' = [current EXCEPT ![o] = 0]
  /\ last' = [last EXCEPT ![o] = 0]
  /\ UNCHANGED <<head, tail, allow_play, cancelling, consumed, player, done>>

\* Faulty variants of IsChunkConsumed(): "consumed" is not looked at; an
\* output that has not started yet does not count.
ConsumedIfReached(o) ==
  \/ ~open[o]
  \/ /\ chunk[o] # 0
     /\ chunk[o] = head => ~(head + 1 < tail)

ConsumedIfNotStarted(o) ==
  \/ ~open[o]
  \/ chunk[o] = head => consumed[o] /\ ~(head + 1 < tail)

\* AudioOutputControl::IsChunkConsumed() for the head of the pipe.
IsChunkConsumed(o) ==
  \/ ~open[o]
  \/ /\ chunk[o] # 0
     /\ chunk[o] = head => consumed[o] /\ ~(head + 1 < tail)

\* CheckPipe(): peek at the head of the pipe.
CheckPipe ==
  /\ player = "idle"
  /\ head < tail
  /\ player' = "asking"
  /\ done' = {}
  /\ UNCHANGED <<head, tail, outs>>

\* IsChunkConsumed() asks one output after the other and gives up at the
\* first one that still needs the chunk.
Ask(o) ==
  /\ player = "asking"
  /\ o \notin done
  /\ \/ /\ IsChunkConsumed(o)
        /\ done' = done \cup {o}
        /\ UNCHANGED player
     \/ /\ ~IsChunkConsumed(o)
        /\ done' = {}
        /\ player' = "idle"
  /\ UNCHANGED <<head, tail, outs>>

\* All outputs agree: Shift(), and on to the next chunk.  If the chunk is the
\* tail, every output still points at it, and that reference has to go first.
Asked ==
  /\ player = "asking"
  /\ done = Outputs
  /\ done' = {}
  /\ \/ /\ head + 1 < tail
        /\ head' = head + 1
        /\ UNCHANGED player
     \/ /\ head + 1 = tail
        /\ player' = "clearing"
        /\ UNCHANGED head
  /\ UNCHANGED <<tail, outs>>

\* Faulty variant: playback is not suspended.
ClearTailKeepsPlaying(o) ==
  /\ player = "clearing"
  /\ o \notin done
  /\ done' = done \cup {o}
  /\ chunk' = [chunk EXCEPT ![o] = IF open[o] THEN 0 ELSE @]
  /\ UNCHANGED <<head, tail, open, allow_play, cancelling, consumed, current,
                 last, player>>

\* LockClearTailChunk().
ClearTailChunk(o) ==
  /\ player = "clearing"
  /\ o \notin done
  /\ done' = done \cup {o}
  /\ chunk' = [chunk EXCEPT ![o] = IF open[o] THEN 0 ELSE @]
  /\ allow_play' = [allow_play EXCEPT ![o] = IF open[o] THEN FALSE ELSE @]
  /\ UNCHANGED <<head, tail, open, cancelling, consumed, current, last, player>>

\* MusicPipe::Shift() of the tail.
ShiftTail ==
  /\ player = "clearing"
  /\ done = Outputs
  /\ done' = {}
  /\ head' = head + 1
  /\ player' = "allowing"
  /\ UNCHANGED <<tail, outs>>

\* LockCancelAsync().
CancelAsync(o) ==
  /\ player = "cancel"
  /\ o \notin done
  /\ done' = done \cup {o}
  /\ cancelling' = [cancelling EXCEPT ![o] = open[o]]
  /\ allow_play' = [allow_play EXCEPT ![o] = IF open[o] THEN FALSE ELSE @]
  /\ UNCHANGED <<head, tail, open, chunk, consumed, current, last, player>>

\* MultipleOutputs::Cancel() begins.
Cancel ==
  /\ player = "idle"
  /\ player' = "cancel"
  /\ done' = {}
  /\ UNCHANGED <<head, tail, outs>>

\* Faulty variant: the pipe is cleared without WaitAll().
ClearWithoutWaiting ==
  /\ player = "cancel"
  /\ done = Outputs
  /\ done' = {}
  /\ head' = tail
  /\ player' = "allowing"
  /\ UNCHANGED <<tail, outs>>

\* WaitAll() has returned: MusicPipe::Clear().
Clear ==
  /\ player = "cancel"
  /\ done = Outputs
  /\ \A o \in Outputs : ~cancelling[o]
  /\ done' = {}
  /\ head' = tail
  /\ player' = "allowing"
  /\ UNCHANGED <<tail, outs>>

\* Faulty variant: playback is not resumed.
AllowPlayForgotten(o) ==
  /\ player = "allowing"
  /\ o \notin done
  /\ done' = done \cup {o}
  /\ UNCHANGED <<head, tail, outs, player>>

\* LockAllowPlay(), after ShiftTail or after Clear.
AllowPlay(o) ==
  /\ player = "allowing"
  /\ o \notin done
  /\ done' = done \cup {o}
  /\ allow_play' = [allow_play EXCEPT ![o] = TRUE]
  /\ UNCHANGED <<head, tail, open, cancelling, chunk, consumed, current, last,
                 player>>

\* Close() or Release() has closed all outputs: pipe.reset().
Reset ==
  /\ player = "idle"
  /\ \A o \in Outputs : ~open[o]
  /\ head' = tail
  /\ UNCHANGED <<tail, outs, player, done>>

\* The loop over LockAllowPlay() ends.
Allowed ==
  /\ player = "allowing"
  /\ done = Outputs
  /\ done' = {}
  /\ player' = "idle"
  /\ UNCHANGED <<head, tail, outs>>

-----------------------------------------------------------------------------

Player ==
  \/ Push
  \/ CheckPipe
  \/ Asked
  \/ ShiftTail
  \/ Cancel
  \/ Clear
  \/ Reset
  \/ Allowed
  \/ \E o \in Outputs :
       Open(o) \/ Ask(o) \/ ClearTailChunk(o) \/ CancelAsync(o) \/ AllowPlay(o)

Output(o) == BeginPlay(o) \/ FinishChunk(o) \/ Close(o) \/ ThreadCancel(o)

Next == Player \/ \E o \in Outputs : Output(o)

Spec == Init /\ [][Next]_vars

-----------------------------------------------------------------------------
(* Fairness: threads that can run do run, a device that is given a chunk   *)
(* plays it or fails, and the player polls CheckPipe() while the pipe has  *)
(* chunks.  Nothing obliges the player to push, to open or to cancel, and  *)
(* nothing obliges a device to fail.                                       *)

Fairness ==
  /\ WF_vars(CheckPipe \/ Asked \/ ShiftTail \/ Clear \/ Allowed)
  /\ \A o \in Outputs :
       /\ WF_vars(Ask(o) \/ ClearTailChunk(o) \/ CancelAsync(o) \/ AllowPlay(o))
       /\ WF_vars(BeginPlay(o))
       /\ WF_vars(FinishChunk(o))
       /\ WF_vars(ThreadCancel(o))

FairSpec == Spec /\ Fairness

-----------------------------------------------------------------------------
(* Properties. *)

\* Every variable holds a value of its type; a reference is nullptr or one of
\* the chunks pushed so far.
TypeOK ==
  /\ head \in Nat \ {0}
  /\ tail \in Nat \ {0}
  /\ open \in [Outputs -> BOOLEAN]
  /\ allow_play \in [Outputs -> BOOLEAN]
  /\ cancelling \in [Outputs -> BOOLEAN]
  /\ chunk \in [Outputs -> 0 .. tail - 1]
  /\ consumed \in [Outputs -> BOOLEAN]
  /\ current \in [Outputs -> 0 .. tail - 1]
  /\ last \in [Outputs -> Nat]
  /\ player \in PlayerStates
  /\ done \subseteq Outputs

\* c is a chunk of the pipe, that is, one that has not been freed.
InPipe(c) == head <= c /\ c < tail

\* An open output never points at a chunk that CheckPipe() or Cancel() has
\* already returned to the MusicBuffer: neither SharedPipeConsumer::chunk,
\* which Get() and IsConsumed() follow, nor current_chunk, whose data the
\* device is playing without any lock.
NoDangling ==
  \A o \in Outputs : open[o] =>
    /\ chunk[o] # 0 => InPipe(chunk[o])
    /\ current[o] # 0 => InPipe(current[o])

\* The asserts of SharedPipeConsumer::ClearTail(): when CheckPipe() clears the
\* reference to the last chunk, every open output points at that chunk, has
\* consumed it and is processing nothing, although the outputs were asked one
\* by one and their threads kept running in between.
TailAsserts ==
  player = "clearing" => \A o \in Outputs \ done : open[o] =>
    /\ chunk[o] = head
    /\ consumed[o]
    /\ current[o] = 0

\* No chunk is skipped and none is played twice: between Open() or Cancel()
\* and the next of these, an output starts with the oldest chunk of the pipe
\* and then takes the chunks in the order in which they were pushed, across
\* all the frees, tail clearings and wake-ups in between.
InOrder ==
  [][\A o \in Outputs : current'[o] # current[o] /\ current'[o] # 0 =>
       current'[o] = IF last[o] = 0 THEN head ELSE last[o] + 1]_vars

\* The player frees a chunk in CheckPipe() only when each open output has
\* played it; only Cancel() drops chunks that an open output has not played.
FreedOnlyIfPlayed ==
  [][head' # head /\ player # "cancel" =>
       \A o \in Outputs : open[o] =>
         last[o] >= head /\ current[o] # head]_vars

\* A chunk in the pipe is eventually freed, as long as outputs are not
\* reopened forever (a reopened output starts again with the oldest chunk):
\* clearing the tail and suspending playback never stalls the pipe for good.
PipeDrains ==
  (<>[][\A o \in Outputs : ~Open(o)]_vars) =>
    \A c \in 1..MaxChunks : (tail > c) ~> (head > c)

=============================================================================
