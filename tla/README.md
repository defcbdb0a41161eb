# TLA+ models of the Music Player Daemon's playback core

MPD plays a queue of songs through any number of audio outputs.  The parts that
are hard to get right, and hard to test, are the ones in which threads hand
work to each other: the main thread gives commands to the player thread, the
player starts and stops the decoder thread and feeds the chunks it produces to
one thread per output, and the outputs tell the player when chunks can be
freed.  This directory models those threads, checks the models with TLC, and
proves the properties of the chunk-sharing protocol with TLAPS.

`PROJECT.json` lists components, runs, hazards and findings, and maps each
definition to the lines it models.  Paths below are relative to `src/src/`.

## The system

| Part | State | Operations | What is hard about it |
|---|---|---|---|
| Shared music pipe (`MusicPipe`, `output/SharedPipeConsumer`) | linked list of chunks; per output a pointer and a "consumed" flag | `Push`, `Shift`, `Clear`; `Get`, `Consume`, `IsConsumed`, `ClearTail` | chunks are freed on the strength of answers given one output at a time |
| Audio outputs (`output/Control`, `Thread`, `Source`, `MultipleOutputs`) | one command slot, `open`, `pause`, `allow_play`, `fail_timer`, current chunk, per output; the pipe | enable, disable, open, close, play, pause, release, drain, cancel, kill | every plugin call runs unlocked and may fail; a command may arrive at any moment |
| Player thread (`player/Thread`, `player/Control`) | `PlayerControl` (command, state, `next_song`, `seeking`, `occupied`), the `Player` object (pipe, `queued`, `paused`, `decoder_starting`, `pending_seek`, cross-fade) | QUEUE, SEEK, PAUSE, CANCEL, CLOSE_AUDIO, UPDATE_AUDIO, REFRESH, EXIT, and its own loop | one mutex shared by three threads, released at many places; one condition variable for several reasons to wait |
| Decoder thread (`decoder/Thread`, `Control`, `Bridge`) | command, state, song, pipe, start and seek position; the bridge's initial seek and current chunk | START, SEEK, STOP, quit | commands may come before `Ready()` or after the end of the file; waits for chunks which the player frees |
| Music buffer (`MusicBuffer`) | free chunks | allocate, return | bounded; its users wait for each other |
| Queue and playlist (`queue/`) | positions, orders, ids, priorities, versions; current and queued song | add, move, delete, swap, shuffle, priorities; play, next, seek, random, repeat, single, consume | two permutations kept inverse by hand; each edit must also fix the current and the queued song |
| Partitions (`Partition`) | players and outputs per partition | move an output | commands from two threads to one output |
| Event loop, clients, idle (`event/`, `client/`) | inject list, timers; idle flags | inject, defer, poll; idle, noidle | wake-ups elided when "not needed" |
| Database update, input streams, tag cache, mixers, state file | see `PROJECT.json` | | worker threads and deferred calls into the main thread |

Plugins (decoders including the SACD and DVD-Audio readers, encoders, filters,
devices), PCM conversion, tags and parsing are signal processing, text or I/O
around libraries.  They appear only as calls that succeed or fail.

## Modules

* **`SharedPipe`** is the abstract protocol: the pipe is the chunks
  `head .. tail-1`, numbered in the order they were pushed.  Each output has a
  pointer (`chunk`, 0 for `nullptr`), `consumed`, and the chunk it is processing
  (`current`).  `CheckPipe()` asks one output after the other, in steps of its own,
  and frees the head if all have said yes; freeing the last chunk first clears
  every output's reference to it.  `last` is a history variable, used only to state
  `InOrder`.
* **`SharedPipeProofs`** holds the theorems about it.
* **`Outputs`** is the real thing: each `AudioOutputControl` is a record, each
  output thread has a program counter, and a step is what the thread does between
  two points where it does not hold its mutex (unlocked plugin calls, the wait
  for a command, taking the player's mutex in `ChunksConsumed()`).  The methods of
  `MultipleOutputs` are loops over the outputs, one output per step, as in the
  code.  `ImplementsSharedPipe` instantiates `SharedPipe` with a refinement mapping
  from this state.  The model follows the code into its flaws: where a thread would
  read a pipe that has been freed, or apply a filter that could not be opened,
  it ends (`Undefined`); a command that the thread has slept through stays pending
  (`CommandLost`); and the song border waits with the player's mutex held.
  `Stuck` is one of these three.
* **`Player`** composes the player thread, the decoder thread, the main thread's
  calls, the music buffer, and an abstraction of the outputs: a queue of
  chunks which they consume, tell the player about at the latest when it is
  empty, and which they may fail on; they are enabled and disabled together.  All three threads share `pc.mutex`; an action
  is what one of them does while holding it.  `at = "body"` or `"multiplex"` means that
  the player still holds the mutex, so no other thread that needs it can act.
  Where the code releases it in the middle of an iteration (`OnPlayerSync()` after
  a seek, the MixRamp scanner), the player has a step of its own and goes on without
  looking at a command that has arrived meanwhile, as in the code.  `asleep` is
  the set of threads that wait on their condition variables.  A chunk in a pipe
  carries nothing but the room it takes in the music buffer (2 when two songs
  were mixed); a pipe has the format of its chunks.
* **`MCSharedPipe`, `MCOutputs`, `MCPlayer`** instantiate them for TLC.

Definitions named after a fault (`GetUnchecked`, `OneCleared`, ...), each marked
as faulty in its comment, are not part of the models: they are what the
definition following them could have been by mistake, and show that the
property about it would notice.

What is abstracted, in all modules: chunk contents, times (a position is a
small number), volume, replay gain, tags, bit rates, log messages, and the retry
interval of failed outputs (a retry may happen at any time).

## Runs

| Run | What it shows |
|---|---|
| `shared_pipe` | two outputs, 4 chunks: no reference to a freed chunk, asserts of `ClearTail()`, chunks played in order and freed only when played, with opens, closes and cancels at any time; every chunk is eventually freed |
| `outputs_one` | one `always_on` output, two formats, every method in any order (among them `Cancel()` without a pipe, and the border pause), and every call that may fail, failing at any time: asserts of the command protocol, `fail_timer` and `open`, the pipe pointer, no chunk freed in use, no lost wake-up, each method returns and the pipe drains (`OutputsSettle`) |
| `outputs_two` | two output threads implement `SharedPipe`, also when one cannot be started or fails while it plays |
| `player_commands` | play, seek, stop, status, disabling and enabling the outputs, exit at any time, and a decoder that fails at any of its steps: the player's and the decoder's asserts, no chunk is lost, no thread waits for ever |
| `player_crossfade` | cross-fading, with the MixRamp scanner, while the next song is cancelled and replaced, and seeks in a song that is not seekable.  `NothingLeft`: while a `Run()` has the outputs open, it starts a song or position only when they hold nothing of the last one.  This is why `CheckDecoderStartup()` in the model never waits in `WaitOutputConsumed(1)`, which it calls only if `output_open`: with that guard, the wait is never needed.  Without it, it would be: see `player_late` |
| `player_pause` | pause, resume, border pause, outputs that fail or are disabled: the state the main thread sees is the player's |
| `player_live` | each command finishes, each song ends, also if the decoder fails to start or to seek (deadlock is checked by the other runs) |
| `player_seek` | a seek is never waited for for ever: at once or postponed, successful or not, to position 0 or 1 |
| `outputs_border`, `player_hang`, `player_early`, `player_late` | violations, see Findings |

**What the passing properties exclude.**  The runs of `Outputs` leave no failure and no
call out.  Where the code breaks a property, the formula names the case, and nothing
else is excluded:

| Property | Except | Because |
|---|---|---|
| `OpenIsHealthy` | an output without a filter | `InternalOpen()` cannot open the filter for a new format and leaves the device open *and* failed (`output/Thread.cxx:142`; asserts at `output/Control.cxx:307`, `:432`, `:444`) |
| `ChunkInUse` | the format of the filter, for the same output | the same |
| `PipeAlive`, `ClientAsserts` (`output/Control.cxx:259`) | `Released(o)`: an `always_on` output that `Release()` has left open (for `PipeAlive`, until an `OPEN` with the current pipe has been executed) | it keeps the pointer to the freed pipe, and `Player::SeekDecoder()` calls `Cancel()` whether or not there is a pipe (`player/Thread.cxx:707`), which ends its pause |
| `NoLostWakeup` | `CommandLost(o)` | the first `Fill()` of `InternalPlay()` fails, and the thread sleeps without having looked at a command that came meanwhile (`output/Thread.cxx:446`) |
| `OutputsSettle` | `Stuck` | the two cases above, and `outputs_border` |
| `NothingLeft` | chunks left by an earlier `Run()` | `player_late` |
| `CommandsFinish`, `SongEnds` | `Overslept` | `player_hang` |

**Bounds.**  Two outputs suffice for the sharing protocol, as an output interacts
with the others only through the player's round of questions; the proofs
cover any number.  Two chunks are needed for "head and not tail" and "head and
tail", four let an output be ahead of another one by more than one.  One output
suffices for the command protocol, as outputs do not share anything but the
pipe.  `OutputsSettle` is about a player that ends with polling `CheckPipe()`, which
`MaxOps` makes it do; any three calls may come before.  `Portions` is what a
filter may return for a chunk: {0, 1} has an empty chunk and one that is played in one
portion, and a tag may come with each.  In `Player`, a music buffer of 1 or 2 chunks (3 with cross-fading) makes
the decoder wait for space, which large buffers would do only after very long
behaviours; `MaxOps` operations are counted apart from those which the main thread
derives from them (queueing the next song, resuming after an error), so songs
follow each other without end.  Two or three operations reach each pair or triple
of commands at each point of each thread.  The deepest run has a diameter of
about 90 steps.

**Fairness.**  Weak fairness of each thread's steps: the operating system runs a
thread that can run.  Waiting threads are not enabled until they are
signalled, so no wake-up is assumed.  Devices consume (weak fairness of
`OutputThread`), which is true of a device that is not blocked.
In `SharedPipe` outputs may close or be reopened forever, and opening and pushing are
not fair: nobody has to.  The main thread's event loop handles
the player's events (`SyncWithPlayer`, a part of `MainThread`).  User operations are not fair.

## What is proved

`SharedPipeProofs`, for every set of outputs and every bound on chunks:

* `TypeCorrect`, `NoDanglingReference`, `TailAssertsHold`: the invariants of the
  `shared_pipe` run;
* `PlaysInOrder`: no output skips a chunk or plays one twice between
  `Open()`/`Cancel()`;
* `FreesOnlyPlayed`: a chunk is freed by `CheckPipe()` only if each open output has
  played it.

The only assumption is that the bound on chunks is a natural number.  The
invariants are not inductive: that no output points to a freed chunk depends on
what holds *between* the questions.  The inductive invariant `IInv` adds
`AskingInv` (an output that has answered "consumed" can only move on, away from
the head), `ClearingInv` (while the references to the last chunk are cleared,
no output can start on it, because `ClearTailChunk()` has taken away `allow_play`),
`CancelledInv` (an output whose CANCEL is done stays away until
`LockAllowPlay()`), and `ConsumerInv` and `ResumeInv` which tie the pointers to the
pipe.  `Outputs` implementing `SharedPipe` is model-checked, so the theorems carry over to
it on the checked instances.

Only model-checked: everything about `Outputs` and `Player`, and all liveness
properties (out of the prover's reach).

## Findings

Four runs are expected to find a violation; `PROJECT.json` quotes the lines of
the repository that say otherwise.

| Run | The code |
|---|---|
| `outputs_border` | border pause drains the outputs with the player's mutex held, which they need: deadlock |
| `player_hang` | the player checks the outputs unlocked, then sleeps: commands and the last notification are missed |
| `player_early` | a very short song may be played with the next song's format |
| `player_late` | a CANCEL that comes too late ends `Run()` with chunks left in the outputs, and the next song changes the format under them |

Further configurations show disagreements between the code and what it
says of itself.  They are not among the runs; TLC finds each within a minute.

| Configuration, property | The code, and what contradicts it |
|---|---|
| `Outputs_always_on.cfg`, `PipeAlwaysAlive` | `Cancel()` after `Release()` makes an `always_on` output read the pipe that has been freed (`output/Thread.cxx:490`, `player/Thread.cxx:707`; comment at `output/Thread.cxx:502`) |
| `Player_toggle.cfg`, `PauseSticks` | `pause 1` may resume: PAUSE is a toggle, and an output failure pauses too (`player/Control.cxx:141`; `doc/protocol.rst:617`) |
| `Player_noready.cfg`, `OpenDefined` | a decoder may end without error and without a format (`decoder/Thread.cxx:418`; assert at `player/Thread.cxx:560`) |
| `Player_zero.cfg`, `SeekTakesEffect` | a postponed seek to 0 is forgotten (`player/Thread.cxx:624`; `doc/protocol.rst:641`) |
| `Player_decode.cfg`, `DecodeCannotFail` | the decoder's state may go from DECODE to ERROR (`decoder/Thread.cxx:517`; comment at `decoder/Control.hxx:58`) |

The passing runs are about what holds nevertheless.  `Hang` in `Player` is the one
stuttering step that stands for `player_hang`; any other state in which all threads
wait is a deadlock error in every run but `player_live` and `player_seek`.

## Plan

1. *Done*: `SharedPipe` with proofs, `Outputs`, `Player`.
2. `Queue` (positions, orders, ids, priorities, versions) with proofs that order
   and id tables stay inverse to each other; `Playlist` on top of it (current and queued
   song through edits, random, repeat, single, consume), with an abstract
   playlist without orders that it should implement.
3. Partitions: moving an output while its player sends commands.
4. Event loop: inject and wake-up, timers; idle flags and subscriptions.
5. Database update service (queue, thread, deferred removal), buffering input
   streams and the input cache, remote tag cache.
6. Further proofs: the command protocol of one output for any number of
   commands; the player's next-song protocol.
