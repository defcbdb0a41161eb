-------------------------- MODULE SharedPipeProofs --------------------------
(***************************************************************************)
(* For any set of outputs and any number of chunks, SharedPipe satisfies  *)
(* TypeOK, NoDangling, TailAsserts, InOrder and FreedOnlyIfPlayed.        *)
(***************************************************************************)
EXTENDS SharedPipe, TLAPS

\* A CANCEL is pending only while Cancel() waits for it, and keeps the output
\* from starting to play.
CancelInv ==
  \A o \in Outputs : cancelling[o] =>
    player = "cancel" /\ o \in done /\ ~allow_play[o]

\* An open output points into the pipe; what it processes is what it points
\* at and has not consumed; "last" follows the pointer.
ConsumerInv ==
  \A o \in Outputs : open[o] =>
    /\ chunk[o] # 0 => InPipe(chunk[o]) /\ last[o] = chunk[o]
    /\ current[o] # 0 => current[o] = chunk[o] /\ ~consumed[o]
    /\ chunk[o] # 0 /\ ~consumed[o] => current[o] = chunk[o]

\* An output without a reference resumes right behind the chunk it played
\* last.  That is the head of the pipe, except between ClearTailChunk() and
\* the Shift() it prepares.
ResumeInv ==
  \A o \in Outputs : open[o] /\ chunk[o] = 0 /\ last[o] # 0 =>
    last[o] + 1 = IF player = "clearing" /\ o \in done THEN tail ELSE head

\* An output that has answered CheckPipe() with "consumed" can only move
\* away from the head while the others are asked.
AskingInv ==
  player = "asking" =>
    /\ head < tail
    /\ \A o \in done : open[o] =>
         /\ chunk[o] # 0
         /\ chunk[o] = head => consumed[o] /\ head + 1 = tail

\* While the tail is cleared, no output can start anything.
ClearingInv ==
  player = "clearing" =>
    /\ head + 1 = tail
    /\ \A o \in Outputs : open[o] =>
         IF o \in done
         THEN chunk[o] = 0 /\ last[o] = head /\ ~allow_play[o]
         ELSE chunk[o] = head /\ consumed[o]

\* An output whose CANCEL has been executed has let go of the pipe and stays
\* that way until LockAllowPlay().
CancelledInv ==
  player = "cancel" =>
    \A o \in done : open[o] /\ ~cancelling[o] =>
      chunk[o] = 0 /\ current[o] = 0 /\ last[o] = 0 /\ ~allow_play[o]

IInv ==
  /\ TypeOK
  /\ head <= tail
  /\ CancelInv
  /\ ConsumerInv
  /\ ResumeInv
  /\ AskingInv
  /\ ClearingInv
  /\ CancelledInv

-----------------------------------------------------------------------------

\* A newly constructed pipe and its consumers satisfy the inductive invariant.
LEMMA InitInv == Init => IInv
BY DEF Init, IInv, TypeOK, CancelInv, ConsumerInv, ResumeInv, AskingInv,
       ClearingInv, CancelledInv, PlayerStates, InPipe

USE DEF IInv, TypeOK, CancelInv, ConsumerInv, ResumeInv, AskingInv,
        ClearingInv, CancelledInv, InPipe, PlayerStates, vars, outs

\* Each step of the player (Push, CheckPipe, Cancel) and of an output (Open, Get,
\* consume, Close) preserves the inductive invariant.
LEMMA StepInv == IInv /\ [Next]_vars => IInv'
<1> SUFFICES ASSUME IInv, [Next]_vars PROVE IInv'
  OBVIOUS
<1>1. CASE Push
  BY <1>1 DEF Push
<1>2. CASE CheckPipe
  BY <1>2 DEF CheckPipe
<1>3. CASE Asked
  BY <1>3 DEF Asked
<1>4. CASE ShiftTail
  BY <1>4 DEF ShiftTail
<1>5. CASE Cancel
  BY <1>5 DEF Cancel
<1>6. CASE Clear
  BY <1>6 DEF Clear
<1>7. CASE Allowed \/ Reset
  BY <1>7 DEF Allowed, Reset
<1>8. ASSUME NEW o \in Outputs, Open(o) PROVE IInv'
  BY <1>8 DEF Open
<1>9. ASSUME NEW o \in Outputs, Ask(o) PROVE IInv'
  BY <1>9 DEF Ask, IsChunkConsumed
<1>10. ASSUME NEW o \in Outputs, ClearTailChunk(o) PROVE IInv'
  <2> USE <1>10 DEF ClearTailChunk
  <2>1. current[o] # 0 => ~open[o]
    OBVIOUS
  <2>2. TypeOK'
    OBVIOUS
  <2>3. ConsumerInv'
    BY <2>1
  <2>4. ResumeInv'
    OBVIOUS
  <2>5. ClearingInv'
    OBVIOUS
  <2> QED
    BY <2>2, <2>3, <2>4, <2>5
<1>11. ASSUME NEW o \in Outputs, CancelAsync(o) PROVE IInv'
  BY <1>11 DEF CancelAsync
<1>12. ASSUME NEW o \in Outputs, AllowPlay(o) PROVE IInv'
  BY <1>12 DEF AllowPlay
<1>13. ASSUME NEW o \in Outputs, BeginPlay(o) PROVE IInv'
  <2> USE <1>13 DEF BeginPlay
  <2>1. CASE Get(o, consumed[o]) # 0 /\ Take(o, Get(o, consumed[o]))
    <3>1. PICK c \in Nat :
            /\ c # 0 /\ InPipe(c)
            /\ c = IF chunk[o] = 0 THEN head ELSE chunk[o] + 1
            /\ Take(o, c)
            /\ chunk[o] # 0 => consumed[o]
      BY <2>1 DEF Get
    <3>2. /\ chunk' = [chunk EXCEPT ![o] = c]
          /\ consumed' = [consumed EXCEPT ![o] = FALSE]
          /\ current' = [current EXCEPT ![o] = c]
          /\ last' = [last EXCEPT ![o] = c]
      BY <3>1 DEF Take
    <3>3. UNCHANGED <<head, tail, open, allow_play, cancelling, player, done>>
      OBVIOUS
    <3>4. player # "clearing" /\ ~(player = "asking" /\ o \in done /\ chunk[o] = 0)
      BY <3>1
    <3> QED
      BY <3>1, <3>2, <3>3, <3>4
  <2>2. CASE /\ chunk[o] = 0 /\ head = tail
             /\ consumed' = [consumed EXCEPT ![o] = FALSE]
             /\ UNCHANGED <<chunk, current, last>>
    BY <2>2
  <2> QED
    BY <2>1, <2>2
<1>14. ASSUME NEW o \in Outputs, FinishChunk(o) PROVE IInv'
  <2> USE <1>14 DEF FinishChunk, Take, Get
  <2>1. CASE chunk[o] + 1 < tail
    <3>1. /\ chunk' = [chunk EXCEPT ![o] = chunk[o] + 1]
          /\ consumed' = [consumed EXCEPT ![o] = FALSE]
          /\ current' = [current EXCEPT ![o] = chunk[o] + 1]
          /\ last' = [last EXCEPT ![o] = chunk[o] + 1]
      BY <2>1
    <3>2. UNCHANGED <<head, tail, open, allow_play, cancelling, player, done>>
      OBVIOUS
    <3>3. chunk[o] # 0 /\ open[o] /\ InPipe(chunk[o])
      OBVIOUS
    <3> QED
      BY <2>1, <3>1, <3>2, <3>3
  <2>2. CASE ~(chunk[o] + 1 < tail)
    <3>1. /\ consumed' = [consumed EXCEPT ![o] = TRUE]
          /\ current' = [current EXCEPT ![o] = 0]
          /\ UNCHANGED <<chunk, last>>
      BY <2>2
    <3>2. UNCHANGED <<head, tail, open, allow_play, cancelling, player, done>>
      OBVIOUS
    <3> QED
      BY <2>2, <3>1, <3>2
  <2> QED
    BY <2>1, <2>2
<1>15. ASSUME NEW o \in Outputs, Close(o) PROVE IInv'
  BY <1>15 DEF Close
<1>16. ASSUME NEW o \in Outputs, ThreadCancel(o) PROVE IInv'
  BY <1>16 DEF ThreadCancel
<1>17. CASE UNCHANGED vars
  BY <1>17
<1> QED
  BY <1>1, <1>2, <1>3, <1>4, <1>5, <1>6, <1>7, <1>8, <1>9, <1>10, <1>11,
     <1>12, <1>13, <1>14, <1>15, <1>16, <1>17 DEF Next, Player, Output

\* In every behaviour, for all outputs and any number of chunks, the
\* inductive invariant holds.
THEOREM Invariance == Spec => []IInv
BY InitInv, StepInv, PTL DEF Spec

\* Every variable keeps its type.
THEOREM TypeCorrect == Spec => []TypeOK
BY Invariance, PTL

\* No open output ever points at, or processes, a chunk that the player has
\* returned to the MusicBuffer.
THEOREM NoDanglingReference == Spec => []NoDangling
<1>1. IInv => NoDangling
  BY DEF NoDangling
<1> QED
  BY <1>1, Invariance, PTL

\* The asserts of SharedPipeConsumer::ClearTail() never fail.
THEOREM TailAssertsHold == Spec => []TailAsserts
<1>1. IInv => TailAsserts
  BY DEF TailAsserts
<1> QED
  BY <1>1, Invariance, PTL

\* No output skips a chunk or plays one twice.
THEOREM PlaysInOrder == Spec => InOrder
<1> DEFINE Step(o) == current'[o] # current[o] /\ current'[o] # 0 =>
                        current'[o] = IF last[o] = 0 THEN head ELSE last[o] + 1
<1>1. ASSUME IInv, Next, NEW o \in Outputs PROVE Step(o)
  <2>1. CASE Player
    <3>1. current' = current \/ \E p \in Outputs : current' = [current EXCEPT ![p] = 0]
      BY <1>1, <2>1 DEF Player, Push, CheckPipe, Asked, ShiftTail, Cancel, Clear,
           Allowed, Reset, Open, Ask, ClearTailChunk, CancelAsync, AllowPlay
    <3> QED
      BY <1>1, <3>1
  <2>2. ASSUME NEW p \in Outputs, BeginPlay(p) PROVE Step(o)
    BY <1>1, <2>2 DEF BeginPlay, Take, Get
  <2>3. ASSUME NEW p \in Outputs, FinishChunk(p) PROVE Step(o)
    BY <1>1, <2>3 DEF FinishChunk, Take, Get
  <2>4. ASSUME NEW p \in Outputs, Close(p) \/ ThreadCancel(p) PROVE Step(o)
    BY <1>1, <2>4 DEF Close, ThreadCancel
  <2> QED
    BY <1>1, <2>1, <2>2, <2>3, <2>4 DEF Next, Output
<1>2. IInv /\ [Next]_vars => [\A o \in Outputs : Step(o)]_vars
  BY <1>1
<1> QED
  BY <1>2, Invariance, PTL DEF Spec, InOrder

\* CheckPipe() frees a chunk only when each open output has played it.
THEOREM FreesOnlyPlayed == Spec => FreedOnlyIfPlayed
<1> DEFINE Played == head' # head /\ player # "cancel" =>
                       \A o \in Outputs : open[o] =>
                         last[o] >= head /\ current[o] # head
<1>1. ASSUME IInv, Next, head' # head, player # "cancel"
      PROVE  Asked \/ ShiftTail \/ Reset
  BY <1>1 DEF Next, Player, Output, Push, CheckPipe, Cancel, Clear, Allowed,
       Open, Ask, ClearTailChunk, CancelAsync, AllowPlay, BeginPlay,
       FinishChunk, Close, ThreadCancel
<1>2. ASSUME IInv, Asked, head' # head PROVE Played
  BY <1>2 DEF Asked
<1>3. ASSUME IInv, ShiftTail PROVE Played
  BY <1>3 DEF ShiftTail
<1>5. ASSUME IInv, Reset PROVE Played
  BY <1>5 DEF Reset
<1>4. IInv /\ [Next]_vars => [Played]_vars
  BY <1>1, <1>2, <1>3, <1>5
<1> QED
  BY <1>4, Invariance, PTL DEF Spec, FreedOnlyIfPlayed

=============================================================================
