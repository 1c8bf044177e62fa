--------------------------- MODULE CommandPathProofs ---------------------------
(***************************************************************************)
(* What the proofs about both command paths rest on.  First the gate both  *)
(* implement: LateBound alone is not inductive, as it says nothing of the  *)
(* admitted commands that can still leave, which LateBudget counts.  Then  *)
(* what every step of the socket client preserves, for whichever process   *)
(* owns the client: each action of an owner is, on the client's variables, *)
(* one of the steps below, and the owners' proofs cite these lemmas.       *)
(***************************************************************************)
EXTENDS Rb10SocketClient, CommandGate, TLAPS

-----------------------------------------------------------------------------
(* The command gate *)

GateFlags == open \in BOOLEAN /\ halted \in BOOLEAN
GateCounts == credit \in 0..Slots /\ late \in Nat

\* The type of the gate is that of its flags and that of its counters.
LEMMA GateTypeParts == GateTypeOK <=> GateFlags /\ GateCounts
  BY Zenon DEF GateTypeOK, GateFlags, GateCounts

\* Every step of the gate keeps the type and the budget: what has left since
\* the gate closed plus what can still leave never exceeds the slots.
LEMMA GateKept ==
  ASSUME Slots \in Nat, GateInv, [GateNext]_gateVars
  PROVE  GateInv'
  <1>1. GateFlags /\ GateCounts /\ LateBudget
    BY GateTypeParts DEF GateInv
  <1>2. GateFlags'
    BY <1>1, Zenon DEF GateFlags, GateNext, Admit, Discard, Release, Close, Reopen,
                       Halt, gateVars
  <1>3. GateCounts' /\ LateBudget'
    <2> USE <1>1 DEF GateCounts, LateBudget
    <2>1. CASE Admit
      BY <2>1 DEF Admit
    <2>2. CASE Discard
      <3>1. PICK kept \in 0..credit : credit' = kept
        BY <2>2 DEF Discard
      <3>2. GateCounts'
        BY <2>2, <3>1 DEF Discard
      <3>3. LateBudget'
        BY <2>2, <3>1 DEF Discard
      <3> QED
        BY <3>2, <3>3
    <2>3. CASE Release
      BY <2>3 DEF Release
    <2>4. CASE Close
      BY <2>4 DEF Close
    <2>5. CASE Reopen
      BY <2>5 DEF Reopen
    <2>6. CASE Halt
      BY <2>6 DEF Halt
    <2>7. CASE UNCHANGED gateVars
      BY <2>7 DEF gateVars
    <2> QED
      BY <2>1, <2>2, <2>3, <2>4, <2>5, <2>6, <2>7 DEF GateNext
  <1> QED
    BY <1>2, <1>3, Zenon DEF GateInv, GateTypeOK, GateFlags, GateCounts

\* The inductive invariant of the gate holds in every state of every behaviour.
THEOREM GateInvariant ==
  ASSUME Slots \in Nat
  PROVE  GateSpec => []GateInv
  <1>1. GateInit => GateFlags
    BY Zenon DEF GateInit, GateFlags
  <1>2. GateInit => GateCounts /\ LateBudget
    BY DEF GateInit, GateCounts, LateBudget
  <1>3. GateInit => GateInv
    BY <1>1, <1>2, GateTypeParts DEF GateInv
  <1>4. GateInv /\ [GateNext]_gateVars => GateInv'
    BY GateKept
  <1> QED
    BY <1>3, <1>4, PTL DEF GateSpec

\* At most Slots commands leave between a closing of the gate and the next
\* opening, whatever the number of slots.
THEOREM GateBound ==
  ASSUME Slots \in Nat
  PROVE  GateSpec => []LateBound
  <1>1. GateInv => LateBound
    BY GateTypeParts DEF GateInv, GateCounts, LateBudget, LateBound
  <1> QED
    BY <1>1, GateInvariant, PTL

-----------------------------------------------------------------------------
(* The steps of the socket client *)

StreamStep(c) ==
    \/ BeginStream(c) \/ AckReceived(c) \/ AckTimeout(c)
    \/ WriteStream(c) \/ WriteFails(c) \/ AfterFailure(c)

TextStep == (TextSent \/ TextFails) /\ UNCHANGED seqVars

ThreadStep ==
    ReadReply \/ CmdReaderEnds \/ RequesterEnds \/ DataReaderEnds \/ RobotStalls

\* The data thread is inside the state callback, or comes out of it.
CallbackStep(S) ==
    /\ dataReader' \in S \cup {"run"}
    /\ UNCHANGED <<connected, running, responsePending, sender, cmdReader,
                   requester, stalled, unanswered, excused, seqVars>>

\* Every step but a Connect, and every step.
LaterStep(S) ==
    \/ StopThreads \/ JoinThreads
    \/ \E c \in Callers : StreamStep(c)
    \/ TextStep \/ SequenceText \/ ThreadStep \/ CallbackStep(S)
    \/ UNCHANGED clientVars

ClientStep(S) == Connect \/ LaterStep(S)

-----------------------------------------------------------------------------
(* Types.  The provers treat flags and numbers in separate steps. *)

ClientFlags(S) ==
    /\ connected \in BOOLEAN
    /\ running \in BOOLEAN
    /\ responsePending \in BOOLEAN
    /\ cmdReader \in LoopStates
    /\ requester \in LoopStates
    /\ dataReader \in LoopStates \cup S
    /\ stalled \in BOOLEAN
    /\ firstOk \in BOOLEAN

ClientCounts ==
    /\ unanswered \in Nat
    /\ excused \in Nat
    /\ seqStep \in 0..6
    /\ seqSent \in 0..seqStep

ClientSender == sender \in [Callers -> SenderSteps]

\* The client's type invariant is that of its flags, counters and senders.
LEMMA ClientTypeParts ==
  ASSUME NEW S
  PROVE  ClientTypeOK(S) <=> ClientFlags(S) /\ ClientCounts /\ ClientSender
  BY Zenon DEF ClientTypeOK, ClientFlags, ClientCounts, ClientSender

\* No step gives a flag or a thread a value outside its range.
LEMMA ClientFlagsStep ==
  ASSUME NEW S, ClientFlags(S), ClientStep(S)
  PROVE  ClientFlags(S)'
  <1> USE DEF ClientFlags, LoopStates
  <1>1. CASE Connect
    BY <1>1, Zenon DEF Connect, seqVars
  <1>2. CASE StopThreads \/ JoinThreads
    BY <1>2, Zenon DEF StopThreads, JoinThreads, seqVars
  <1>3. ASSUME NEW c \in Callers, StreamStep(c) PROVE ClientFlags(S)'
    BY <1>3, Zenon DEF StreamStep, BeginStream, AckReceived, AckTimeout,
                       WriteStream, WriteFails, AfterFailure, seqVars
  <1>4. CASE TextStep
    BY <1>4, Zenon DEF TextStep, TextSent, TextFails, seqVars
  <1>5. CASE SequenceText
    <2>1. firstOk' \in BOOLEAN
      BY <1>5, Zenon DEF SequenceText
    <2> QED
      BY <2>1, <1>5, Zenon DEF SequenceText, TextSent, TextFails
  <1>6. CASE ThreadStep
    <2>1. connected' \in BOOLEAN
      BY <1>6, Zenon DEF ThreadStep, ReadReply, CmdReaderEnds, RequesterEnds,
                         DataReaderEnds, RobotStalls
    <2> QED
      BY <2>1, <1>6, Zenon DEF ThreadStep, ReadReply, CmdReaderEnds,
         RequesterEnds, DataReaderEnds, RobotStalls, seqVars
  <1>7. CASE CallbackStep(S)
    BY <1>7, Zenon DEF CallbackStep, seqVars
  <1>8. CASE UNCHANGED clientVars
    BY <1>8, Zenon DEF clientVars, seqVars
  <1> QED
    BY <1>1, <1>2, <1>3, <1>4, <1>5, <1>6, <1>7, <1>8 DEF ClientStep, LaterStep

\* No step takes a counter below zero or past its end.
LEMMA ClientCountsStep ==
  ASSUME NEW S, ClientCounts, ClientStep(S)
  PROVE  ClientCounts'
  <1> USE DEF ClientCounts
  <1>1. CASE Connect
    BY <1>1 DEF Connect, seqVars
  <1>2. CASE StopThreads \/ JoinThreads
    BY <1>2 DEF StopThreads, JoinThreads, seqVars
  <1>3. ASSUME NEW c \in Callers, StreamStep(c) PROVE ClientCounts'
    BY <1>3 DEF StreamStep, BeginStream, AckReceived, AckTimeout,
                WriteStream, WriteFails, AfterFailure, seqVars
  <1>4. CASE TextStep
    BY <1>4 DEF TextStep, TextSent, TextFails, seqVars
  <1>5. CASE SequenceText
    <2>1. unanswered' \in Nat /\ excused' \in Nat
      BY <1>5 DEF SequenceText, TextSent, TextFails
    <2>2. seqStep' = seqStep + 1 /\ seqStep < 6
      BY <1>5 DEF SequenceText, SequenceDone
    <2>3. seqSent' = seqSent + 1 \/ seqSent' = seqSent
      BY <1>5 DEF SequenceText
    <2> QED
      BY <2>1, <2>2, <2>3
  <1>6. CASE ThreadStep
    <2>1. CASE ReadReply
      <3>1. PICK n \in 1..unanswered : unanswered' = unanswered - n
        BY <2>1 DEF ReadReply
      <3> QED
        BY <2>1, <3>1 DEF ReadReply, seqVars
    <2>2. CASE ~ReadReply
      BY <2>2, <1>6 DEF ThreadStep, CmdReaderEnds, RequesterEnds,
                        DataReaderEnds, RobotStalls, seqVars
    <2> QED
      BY <2>1, <2>2
  <1>7. CASE CallbackStep(S)
    BY <1>7 DEF CallbackStep, seqVars
  <1>8. CASE UNCHANGED clientVars
    BY <1>8 DEF clientVars, seqVars
  <1> QED
    BY <1>1, <1>2, <1>3, <1>4, <1>5, <1>6, <1>7, <1>8 DEF ClientStep, LaterStep

\* A caller is always at one of the four points of a send.
LEMMA ClientSenderStep ==
  ASSUME NEW S, ClientSender, ClientStep(S)
  PROVE  ClientSender'
  <1> USE DEF ClientSender
  <1>1. ASSUME NEW c \in Callers, StreamStep(c) PROVE ClientSender'
    BY <1>1 DEF StreamStep, BeginStream, AckReceived, AckTimeout, WriteStream,
                WriteFails, AfterFailure, SenderSteps
  <1>2. CASE UNCHANGED sender
    BY <1>2
  <1> QED
    BY <1>1, <1>2, Zenon DEF ClientStep, LaterStep, Connect, StopThreads, JoinThreads, TextStep,
       TextSent, TextFails, SequenceText, ThreadStep, ReadReply, CmdReaderEnds,
       RequesterEnds, DataReaderEnds, RobotStalls, CallbackStep, clientVars

\* Together: the client's type is preserved by every step.
LEMMA ClientTypeStep ==
  ASSUME NEW S, ClientTypeOK(S), ClientStep(S)
  PROVE  ClientTypeOK(S)'
  <1>1. ClientFlags(S) /\ ClientCounts /\ ClientSender
    BY ClientTypeParts
  <1>2. ClientFlags(S)'
    BY <1>1, ClientFlagsStep
  <1>3. ClientCounts'
    BY <1>1, ClientCountsStep
  <1>4. ClientSender'
    BY <1>1, ClientSenderStep
  <1> QED
    BY <1>2, <1>3, <1>4, Zenon
       DEF ClientTypeOK, ClientFlags, ClientCounts, ClientSender

-----------------------------------------------------------------------------
(* Flow control *)

\* Nobody is in a send once running_ has been lowered.
QuietWhenStopped == running \/ \A c \in Callers : sender[c] = "idle"

\* No step of the client lets the robot owe more answers than the budget,
\* provided no caller is in a send after running_ has been lowered.
LEMMA FlowBudgetStep ==
  ASSUME NEW S, ClientCounts, ClientSender, FlowBudget, QuietWhenStopped,
         ClientStep(S)
  PROVE  FlowBudget'
  <1> USE DEF FlowBudget, BusyCount, ClientCounts, ClientSender
  <1> DEFINE Quiet == UNCHANGED <<unanswered, excused, sender, responsePending>>
  <1>1. CASE Quiet
    BY <1>1
  <1>2. CASE TextSent
    BY <1>2 DEF TextSent
  <1>3. CASE ReadReply
    BY <1>3 DEF ReadReply
  <1>4. ASSUME NEW c \in Callers, StreamStep(c) PROVE FlowBudget'
    <2> USE DEF Callers, SenderSteps
    <2>1. CASE BeginStream(c)
      BY <2>1 DEF BeginStream
    <2>2. CASE AckReceived(c)
      BY <2>2 DEF AckReceived, AckPredicate, QuietWhenStopped
    <2>3. CASE AckTimeout(c)
      BY <2>3 DEF AckTimeout
    <2>4. CASE WriteStream(c)
      BY <2>4 DEF WriteStream
    <2>5. CASE WriteFails(c)
      BY <2>5 DEF WriteFails
    <2>6. CASE AfterFailure(c)
      BY <2>6 DEF AfterFailure
    <2> QED
      BY <1>4, <2>1, <2>2, <2>3, <2>4, <2>5, <2>6 DEF StreamStep
  <1>5. CASE Connect \/ StopThreads \/ JoinThreads
    BY <1>5, <1>1 DEF Connect, StopThreads, JoinThreads
  <1>6. CASE TextStep \/ SequenceText
    BY <1>6, <1>1, <1>2 DEF TextStep, SequenceText, TextFails
  <1>7. CASE ThreadStep
    BY <1>7, <1>1, <1>3 DEF ThreadStep, CmdReaderEnds, RequesterEnds,
                            DataReaderEnds, RobotStalls
  <1>8. CASE CallbackStep(S) \/ UNCHANGED clientVars
    BY <1>8, <1>1 DEF CallbackStep, clientVars
  <1> QED
    BY <1>4, <1>5, <1>6, <1>7, <1>8 DEF ClientStep, LaterStep

\* The budget bounds what the robot owes: FlowControl follows from it.
LEMMA FlowBudgetSuffices == ClientCounts /\ FlowBudget => FlowControl
  BY DEF ClientCounts, FlowBudget, FlowControl, BusyCount

-----------------------------------------------------------------------------
(* The shutdown sequence *)

\* Until its first text has been written the sequence has written nothing, and
\* the failure of that text has cost it the connection for good.
SequenceInv ==
    /\ seqSent > 0 => firstOk
    /\ seqStep > 0 /\ ~firstOk => ~connected
    /\ seqStep = 6 => ~firstOk

\* No step but a first Connect can bring the connection back, so none can get
\* a later text through after the first one has failed.
LEMMA SequenceStep ==
  ASSUME NEW S, ClientCounts, ClientFlags(S), SequenceInv,
         (Connect /\ seqStep = 0) \/ LaterStep(S)
  PROVE  SequenceInv'
  <1>1. CASE Connect /\ seqStep = 0
    BY <1>1 DEF Connect, seqVars, SequenceInv, ClientCounts
  <1>2. ASSUME UNCHANGED seqVars, connected' => connected PROVE SequenceInv'
    BY <1>2 DEF seqVars, SequenceInv, ClientCounts
  <1>3. CASE SequenceText
    <2>1. CASE TextSent
      <3>1. connected /\ connected' = connected
        BY <2>1 DEF TextSent
      <3>2. firstOk \/ seqStep = 0
        BY <3>1 DEF SequenceInv, ClientCounts
      <3>3. firstOk' /\ seqStep' = seqStep + 1
        BY <2>1, <3>1, <3>2, <1>3 DEF SequenceText, TextFails
      <3>4. seqStep # 5
        BY <3>2, <1>3 DEF SequenceText, SequenceDone
      <3> QED
        BY <3>3, <3>4 DEF SequenceInv, ClientCounts
    <2>2. CASE TextFails /\ UNCHANGED <<seqSent, firstOk>>
      <3>1. seqStep = 5 => ~firstOk
        BY <1>3 DEF SequenceText, SequenceDone
      <3>2. ~connected' /\ seqStep' = seqStep + 1
        BY <2>2, <1>3 DEF SequenceText, TextFails
      <3> QED
        BY <2>2, <3>1, <3>2 DEF SequenceInv, ClientCounts
    <2> QED
      BY <1>3, <2>1, <2>2 DEF SequenceText
  <1>4. ASSUME NEW c \in Callers, StreamStep(c) PROVE SequenceInv'
    BY <1>4, <1>2 DEF StreamStep, BeginStream, AckReceived, AckTimeout,
                      WriteStream, WriteFails, AfterFailure
  <1>5. CASE StopThreads \/ JoinThreads \/ TextStep
    BY <1>5, <1>2 DEF StopThreads, JoinThreads, TextStep, TextSent, TextFails
  <1>6. CASE ThreadStep
    <2>1. connected' => connected
      BY <1>6, Zenon DEF ThreadStep, ReadReply, CmdReaderEnds, RequesterEnds,
                         DataReaderEnds, RobotStalls, ClientFlags
    <2> QED
      BY <2>1, <1>6, <1>2 DEF ThreadStep, ReadReply, CmdReaderEnds,
         RequesterEnds, DataReaderEnds, RobotStalls
  <1>7. CASE CallbackStep(S) \/ UNCHANGED clientVars
    BY <1>7, <1>2 DEF CallbackStep, clientVars
  <1> QED
    BY <1>1, <1>3, <1>4, <1>5, <1>6, <1>7 DEF ClientStep, LaterStep

\* From SequenceInv, the fallback text and the clears without a first text
\* never reach the robot.
LEMMA SequenceInvSuffices == ClientCounts /\ SequenceInv => FallbackNeverWritten
  BY DEF ClientCounts, SequenceInv, FallbackNeverWritten
================================================================================
