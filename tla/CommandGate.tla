----------------------------- MODULE CommandGate -----------------------------
(***************************************************************************)
(* What the two RB10 command paths promise about motion commands, with no  *)
(* thread, socket or queue in it.  A motion command is admitted while the  *)
(* gate is open; an admitted command may still leave after the gate has    *)
(* closed, because the safety flag is read before the command is queued,   *)
(* taken, and written after an acknowledgement wait.  What bounds the      *)
(* damage is the number of places a command can be in at once (Slots).     *)
(* After the program has started to halt the robot no motion command       *)
(* leaves at all.                                                          *)
(*                                                                         *)
(* DirectRb10Backend implements this module with three slots,              *)
(* Rb10DirectBridge with one.                                              *)
(***************************************************************************)
EXTENDS Integers

CONSTANT Slots      \* how many admitted commands can be on their way at once

VARIABLES
    open,           \* no robot safety stop is recorded
    credit,         \* admitted motion commands that have not left yet
    late,           \* motion commands that have left since the gate closed
    halted          \* a shutdown command has been sent to the robot

gateVars == <<open, credit, late, halted>>

GateTypeOK ==
    /\ open \in BOOLEAN
    /\ credit \in 0..Slots
    /\ late \in Nat
    /\ halted \in BOOLEAN

GateInit ==
    /\ open = TRUE
    /\ credit = 0
    /\ late = 0
    /\ halted = FALSE

\* A command passes the gate.
Admit ==
    /\ open
    /\ ~halted
    /\ credit < Slots
    /\ credit' = credit + 1
    /\ UNCHANGED <<open, late, halted>>

\* Admitted commands are overwritten, cleared or given up.
Discard ==
    /\ credit' \in 0..credit
    /\ UNCHANGED <<open, late, halted>>

\* An admitted command reaches the robot; while the gate is closed it counts.
Release ==
    /\ ~halted
    /\ credit > 0
    /\ credit' = credit - 1
    /\ late' = IF open THEN late ELSE late + 1
    /\ UNCHANGED <<open, halted>>

Close ==
    /\ open
    /\ open' = FALSE
    /\ UNCHANGED <<credit, late, halted>>

Reopen ==
    /\ ~open
    /\ open' = TRUE
    /\ late' = 0
    /\ UNCHANGED <<credit, halted>>

\* Halting the robot: only when nothing admitted is left.
Halt ==
    /\ credit = 0
    /\ halted' = TRUE
    /\ UNCHANGED <<open, credit, late>>

GateNext == Admit \/ Discard \/ Release \/ Close \/ Reopen \/ Halt

GateSpec == GateInit /\ [][GateNext]_gateVars

\* At most Slots motion commands reach the robot between the moment a safety
\* stop is recorded and the moment it is recorded as cleared.
LateBound == late <= Slots

\* The inductive form: what has left since the closing plus what can still leave.
LateBudget == IF open THEN late = 0 ELSE late + credit <= Slots

GateInv == GateTypeOK /\ LateBudget
==============================================================================
