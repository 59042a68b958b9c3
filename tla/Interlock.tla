------------------------------ MODULE Interlock ------------------------------
(***************************************************************************)
(* What the lifecycle promises whoever stands beside the motor, without    *)
(* tasks, operations or registers: an interlock in front of a drive.       *)
(*                                                                         *)
(* A trip while nobody operates the drive opens the interlock, and only an *)
(* explicit rearm closes it.  A trip in the middle of an operation stops   *)
(* the drive but need not open the interlock: the operation may overwrite  *)
(* it.  Once torque was cut it stays cut until power is cycled.            *)
(***************************************************************************)
VARIABLES
  on,        \* the drive may put vectors on the gate
  tripped,   \* the interlock is open
  torqueCut, \* the torque line was cut
  vector     \* the last vector on the gate

vars == <<on, tripped, torqueCut, vector>>

Init == /\ on = FALSE /\ tripped = FALSE /\ torqueCut = FALSE
        /\ vector = 0

SwitchOn ==
  /\ ~tripped
  /\ on' = TRUE
  /\ UNCHANGED <<tripped, torqueCut, vector>>

SwitchOff ==
  /\ on' = FALSE
  /\ UNCHANGED <<tripped, torqueCut, vector>>

Drive ==
  /\ on /\ ~tripped
  /\ UNCHANGED <<on, tripped, torqueCut>>

Trip ==
  /\ on' = FALSE
  /\ torqueCut' = TRUE
  /\ tripped' \in {tripped, TRUE}
  /\ UNCHANGED vector

CutTorque ==
  /\ torqueCut' = TRUE
  /\ UNCHANGED <<on, tripped, vector>>

Rearm ==
  /\ tripped /\ ~on
  /\ tripped' = FALSE
  /\ UNCHANGED <<on, torqueCut, vector>>

PowerCycle == on' = FALSE /\ tripped' = FALSE /\ torqueCut' = FALSE /\ vector' = 0

Next == \/ SwitchOn \/ SwitchOff \/ Drive \/ Trip \/ CutTorque \/ Rearm
        \/ PowerCycle

Spec == Init /\ [][Next]_vars
=============================================================================
