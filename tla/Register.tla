------------------------------ MODULE Register ------------------------------
(***************************************************************************)
(* What a lock-free channel between two tasks promises: it is a register   *)
(* with one writer and one reader.  A write takes effect at one instant; a *)
(* read takes time, and returns the value the register had when it began.  *)
(* Values are the numbers of the writes, so a reader that goes back in time *)
(* would be seen.                                                          *)
(***************************************************************************)
EXTENDS Naturals

VARIABLES
  value,    \* the last write, 0: what the channel was initialised with
  reading,  \* a read is in progress
  snap,     \* the value when the last read began
  result    \* what the last completed read returned

vars == <<value, reading, snap, result>>

Init == value = 0 /\ reading = FALSE /\ snap = 0 /\ result = 0

Write ==
  /\ value' = value + 1
  /\ UNCHANGED <<reading, snap, result>>

Ask ==
  /\ ~reading /\ reading' = TRUE
  /\ snap' = value
  /\ UNCHANGED <<value, result>>

Answer ==
  /\ reading /\ reading' = FALSE
  /\ result' = snap
  /\ UNCHANGED <<value, snap>>

Next == Write \/ Ask \/ Answer

Spec == Init /\ [][Next]_vars
=============================================================================
