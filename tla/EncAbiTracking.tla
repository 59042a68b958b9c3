---------------------------- MODULE EncAbiTracking ----------------------------
(***************************************************************************)
(* The incremental encoder on a turning shaft.  The timer's counter wraps  *)
(* every turn and now and then misses or adds a count, the index pulse     *)
(* comes once a turn, a read may fail, and while the motor does not run    *)
(* nobody reads (motor_runtime.c:219) and the shaft coasts.                *)
(***************************************************************************)
EXTENDS EncAbi

CONSTANTS
  MaxMove,   \* bound: counts the shaft turns between two updates
  MaxSlip,   \* bound: counts missed or added between two index pulses
  Start,     \* bound: where the shaft may be at power-on
  MaxBack,   \* bound: the shaft stays within -MaxBack .. MaxPos
  MaxPos,
  MaxGap     \* bound: reads that fail in a row

ASSUME MoveAssumption ==
  /\ MaxMove \in Nat /\ MaxSlip \in Nat /\ MaxGap \in Nat
  /\ MaxBack \in Nat /\ MaxPos \in Nat /\ Start \subseteq 0 .. MaxPos
  /\ MaxSlip < Half
  \* Two good reads of a running motor are less than half a turn apart.
  /\ (MaxMove + 1) * (MaxGap + 1) < Half

VARIABLES
  abi,      \* the encoder's context
  shaft,    \* the position of the shaft; the index is at the whole turns
  drift,    \* the counter's distance from the shaft
  slip,     \* the part of drift since the last index, or power-on
  gap,      \* reads that failed since the last good one
  \* History, no part of the program:
  origin,   \* shaft + slip when total was last set to 0
  seen,     \* shaft + slip at the end of the last good read
  coasted   \* the shaft once turned too far to keep count of the turns

shaftVars == <<abi, shaft, drift, slip, gap, origin, seen, coasted>>

\* inverted is set where the counter is wired to count down.
ShaftCount(n) == (IF abi.inverted THEN -n ELSE n) % CPR
ShaftIndex(p) == p % CPR = 0

ShaftInit ==
  /\ \E useIndex, reversed \in BOOLEAN : abi = enc_abi_init(useIndex, reversed)
  /\ shaft \in Start
  /\ drift = (-shaft) % CPR  \* the timer starts at 0, wherever the shaft is
  /\ slip = 0 /\ gap = 0
  /\ origin = shaft /\ seen = shaft /\ coasted = FALSE

\* The shaft turns by at most max and the counter slips by s.
Turn(max, s) ==
  /\ shaft' \in -MaxBack .. MaxPos /\ shaft' - shaft \in -max .. max
  /\ slip + s \in -MaxSlip .. MaxSlip
  /\ drift' = (drift + s) % CPR

Read ==
  \E s \in {-1, 0, 1}, dt \in 0 .. DtMax :
    /\ Turn(MaxMove, s)
    /\ abi' = enc_abi_update(abi, ShaftCount(shaft' + drift'), ShaftIndex(shaft'), dt)
    /\ slip' = IF abi.use_index /\ ShaftIndex(shaft') THEN 0 ELSE slip + s
    /\ origin' = IF abi.first \/ (abi'.index_found /\ ~abi.index_found)
                 THEN shaft' + slip' ELSE origin
    /\ seen' = shaft' + slip'
    /\ gap' = 0
    /\ UNCHANGED coasted

ReadFails ==
  \E s \in {-1, 0, 1} :
    /\ gap < MaxGap /\ gap' = gap + 1
    /\ Turn(MaxMove, s) /\ slip' = slip + s
    /\ abi' = enc_abi_update_Failed(abi)
    /\ UNCHANGED <<origin, seen, coasted>>

\* The motor does not run; once is enough.
Coast ==
  /\ ~coasted
  /\ Turn(CPR, 0)
  /\ coasted' = TRUE
  /\ UNCHANGED <<abi, slip, gap, origin, seen>>

ShaftNext == Read \/ ReadFails \/ Coast

ShaftSpec == ShaftInit /\ [][ShaftNext]_shaftVars

-----------------------------------------------------------------------------
(* As long as the reads came often enough, the encoder counts the shaft's  *)
(* way, turns and all, but for the slip since the last index: the wrap,    *)
(* the direction, the failed reads and the correction at the index cost    *)
(* nothing (enc_abi.c:79-101).                                             *)
Tracks == ~abi.first /\ ~coasted => abi.total = seen - origin

(* An encoder with an index that says GOOD gives the angle from the index, *)
(* even after the shaft coasted any distance unseen (enc_abi.c:84, 130).   *)
GoodIsAbsolute ==
  abi.quality = "GOOD" /\ abi.use_index /\ ~abi.first
    => (abi.total - seen) % CPR = 0

\* The count that a step missed (-1) or added.
Slipped == ((drift' - drift + 1) % CPR) - 1

(* The velocity is the counter's way since the last good read: the         *)
(* correction at the index, which moves the angle by the slip of a whole   *)
(* turn, is kept out of it (enc_abi.c:95-98).                              *)
VelocityIsMotion ==
  [][/\ abi'.velocity # abi.velocity
     /\ abi'.index_found = abi.index_found
     /\ ~abi.first /\ ~coasted
     => abi'.velocity[1] = shaft' + slip + Slipped - seen]_shaftVars
===============================================================================
