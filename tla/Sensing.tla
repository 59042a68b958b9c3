-------------------------------- MODULE Sensing --------------------------------
(***************************************************************************)
(* What the controller works with: motor_fast_step (src/core/              *)
(* motor_runtime.c) reads the absolute encoder and the phase currents and  *)
(* shuts the motor down, or gives both to the controller.  The FOC task    *)
(* runs it in one go; the Service task enables, recovers, and blanks the   *)
(* overcurrent detection with two stores, between which the FOC task may   *)
(* run (current_sense.c:43-44).                                            *)
(***************************************************************************)
EXTENDS EncAbs, CurrentSense

CONSTANTS
  Limits,     \* bound: values of data_err_limit and overcurrent_limit
  Blank,      \* blank_cycles
  MaxMove,    \* bound: how far the shaft turns in a cycle
  Pause,      \* how much time may pass after a cycle or while the motor rests
  MaxAngle,   \* bound: the shaft stays within -MaxAngle .. MaxAngle
  MaxErrors   \* bound: of both error counters

ASSUME SensingAssumption ==
  /\ Limits \subseteq Nat /\ Blank \in Nat \ {0}
  /\ Pause \subseteq Nat
  /\ MaxMove \in Nat /\ MaxAngle \in Nat /\ MaxErrors \in Nat
  \* Two good reads are less than half a turn apart.
  /\ \A n \in Limits \cup {1} : MaxMove * n < HalfRes

VARIABLES
  state,     \* MotorRuntime.state, as far as it matters here
  code,      \* the fault code of the last shutdown
  enc, oc,   \* the contexts of the encoder and of the currents
  multi,     \* there is a read_multi
  blanking,  \* current_sense_set_oc_blank is between its stores
  frame,     \* what the controller got for the currents in its last step
  pos,       \* the world: the angle of the shaft
  gap,       \* and the time since the last good read, up to DtMax
  \* History, no part of the program:
  fresh,     \* the encoder was read in this run
  seen,      \* pos at the last good read
  overs,     \* samples over max_current in a row in this run, not blanked
  since      \* samples since set_oc_blank was called

history == <<fresh, seen, overs, since>>
vars == <<state, code, enc, oc, multi, blanking, frame, pos, gap, history>>

Code == {"FAULT_ENCODER_LOSS", "FAULT_ENCODER_QUALITY", "FAULT_GATE_DRIVER",
         "FAULT_OVERCURRENT"}

SinceMax == Blank + oc.overcurrent_limit  \* since stops counting here

Init ==
  /\ state = "READY" /\ code = "none"
  /\ \E n, m \in Limits, inverted \in BOOLEAN :
       /\ enc = enc_abs_init(n, inverted)
       /\ oc = current_sense_init(m)
  /\ multi \in BOOLEAN
  \* The turns of read_multi are not inverted: no board has both.
  /\ ~(multi /\ enc.inverted)
  /\ blanking = FALSE /\ frame = "measured" /\ pos = 0 /\ gap = 0
  /\ fresh = FALSE /\ seen = 0 /\ overs = 0 /\ since = SinceMax

-----------------------------------------------------------------------------
\* The FOC task.
Raw(p)   == (IF enc.inverted THEN -p ELSE p) % Resolution
TurnOf(p) == p \div Resolution

Angles == -MaxAngle .. MaxAngle

\* Time passes, n since the last good read so far.
Elapse(n) == \E d \in Pause : gap' = IF n + d < DtMax THEN n + d ELSE DtMax

ReadEncoder ==
  /\ enc' = enc_abs_update_Valid(enc, Raw(pos'), IF multi THEN TurnOf(pos') ELSE 0, gap)
  /\ fresh' = TRUE /\ seen' = pos' /\ Elapse(0)

MissEncoder ==
  /\ enc.data_err_count < MaxErrors
  /\ \/ enc' \in {enc_abs_update_Failed(enc), enc_abs_update_Invalid(enc)}
     \/ multi /\ enc' = enc_abs_update_MultiFailed(enc)
  /\ Elapse(gap)
  /\ UNCHANGED <<fresh, seen>>

Shutdown(c) == state' = "FAULT" /\ code' = c /\ UNCHANGED frame

Sample(reading, n) ==
  /\ oc' = reading.ctx
  /\ overs' = n
  /\ since' = IF since < SinceMax THEN since + 1 ELSE since
  /\ IF reading.rc = "OK" THEN frame' = reading.frame /\ UNCHANGED <<state, code>>
                          ELSE Shutdown("FAULT_OVERCURRENT")

SampleCurrents ==
  \/ Sample(reconstruct_Normal(oc), 0)
  \/ /\ oc.overcurrent_count < MaxErrors
     /\ Sample(reconstruct_Over(oc), IF oc.oc_blank_remaining > 0 THEN 0 ELSE overs + 1)
  \/ Sample(reconstruct_Failed(oc), overs)

motor_fast_step ==
  /\ state = "RUNNING"
  /\ pos' \in Angles /\ pos' - pos \in -MaxMove .. MaxMove
  /\ \/ /\ Shutdown("FAULT_ENCODER_LOSS")
        /\ Elapse(gap)
        /\ UNCHANGED <<enc, oc, history>>
     \/ /\ ReadEncoder \/ MissEncoder
        /\ \/ /\ enc'.quality = "BAD" /\ Shutdown("FAULT_ENCODER_QUALITY")
              /\ UNCHANGED <<oc, overs, since>>
           \/ /\ enc'.quality # "BAD" /\ Shutdown("FAULT_GATE_DRIVER")
              /\ UNCHANGED <<oc, overs, since>>
           \/ enc'.quality # "BAD" /\ SampleCurrents
  /\ UNCHANGED <<multi, blanking>>

\* The motor does not run, and the shaft turns as it likes, for some time.
Coast ==
  /\ state # "RUNNING"
  /\ pos' \in Angles /\ Elapse(gap)
  /\ UNCHANGED <<state, code, enc, oc, multi, blanking, frame, history>>

-----------------------------------------------------------------------------
\* The Service task.
Go(from, to) == ~blanking /\ state = from /\ state' = to

motor_enable ==
  /\ Go("READY", "RUNNING") /\ fresh' = FALSE /\ overs' = 0
  /\ UNCHANGED <<code, enc, oc, multi, blanking, frame, pos, gap, seen, since>>

motor_stop    == Go("RUNNING", "READY") /\ UNCHANGED code
motor_recover == Go("FAULT", "READY") /\ code' = "none"

Leave ==
  /\ motor_stop \/ motor_recover
  /\ UNCHANGED <<enc, oc, multi, blanking, frame, pos, gap, history>>

current_sense_set_oc_blank ==
  /\ \/ ~blanking /\ oc' = [oc EXCEPT !.oc_blank_remaining = Blank] /\ since' = 0
     \/ blanking /\ oc' = [oc EXCEPT !.overcurrent_count = 0] /\ UNCHANGED since
  /\ blanking' = ~blanking
  /\ UNCHANGED <<state, code, enc, multi, frame, pos, gap, fresh, seen, overs>>

Next == \/ motor_fast_step \/ Coast
        \/ motor_enable \/ Leave \/ current_sense_set_oc_blank

Spec == Init /\ [][Next]_vars

-----------------------------------------------------------------------------
TypeOK ==
  /\ state \in {"READY", "RUNNING", "FAULT"} /\ code \in Code \cup {"none"}
  /\ enc.last_raw \in 0 .. Resolution - 1 /\ enc.quality \in Quality
  /\ enc.data_err_count \in Nat /\ enc.angle \in Int
  /\ oc.oc_blank_remaining \in 0 .. Blank /\ oc.overcurrent_count \in Nat
  /\ frame \in Frame

Abs(n) == IF n < 0 THEN -n ELSE n

(* Once the encoder was read in a run, the angle that the motor is driven  *)
(* with lags the shaft by fewer cycles than data_err_limit, whichever      *)
(* reads fail: BAD comes in time (enc_abs.c:76-92, motor_runtime.c:235).   *)
AngleIsNear ==
  state = "RUNNING" /\ fresh =>
    /\ (enc.angle - seen) % Resolution = 0
    /\ Abs(pos - seen) <= MaxMove * (enc.data_err_limit - 1)

(* The velocity is what the shaft turned since the last good read, over    *)
(* the time it took: through the wrap, the direction, missed reads and     *)
(* rests of less than DtMax; except when an encoder with read_multi passes *)
(* from one turn to the next (enc_abs.c:139-170).  After a longer rest a   *)
(* run begins with the velocity at which the last one ended.               *)
VelocityIsWay ==
  [][/\ ReadEncoder /\ ~enc.first
     /\ 0 < gap /\ gap < DtMax
     /\ Abs(pos' - seen) < HalfRes
     /\ ~multi \/ TurnOf(pos') = TurnOf(seen)
     => enc'.velocity = <<pos' - seen, gap>>]_vars

(* A motor does not run on when overcurrent_limit samples in a row were    *)
(* over max_current; if set_oc_blank is overtaken by the whole blanking    *)
(* time between its two stores, it may double that (current_sense.c:43-44, *)
(* 102-107).                                                               *)
TripInTime == state = "RUNNING" => overs <= 2 * (oc.overcurrent_limit - 1)

(* No overcurrent is reported in the blank_cycles samples from the call of *)
(* set_oc_blank on, nor before overcurrent_limit more, at whichever store  *)
(* of the call the FOC task comes in between (current_sense.c:85-107).     *)
BlankHolds ==
  [][oc'.overcurrent_count > oc.overcurrent_count /\ state' = "FAULT"
     => since' = SinceMax]_vars
===============================================================================
