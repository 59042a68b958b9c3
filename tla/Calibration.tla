------------------------------ MODULE Calibration ------------------------------
(***************************************************************************)
(* Calibration: motor_calibrate (src/core/motor_runtime.c) runs the index  *)
(* search (src/control/cal_abi_find_index.c), the phase alignment          *)
(* (cal_abi_align.c) and the current offset (cal_current.c) on a real      *)
(* rotor with an incremental encoder; then the board copies the results    *)
(* back (cal_abi_align.h:18-19) and the motor turns.                       *)
(*                                                                         *)
(* One step per vector applied.  Electrical angles are in CPRths of an     *)
(* electrical turn, so that a count is PP of them.  A callback that reads  *)
(* may fail; the results of the others are not looked at by the code.  The *)
(* encoder is updated whenever a vector is applied, as the board of the    *)
(* tests does (tests/algorithm/test_abz_board.c:38-45).                    *)
(***************************************************************************)
EXTENDS EncAbi, FiniteSetsExt

CONSTANTS
  PP,         \* pole pairs of the motor
  ConfigPP,   \* bound: the pole pairs it may be configured with
  Base,       \* align_theta_rad
  ScanSteps,  \* scan_steps
  ScanStep,   \* scan_step_rad
  Tol,        \* pp_tol in percent, 5 in the code
  Turns,      \* max_mech_turns of the index search
  MaxRun      \* bound: counts the motor turns after calibration

ASSUME MotorAssumption ==
  /\ PP \in Nat \ {0} /\ ConfigPP \subseteq Nat \ {0} /\ PP \in ConfigPP
  /\ Base \in Int /\ ScanStep \in Nat
  /\ CPR % (4 * PP) = 0 /\ Base % PP = 0 /\ ScanStep % PP = 0
ASSUME ScanAssumption ==
  /\ ScanSteps \in Nat \ {0} /\ Turns \in Nat \ {0} /\ MaxRun \in Nat /\ Tol \in Nat
  \* A scan is less than a quarter of an electrical turn, and less than what
  \* is left of half a turn by more than the tolerance.
  /\ 0 < ScanStep /\ (200 + Tol) * (ScanSteps * ScanStep) < 50 * CPR

VARIABLES
  \* The world.
  pos,      \* the rotor's position in counts; at 0 its d axis is at angle 0
  rotor,    \* does it follow the vector?
  datum,    \* where the counter reads 0
  down,     \* the counter is wired to count down
  vector,   \* a voltage is applied
  enc,      \* the encoder's context
  \* The program.
  pc, i,    \* where the calibration is
  pp,       \* pole_pairs as configured
  current,  \* there is a current plugin
  base, plus, minus,        \* mech_base, plus_move, minus_move
  inverted, encoder_zero,   \* the outputs of the phase plugin
  zero,     \* MotorRuntime.calib.encoder_zero
  rc,       \* what each plugin returned, "none" before
  \* History, no part of the program:
  held,     \* the rotor was at the vector when the zero was read
  clean     \* count and total agreed when the board set inverted

world   == <<pos, vector, enc>>
fixed   == <<datum, down, pp, current>>
moves   == <<base, plus, minus>>
outputs == <<inverted, encoder_zero>>
history == <<held, clean>>
vars == <<world, rotor, fixed, pc, i, moves, outputs, zero, rc, history>>

Init ==
  /\ \E useIndex \in BOOLEAN :
       /\ enc = enc_abi_init(useIndex, FALSE)
       /\ pc = IF useIndex THEN "find" ELSE "base"
  /\ pos \in 0 .. CPR - 1
  /\ rotor \in {"free", "stuck", "dragged"}
  /\ datum \in {0, pos} \* the index resets the timer, or only power-on does
  /\ down \in BOOLEAN /\ pp \in ConfigPP /\ current \in BOOLEAN
  /\ vector = FALSE /\ i = 0 /\ base = 0 /\ plus = 0 /\ minus = 0
  /\ inverted = FALSE /\ encoder_zero = 0 /\ zero = 0
  /\ rc = [encoder |-> "none", phase |-> "none", current |-> "none"]
  /\ held = FALSE /\ clean = FALSE

-----------------------------------------------------------------------------
Count(p) == (IF down THEN datum - p ELSE p - datum) % CPR
Index(p) == p % CPR = 0

\* The positions where the rotor's d axis is at the angle theta.
At(theta, p) == (p * PP) % CPR = theta % CPR

Distance(p) == IF p >= pos THEN p - pos ELSE pos - p

\* Where a rotor at pos goes: to the nearest of them, and from the middle
\* between two either way, or nowhere.
Follow(theta) ==
  LET h    == CPR \div (2 * PP)
      near == {p \in pos - h .. pos + h : At(theta, p)}
      d    == Min({Distance(p) : p \in near})
  IN  {p \in near : Distance(p) = d} \cup (IF d = h THEN {pos} ELSE {})

\* set_elec_voltage: the encoder is updated after the rotor has moved.
Apply(theta) ==
  /\ vector' = TRUE
  /\ pos' \in CASE rotor = "free" -> Follow(theta)
                [] rotor = "stuck" -> {pos}
                [] rotor = "dragged" -> {pos + 1}
  /\ enc' = enc_abi_update(enc, Count(pos'), Index(pos'), 1)

Release == vector' = FALSE /\ UNCHANGED <<pos, enc>>

\* A shutdown, or the supply's limit: from now on the rotor stays.
Freeze ==
  /\ rotor = "free" /\ pc \notin {"backfill", "ready", "run"}
  /\ rotor' = "stuck"
  /\ UNCHANGED <<world, fixed, pc, i, moves, outputs, zero, rc, history>>

-----------------------------------------------------------------------------
Return(plugin, result, next) ==
  rc' = [rc EXCEPT ![plugin] = result] /\ pc' = next
Continue(next) == pc' = next /\ UNCHANGED rc

AfterPhase     == IF current THEN "current" ELSE "backfill"
PhaseFails     == Return("phase", "ERROR", AfterPhase)
MechAngle(next) == Continue(next) \/ PhaseFails  \* get_mech_angle may fail

StepsOfSearch == Turns * pp * (CPR \div PP)

\* Mutant: the search takes its own end for the index.
FindStep_AnyEnd ==
  /\ pc = "find"
  /\ Apply(i * PP + CPR \div 4)
  /\ \/ (enc'.index_found \/ i + 1 >= StepsOfSearch)
        /\ Return("encoder", "OK", "release") /\ i' = 0
     \/ ~enc'.index_found /\ i + 1 < StepsOfSearch
        /\ i' = i + 1 /\ Continue("find")
  /\ UNCHANGED <<rotor, fixed, moves, outputs, zero, history>>

\* One vector of the index search, on the q axis; steps_per_turn is such
\* that it moves the rotor by a count.
FindStep ==
  /\ pc = "find"
  /\ Apply(i * PP + CPR \div 4)
  /\ \/ Return("encoder", "ERROR", "base") /\ i' = 0  \* a callback fails
     \/ enc'.index_found /\ Return("encoder", "OK", "release") /\ i' = 0
     \/ ~enc'.index_found /\ i + 1 < StepsOfSearch
        /\ i' = i + 1 /\ Continue("find")
     \/ ~enc'.index_found /\ i + 1 >= StepsOfSearch
        /\ Return("encoder", "ERROR", "release") /\ i' = 0
  /\ UNCHANGED <<rotor, fixed, moves, outputs, zero, history>>

FindRelease ==
  /\ pc = "release" /\ Continue("base")
  /\ Release
  /\ UNCHANGED <<rotor, fixed, i, moves, outputs, zero, history>>

-----------------------------------------------------------------------------
\* Into (-CPR/2, CPR/2].
cal_wrap_pi(a) == IF a % CPR > Half THEN (a % CPR) - CPR ELSE a % CPR

AlignBase ==
  /\ pc = "base"
  /\ Apply(Base)
  /\ base' = enc'.total
  /\ MechAngle("plus")
  /\ UNCHANGED <<rotor, fixed, i, plus, minus, outputs, zero, history>>

ScanPlus ==
  /\ pc = "plus"
  /\ Apply(Base + (i + 1) * ScanStep)
  /\ IF i + 1 < ScanSteps
     THEN i' = i + 1 /\ UNCHANGED plus /\ Continue("plus")
     ELSE i' = 0 /\ plus' = cal_wrap_pi(enc'.total - base) /\ MechAngle("back")
  /\ UNCHANGED <<rotor, fixed, base, minus, outputs, zero, history>>

ReturnToBase ==
  /\ pc = "back" /\ Continue("minus")
  /\ Apply(Base)
  /\ UNCHANGED <<rotor, fixed, i, moves, outputs, zero, history>>

ScanMinus ==
  /\ pc = "minus"
  /\ Apply(Base - (i + 1) * ScanStep)
  /\ IF i + 1 < ScanSteps
     THEN i' = i + 1 /\ UNCHANGED minus /\ Continue("minus")
     ELSE i' = 0 /\ minus' = cal_wrap_pi(enc'.total - base) /\ MechAngle("check")
  /\ UNCHANGED <<rotor, fixed, base, plus, outputs, zero, history>>

\* Mutant: that the scans went opposite ways is not asked.
Followed_AnyWay == plus # 0 /\ minus # 0

\* Both scans moved the rotor, and in opposite directions.
Followed == plus # 0 /\ minus # 0 /\ (plus < 0) # (minus < 0)

\* Is x within the tolerance of y?
WithinTol(x, y) == 100 * (IF x < y THEN y - x ELSE x - y) <= Tol * y

PolePairsFit ==
  WithinTol((IF plus < 0 THEN -plus ELSE plus) * pp, ScanSteps * ScanStep)

Judge ==
  /\ pc = "check"
  /\ \/ ~Followed /\ PhaseFails /\ UNCHANGED inverted
     \/ /\ Followed /\ inverted' = (plus < 0)
        /\ IF PolePairsFit THEN Continue("align") ELSE PhaseFails
  /\ UNCHANGED <<world, rotor, fixed, i, moves, encoder_zero, zero, history>>

\* Mutant: the direction is left out of the zero.
ZeroFrom_Raw(mech) == Base - mech * pp

ZeroFrom(mech) == Base - (IF inverted THEN -mech ELSE mech) * pp

AlignZero ==
  /\ pc = "align"
  /\ Apply(Base)
  /\ \/ PhaseFails /\ UNCHANGED <<encoder_zero, held>>
     \/ /\ encoder_zero' = ZeroFrom(enc'.total)
        /\ held' = At(Base, pos')
        /\ Continue("off")
  /\ UNCHANGED <<rotor, fixed, i, moves, inverted, zero, clean>>

\* Mutant: the plugin returns with the vector on.
AlignRelease_KeepsVector ==
  /\ pc = "off" /\ Return("phase", "OK", AfterPhase)
  /\ UNCHANGED <<world, rotor, fixed, i, moves, outputs, zero, history>>

AlignRelease ==
  /\ pc = "off" /\ Return("phase", "OK", AfterPhase)
  /\ Release
  /\ UNCHANGED <<rotor, fixed, i, moves, outputs, zero, history>>

-----------------------------------------------------------------------------
\* cal_current_offset: set_zero_voltage, and then the readings.
ZeroVoltage ==
  /\ pc = "current"
  /\ \/ Return("current", "ERROR", "backfill") /\ UNCHANGED world
     \/ Release /\ \/ Return("current", "OK", "backfill")
                   \/ Return("current", "ERROR", "backfill")
  /\ UNCHANGED <<rotor, fixed, i, moves, outputs, zero, history>>

\* The board copies the outputs, whatever the plugins returned: motor_calibrate
\* does not tell (motor_runtime.c:92-97).
Backfill ==
  /\ pc = "backfill" /\ Continue("ready")
  /\ zero' = encoder_zero
  /\ enc' = [enc EXCEPT !.inverted = inverted]
  /\ clean' = ((enc.last - enc.total) % CPR = 0)
  /\ UNCHANGED <<pos, vector, rotor, fixed, i, moves, outputs, held>>

\* The motor turns and the encoder is read.
Run ==
  /\ pc \in {"ready", "run"} /\ Continue("run")
  /\ i < MaxRun /\ i' = i + 1
  /\ pos' \in {pos - 1, pos + 1}
  /\ enc' = enc_abi_update(enc, Count(pos'), Index(pos'), 1)
  /\ UNCHANGED <<vector, rotor, fixed, moves, outputs, zero, history>>

find_index  == FindStep \/ FindRelease
align_phase == \/ AlignBase \/ ScanPlus \/ ReturnToBase \/ ScanMinus
               \/ Judge \/ AlignZero \/ AlignRelease

Next == find_index \/ align_phase \/ ZeroVoltage \/ Backfill \/ Run \/ Freeze

Spec == Init /\ [][Next]_vars

-----------------------------------------------------------------------------
(* A successful index search has set the angle to the index, although the  *)
(* direction is not known yet (cal_abi_find_index.c:38-51).                *)
FoundIsAbsolute ==
  rc.encoder = "OK" /\ pc \notin {"backfill", "ready", "run"}
    => enc.index_found /\ (enc.total - (IF down THEN -pos ELSE pos)) % CPR = 0

\* No index is still to come that would set the angle to 0 on the way.
Referenced == enc.use_index => rc.encoder = "OK"

(* The phase alignment succeeds only with a number of pole pairs within    *)
(* the tolerance of the motor's, with the right direction, and not on a    *)
(* rotor that something drags (cal_abi_align.c:88-105); unless the index   *)
(* search failed before and the index comes while the rotor is scanned     *)
(* (motor_runtime.c:92-93).                                                *)
OkIsEarned ==
  rc.phase = "OK" /\ Referenced
    => WithinTol(pp, PP) /\ inverted = down /\ rotor # "dragged"

(* No voltage is left on the motor when a plugin that ends without voltage *)
(* succeeded after the last one that applied some.                         *)
NoVoltageLeft ==
  pc \in {"backfill", "ready", "run"} /\ (rc.phase = "OK" \/ rc.current = "OK")
    => ~vector

\* The tolerance tells a motor's number of pole pairs from the next one: in
\* the code, of fewer than 20.
ToldApart == Tol * PP < 100

(* After a calibration that succeeded on a rotor at the vector, the angle  *)
(* that the motor is commutated with (foc_math.c:55-61) is the rotor's,    *)
(* wherever it turns: with any number of pole pairs configured if the      *)
(* alignment tells them apart, or else the right one; for an encoder wired *)
(* to count down, provided that its counter and its total agreed when      *)
(* inverted was set.                                                       *)
Calibrated ==
  /\ pc = "run" /\ rc.phase = "OK" /\ held /\ Referenced
  /\ ToldApart \/ pp = PP
ElectricalAngle == (enc.total * pp + zero) % CPR

AngleIsRight ==
  Calibrated /\ (inverted => clean) => At(ElectricalAngle, pos)
===============================================================================
