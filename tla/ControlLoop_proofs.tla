--------------------------- MODULE ControlLoop_proofs ---------------------------
(***************************************************************************)
(* The bounds of the control loop and its recovery from saturation, for    *)
(* every configuration, gain, command and feedback.                        *)
(***************************************************************************)
EXTENDS ControlLoop, TLAPS

\* What a run of opposing slow steps has taken off the velocity integral.
SlowInv(i, n) ==
  /\ Within(i, IntegralLimit) /\ n \in Int
  /\ -IntegralLimit < n /\ n < IntegralLimit
  /\ n > 0 => i >= n - IntegralLimit
  /\ n < 0 => i <= n + IntegralLimit

\* What a run of opposing fast steps has taken off the current integral.
FastInv(i, n) ==
  /\ Within(i, Lim) /\ Within(n, Lim)
  /\ n > 0 => i >= n - Lim
  /\ n < 0 => i <= n + Lim

\* The inductive invariant.
IInv ==
  /\ Bounded
  /\ SlowInv(ctx.integral, slowRun)
  /\ FastInv(ctx.vq_integral, fastRun)

\* The sign of a product.
LEMMA Products ==
  ASSUME NEW a \in Int, NEW b \in Int
  PROVE  /\ a * b \in Int
         /\ a > 0 /\ b > 0 => a * b >= 1
         /\ a < 0 /\ b > 0 => a * b <= -1
         /\ a >= 0 /\ b >= 0 => a * b >= 0
         /\ a <= 0 /\ b >= 0 => a * b <= 0
         /\ a > 0 /\ a * b < 0 => b < 0
         /\ a < 0 /\ a * b < 0 => b > 0
  BY SMTT(30)

\* A clamp yields a value between its bounds (foc_types.c:7-17).
LEMMA Clamped ==
  ASSUME NEW x \in Int, NEW lo \in Int, NEW hi \in Int, lo <= hi
  PROVE  foc_clampf(x, lo, hi) \in lo .. hi
  BY SMT DEF foc_clampf

\* A limiter yields a number, whatever way round its limits are.
LEMMA LimitedIsNumber ==
  ASSUME NEW x \in Int, NEW lim \in LoopLimit
  PROVE  foc_limit(x, lim) \in Int
  BY SMT DEF foc_limit, foc_clampf, LoopLimit

\* The voltage limit in force is positive.
LEMMA LimPositive == Lim \in Nat \ {0}
  BY CurrentAssumption, SMT DEF Lim

\* A sign, and what it says.
LEMMA OpposingSign ==
  ASSUME NEW err \in Int, NEW x \in Int
  PROVE  /\ Opposing(err, x) \in {-1, 0, 1}
         /\ Opposing(err, x) = 1 => err > 0 /\ x < 0
         /\ Opposing(err, x) = -1 => err < 0 /\ x > 0
<1>1. /\ err * x \in Int
      /\ err > 0 /\ err * x < 0 => x < 0
      /\ err < 0 /\ err * x < 0 => x > 0
  BY Products
<1>2. err = 0 => err * x = 0
  BY SMT
<1> QED
  BY <1>1, <1>2, SMT DEF Opposing

\* A run grows by one step at a time, and only in one direction.
LEMMA RunGrows ==
  ASSUME NEW n \in Int, NEW sign \in {-1, 0, 1}
  PROVE  /\ RunOn(n, sign) \in Int
         /\ RunOn(n, sign) > 0 => sign = 1 /\ RunOn(n, sign) = IF n > 0 THEN n + 1 ELSE 1
         /\ RunOn(n, sign) < 0 => sign = -1 /\ RunOn(n, sign) = IF n < 0 THEN n - 1 ELSE -1
<1>1. CASE sign = 0  BY <1>1, SMT DEF RunOn
<1>2. CASE sign = 1  BY <1>2, SMT DEF RunOn
<1>3. CASE sign = -1  BY <1>3, SMT DEF RunOn
<1> QED BY <1>1, <1>2, <1>3

\* A step of the velocity PI (pid_controller.c:77-85).
LEMMA SlowUnwinds ==
  ASSUME NEW i \in Int, NEW n \in Int, SlowInv(i, n),
         NEW err \in Int, NEW kp \in Nat, NEW ki \in Nat,
         NEW sign, sign = IF ki = 0 THEN 0
                          ELSE Opposing(err, Demand(Integrated(i, err, ki), err, kp))
  PROVE  SlowInv(Integrated(i, err, ki), RunOn(n, sign))
<1> DEFINE j == Integrated(i, err, ki)
           d == Demand(j, err, kp)
           m == RunOn(n, sign)
<1>1. /\ ki * err \in Int /\ kp * err \in Int
      /\ err > 0 /\ ki > 0 => ki * err >= 1
      /\ err < 0 /\ ki > 0 => ki * err <= -1
      /\ err > 0 => kp * err >= 0
      /\ err < 0 => kp * err <= 0
  <2>1. ki * err = err * ki /\ kp * err = err * kp
    BY SMT
  <2> QED BY <2>1, Products
<1>2. j \in -IntegralLimit .. IntegralLimit
  <2>1. /\ -IntegralLimit \in Int /\ IntegralLimit \in Int
        /\ -IntegralLimit <= IntegralLimit /\ i + ki * err \in Int
    BY <1>1, PidAssumption, SMT
  <2> QED BY <2>1, Clamped DEF Integrated
<1>3. j \in Int /\ d \in Int /\ d = kp * err + j
  BY <1>1, <1>2, PidAssumption, SMT DEF Demand
<1>4. sign \in {-1, 0, 1}
  BY <1>3, OpposingSign
<1>5. /\ m \in Int
      /\ m > 0 => sign = 1 /\ m = IF n > 0 THEN n + 1 ELSE 1
      /\ m < 0 => sign = -1 /\ m = IF n < 0 THEN n - 1 ELSE -1
  BY <1>4, RunGrows
<1>6. ASSUME m > 0 PROVE m < IntegralLimit /\ j >= m - IntegralLimit
  <2>1. sign = 1 /\ ki > 0 /\ err > 0 /\ d < 0
    BY <1>5, <1>6, <1>3, OpposingSign
  <2>2. j < 0
    BY <2>1, <1>1, <1>3, SMT
  <2>3. ki * err >= 1
    BY <2>1, <1>1
  <2>4. j >= i + 1
    BY <2>2, <2>3, <1>1, PidAssumption, SMT DEF Integrated, foc_clampf, SlowInv, Within
  <2> QED BY <2>2, <2>4, <1>5, <1>6, <1>3, PidAssumption, SMT DEF SlowInv, Within
<1>7. ASSUME m < 0 PROVE m > -IntegralLimit /\ j <= m + IntegralLimit
  <2>1. sign = -1 /\ ki > 0 /\ err < 0 /\ d > 0
    BY <1>5, <1>7, <1>3, OpposingSign
  <2>2. j > 0
    BY <2>1, <1>1, <1>3, SMT
  <2>3. ki * err <= -1
    BY <2>1, <1>1
  <2>4. j <= i - 1
    BY <2>2, <2>3, <1>1, PidAssumption, SMT DEF Integrated, foc_clampf, SlowInv, Within
  <2> QED BY <2>2, <2>4, <1>5, <1>7, <1>3, PidAssumption, SMT DEF SlowInv, Within
<1>8. m = 0 \/ m > 0 \/ m < 0
  BY <1>5, SMT
<1>9. -IntegralLimit < m /\ m < IntegralLimit
  BY <1>5, <1>6, <1>7, <1>8, PidAssumption, SMT
<1> QED
  BY <1>2, <1>5, <1>6, <1>7, <1>9 DEF SlowInv, Within

\* A step of the current PI (current_controller.c:215-234).
LEMMA FastUnwinds ==
  ASSUME NEW i \in Int, NEW n \in Int, FastInv(i, n),
         NEW err \in Int, NEW ff \in -Lim .. Lim, NEW kp \in Nat, NEW ki \in Nat,
         NEW sign, sign = IF Saturated(Raw(i, err, ff, kp)) /\ ki > 0
                          THEN Opposing(err, Raw(i, err, ff, kp)) ELSE 0
  PROVE  FastInv(CurrentIntegral(i, err, Raw(i, err, ff, kp), ki), RunOn(n, sign))
<1> DEFINE raw == Raw(i, err, ff, kp)
           j   == CurrentIntegral(i, err, raw, ki)
           m   == RunOn(n, sign)
<1>0. Lim \in Nat \ {0}
  BY LimPositive
<1>1. /\ err * ki \in Int /\ err * kp \in Int
      /\ err > 0 /\ ki > 0 => err * ki >= 1
      /\ err < 0 /\ ki > 0 => err * ki <= -1
      /\ err > 0 => err * kp >= 0
      /\ err < 0 => err * kp <= 0
  BY Products
<1>2. raw \in Int /\ raw = err * kp + i + ff
  BY <1>0, <1>1, SMT DEF Raw
<1>3. j \in -Lim .. Lim
  <2>1. -Lim \in Int /\ Lim \in Int /\ -Lim <= Lim /\ i + err * ki \in Int
    BY <1>0, <1>1, SMT
  <2>2. /\ foc_clampf(i, -Lim, Lim) \in -Lim .. Lim
        /\ foc_clampf(i + err * ki, -Lim, Lim) \in -Lim .. Lim
    BY <2>1, Clamped
  <2> QED BY <2>2 DEF CurrentIntegral
<1>4. sign \in {-1, 0, 1}
  BY <1>2, OpposingSign
<1>5. /\ m \in Int
      /\ m > 0 => sign = 1 /\ m = IF n > 0 THEN n + 1 ELSE 1
      /\ m < 0 => sign = -1 /\ m = IF n < 0 THEN n - 1 ELSE -1
  BY <1>4, RunGrows
<1>6. ASSUME m > 0 PROVE m <= Lim /\ j >= m - Lim
  <2>1. sign = 1 /\ Saturated(raw) /\ ki > 0
    BY <1>5, <1>6
  <2>2. err > 0 /\ raw < 0
    BY <2>1, <1>2, OpposingSign
  <2>3. raw < -Lim
    BY <2>1, <2>2, <1>0, <1>2, SMT DEF Saturated
  <2>4. i <= -1
    BY <2>2, <2>3, <1>0, <1>1, <1>2, SMT
  <2>5. ~(err * raw >= 0)
    BY <2>1, SMT DEF Opposing
  <2>6. j = foc_clampf(i + err * ki, -Lim, Lim)
    BY <2>5 DEF CurrentIntegral
  <2>7. j >= i + 1
    BY <2>1, <2>2, <2>4, <2>6, <1>0, <1>1, SMT DEF foc_clampf, FastInv, Within
  <2> QED BY <2>4, <2>7, <1>0, <1>3, <1>5, <1>6, SMT DEF FastInv, Within
<1>7. ASSUME m < 0 PROVE m >= -Lim /\ j <= m + Lim
  <2>1. sign = -1 /\ Saturated(raw) /\ ki > 0
    BY <1>5, <1>7
  <2>2. err < 0 /\ raw > 0
    BY <2>1, <1>2, OpposingSign
  <2>3. raw > Lim
    BY <2>1, <2>2, <1>0, <1>2, SMT DEF Saturated
  <2>4. i >= 1
    BY <2>2, <2>3, <1>0, <1>1, <1>2, SMT
  <2>5. ~(err * raw >= 0)
    BY <2>1, SMT DEF Opposing
  <2>6. j = foc_clampf(i + err * ki, -Lim, Lim)
    BY <2>5 DEF CurrentIntegral
  <2>7. j <= i - 1
    BY <2>1, <2>2, <2>4, <2>6, <1>0, <1>1, SMT DEF foc_clampf, FastInv, Within
  <2> QED BY <2>4, <2>7, <1>0, <1>3, <1>5, <1>7, SMT DEF FastInv, Within
<1>8. m \in -Lim .. Lim
  BY <1>0, <1>5, <1>6, <1>7, SMT
<1> QED
  BY <1>3, <1>5, <1>6, <1>7, <1>8 DEF FastInv, Within

-------------------------------------------------------------------------------
\* What the model feeds to the controllers is of the right type.
LEMMA CommandIsNumber ==
  ASSUME NEW mode \in ControlMode, NEW target \in Targets, NEW cfg \in Configs
  PROVE  Limited([mode |-> mode, target |-> target], cfg).target \in Int
<1>1. cfg.limit[mode] \in LoopLimit /\ target \in Int
  BY LoopAssumption DEF LoopConfig
<1> QED
  BY <1>1, LimitedIsNumber DEF Limited

\* The speed error is a number (pid_controller.c:107-119).
LEMMA ErrorIsNumber ==
  ASSUME NEW cmd, cmd.target \in Int, NEW fb \in Feedbacks
  PROVE  VelocityError(cmd, fb) \in Int
<1>1. fb.mech_vel \in Int /\ fb.mech_angle \in Int
  BY LoopAssumption DEF LoopFeedback
<1>2. KpPos \in Int /\ VelLimit \in Nat /\ cmd.target - fb.mech_angle \in Int
  BY <1>1, PidAssumption, SMT
<1>3. KpPos * (cmd.target - fb.mech_angle) \in Int
  BY <1>2, Products
<1>4. foc_clampf(KpPos * (cmd.target - fb.mech_angle), -VelLimit, VelLimit) \in Int
  BY <1>2, <1>3, SMT DEF foc_clampf
<1> QED
  BY <1>1, <1>4, SMT DEF VelocityError, VelocityTarget

\* The current asked for is one the motor bears (current_controller.c:148-151).
LEMMA CurrentIsLimited ==
  ASSUME NEW iq \in Int, NEW cfg \in Configs
  PROVE  Within(CurrentLimited(iq, cfg), MaxCurrent)
<1>1. cfg.limit["TORQUE"] \in LoopLimit
  BY LoopAssumption DEF LoopConfig, ControlMode
<1>2. foc_limit(iq, cfg.limit["TORQUE"]) \in Int
  BY <1>1, LimitedIsNumber
<1>3. -MaxCurrent \in Int /\ MaxCurrent \in Int /\ -MaxCurrent <= MaxCurrent
  BY CurrentAssumption, SMT
<1> QED
  BY <1>2, <1>3, Clamped DEF CurrentLimited, Within

\* The gains in force are natural numbers (current_controller.c:192-199).
LEMMA GainsAreNumbers ==
  ASSUME NEW cfg \in Configs
  PROVE  Gains(cfg).kp \in Nat /\ Gains(cfg).ki \in Nat
<1>1. /\ cfg.current_kp \in Nat /\ cfg.current_ki \in Nat
      /\ cfg.current_bandwidth \in Nat
  BY LoopAssumption DEF LoopConfig
<1>2. /\ cfg.current_bandwidth * Inductance \in Nat
      /\ cfg.current_bandwidth * Resistance \in Nat
  <2>1. \A a, b \in Nat : a * b \in Nat
    BY SMT
  <2> QED BY <1>1, <2>1, CurrentAssumption
<1> QED
  BY <1>1, <1>2, SMT DEF Gains

\* The output limiter yields what the gate bears, and no more than it was
\* given (limiter.c:9-24).
LEMMA VoltageIsLimited ==
  ASSUME NEW o \in Voltages
  PROVE  LET l == limiter_apply(o, Cap)
         IN  /\ l \in Voltages
             /\ Within(l.voltage_q, Cap) /\ Within(l.voltage_d, Cap)
             /\ \A b \in Nat : Within(o.voltage_q, b) => Within(l.voltage_q, b)
             /\ \A b \in Nat : Within(o.voltage_d, b) => Within(l.voltage_d, b)
<1>1. \A x \in Int : /\ foc_clampf(x, -Cap, Cap) \in Int
                     /\ Within(foc_clampf(x, -Cap, Cap), Cap)
                     /\ \A b \in Nat : Within(x, b) => Within(foc_clampf(x, -Cap, Cap), b)
  BY LoopAssumption, SMT DEF foc_clampf, Within
<1>2. o.voltage_q \in Int /\ o.voltage_d \in Int
  BY DEF Voltages
<1>3. limiter_apply(o, Cap) = [voltage_q |-> foc_clampf(o.voltage_q, -Cap, Cap),
                               voltage_d |-> foc_clampf(o.voltage_d, -Cap, Cap)]
  BY DEF limiter_apply
<1> QED
  BY <1>1, <1>2, <1>3 DEF Voltages

\* The inductive invariant holds when the motor is powered on.
LEMMA InitInv == Init => IInv
<1> SUFFICES ASSUME Init PROVE IInv
  OBVIOUS
<1>1. \A b \in Nat : Within(0, b)
  BY SMT DEF Within
<1>2. /\ Within(0, IntegralLimit) /\ Within(0, Lim)
      /\ Within(0, MaxCurrent) /\ Within(0, Cap)
  BY <1>1, PidAssumption, CurrentAssumption, LoopAssumption, LimPositive
<1>3. /\ kind \in {"pid", "current"} /\ running \in BOOLEAN
      /\ slowRun = 0 /\ fastRun = 0
  BY DEF Init
<1>4. /\ ctx = [integral |-> 0, vq_integral |-> 0, vd_integral |-> 0]
      /\ sp = [voltage_q |-> 0, voltage_d |-> 0, current_q |-> 0]
      /\ out = [voltage_q |-> 0, voltage_d |-> 0]
  BY DEF Init, cc_reset, Setpoint
<1>5. Bounded
  BY <1>2, <1>3, <1>4, SMT DEF Bounded, Voltages
<1>6. SlowInv(ctx.integral, slowRun)
  BY <1>2, <1>3, <1>4, PidAssumption, SMT DEF SlowInv
<1>7. FastInv(ctx.vq_integral, fastRun)
  BY <1>2, <1>3, <1>4, LimPositive, SMT DEF FastInv
<1> QED BY <1>5, <1>6, <1>7 DEF IInv

\* Starting and stopping the motor keeps it: a context is left or zeroed.
LEMMA LifecycleInv ==
  IInv /\ (motor_enable \/ motor_stop \/ motor_enter_safe_state) => IInv'
<1> SUFFICES ASSUME IInv, motor_enable \/ motor_stop \/ motor_enter_safe_state
             PROVE  IInv'
  OBVIOUS
<1>1. /\ Reset(ctx) \in [integral : Int, vq_integral : Int, vd_integral : Int]
      /\ Reset(ctx).integral = 0
      /\ Within(Reset(ctx).vq_integral, Lim) /\ Within(Reset(ctx).vd_integral, Lim)
  <2>1. /\ ctx \in [integral : Int, vq_integral : Int, vd_integral : Int]
        /\ Within(ctx.vq_integral, Lim) /\ Within(ctx.vd_integral, Lim)
        /\ Within(0, Lim)
    BY LimPositive, SMT DEF IInv, Bounded, Within
  <2>2. CASE kind = "pid"
    BY <2>1, <2>2, SMT DEF Reset, pid_reset
  <2>3. CASE kind # "pid"
    <3>1. Reset(ctx) = [integral |-> 0, vq_integral |-> 0, vd_integral |-> 0]
      BY <2>3 DEF Reset, cc_reset
    <3> QED BY <2>1, <3>1, SMT
  <2> QED BY <2>2, <2>3
<1>2. UNCHANGED <<kind, sp, out>> /\ running' \in BOOLEAN
  BY DEF motor_enable, motor_stop, motor_enter_safe_state
<1>3. CASE motor_enter_safe_state
  BY <1>2, <1>3 DEF motor_enter_safe_state, IInv, Bounded, SlowInv, FastInv
<1>4. CASE motor_enable \/ motor_stop
  <2>1. ctx' = Reset(ctx) /\ slowRun' = 0 /\ fastRun' = 0
    BY <1>4 DEF motor_enable, motor_stop
  <2>2. Bounded'
    BY <1>1, <1>2, <2>1, PidAssumption, SMT DEF IInv, Bounded, Within, Voltages
  <2>3. SlowInv(ctx.integral, slowRun)'
    BY <1>1, <2>1, PidAssumption, SMT DEF SlowInv, Within
  <2>4. FastInv(ctx.vq_integral, fastRun)'
    BY <1>1, <2>1, LimPositive, SMT DEF FastInv, Within
  <2> QED BY <2>2, <2>3, <2>4 DEF IInv
<1> QED BY <1>3, <1>4

\* So does a slow step (motor_runtime.c:170-206).
LEMMA SlowInvKept == IInv /\ motor_slow_step => IInv'
<1> SUFFICES ASSUME IInv, running,
               NEW mode \in ControlMode, NEW target \in Targets,
               NEW fb \in Feedbacks, NEW cfg \in Configs,
               NEW cmd, cmd = Limited([mode |-> mode, target |-> target], cfg),
               ctx' = StepSlow(cmd, fb, cfg).ctx,
               sp' = StepSlow(cmd, fb, cfg).sp,
               slowRun' = RunOn(slowRun, SlowOpposing(cmd, fb, cfg)),
               UNCHANGED <<kind, running, out, fastRun>>
             PROVE  IInv'
  BY DEF motor_slow_step
<1> DEFINE err == VelocityError(cmd, fb)
           i   == Integrated(ctx.integral, err, cfg.ki)
           d   == Demand(i, err, cfg.kp)
<1>1. cmd.target \in Int /\ err \in Int /\ cfg.kp \in Nat /\ cfg.ki \in Nat
  <2>1. cmd.target \in Int
    BY CommandIsNumber
  <2>2. err \in Int
    BY <2>1, ErrorIsNumber
  <2> QED BY <2>1, <2>2, LoopAssumption DEF LoopConfig
<1>2. /\ ctx \in [integral : Int, vq_integral : Int, vd_integral : Int]
      /\ slowRun \in Int /\ SlowInv(ctx.integral, slowRun) /\ ctx.integral \in Int
  BY DEF IInv, Bounded
<1>3. i \in Int /\ Within(i, IntegralLimit)
  <2>1. cfg.ki * err \in Int
    BY <1>1, Products
  <2>2. /\ -IntegralLimit \in Int /\ IntegralLimit \in Int
        /\ -IntegralLimit <= IntegralLimit /\ ctx.integral + cfg.ki * err \in Int
    BY <1>2, <2>1, PidAssumption, SMT
  <2>3. i \in -IntegralLimit .. IntegralLimit
    BY <2>2, Clamped DEF Integrated
  <2> QED BY <2>3, PidAssumption, SMT DEF Within
<1>4. d \in Int
  <2>1. cfg.kp * err \in Int
    BY <1>1, Products
  <2> QED BY <1>3, <2>1, SMT DEF Demand
<1>5. /\ sp' \in [voltage_q : Int, voltage_d : {0}, current_q : Int]
      /\ Within(sp'.current_q, MaxCurrent)
  <2>1. /\ Within(CurrentLimited(cmd.target, cfg), MaxCurrent)
        /\ Within(CurrentLimited(d, cfg), MaxCurrent)
        /\ Within(0, MaxCurrent)
    BY <1>1, <1>4, CurrentIsLimited, CurrentAssumption, SMT DEF Within
  <2>2. \A x : Within(x, MaxCurrent) => x \in Int
    BY CurrentAssumption, SMT DEF Within
  <2>3. sp' \in {Setpoint(cmd.target, 0), Setpoint(d, 0),
                 Setpoint(0, CurrentLimited(cmd.target, cfg)),
                 Setpoint(0, CurrentLimited(d, cfg))}
    BY DEF StepSlow, pid_step_slow, cc_step_slow
  <2> QED BY <1>1, <1>4, <2>1, <2>2, <2>3, SMT DEF Setpoint
<1>6. CASE cmd.mode = "TORQUE"
  <2>1. ctx' = ctx /\ slowRun' = RunOn(slowRun, 0)
    BY <1>6 DEF StepSlow, pid_step_slow, cc_step_slow, SlowOpposing
  <2>2. slowRun' = 0
    BY <2>1, <1>2, SMT DEF RunOn
  <2>3. Bounded'
    BY <1>5, <2>1, <2>2 DEF IInv, Bounded
  <2> QED BY <2>1, <2>2, <2>3, PidAssumption, SMT DEF IInv, SlowInv, FastInv
<1>7. CASE cmd.mode # "TORQUE"
  <2>1. ctx' = [ctx EXCEPT !.integral = i]
    BY <1>7 DEF StepSlow, pid_step_slow, cc_step_slow
  <2>2. /\ ctx' \in [integral : Int, vq_integral : Int, vd_integral : Int]
        /\ ctx'.integral = i /\ ctx'.vq_integral = ctx.vq_integral
        /\ ctx'.vd_integral = ctx.vd_integral
    BY <1>2, <1>3, <2>1, SMT
  <2>3. StepSlow(cmd, fb, cfg).ctx.integral = i
    BY <2>2
  <2>4. SlowInv(i, slowRun')
    <3>1. SlowOpposing(cmd, fb, cfg) = IF cfg.ki = 0 THEN 0 ELSE Opposing(err, d)
      BY <1>7, <2>3 DEF SlowOpposing
    <3> QED BY <1>1, <1>2, <3>1, SlowUnwinds
  <2>5. Bounded'
    BY <1>3, <1>5, <2>2, <2>4 DEF IInv, Bounded, SlowInv
  <2> QED BY <2>2, <2>4, <2>5 DEF IInv, FastInv
<1> QED BY <1>6, <1>7

\* And so does a fast step (motor_runtime.c:267-288).
LEMMA FastInvKept == IInv /\ motor_fast_step => IInv'
<1> SUFFICES ASSUME IInv, running, NEW fb \in Feedbacks, NEW cfg \in Configs,
               NEW step,
               step = IF kind = "pid"
                      THEN [ctx |-> ctx, out |-> pid_step_fast(sp)]
                      ELSE cc_step_fast(ctx, fb, sp, cfg),
               ctx' = step.ctx,
               out' = limiter_apply(step.out, Cap),
               fastRun' = RunOn(fastRun, FastOpposing(fb, cfg)),
               UNCHANGED <<kind, running, sp, slowRun>>
             PROVE  IInv'
  BY DEF motor_fast_step
<1>1. /\ ctx \in [integral : Int, vq_integral : Int, vd_integral : Int]
      /\ Within(ctx.vq_integral, Lim) /\ Within(ctx.vd_integral, Lim)
      /\ fastRun \in Int /\ FastInv(ctx.vq_integral, fastRun)
      /\ sp \in [voltage_q : Int, voltage_d : {0}, current_q : Int]
  BY DEF IInv, Bounded
<1>2. ASSUME step.out \in Voltages
      PROVE  /\ out' \in Voltages
             /\ Within(out'.voltage_q, Cap) /\ Within(out'.voltage_d, Cap)
             /\ Within(step.out.voltage_q, Lim) /\ Within(step.out.voltage_d, Lim)
                  => Within(out'.voltage_q, Lim) /\ Within(out'.voltage_d, Lim)
  BY <1>2, LimPositive, VoltageIsLimited
<1>3. CASE kind = "pid"
  <2>1. /\ ctx' = ctx
        /\ step.out = [voltage_q |-> sp.voltage_q, voltage_d |-> sp.voltage_d]
    BY <1>3 DEF pid_step_fast
  <2>2. step.out \in Voltages
    BY <1>1, <2>1, SMT DEF Voltages
  <2>3. fastRun' = 0
    <3>1. fastRun' = RunOn(fastRun, 0)
      BY <1>3 DEF FastOpposing
    <3> QED BY <1>1, <3>1, SMT DEF RunOn
  <2>4. kind' = "pid" /\ "pid" # "current"
    BY <1>3
  <2>5. Bounded'
    BY <1>2, <2>1, <2>2, <2>3, <2>4 DEF IInv, Bounded
  <2>6. FastInv(ctx.vq_integral, fastRun)'
    BY <1>1, <2>1, <2>3, LimPositive, SMT DEF FastInv, Within
  <2> QED BY <2>1, <2>5, <2>6 DEF IInv, SlowInv
<1>4. CASE kind # "pid"
  <2> DEFINE g  == Gains(cfg)
             eq == ErrorQ(fb, sp)
             ed == ErrorD(fb)
             rq == RawQ(ctx, fb, sp, g)
             rd == RawD(ctx, fb, sp, g)
             vq == CurrentIntegral(ctx.vq_integral, eq, rq, g.ki)
             vd == CurrentIntegral(ctx.vd_integral, ed, rd, g.ki)
  <2>0. Lim \in Nat /\ Lim \in Int /\ -Lim \in Int /\ -Lim <= Lim
    BY LimPositive, SMT
  <2>1. /\ eq \in Int /\ ed \in Int /\ Speed(fb) \in Int
        /\ g.kp \in Nat /\ g.ki \in Nat /\ Flux * Speed(fb) \in -Lim .. Lim
    <3>1. fb.mech_vel \in Int /\ fb.iq \in Int /\ fb.id \in Int
      BY LoopAssumption DEF LoopFeedback
    <3>2. Speed(fb) \in Int
      BY <3>1, CurrentAssumption, Products DEF Speed
    <3> QED BY <1>1, <3>1, <3>2, GainsAreNumbers, SpeedAssumption, SMT DEF ErrorQ, ErrorD
  <2>2. rq \in Int /\ rd \in Int
    <3>1. eq * g.kp \in Int /\ ed * g.kp \in Int
      BY <2>1, Products
    <3>2. Speed(fb) * Inductance * sp.current_q \in Int
      <4>1. Speed(fb) * Inductance \in Int
        BY <2>1, CurrentAssumption, Products
      <4> QED BY <1>1, <4>1, Products
    <3> QED BY <1>1, <2>0, <2>1, <3>1, <3>2, SMT DEF RawQ, RawD, Raw
  <2>3. vd \in -Lim .. Lim
    <3>1. ed * g.ki \in Int
      BY <2>1, Products
    <3>2. ctx.vd_integral \in Int /\ ctx.vd_integral + ed * g.ki \in Int
      BY <1>1, <3>1, SMT
    <3>3. /\ foc_clampf(ctx.vd_integral, -Lim, Lim) \in -Lim .. Lim
          /\ foc_clampf(ctx.vd_integral + ed * g.ki, -Lim, Lim) \in -Lim .. Lim
      BY <2>0, <3>2, Clamped
    <3> QED BY <3>3 DEF CurrentIntegral
  <2>4. /\ ctx' = [integral |-> ctx.integral, vq_integral |-> vq, vd_integral |-> vd]
        /\ step.out = [voltage_q |-> foc_clampf(rq, -Lim, Lim),
                       voltage_d |-> foc_clampf(rd, -Lim, Lim)]
    BY <1>4 DEF cc_step_fast
  <2>5. FastInv(vq, fastRun')
    <3>1. rq = Raw(ctx.vq_integral, eq, Flux * Speed(fb), g.kp)
      BY DEF RawQ
    <3>2. FastOpposing(fb, cfg) = IF kind = "current" /\ Saturated(rq) /\ g.ki > 0
                                  THEN Opposing(eq, rq) ELSE 0
      BY DEF FastOpposing
    <3>3. kind = "current"
      BY <1>4 DEF IInv, Bounded
    <3> QED BY <1>1, <2>1, <3>1, <3>2, <3>3, FastUnwinds
  <2>6. /\ foc_clampf(rq, -Lim, Lim) \in -Lim .. Lim
        /\ foc_clampf(rd, -Lim, Lim) \in -Lim .. Lim
    BY <2>0, <2>2, Clamped
  <2>7. /\ step.out \in Voltages
        /\ Within(step.out.voltage_q, Lim) /\ Within(step.out.voltage_d, Lim)
    BY <2>0, <2>4, <2>6, SMT DEF Voltages, Within
  <2>8. /\ ctx' \in [integral : Int, vq_integral : Int, vd_integral : Int]
        /\ ctx'.integral = ctx.integral /\ ctx'.vq_integral = vq
        /\ Within(ctx'.vq_integral, Lim) /\ Within(ctx'.vd_integral, Lim)
    BY <1>1, <2>0, <2>3, <2>4, <2>5, SMT DEF FastInv, Within
  <2>9. fastRun' \in Int
    BY <2>0, <2>5, SMT DEF FastInv, Within
  <2>10. Bounded'
    BY <1>2, <2>7, <2>8, <2>9 DEF IInv, Bounded
  <2> QED BY <2>5, <2>8, <2>10 DEF IInv, SlowInv
<1> QED BY <1>3, <1>4

\* Every step keeps the invariant.
LEMMA Invariance == Spec => []IInv
<1>1. Init => IInv
  BY InitInv
<1>2. IInv /\ [Next]_vars => IInv'
  <2>1. IInv /\ UNCHANGED vars => IInv'
    BY DEF vars, IInv, Bounded, SlowInv, FastInv
  <2> QED BY <2>1, LifecycleInv, SlowInvKept, FastInvKept DEF Next
<1> QED BY <1>1, <1>2, PTL DEF Spec

\* Integrals, currents and voltages keep their bounds, for every gain, limit,
\* command and feedback, and either controller (current_controller.c:113-237,
\* pid_controller.c:76-151, limiter.c:9-24).
THEOREM BoundsAreKept == Spec => []Bounded
<1>1. IInv => Bounded
  BY DEF IInv
<1> QED BY <1>1, Invariance, PTL

\* Neither loop stays wound up, however gains, commands and speed change
\* (pid_controller.c:77-83, current_controller.c:227-237).
THEOREM NothingStaysWoundUp == Spec => []Unwinds
<1>1. IInv => Unwinds
  BY SMT DEF IInv, SlowInv, FastInv, Unwinds
<1> QED BY <1>1, Invariance, PTL
===============================================================================
