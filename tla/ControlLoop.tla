------------------------------ MODULE ControlLoop ------------------------------
(***************************************************************************)
(* A controller in its two loops (src/core/motor_runtime.c): the Motion    *)
(* task turns a command into a setpoint, the FOC task turns the setpoint   *)
(* into a limited voltage, at any rate against each other.  Service may    *)
(* have written another command and configuration before each step, and    *)
(* the motor may be anywhere.                                              *)
(*                                                                         *)
(* A step is one action: the loops write different fields of the context,  *)
(* and ControllerExclusive of MotorLifecycle keeps Service out of it.      *)
(* Quantities are whole multiples of a unit: of the least change of an     *)
(* integral (gain * error * dt) in use.  Gains are not negative.           *)
(***************************************************************************)
EXTENDS CurrentController

CONSTANTS
  Cap,       \* cap.max_voltage
  Targets,   \* targets a command may have
  Configs,   \* configurations: gains and the limit of each mode
  Feedbacks  \* mech_vel, mech_angle, iq, id

ControlMode == {"TORQUE", "VELOCITY", "POSITION"}

LoopLimit == [min : Int, max : Int]
LoopConfig ==
  [kp : Nat, ki : Nat, current_kp : Nat, current_ki : Nat,
   current_bandwidth : Nat, limit : [ControlMode -> LoopLimit]]
LoopFeedback == [mech_vel : Int, mech_angle : Int, iq : Int, id : Int]

ASSUME LoopAssumption ==
  /\ Cap \in Nat
  /\ Targets \subseteq Int
  /\ Configs \subseteq LoopConfig
  /\ Feedbacks \subseteq LoopFeedback

\* The back-EMF of any speed in use is below the voltage limit.
ASSUME SpeedAssumption ==
  \A fb \in Feedbacks : Flux * Speed(fb) \in -Lim .. Lim

VARIABLES
  kind,     \* which ops the board installed: "pid" or "current"
  running,  \* state == FOC_STATE_RUNNING
  ctx,      \* the controller's context: its integrals
  sp,       \* sp_buf
  out,      \* the voltages last handed to the gate
  slowRun,  \* history: slow steps in a row whose demand opposes the error,
  fastRun   \* fast steps in a row that saturate against the error; signed

vars == <<kind, running, ctx, sp, out, slowRun, fastRun>>

\* The length of a run of equal signs, with its sign, after another one.
RunOn(n, sign) == IF n * sign > 0 THEN n + sign ELSE sign

\* The sign of the error, if it opposes the output x it leads to.
Opposing(err, x) == IF err * x >= 0 THEN 0 ELSE IF err > 0 THEN 1 ELSE -1

Reset(c) == IF kind = "pid" THEN pid_reset(c) ELSE cc_reset

Init ==
  /\ kind \in {"pid", "current"} /\ running = FALSE
  /\ ctx = cc_reset /\ sp = Setpoint(0, 0)
  /\ out = [voltage_q |-> 0, voltage_d |-> 0]
  /\ slowRun = 0 /\ fastRun = 0

motor_enable ==
  /\ ~running /\ running' = TRUE /\ ctx' = Reset(ctx)
  /\ slowRun' = 0 /\ fastRun' = 0
  /\ UNCHANGED <<kind, sp, out>>

\* The setpoint stays what it was.
motor_stop ==
  /\ running /\ running' = FALSE /\ ctx' = Reset(ctx)
  /\ slowRun' = 0 /\ fastRun' = 0
  /\ UNCHANGED <<kind, sp, out>>

\* A fault skips on_exit and reset.
motor_enter_safe_state ==
  /\ running /\ running' = FALSE
  /\ UNCHANGED <<kind, ctx, sp, out, slowRun, fastRun>>

\* The command after the input limiter.
Limited(cmd, cfg) == [cmd EXCEPT !.target = foc_limit(@, cfg.limit[cmd.mode])]

StepSlow(cmd, fb, cfg) ==
  IF kind = "pid" THEN pid_step_slow(ctx, cmd, fb, cfg)
                  ELSE cc_step_slow(ctx, cmd, fb, cfg)

SlowOpposing(cmd, fb, cfg) ==
  LET err == VelocityError(cmd, fb)
  IN  IF cmd.mode = "TORQUE" \/ cfg.ki = 0 THEN 0
      ELSE Opposing(err, Demand(StepSlow(cmd, fb, cfg).ctx.integral, err, cfg.kp))

motor_slow_step ==
  /\ running
  /\ \E mode \in ControlMode, target \in Targets, fb \in Feedbacks, cfg \in Configs :
       LET cmd == Limited([mode |-> mode, target |-> target], cfg)
       IN  /\ ctx' = StepSlow(cmd, fb, cfg).ctx
           /\ sp' = StepSlow(cmd, fb, cfg).sp
           /\ slowRun' = RunOn(slowRun, SlowOpposing(cmd, fb, cfg))
  /\ UNCHANGED <<kind, running, out, fastRun>>

FastOpposing(fb, cfg) ==
  LET g == Gains(cfg) raw == RawQ(ctx, fb, sp, g)
  IN  IF kind = "current" /\ Saturated(raw) /\ g.ki > 0
      THEN Opposing(ErrorQ(fb, sp), raw) ELSE 0

motor_fast_step ==
  /\ running
  /\ \E fb \in Feedbacks, cfg \in Configs :
       LET step == IF kind = "pid"
                   THEN [ctx |-> ctx, out |-> pid_step_fast(sp)]
                   ELSE cc_step_fast(ctx, fb, sp, cfg)
       IN  /\ ctx' = step.ctx
           /\ out' = limiter_apply(step.out, Cap)
           /\ fastRun' = RunOn(fastRun, FastOpposing(fb, cfg))
  /\ UNCHANGED <<kind, running, sp, slowRun>>

Next ==
  \/ motor_enable \/ motor_stop \/ motor_enter_safe_state
  \/ motor_slow_step \/ motor_fast_step

Spec == Init /\ [][Next]_vars

-------------------------------------------------------------------------------
Within(x, bound) == x \in -bound .. bound

Voltages == [voltage_q : Int, voltage_d : Int]

\* Types, and the bounds that the rest of the drive relies on: the integrals
\* stay within their limits, the current asked for within the motor's (also
\* when the configured limit is larger, or swapped), and the voltage that
\* reaches the gate within the capability, whatever the loops, gains and
\* feedback (pid_controller.c:77-83, current_controller.c:148-237,
\* limiter.c:9-24).
Bounded ==
  /\ kind \in {"pid", "current"} /\ running \in BOOLEAN
  /\ slowRun \in Int /\ fastRun \in Int
  /\ ctx \in [integral : Int, vq_integral : Int, vd_integral : Int]
  /\ Within(ctx.integral, IntegralLimit)
  /\ Within(ctx.vq_integral, Lim) /\ Within(ctx.vd_integral, Lim)
  /\ sp \in [voltage_q : Int, voltage_d : {0}, current_q : Int]
  /\ Within(sp.current_q, MaxCurrent)
  /\ out \in Voltages
  /\ Within(out.voltage_q, Cap) /\ Within(out.voltage_d, Cap)
  /\ kind = "current" => Within(out.voltage_q, Lim) /\ Within(out.voltage_d, Lim)

\* No wind-up: however long a loop could not follow, once the error points
\* the other way the velocity loop's demand follows it within IntegralLimit
\* steps and the current loop is out of saturation within Lim, though gains,
\* commands and speed may change at every step (pid_controller.c:77-83,
\* current_controller.c:142-145, 227-237).
Unwinds ==
  /\ -IntegralLimit < slowRun /\ slowRun < IntegralLimit
  /\ Within(fastRun, Lim)
===============================================================================
