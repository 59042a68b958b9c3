----------------------------- MODULE PidController -----------------------------
(***************************************************************************)
(* The voltage-mode cascade (src/control/pid_controller.c) as functions of *)
(* its context: position P, velocity PI, voltage.  Time is counted in slow *)
(* steps, so that a gain is already multiplied by dt.                      *)
(***************************************************************************)
EXTENDS Limiter

CONSTANTS
  IntegralLimit,  \* integral_limit
  KpPos,          \* kp_pos
  VelLimit        \* vel_limit_from_pos

ASSUME PidAssumption ==
  IntegralLimit \in Nat \ {0} /\ KpPos \in Nat /\ VelLimit \in Nat

\* pid_reset, pid_on_enter, pid_on_exit.
pid_reset(c) == [c EXCEPT !.integral = 0]

\* The speed that the position loop, or the command, asks for.
VelocityTarget(cmd, fb) ==
  IF cmd.mode = "POSITION"
  THEN foc_clampf(KpPos * (cmd.target - fb.mech_angle), -VelLimit, VelLimit)
  ELSE cmd.target

VelocityError(cmd, fb) == VelocityTarget(cmd, fb) - fb.mech_vel

\* Mutant: the integral is not limited.
Integrated_Unlimited(integral, err, ki) == integral + ki * err

\* The integral of the velocity PI after a step.
Integrated(integral, err, ki) ==
  foc_clampf(integral + ki * err, -IntegralLimit, IntegralLimit)

\* What the velocity PI asks for, err and the new integral given.
Demand(integral, err, kp) == kp * err + integral

Setpoint(vq, iq) == [voltage_q |-> vq, voltage_d |-> 0, current_q |-> iq]

\* The context and the setpoint after pid_step_slow.
pid_step_slow(c, cmd, fb, cfg) ==
  LET err == VelocityError(cmd, fb)
      i   == Integrated(c.integral, err, cfg.ki)
  IN  IF cmd.mode = "TORQUE"
      THEN [ctx |-> c, sp |-> Setpoint(cmd.target, 0)]
      ELSE [ctx |-> [c EXCEPT !.integral = i],
            sp  |-> Setpoint(Demand(i, err, cfg.kp), 0)]

\* The voltage goes through.
pid_step_fast(sp) == [voltage_q |-> sp.voltage_q, voltage_d |-> sp.voltage_d]
===============================================================================
