--------------------------- MODULE CurrentController ---------------------------
(***************************************************************************)
(* The current-mode cascade (src/control/current_controller.c) as          *)
(* functions of its context: position P and velocity PI, which it repeats  *)
(* from the voltage-mode one, give a current; two current PIs with back-   *)
(* EMF feed-forward and decoupling give the voltages.                      *)
(*                                                                         *)
(* Currents come in d and q: the transforms, and the low pass, whose       *)
(* result lies between the last and the new measurement, are left out.     *)
(***************************************************************************)
EXTENDS PidController

CONSTANTS
  MaxCurrent, VLimit,    \* max_current, v_limit
  PolePairs, Flux,       \* pole_pairs, flux_linkage
  Resistance, Inductance \* phase_resistance, phase_inductance

ASSUME CurrentAssumption ==
  /\ MaxCurrent \in Nat /\ VLimit \in Nat /\ PolePairs \in Nat /\ Flux \in Nat
  /\ Resistance \in Nat /\ Inductance \in Nat

\* cc_reset, cc_init, cc_on_enter, cc_on_exit.
cc_reset == [integral |-> 0, vq_integral |-> 0, vd_integral |-> 0]

\* Mutant: the limit of the capabilities is left out.
CurrentLimited_Config(iq, cfg) == foc_limit(iq, cfg.limit["TORQUE"])

CurrentLimited(iq, cfg) ==
  foc_clampf(foc_limit(iq, cfg.limit["TORQUE"]), -MaxCurrent, MaxCurrent)

\* The context and the setpoint after cc_step_slow.
cc_step_slow(c, cmd, fb, cfg) ==
  LET err == VelocityError(cmd, fb)
      i   == Integrated(c.integral, err, cfg.ki)
  IN  IF cmd.mode = "TORQUE"
      THEN [ctx |-> c, sp |-> Setpoint(0, CurrentLimited(cmd.target, cfg))]
      ELSE [ctx |-> [c EXCEPT !.integral = i],
            sp  |-> Setpoint(0, CurrentLimited(Demand(i, err, cfg.kp), cfg))]

\* Configured gains, or, if there is neither, those of the bandwidth.
Gains(cfg) ==
  IF cfg.current_kp <= 0 /\ cfg.current_ki <= 0 /\ cfg.current_bandwidth > 0
  THEN [kp |-> cfg.current_bandwidth * Inductance,
        ki |-> cfg.current_bandwidth * Resistance]
  ELSE [kp |-> IF cfg.current_kp > 0 THEN cfg.current_kp ELSE 0,
        ki |-> IF cfg.current_ki > 0 THEN cfg.current_ki ELSE 0]

\* The voltage limit in force; an unset one is replaced.
Lim == IF VLimit > 0 THEN VLimit ELSE 1

Saturated(raw) == raw > Lim \/ raw < -Lim

\* A current PI before its output is limited.
Raw(integral, err, ff, kp) == err * kp + integral + ff

\* Mutant: in saturation nothing is integrated at all.
CurrentIntegral_Stuck(integral, err, raw, ki) ==
  IF Saturated(raw) THEN integral
  ELSE foc_clampf(integral + err * ki, -Lim, Lim)

\* Integrate unless saturated, or if the error leads out of saturation.
CurrentIntegral(integral, err, raw, ki) ==
  IF Saturated(raw) /\ err * raw >= 0
  THEN foc_clampf(integral, -Lim, Lim)
  ELSE foc_clampf(integral + err * ki, -Lim, Lim)

\* The d axis is to carry no current, so that its term in q vanishes.
Speed(fb)          == fb.mech_vel * PolePairs
ErrorQ(fb, sp)     == sp.current_q - fb.iq
ErrorD(fb)         == -fb.id
RawQ(c, fb, sp, g) == Raw(c.vq_integral, ErrorQ(fb, sp), Flux * Speed(fb), g.kp)
RawD(c, fb, sp, g) ==
  Raw(c.vd_integral, ErrorD(fb), -(Speed(fb) * Inductance * sp.current_q), g.kp)

\* The context and the output after cc_step_fast.
cc_step_fast(c, fb, sp, cfg) ==
  LET g  == Gains(cfg)
      rq == RawQ(c, fb, sp, g)
      rd == RawD(c, fb, sp, g)
  IN  [ctx |->
         [integral    |-> c.integral,
          vq_integral |-> CurrentIntegral(c.vq_integral, ErrorQ(fb, sp), rq, g.ki),
          vd_integral |-> CurrentIntegral(c.vd_integral, ErrorD(fb), rd, g.ki)],
       out |-> [voltage_q |-> foc_clampf(rq, -Lim, Lim),
                voltage_d |-> foc_clampf(rd, -Lim, Lim)]]
===============================================================================
