-------------------------------- MODULE Limiter --------------------------------
(***************************************************************************)
(* The clamps (src/foc/foc_types.c, src/foc/config.c, src/runtime/         *)
(* limiter.c), in whole units of voltage, current or speed.                *)
(***************************************************************************)
EXTENDS Integers

foc_clampf(x, lo, hi) ==
  LET y == IF x < lo THEN lo ELSE x IN IF y > hi THEN hi ELSE y

\* A limit with min and max swapped is taken the other way round.
foc_limit(x, lim) ==
  IF lim.min < lim.max THEN foc_clampf(x, lim.min, lim.max)
                       ELSE foc_clampf(x, lim.max, lim.min)

\* Mutant: the voltage is limited one way only.
limiter_apply_OneSided(out, max_voltage) ==
  [voltage_q |-> foc_clampf(out.voltage_q, out.voltage_q, max_voltage),
   voltage_d |-> foc_clampf(out.voltage_d, out.voltage_d, max_voltage)]

limiter_apply(out, max_voltage) ==
  [voltage_q |-> foc_clampf(out.voltage_q, -max_voltage, max_voltage),
   voltage_d |-> foc_clampf(out.voltage_d, -max_voltage, max_voltage)]
===============================================================================
