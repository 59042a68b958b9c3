----------------------------- MODULE MCControlLoop -----------------------------
(* Values of the constants of ControlLoop for TLC. *)
EXTENDS ControlLoop

Limits(lo, hi) == [m \in ControlMode |-> [min |-> lo, max |-> hi]]

Gained(kp, ki, ckp, cki, bw, lim) ==
  [kp |-> kp, ki |-> ki, current_kp |-> ckp, current_ki |-> cki,
   current_bandwidth |-> bw, limit |-> lim]

\* Integral only; both gains, with swapped limits; gains of the bandwidth;
\* a current loop switched off.
MCConfigs ==
  {Gained(0, 1, 0, 1, 1, Limits(-2, 2)), Gained(1, 1, 1, 2, 0, Limits(1, -1)),
   Gained(1, 0, 0, 0, 1, Limits(-2, 2)), Gained(0, 2, 0, 0, 0, Limits(-2, 2))}

MCTargets == {-2, 0, 2}

MCFeedbacks ==
  [mech_vel : -1 .. 1, mech_angle : {0}, iq : {-1, 0, 1}, id : {-1, 0, 1}]
===============================================================================
