------------------------------- MODULE MCTiming -------------------------------
(* Timing for TLC: cycles in time, clamped and starved, a clock and a      *)
(* counter that wrap every few cycles.                                     *)
EXTENDS Timing

MCDelay == {0, 1, 3}

MCPowerOn == {0, 4}
===============================================================================
