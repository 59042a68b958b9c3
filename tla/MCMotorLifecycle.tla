-------------------------- MODULE MCMotorLifecycle --------------------------
(* MotorLifecycle for TLC: the codes the board shuts down with.            *)
EXTENDS MotorLifecycle

\* One code of each action: the LATCH code is the only way into LOCK.
MCBoardCodes == {"OVERTEMP_HARD", "OVERVOLTAGE"}

=============================================================================
