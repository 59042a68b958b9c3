----------------------------- MODULE SensingClaims -----------------------------
(* What the repository says of the sensing and the code does not hold.     *)
EXTENDS Sensing

(* A single sample over max_current leaves the controller with the old     *)
(* value (current_sense.c:110), not with what happens to be in the frame.  *)
CurrentIsDefined == frame # "unwritten"
===============================================================================
