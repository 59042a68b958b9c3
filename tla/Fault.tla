------------------------------- MODULE Fault -------------------------------
(***************************************************************************)
(* The fault register of one motor and the static action table             *)
(* (src/safety/fault.c, include/safety/fault.h).                           *)
(*                                                                         *)
(* The two 32-bit masks of FaultReg are sets of codes: bit c of a mask is  *)
(* set when c is a member.  Every code is below 32, so no shift overflows. *)
(***************************************************************************)

LatchCodes    == {"OVERTEMP_HARD", "SELF_TEST", "SAFETY"}
RetryCodes    == {"UNDERVOLTAGE", "OVERTEMP", "COMM_TIMEOUT"}
ShutdownCodes == {"OVERCURRENT", "OVERVOLTAGE", "OVERVELOCITY", "ENCODER_LOSS",
                  "ENCODER_QUALITY", "TIMING", "CALIBRATION", "GATE_DRIVER",
                  "CONTROL_OVERRUN"}

\* FAULT_NONE is not a code a register holds: the operations ignore it.
FaultCode     == LatchCodes \cup RetryCodes \cup ShutdownCodes
FaultSeverity == {"INFO", "WARN", "CRITICAL"}
FaultReg      == [current : SUBSET FaultCode, latched : SUBSET FaultCode]

fault_init == [current |-> {}, latched |-> {}]

fault_raise(f, c, sev) ==
  [current |-> f.current \cup {c},
   latched |-> f.latched \cup {x \in {c} : sev = "CRITICAL"}]

fault_is_set(f, c) == c \in f.current

fault_get_action(c) ==
  CASE c \in LatchCodes    -> "LATCH"
    [] c \in ShutdownCodes -> "SHUTDOWN"
    [] OTHER               -> "RETRY"

=============================================================================
