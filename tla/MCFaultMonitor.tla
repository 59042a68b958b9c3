--------------------------- MODULE MCFaultMonitor ---------------------------
(* FaultMonitor for TLC: two channels of unlike severity, three values,    *)
(* and settings with and without a band between lo and hi.                 *)
EXTENDS FaultMonitor

MCMonitored == {"OVERTEMP", "UNDERVOLTAGE"}
MCFocCodes  == {"OVERCURRENT"}
MCValue     == 0 .. 2
MCSettings  == {[sev |-> "CRITICAL", hi |-> 2, lo |-> 0, thresh |-> 2],
                [sev |-> "WARN", hi |-> 1, lo |-> 1, thresh |-> 1]}
=============================================================================
