---------------------------- MODULE FaultMonitor ----------------------------
(***************************************************************************)
(* The fault monitor (src/safety/fault_monitor.c) and the register it      *)
(* shares.  The Motion task updates the channels; its |= and &= on a mask  *)
(* are a load and a store, and the FOC task, of higher priority, may raise *)
(* a code of its own between the two.  The Service task's motor_recover    *)
(* clears the masks one after the other, between any two updates.          *)
(*                                                                         *)
(* A measured value is a small number; NaN, which is neither >= hi nor     *)
(* <= lo, is a value between the two.                                      *)
(***************************************************************************)
EXTENDS Integers, Fault

CONSTANTS
  Monitored,  \* the codes whose channels are in use
  FocCodes,   \* the codes the FOC task raises, of no channel
  Value,      \* measured values
  Settings,   \* what channels are configured with: [sev, hi, lo, thresh]
  Width       \* debounce_count is Nat below it, 2^32 in the code

ASSUME CodesAssumption ==
  Monitored \subseteq FaultCode /\ FocCodes \subseteq FaultCode \ Monitored
ASSUME WidthAssumption == Width \in Nat /\ Width >= 2
ASSUME SettingsAssumption ==
  /\ Value \subseteq Int
  /\ Settings \subseteq [sev : FaultSeverity, hi : Int, lo : Int, thresh : 1 .. Width - 1]

VARIABLES
  set,    \* severity and thresholds of each channel
  count,  \* debounce_count of each channel
  active, \* active of each channel
  fault,  \* the register
  op,     \* the Motion task's fault_raise or fault_clear, and its statement
  tmp,    \* the mask it loaded
  clearing, \* motor_recover cleared current, but not yet latched
  \* History, no part of the program:
  last,   \* the last value of each channel, if any: a set
  streak, \* consecutive values over hi since the channel was configured,
          \* which stop counting at Width
  forgiven, \* codes motor_recover took from the register while their channel
            \* was active: it reports them again only after a value at lo
  stale     \* codes that stayed in the register when their channel was
            \* configured: inactive now, it clears them only after a new report

channels == <<set, count, active, last, streak, forgiven, stale>>

vars == <<channels, fault, op, tmp, clearing>>

Idle   == [do |-> "none", code |-> "none", at |-> "none"]
Op     == {Idle} \cup [do : {"raise", "clear"}, code : Monitored,
                       at : {"load current", "store current",
                             "load latched", "store latched"}]

Init ==
  /\ set \in [Monitored -> Settings]
  /\ count = [c \in Monitored |-> 0] /\ active = [c \in Monitored |-> FALSE]
  /\ fault = fault_init /\ op = Idle /\ tmp = {} /\ clearing = FALSE
  /\ last = [c \in Monitored |-> {}] /\ streak = [c \in Monitored |-> 0]
  /\ forgiven = {} /\ stale = {}

-----------------------------------------------------------------------------
(* fault_monitor_update, up to its call of fault_raise or fault_clear.     *)

Sample(c, v) ==
  /\ op = Idle
  /\ last' = [last EXCEPT ![c] = {v}]
  /\ UNCHANGED <<set, fault, tmp, clearing>>

\* debounce_count++ wraps.
Increment(n) == IF n = Width - 1 THEN 0 ELSE n + 1

\* From here on the register says of the code what its channel says.
Start(do, c) ==
  /\ op' = [do |-> do, code |-> c, at |-> "load current"]
  /\ forgiven' = forgiven \ {c} /\ stale' = stale \ {c}

\* Mutant: one value more than configured.
Over_Strict(c, v) ==
  /\ Sample(c, v) /\ v >= set[c].hi
  /\ count' = [count EXCEPT ![c] = Increment(@)]
  /\ streak' = [streak EXCEPT ![c] = IF @ < Width THEN @ + 1 ELSE @]
  /\ IF ~active[c] /\ count'[c] > set[c].thresh
     THEN active' = [active EXCEPT ![c] = TRUE] /\ Start("raise", c)
     ELSE UNCHANGED <<active, op, forgiven, stale>>

Over(c, v) ==
  /\ Sample(c, v) /\ v >= set[c].hi
  /\ count' = [count EXCEPT ![c] = Increment(@)]
  /\ streak' = [streak EXCEPT ![c] = IF @ < Width THEN @ + 1 ELSE @]
  /\ IF ~active[c] /\ count'[c] >= set[c].thresh
     THEN active' = [active EXCEPT ![c] = TRUE] /\ Start("raise", c)
     ELSE UNCHANGED <<active, op, forgiven, stale>>

NotOver(c, v) ==
  /\ Sample(c, v) /\ ~(v >= set[c].hi)
  /\ count' = [count EXCEPT ![c] = 0]
  /\ streak' = [streak EXCEPT ![c] = 0]

Under(c, v) ==
  /\ NotOver(c, v) /\ v <= set[c].lo
  /\ IF active[c]
     THEN active' = [active EXCEPT ![c] = FALSE] /\ Start("clear", c)
     ELSE UNCHANGED <<active, op, forgiven, stale>>

\* Mutant: the channel goes inactive in the band, the register is not cleared.
Between_Deactivates(c, v) ==
  /\ NotOver(c, v) /\ ~(v <= set[c].lo)
  /\ active' = [active EXCEPT ![c] = FALSE]
  /\ UNCHANGED <<op, forgiven, stale>>

Between(c, v) ==
  /\ NotOver(c, v) /\ ~(v <= set[c].lo)
  /\ UNCHANGED <<active, op, forgiven, stale>>

-----------------------------------------------------------------------------
(* fault_raise and fault_clear in the Motion task, one step per access.    *)

Access(at, next) ==
  /\ op # Idle /\ op.at = at
  /\ op' = IF next = "none" THEN Idle ELSE [op EXCEPT !.at = next]
  /\ UNCHANGED <<channels, clearing>>

Changed(mask) == IF op.do = "raise" THEN mask \cup {op.code} ELSE mask \ {op.code}

\* fault_raise reaches the latched mask for a CRITICAL code only.
Latches == op.do = "clear" \/ set[op.code].sev = "CRITICAL"

LoadCurrent == Access("load current", "store current")
               /\ tmp' = fault.current /\ UNCHANGED fault

StoreCurrent ==
  /\ Access("store current", IF Latches THEN "load latched" ELSE "none")
  /\ fault' = [fault EXCEPT !.current = Changed(tmp)]
  /\ UNCHANGED tmp

LoadLatched == Access("load latched", "store latched")
               /\ tmp' = fault.latched /\ UNCHANGED fault

StoreLatched ==
  /\ Access("store latched", "none")
  /\ fault' = [fault EXCEPT !.latched = Changed(tmp)]
  /\ UNCHANGED tmp

-----------------------------------------------------------------------------
(* The other two tasks, and configuration.                                 *)

FocRaise ==
  /\ \E c \in FocCodes : fault' = fault_raise(fault, c, "CRITICAL")
  /\ UNCHANGED <<channels, op, tmp, clearing>>

\* motor_recover, statement by statement, at any time, whatever the channels
\* measure; the Service task has the lowest priority, so no update of the
\* Motion task is in progress.
RecoverCurrent ==
  /\ op = Idle /\ ~clearing /\ clearing' = TRUE
  /\ fault' = [fault EXCEPT !.current = {}]
  /\ forgiven' = forgiven \cup {c \in Monitored \cap fault.current : active[c]}
  /\ stale' = stale \cap fault.latched
  /\ UNCHANGED <<set, count, active, last, streak, op, tmp>>

RecoverLatched ==
  /\ op = Idle /\ clearing /\ clearing' = FALSE
  /\ fault' = [fault EXCEPT !.latched = {}]
  /\ stale' = stale \cap fault.current
  /\ UNCHANGED <<set, count, active, last, streak, forgiven, op, tmp>>

\* What fault_monitor_configure does to the channel, but for its count; the
\* register keeps the code.
Configure(c, s) ==
  /\ op = Idle
  /\ set' = [set EXCEPT ![c] = s]
  /\ active' = [active EXCEPT ![c] = FALSE]
  /\ streak' = [streak EXCEPT ![c] = 0]
  /\ last' = [last EXCEPT ![c] = {}]
  /\ forgiven' = forgiven \ {c}
  /\ stale' = stale \cup ({c} \cap (fault.current \cup fault.latched))
  /\ UNCHANGED <<fault, op, tmp, clearing>>

\* Mutant: debounce_count is not reset.
fault_monitor_configure_KeepsCount ==
  \E c \in Monitored, s \in Settings : Configure(c, s) /\ UNCHANGED count

fault_monitor_configure ==
  \E c \in Monitored, s \in Settings :
    Configure(c, s) /\ count' = [count EXCEPT ![c] = 0]

fault_monitor_update ==
  \/ \E c \in Monitored, v \in Value : Over(c, v) \/ Under(c, v) \/ Between(c, v)
  \/ LoadCurrent \/ StoreCurrent \/ LoadLatched \/ StoreLatched

Next ==
  \/ fault_monitor_update \/ fault_monitor_configure
  \/ FocRaise \/ RecoverCurrent \/ RecoverLatched

Spec == Init /\ [][Next]_vars

-----------------------------------------------------------------------------
TypeOK ==
  /\ set \in [Monitored -> Settings]
  /\ count \in [Monitored -> 0 .. Width - 1] /\ active \in [Monitored -> BOOLEAN]
  /\ fault \in FaultReg /\ op \in Op /\ tmp \in SUBSET FaultCode
  /\ clearing \in BOOLEAN
  /\ last \in [Monitored -> SUBSET Value] /\ streak \in [Monitored -> 0 .. Width]
  /\ forgiven \subseteq Monitored /\ stale \subseteq Monitored

(* No code is raised on fewer consecutive values over hi than configured,  *)
(* across recoveries and reconfigurations, and when debounce_count wraps.  *)
Debounced ==
  [][\A c \in Monitored :
       ~active[c] /\ active'[c] => streak'[c] >= set[c].thresh]_vars

(* A code whose values stayed over hi for as long as configured is in the  *)
(* register once the update is done, whatever the FOC task raised while    *)
(* the masks were being changed, unless motor_recover took it from there   *)
(* after its channel reported it: then the channel stays active and is     *)
(* silent until a value at lo.                                             *)
ReportedWhenOver ==
  \A c \in Monitored :
    op = Idle /\ streak[c] >= set[c].thresh
      => fault_is_set(fault, c) \/ c \in forgiven

(* A code whose last value is not over lo is not in the register, unless   *)
(* it was there when its channel was configured and nothing was reported   *)
(* or recovered since: the inactive channel has nothing to clear.          *)
ClearedBelowLo ==
  \A c \in Monitored : \A v \in last[c] :
    op = Idle /\ v < set[c].hi /\ v <= set[c].lo
      => \/ ~fault_is_set(fault, c) /\ c \notin fault.latched
         \/ c \in stale

-----------------------------------------------------------------------------
(* The inductive invariant behind them: the register follows the channels, *)
(* but for recovered and left codes, and the code whose mask the Motion    *)
(* task has not stored yet.                                                *)

\* The masks have the bits of channel c that active says.
Follows(c) ==
  /\ active[c] => c \in fault.current \cup forgiven
  /\ c \in fault.current \cup fault.latched => active[c] \/ c \in stale

\* What the Motion task has in hand is still true of the monitored codes.
Pending ==
  /\ op.do = "raise" <=> active[op.code]
  /\ op.do = "raise" /\ op.at \in {"load latched", "store latched"}
       => op.code \in fault.current
  /\ op.do = "clear" /\ op.at \in {"load latched", "store latched"}
       => op.code \notin fault.current
  /\ op.at = "store current" => \A c \in Monitored : c \in tmp <=> c \in fault.current
  /\ op.at = "store latched" => \A c \in Monitored : c \in tmp <=> c \in fault.latched

\* A channel that is not active counts without wrapping, below its threshold.
Counted(c) ==
  /\ ~active[c] => count[c] = streak[c] /\ streak[c] < set[c].thresh
  /\ \A v \in last[c] : active[c] => ~(v < set[c].hi /\ v <= set[c].lo)

IInv ==
  /\ TypeOK
  /\ \A c \in Monitored : op = Idle \/ c # op.code => Follows(c)
  /\ op # Idle => Pending
  /\ \A c \in Monitored : Counted(c)
=============================================================================
