------------------------- MODULE FaultMonitor_proofs -------------------------
(***************************************************************************)
(* Proofs about the fault monitor, for every set of channels, every        *)
(* thresholds and every width of the counter, with configuration and       *)
(* motor_recover at any time.                                              *)
(***************************************************************************)
EXTENDS FaultMonitor, TLAPS

\* What the proofs need to know of a setting.
LEMMA SettingType ==
  \A s \in Settings : /\ s.sev \in FaultSeverity
                      /\ s.hi \in Int /\ s.lo \in Int /\ s.thresh \in 1 .. Width - 1
BY SettingsAssumption

LEMMA IdleIsOp ==
  /\ Idle \in Op
  /\ \A o \in Op : o # Idle => /\ o.do \in {"raise", "clear"} /\ o.code \in Monitored
                               /\ o.at \in {"load current", "store current",
                                            "load latched", "store latched"}
BY DEF Op, Idle

LEMMA StartsAreOps ==
  \A c \in Monitored, do \in {"raise", "clear"} :
    LET o == [do |-> do, code |-> c, at |-> "load current"]
    IN  o \in Op /\ o # Idle
BY DEF Op, Idle

LEMMA InitIInv == Init => IInv
<1> SUFFICES ASSUME Init PROVE IInv
  OBVIOUS
<1>1. TypeOK
  <2>1. fault \in FaultReg /\ op \in Op /\ op = Idle /\ tmp \in SUBSET FaultCode
    BY IdleIsOp DEF Init, fault_init, FaultReg
  <2>2. 0 \in 0 .. Width - 1 /\ 0 \in 0 .. Width
    BY WidthAssumption
  <2> QED
    BY <2>1, <2>2 DEF Init, TypeOK
<1>2. \A c \in Monitored : set[c].thresh \in 1 .. Width - 1
  BY <1>1, SettingType DEF TypeOK
<1>3. \A c \in Monitored : Counted(c)
  <2> SUFFICES ASSUME NEW c \in Monitored PROVE Counted(c)
    OBVIOUS
  <2>1. count[c] = 0 /\ streak[c] = 0 /\ last[c] = {}
    BY DEF Init
  <2>2. streak[c] < set[c].thresh
    BY <1>2, <2>1
  <2> QED
    BY <2>1, <2>2 DEF Counted
<1>4. \A c \in Monitored : Follows(c)
  BY DEF Init, fault_init, Follows
<1>5. op = Idle
  BY DEF Init
<1> QED
  BY <1>1, <1>3, <1>4, <1>5 DEF IInv

-----------------------------------------------------------------------------
(* A value over hi: the count does not wrap while the channel is inactive. *)
LEMMA OverIInv ==
  ASSUME IInv, NEW c \in Monitored, NEW v \in Value, Over(c, v)
  PROVE  IInv' /\ (~active[c] /\ active'[c] => streak'[c] >= set[c].thresh)
<1> USE DEF Over, Sample
<1>1. /\ TypeOK /\ op = Idle
      /\ set[c].thresh \in 1 .. Width - 1 /\ set[c].hi \in Int /\ set[c].lo \in Int
      /\ v \in Int
  BY SettingType, SettingsAssumption DEF IInv, TypeOK
<1>2. /\ count'[c] = Increment(count[c])
      /\ count' \in [Monitored -> 0 .. Width - 1]
      /\ \A d \in Monitored \ {c} : count'[d] = count[d]
  BY <1>1, WidthAssumption DEF TypeOK, Increment
<1>3. ~active[c] => count'[c] = streak[c] + 1 /\ streak'[c] = streak[c] + 1
  <2>1. ASSUME ~active[c] PROVE count[c] = streak[c] /\ streak[c] + 1 < Width
    <3>1. /\ count[c] = streak[c] /\ streak[c] < set[c].thresh
          /\ streak[c] \in 0 .. Width
      BY <1>1, <2>1 DEF IInv, Counted, TypeOK
    <3> QED
      BY <1>1, <3>1, WidthAssumption
  <2>2. ASSUME ~active[c] PROVE count'[c] = streak[c] + 1
    BY <1>2, <2>1, <2>2, WidthAssumption DEF Increment
  <2>3. streak \in [Monitored -> 0 .. Width]
    BY <1>1 DEF TypeOK
  <2>4. streak'[c] = IF streak[c] < Width THEN streak[c] + 1 ELSE streak[c]
    BY <2>3
  <2>5. ASSUME ~active[c] PROVE streak'[c] = streak[c] + 1
    <3>1. streak[c] \in 0 .. Width /\ streak[c] + 1 < Width
      BY <2>1, <2>3, <2>5
    <3> QED
      BY <2>4, <3>1, WidthAssumption
  <2> QED
    BY <2>2, <2>5
<1>4. /\ streak' \in [Monitored -> 0 .. Width]
      /\ \A d \in Monitored \ {c} : streak'[d] = streak[d]
  <2>1. streak \in [Monitored -> 0 .. Width]
    BY <1>1 DEF TypeOK
  <2>2. \A n \in 0 .. Width : (IF n < Width THEN n + 1 ELSE n) \in 0 .. Width
    BY WidthAssumption
  <2> QED
    BY <2>1, <2>2
<1>5. last' \in [Monitored -> SUBSET Value] /\ last'[c] = {v}
      /\ \A d \in Monitored \ {c} : last'[d] = last[d]
  BY <1>1 DEF TypeOK
<1>6. CASE ~active[c] /\ count'[c] >= set[c].thresh
  <2>1. /\ active' = [active EXCEPT ![c] = TRUE]
        /\ op' = [do |-> "raise", code |-> c, at |-> "load current"]
        /\ forgiven' = forgiven \ {c} /\ stale' = stale \ {c}
    BY <1>6 DEF Start
  <2>2. op' \in Op /\ op' # Idle
    BY <2>1, StartsAreOps
  <2>3. TypeOK'
    BY <1>1, <1>2, <1>4, <1>5, <2>1, <2>2 DEF TypeOK
  <2>4. /\ active'[c] = TRUE
        /\ \A d \in Monitored \ {c} : active'[d] = active[d]
    BY <1>1, <2>1 DEF TypeOK
  <2>5. Pending'
    BY <2>1, <2>4 DEF Pending
  <2>6. \A d \in Monitored \ {c} : Follows(d)'
    BY <1>1, <2>1, <2>4 DEF IInv, Follows
  <2>7. \A d \in Monitored : Counted(d)'
    BY <1>1, <1>2, <1>4, <1>5, <2>4 DEF IInv, Counted, TypeOK
  <2>8. streak'[c] >= set[c].thresh
    BY <1>3, <1>6
  <2>9. \A d \in Monitored : op' = Idle \/ d # op'.code => Follows(d)'
    BY <2>1, <2>2, <2>6
  <2> QED
    BY <2>3, <2>5, <2>7, <2>8, <2>9 DEF IInv
<1>7. CASE ~(~active[c] /\ count'[c] >= set[c].thresh)
  <2>1. UNCHANGED <<active, op, forgiven, stale>>
    BY <1>7
  <2>2. TypeOK'
    BY <1>1, <1>2, <1>4, <1>5, <2>1 DEF TypeOK
  <2>3. ~active[c] => streak'[c] < set[c].thresh
    BY <1>1, <1>2, <1>3, <1>4, <1>7 DEF TypeOK
  <2>4. \A d \in Monitored : Counted(d)'
    BY <1>1, <1>2, <1>3, <1>4, <1>5, <2>1, <2>3 DEF IInv, Counted, TypeOK
  <2>5. \A d \in Monitored : Follows(d)'
    BY <1>1, <2>1 DEF IInv, Follows
  <2> QED
    BY <1>1, <2>1, <2>2, <2>4, <2>5 DEF IInv
<1> QED
  BY <1>6, <1>7

(* A value that is not over hi resets the count.                           *)
LEMMA NotOverIInv ==
  ASSUME IInv, NEW c \in Monitored, NEW v \in Value, Under(c, v) \/ Between(c, v)
  PROVE  IInv' /\ (active'[c] => active[c])
<1> USE DEF Under, Between, NotOver, Sample
<1>1. /\ TypeOK /\ op = Idle
      /\ set[c].thresh \in 1 .. Width - 1 /\ set[c].hi \in Int /\ set[c].lo \in Int
      /\ v \in Int
  BY SettingType, SettingsAssumption DEF IInv, TypeOK
<1>2. /\ count' \in [Monitored -> 0 .. Width - 1]
      /\ streak' \in [Monitored -> 0 .. Width]
      /\ last' \in [Monitored -> SUBSET Value]
      /\ count'[c] = 0 /\ streak'[c] = 0 /\ last'[c] = {v}
      /\ \A d \in Monitored \ {c} : /\ count'[d] = count[d] /\ streak'[d] = streak[d]
                                    /\ last'[d] = last[d]
  BY <1>1, WidthAssumption DEF TypeOK
<1>3. CASE Under(c, v) /\ active[c]
  <2>1. /\ active' = [active EXCEPT ![c] = FALSE]
        /\ op' = [do |-> "clear", code |-> c, at |-> "load current"]
        /\ forgiven' = forgiven \ {c} /\ stale' = stale \ {c}
    BY <1>3 DEF Start
  <2>2. op' \in Op /\ op' # Idle
    BY <2>1, StartsAreOps
  <2>3. TypeOK'
    BY <1>1, <1>2, <2>1, <2>2 DEF TypeOK
  <2>4. /\ active'[c] = FALSE
        /\ \A d \in Monitored \ {c} : active'[d] = active[d]
    BY <1>1, <2>1 DEF TypeOK
  <2>5. Pending'
    BY <2>1, <2>4 DEF Pending
  <2>6. \A d \in Monitored \ {c} : Follows(d)'
    BY <1>1, <2>1, <2>4 DEF IInv, Follows
  <2>7. \A d \in Monitored : Counted(d)'
    BY <1>1, <1>2, <2>4 DEF IInv, Counted, TypeOK
  <2>8. \A d \in Monitored : op' = Idle \/ d # op'.code => Follows(d)'
    BY <2>1, <2>2, <2>6
  <2> QED
    BY <2>3, <2>4, <2>5, <2>7, <2>8 DEF IInv
<1>4. CASE UNCHANGED <<active, op, forgiven, stale>> /\ (v <= set[c].lo => ~active[c])
  <2>1. TypeOK'
    BY <1>1, <1>2, <1>4 DEF TypeOK
  <2>2. \A d \in Monitored : Counted(d)'
    BY <1>1, <1>2, <1>4 DEF IInv, Counted, TypeOK
  <2>3. \A d \in Monitored : Follows(d)'
    BY <1>1, <1>4 DEF IInv, Follows
  <2> QED
    BY <1>1, <1>4, <2>1, <2>2, <2>3 DEF IInv
<1> QED
  BY <1>3, <1>4

(* The accesses to the masks: only op, tmp and the register change.        *)
LEMMA AccessIInv ==
  ASSUME IInv, LoadCurrent \/ StoreCurrent \/ LoadLatched \/ StoreLatched
  PROVE  IInv' /\ active' = active
<1>1. /\ TypeOK /\ op # Idle /\ Pending
      /\ UNCHANGED <<set, count, active, last, streak, forgiven, stale, clearing>>
  BY DEF IInv, LoadCurrent, StoreCurrent, LoadLatched, StoreLatched, Access, channels
<1>2. op.do \in {"raise", "clear"} /\ op.code \in Monitored
  BY <1>1, IdleIsOp DEF TypeOK
<1>3. \A at \in {"load current", "store current", "load latched", "store latched"} :
        /\ [op EXCEPT !.at = at] \in Op /\ [op EXCEPT !.at = at] # Idle
        /\ [op EXCEPT !.at = at].at = at
        /\ [op EXCEPT !.at = at].do = op.do /\ [op EXCEPT !.at = at].code = op.code
  BY <1>1, <1>2 DEF TypeOK, Op, Idle
<1>4. \A d \in Monitored : d # op.code => Follows(d)
  BY <1>1 DEF IInv
<1>5. \A d \in Monitored : Counted(d)'
  BY <1>1 DEF IInv, Counted
<1>6. /\ fault.current \in SUBSET FaultCode /\ fault.latched \in SUBSET FaultCode
      /\ fault = [current |-> fault.current, latched |-> fault.latched]
  BY <1>1 DEF TypeOK, FaultReg
<1>7. op.code \in FaultCode
  BY <1>2, CodesAssumption
<1> HIDE DEF IInv, TypeOK, Pending, Follows
<1>8. CASE LoadCurrent
  <2>1. /\ op' = [op EXCEPT !.at = "store current"] /\ tmp' = fault.current
        /\ fault' = fault
    BY <1>8 DEF LoadCurrent, Access
  <2>2. TypeOK'
    BY <1>1, <1>3, <1>6, <2>1 DEF TypeOK
  <2>3. Pending'
    BY <1>1, <1>3, <2>1 DEF Pending
  <2> QED
    BY <1>1, <1>3, <1>4, <1>5, <2>1, <2>2, <2>3 DEF IInv, Follows
<1>9. CASE StoreCurrent
  <2>1. /\ op' = IF Latches THEN [op EXCEPT !.at = "load latched"] ELSE Idle
        /\ fault' = [fault EXCEPT !.current = Changed(tmp)] /\ tmp' = tmp
        /\ op.at = "store current"
    BY <1>9 DEF StoreCurrent, Access
  <2>2. /\ fault'.current = Changed(tmp) /\ fault'.latched = fault.latched
        /\ fault' \in FaultReg
    BY <1>1, <1>6, <1>7, <2>1 DEF Changed, TypeOK, FaultReg
  <2>3. /\ op.code \in fault'.current <=> op.do = "raise"
        /\ \A d \in Monitored : d # op.code
             => (d \in fault'.current <=> d \in fault.current)
    <3>1. \A d \in Monitored : d \in tmp <=> d \in fault.current
      BY <1>1, <2>1 DEF Pending
    <3>2. CASE op.do = "raise"
      BY <2>2, <3>1, <3>2 DEF Changed
    <3>3. CASE op.do = "clear"
      BY <2>2, <3>1, <3>3 DEF Changed
    <3> QED
      BY <1>2, <3>2, <3>3
  <2>4. TypeOK'
    BY <1>1, <1>3, <2>1, <2>2, IdleIsOp DEF TypeOK
  <2>5. \A d \in Monitored : d # op.code => Follows(d)'
    BY <1>1, <1>4, <2>2, <2>3 DEF Follows
  <2>6. CASE Latches
    <3>1. Pending'
      BY <1>1, <1>2, <1>3, <2>1, <2>3, <2>6 DEF Pending
    <3> QED
      BY <1>1, <1>3, <1>5, <2>1, <2>4, <2>5, <2>6, <3>1 DEF IInv
  <2>7. CASE ~Latches
    <3>1. op.do = "raise"
      BY <1>2, <2>7 DEF Latches
    <3>2. active[op.code]
      BY <1>1, <3>1 DEF Pending
    <3>3. \A d \in Monitored : d = op.code => Follows(d)'
      BY <1>1, <2>3, <3>1, <3>2 DEF Follows
    <3>4. \A d \in Monitored : Follows(d)'
      BY <2>5, <3>3
    <3> QED
      BY <1>1, <1>5, <2>1, <2>4, <2>7, <3>4 DEF IInv
  <2> QED
    BY <1>1, <2>6, <2>7
<1>10. CASE LoadLatched
  <2>1. /\ op' = [op EXCEPT !.at = "store latched"] /\ tmp' = fault.latched
        /\ fault' = fault /\ op.at = "load latched"
    BY <1>10 DEF LoadLatched, Access
  <2>2. TypeOK'
    BY <1>1, <1>3, <1>6, <2>1 DEF TypeOK
  <2>3. Pending'
    BY <1>1, <1>3, <2>1 DEF Pending
  <2> QED
    BY <1>1, <1>3, <1>4, <1>5, <2>1, <2>2, <2>3 DEF IInv, Follows
<1>11. CASE StoreLatched
  <2>1. /\ op' = Idle /\ tmp' = tmp /\ op.at = "store latched"
        /\ fault' = [fault EXCEPT !.latched = Changed(tmp)]
    BY <1>11 DEF StoreLatched, Access
  <2>2. /\ fault'.latched = Changed(tmp) /\ fault'.current = fault.current
        /\ fault' \in FaultReg
    BY <1>1, <1>6, <1>7, <2>1 DEF Changed, TypeOK, FaultReg
  <2>3. /\ op.code \in fault'.latched <=> op.do = "raise"
        /\ \A d \in Monitored : d # op.code
             => (d \in fault'.latched <=> d \in fault.latched)
    <3>1. \A d \in Monitored : d \in tmp <=> d \in fault.latched
      BY <1>1, <2>1 DEF Pending
    <3>2. CASE op.do = "raise"
      BY <2>2, <3>1, <3>2 DEF Changed
    <3>3. CASE op.do = "clear"
      BY <2>2, <3>1, <3>3 DEF Changed
    <3> QED
      BY <1>2, <3>2, <3>3
  <2>4. TypeOK'
    BY <1>1, <2>1, <2>2, IdleIsOp DEF TypeOK
  <2>5. \A d \in Monitored : Follows(d)'
    BY <1>1, <1>2, <1>4, <2>1, <2>2, <2>3 DEF Follows, Pending
  <2> QED
    BY <1>1, <1>5, <2>1, <2>4, <2>5 DEF IInv
<1> QED
  BY <1>1, <1>8, <1>9, <1>10, <1>11

(* The other two tasks and configuration.                                  *)
LEMMA FocRaiseIInv == IInv /\ FocRaise => IInv' /\ active' = active
<1> SUFFICES ASSUME IInv, FocRaise PROVE IInv' /\ active' = active
  OBVIOUS
<1>1. PICK c \in FocCodes : fault' = fault_raise(fault, c, "CRITICAL")
  BY DEF FocRaise
<1>2. UNCHANGED <<set, count, active, last, streak, forgiven, stale, op, tmp, clearing>>
  BY DEF FocRaise, channels
<1>3. c \in FaultCode /\ c \notin Monitored
  BY CodesAssumption
<1>4. /\ fault.current \in SUBSET FaultCode /\ fault.latched \in SUBSET FaultCode
  BY DEF IInv, TypeOK, FaultReg
<1>5. fault' \in FaultReg /\ \A d \in Monitored :
        /\ d \in fault'.current <=> d \in fault.current
        /\ d \in fault'.latched <=> d \in fault.latched
  BY <1>1, <1>3, <1>4 DEF fault_raise, FaultReg
<1>6. TypeOK'
  BY <1>2, <1>5 DEF IInv, TypeOK
<1>7. \A d \in Monitored : op = Idle \/ d # op.code => Follows(d)'
  BY <1>2, <1>5 DEF IInv, Follows
<1>8. \A d \in Monitored : Counted(d)'
  BY <1>2 DEF IInv, Counted
<1>9. op # Idle => op.code \in Monitored
  BY IdleIsOp DEF IInv, TypeOK
<1>10. op # Idle => Pending'
  BY <1>2, <1>5, <1>9 DEF IInv, Pending
<1> QED
  BY <1>2, <1>6, <1>7, <1>8, <1>10 DEF IInv

LEMMA RecoverIInv ==
  ASSUME IInv, RecoverCurrent \/ RecoverLatched
  PROVE  IInv' /\ active' = active
<1>1. TypeOK /\ op = Idle /\ UNCHANGED <<set, count, active, last, streak, op, tmp>>
  BY DEF IInv, RecoverCurrent, RecoverLatched
<1>2. clearing' \in BOOLEAN /\ fault' \in FaultReg
  BY <1>1 DEF RecoverCurrent, RecoverLatched, TypeOK, FaultReg
<1>3. forgiven' \subseteq Monitored /\ stale' \subseteq Monitored
  BY <1>1 DEF RecoverCurrent, RecoverLatched, TypeOK
<1>4. TypeOK'
  BY <1>1, <1>2, <1>3 DEF TypeOK
<1>5. \A d \in Monitored : Counted(d)'
  BY <1>1 DEF IInv, Counted
<1>6. \A d \in Monitored : Follows(d)'
  <2>1. \A d \in Monitored : Follows(d)
    BY <1>1 DEF IInv
  <2>2. CASE RecoverCurrent
    <3>1. /\ fault'.current = {} /\ fault'.latched = fault.latched
          /\ forgiven' = forgiven \cup {c \in Monitored \cap fault.current : active[c]}
          /\ stale' = stale \cap fault.latched
      BY <1>1, <2>2 DEF RecoverCurrent, TypeOK, FaultReg
    <3> QED
      BY <1>1, <2>1, <3>1 DEF Follows
  <2>3. CASE RecoverLatched
    <3>1. /\ fault'.current = fault.current /\ fault'.latched = {}
          /\ forgiven' = forgiven /\ stale' = stale \cap fault.current
      BY <1>1, <2>3 DEF RecoverLatched, TypeOK, FaultReg
    <3> QED
      BY <1>1, <2>1, <3>1 DEF Follows
  <2> QED
    BY <2>2, <2>3
<1> QED
  BY <1>1, <1>4, <1>5, <1>6 DEF IInv

LEMMA ConfigureIInv ==
  ASSUME IInv, fault_monitor_configure
  PROVE  IInv' /\ \A d \in Monitored : active'[d] => active[d]
<1>1. PICK c \in Monitored, s \in Settings :
        Configure(c, s) /\ count' = [count EXCEPT ![c] = 0]
  BY DEF fault_monitor_configure
<1>2. /\ TypeOK /\ op = Idle
      /\ UNCHANGED <<fault, op, tmp, clearing>>
  BY <1>1 DEF IInv, Configure
<1>3. 0 \in 0 .. Width - 1 /\ 0 \in 0 .. Width
  BY WidthAssumption
<1>4. TypeOK'
  BY <1>1, <1>2, <1>3 DEF TypeOK, Configure
<1>5. /\ active'[c] = FALSE /\ set'[c] = s /\ count'[c] = 0 /\ streak'[c] = 0
      /\ last'[c] = {}
      /\ forgiven' = forgiven \ {c}
      /\ stale' = stale \cup ({c} \cap (fault.current \cup fault.latched))
  BY <1>1, <1>2 DEF TypeOK, Configure
<1>6. \A d \in Monitored \ {c} :
        /\ active'[d] = active[d] /\ set'[d] = set[d] /\ count'[d] = count[d]
        /\ streak'[d] = streak[d] /\ last'[d] = last[d]
  BY <1>1, <1>2 DEF TypeOK, Configure
<1>7. \A d \in Monitored : Follows(d)'
  <2>1. \A d \in Monitored : Follows(d)
    BY <1>2 DEF IInv
  <2> QED
    BY <1>2, <1>5, <1>6, <2>1 DEF Follows
<1>8. \A d \in Monitored \ {c} : Counted(d)'
  BY <1>2, <1>6 DEF IInv, Counted
<1>9. \A d \in Monitored : d = c => Counted(d)'
  <2>1. s.thresh \in 1 .. Width - 1
    BY SettingType
  <2>2. streak'[c] < set'[c].thresh
    BY <1>5, <2>1
  <2> QED
    BY <1>5, <2>2 DEF Counted
<1> QED
  BY <1>2, <1>4, <1>5, <1>6, <1>7, <1>8, <1>9 DEF IInv

-----------------------------------------------------------------------------
\* No step raises a code before its time.
Raises(c) == ~active[c] /\ active'[c] => streak'[c] >= set[c].thresh

LEMMA NextIInv ==
  IInv /\ [Next]_vars => IInv' /\ (Next => \A c \in Monitored : Raises(c))
<1> SUFFICES ASSUME IInv, [Next]_vars
             PROVE  IInv' /\ (Next => \A c \in Monitored : Raises(c))
  OBVIOUS
<1>1. ASSUME NEW c \in Monitored, NEW v \in Value, Over(c, v)
      PROVE  IInv' /\ \A d \in Monitored : Raises(d)
  <2>1. \A d \in Monitored \ {c} : active'[d] = active[d]
    BY <1>1 DEF Over, IInv, TypeOK
  <2> QED
    BY <1>1, <2>1, OverIInv DEF Raises
<1>2. ASSUME NEW c \in Monitored, NEW v \in Value, Under(c, v) \/ Between(c, v)
      PROVE  IInv' /\ \A d \in Monitored : Raises(d)
  <2>1. \A d \in Monitored \ {c} : active'[d] = active[d]
    BY <1>2 DEF Under, Between, IInv, TypeOK
  <2> QED
    BY <1>2, <2>1, NotOverIInv DEF Raises
<1>3. CASE LoadCurrent \/ StoreCurrent \/ LoadLatched \/ StoreLatched
  BY <1>3, AccessIInv DEF Raises
<1>4. CASE FocRaise
  BY <1>4, FocRaiseIInv DEF Raises
<1>5. CASE RecoverCurrent \/ RecoverLatched
  BY <1>5, RecoverIInv DEF Raises
<1>6. CASE fault_monitor_configure
  BY <1>6, ConfigureIInv DEF Raises
<1>7. CASE UNCHANGED vars
  <2>1. UNCHANGED <<set, count, active, fault, op, tmp, clearing, last, streak,
                  forgiven, stale>>
    BY <1>7 DEF vars, channels
  <2>2. TypeOK' /\ \A d \in Monitored : Counted(d)' /\ (Follows(d) => Follows(d)')
    BY <2>1 DEF IInv, TypeOK, Counted, Follows
  <2>3. op # Idle => Pending'
    BY <2>1 DEF IInv, Pending
  <2> QED
    BY <2>1, <2>2, <2>3 DEF IInv, Raises
<1> QED
  BY <1>1, <1>2, <1>3, <1>4, <1>5, <1>6, <1>7 DEF Next, fault_monitor_update

(* The register follows the channels, but for the codes of an active       *)
(* channel that motor_recover took from it and those a configured channel  *)
(* left in it.                                                             *)
THEOREM Invariant == Spec => []IInv
<1>1. Init => IInv
  BY InitIInv
<1>2. IInv /\ [Next]_vars => IInv'
  BY NextIInv
<1> QED
  BY <1>1, <1>2, PTL DEF Spec

(* So no code is raised before its threshold.                              *)
THEOREM RaisedInTime == Spec => Debounced
<1> DEFINE InTime == \A c \in Monitored : Raises(c)
<1>1. IInv /\ [Next]_vars => [InTime]_vars
  BY NextIInv
<1>2. [InTime]_vars => [\A c \in Monitored :
         ~active[c] /\ active'[c] => streak'[c] >= set[c].thresh]_vars
  BY DEF Raises
<1> QED
  BY <1>1, <1>2, Invariant, PTL DEF Spec, Debounced

(* Counters keep their width, and the masks hold nothing but codes.        *)
THEOREM TypeCorrect == Spec => []TypeOK
<1>1. IInv => TypeOK
  BY DEF IInv
<1> QED
  BY <1>1, Invariant, PTL

(* At the end of an update the register has the codes that stayed over hi, *)
(* but for those that were reported and then taken by motor_recover.       *)
THEOREM RegisterTells == Spec => []ReportedWhenOver
<1>1. IInv => ReportedWhenOver
  <2> SUFFICES ASSUME IInv, op = Idle, NEW c \in Monitored, streak[c] >= set[c].thresh
               PROVE  c \in fault.current \/ c \in forgiven
    BY DEF ReportedWhenOver, fault_is_set
  <2>1. /\ set[c].thresh \in Int /\ streak[c] \in Int
        /\ ~active[c] => streak[c] < set[c].thresh
    BY SettingType DEF IInv, TypeOK, Counted
  <2>2. active[c]
    BY <2>1
  <2> QED
    BY <2>2 DEF IInv, Follows
<1> QED
  BY <1>1, Invariant, PTL

(* And none of those whose last value is not over lo, but for those that   *)
(* were there when their channel was configured.                           *)
THEOREM RegisterForgets == Spec => []ClearedBelowLo
<1>1. IInv => ClearedBelowLo
  BY DEF IInv, Counted, Follows, ClearedBelowLo, fault_is_set
<1> QED
  BY <1>1, Invariant, PTL
=============================================================================
