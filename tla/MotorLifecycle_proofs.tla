------------------------ MODULE MotorLifecycle_proofs ------------------------
(* Proofs about MotorLifecycle, for every set of board codes, either       *)
(* wiring of the safety layer and any number of runs.                      *)
EXTENDS MotorLifecycle, TLAPS

(* Raising a code gives a register, and one that is not empty when the     *)
(* severity is CRITICAL (fault_raise).                                     *)
LEMMA RaiseType ==
  ASSUME NEW f \in FaultReg, NEW c \in FaultCode
  PROVE  /\ fault_raise(f, c, "CRITICAL") \in FaultReg
         /\ fault_raise(f, c, "CRITICAL").latched = f.latched \cup {c}
  BY DEF FaultReg, fault_raise

(* The second raise, of FAULT_SAFETY by the safety layer, only adds.       *)
LEMMA RaiseSafetyType ==
  ASSUME NEW f \in FaultReg
  PROVE  /\ RaiseSafety(f) \in FaultReg
         /\ f.latched \subseteq RaiseSafety(f).latched
  BY RaiseType DEF RaiseSafety, FaultCode, LatchCodes

(* motor_enter_safe_state leaves a stopped motor that is safe and can say  *)
(* why.                                                                    *)
LEMMA EnterSafeState ==
  ASSUME TypeOK, NEW c \in FaultCode, motor_enter_safe_state(c)
  PROVE  /\ state' \in {"FAULT", "LOCK"}
         /\ safety' = "SAFE_STO"
         /\ fault' \in FaultReg
         /\ fault'.latched # {}
         /\ held' = (held \/ pc = "idle")
         /\ UNCHANGED <<sp, integ, gate, slow, pc, run, fresh>>
<1>1. fault_raise(fault, c, "CRITICAL") \in FaultReg /\ c \in fault_raise(fault, c, "CRITICAL").latched
  BY RaiseType DEF TypeOK
<1>2. fault' \in FaultReg /\ c \in fault'.latched
  BY <1>1, RaiseSafetyType DEF motor_enter_safe_state
<1> QED
  BY <1>2 DEF motor_enter_safe_state, motion

LEMMA InitIInv == Init => IInv
<1> SUFFICES ASSUME Init PROVE IInv
  OBVIOUS
<1>1. TypeOK
  BY DEF Init, TypeOK, FocState, SafetyState, Label, FaultReg, fault_init
<1>2. ~held /\ ~fresh
  BY DEF Init
<1>3. IdleFaultHolds /\ StopIsSafe /\ StopIsExplained
  BY <1>2 DEF Init, IdleFaultHolds, StopIsSafe, StopIsExplained
<1>4. FreshAfterFirstSlow /\ NoCarriedIntegral
  BY <1>2 DEF Init, FreshAfterFirstSlow, NoCarriedIntegral
<1> QED
  BY <1>1, <1>2, <1>3, <1>4 DEF Init, IInv

(* The check at the head of an operation changes nothing but pc.           *)
LEMMA CheckIInv ==
  ASSUME IInv, NEW from, NEW label \in Label, Check(from, label),
         <<from, label>> \in
           {<<"INIT", "self_test">>, <<"CALIBRATION", "calibrate">>,
            <<"CALIBRATION", "prepare">>, <<"READY", "enable">>,
            <<"RUNNING", "stop">>, <<"FAULT", "recover">>}
  PROVE  IInv'
<1>1. TypeOK'
  BY DEF IInv, TypeOK, Check, motion, hist
<1>2. (state = "RUNNING")' => pc' \in {"idle", "stop"}
  BY DEF IInv, Check
<1>3. /\ slow' = 0 /\ pc' # "entered" /\ pc' # "latched_cleared"
      /\ state' # "CREATED"
  BY DEF Check, motion
<1>4. held' => pc' = "recover"
  BY DEF IInv, IdleFaultHolds, Check, hist
<1>5. IdleFaultHolds' /\ StopIsSafe' /\ StopIsExplained'
  BY DEF IInv, IdleFaultHolds, StopIsSafe, StopIsExplained, Check, hist
<1>6. FreshAfterFirstSlow' /\ NoCarriedIntegral'
  BY DEF IInv, FreshAfterFirstSlow, NoCarriedIntegral, Check, hist, motion
<1> QED
  BY <1>1, <1>2, <1>3, <1>4, <1>5, <1>6 DEF IInv

(* A store of a state in which the motor neither runs nor is stopped by a  *)
(* fault, made while no shutdown holds.                                    *)
LEMMA StoreIInv ==
  ASSUME IInv,
         NEW s \in {"INIT", "SELF_TEST", "CALIBRATION", "READY", "STOPPING"},
         NEW label, NEW next \in {"idle", "self_tested", "stopping"},
         SetState(label, s, next), held' = FALSE,
         UNCHANGED <<run, fresh>>
  PROVE  IInv'
<1>1. TypeOK'
  BY DEF IInv, TypeOK, SetState, At, Label, FocState, motion
<1>2. state' = s /\ slow' = 0 /\ pc' \in {"idle", "self_tested", "stopping"}
  BY DEF SetState, At, motion
<1>3. IdleFaultHolds' /\ StopIsSafe' /\ StopIsExplained'
  BY <1>2 DEF IdleFaultHolds, StopIsSafe, StopIsExplained
<1>4. FreshAfterFirstSlow' /\ NoCarriedIntegral'
  BY DEF IInv, FreshAfterFirstSlow, NoCarriedIntegral, SetState, motion
<1> QED
  BY <1>1, <1>2, <1>3, <1>4 DEF IInv

(* on_enter, on_exit and reset: the integral becomes 0 while the motor     *)
(* does not run.                                                           *)
LEMMA ZeroIInv ==
  ASSUME IInv, NEW label \in {"enable", "stopping", "exited"},
         NEW next \in {"entered", "exited", "reset"},
         ZeroIntegral(label, next)
  PROVE  IInv'
<1>0. (state = "CREATED")' => ~fresh' /\ safety' = "SAFE_OK"
  BY DEF IInv, ZeroIntegral, hist
<1>1. TypeOK'
  BY DEF IInv, TypeOK, ZeroIntegral, At, Label, hist
<1>2. integ' = 0 /\ slow' = 0 /\ pc' = next /\ state' = state /\ state # "RUNNING"
  BY DEF IInv, ZeroIntegral, At
<1>3. ~held'
  BY DEF IInv, ZeroIntegral, At, hist
<1>4. IdleFaultHolds' /\ StopIsSafe' /\ StopIsExplained'
  BY <1>3 DEF IInv, IdleFaultHolds, StopIsSafe, StopIsExplained, ZeroIntegral, At
<1>5. FreshAfterFirstSlow' /\ NoCarriedIntegral'
  BY <1>2 DEF IInv, FreshAfterFirstSlow, NoCarriedIntegral, ZeroIntegral, hist
<1> QED
  BY <1>0, <1>1, <1>2, <1>3, <1>4, <1>5 DEF IInv

(* motor_recover clears one field of the register, in a state that stays   *)
(* what it was.                                                            *)
LEMMA ClearIInv ==
  ASSUME IInv,
         NEW label, NEW next, NEW cleared,
         ClearRegister(label, cleared, next),
         \/ label = "recover" /\ next = "current_cleared"
              /\ cleared = [fault EXCEPT !.current = {}]
         \/ label = "current_cleared" /\ next = "latched_cleared"
              /\ cleared = [fault EXCEPT !.latched = {}]
  PROVE  IInv'
<1>1. fault' \in FaultReg
  BY DEF IInv, TypeOK, ClearRegister, FaultReg
<1>2. TypeOK'
  BY <1>1 DEF IInv, TypeOK, ClearRegister, At, Label, motion, hist
<1>3. next # "latched_cleared" => fault'.latched = fault.latched
  BY DEF IInv, TypeOK, ClearRegister, FaultReg
<1>4. IdleFaultHolds' /\ StopIsSafe'
  BY DEF IInv, IdleFaultHolds, StopIsSafe, ClearRegister, hist
<1>5. StopIsExplained'
  BY <1>3 DEF IInv, StopIsExplained, ClearRegister, At
<1>6. FreshAfterFirstSlow' /\ NoCarriedIntegral'
  BY DEF IInv, FreshAfterFirstSlow, NoCarriedIntegral, ClearRegister, motion, hist
<1>7. /\ (state = "RUNNING")' => pc' \in {"idle", "stop"}
      /\ slow' = 0 /\ pc' # "entered"
      /\ (state = "CREATED")' => ~fresh' /\ safety' = "SAFE_OK"
      /\ held' => pc' \in {"current_cleared", "latched_cleared"}
  BY DEF IInv, ClearRegister, At, motion, hist
<1> QED
  BY <1>2, <1>4, <1>5, <1>6, <1>7 DEF IInv

LEMMA ServiceIInv == IInv /\ Service => IInv'
<1> SUFFICES ASSUME IInv, Service PROVE IInv'
  OBVIOUS
<1>1. CASE motor_init
  <2>1. TypeOK'
    BY <1>1 DEF IInv, TypeOK, motor_init, FocState, SafetyState, hist
  <2>2. ~held'
    BY <1>1 DEF IInv, IdleFaultHolds, motor_init, hist
  <2>3. pc' = "idle" /\ state' = "INIT" /\ integ' = 0
    BY <1>1 DEF motor_init
  <2>4. slow' = 0
    BY <1>1 DEF IInv, motor_init
  <2>5. ~fresh'
    BY <1>1 DEF IInv, motor_init, hist
  <2> QED
    BY <2>1, <2>2, <2>3, <2>4, <2>5 DEF IInv, IdleFaultHolds, StopIsSafe,
       StopIsExplained, FreshAfterFirstSlow, NoCarriedIntegral
<1>2. CASE motor_self_test
  <2>1. CASE Check("INIT", "self_test")
    BY <2>1, CheckIInv DEF Label
  <2>2. CASE SetState("self_test", "SELF_TEST", "self_tested") /\ UNCHANGED hist
    <3>1. held' = FALSE
      BY <2>2 DEF IInv, TypeOK, SetState, At, hist
    <3> QED
      BY <2>2, <3>1, StoreIInv DEF hist, IInv, TypeOK
  <2>3. CASE SetState("self_tested", "CALIBRATION", "idle") /\ UNCHANGED hist
    <3>1. held' = FALSE
      BY <2>3 DEF IInv, TypeOK, SetState, At, hist
    <3> QED
      BY <2>3, <3>1, StoreIInv DEF hist, IInv, TypeOK
  <2> QED
    BY <1>2, <2>1, <2>2, <2>3 DEF motor_self_test
<1>3. CASE motor_calibrate
  <2>1. CASE Check("CALIBRATION", "calibrate")
    BY <2>1, CheckIInv DEF Label
  <2>2. CASE RunPlugins
    <3>1. TypeOK'
      BY <2>2 DEF IInv, TypeOK, RunPlugins, At, Label, motion, hist
    <3>2. IdleFaultHolds' /\ StopIsSafe' /\ StopIsExplained'
      BY <2>2 DEF IInv, IdleFaultHolds, StopIsSafe, StopIsExplained, RunPlugins, At, hist
    <3>3. FreshAfterFirstSlow' /\ NoCarriedIntegral'
      BY <2>2 DEF IInv, FreshAfterFirstSlow, NoCarriedIntegral, RunPlugins, motion, hist
    <3>4. /\ ~(state = "RUNNING")' /\ ~held'
          /\ (state = "CREATED")' => ~fresh' /\ safety' = "SAFE_OK"
          /\ slow' = 0 /\ pc' = "calibrated"
      BY <2>2 DEF IInv, RunPlugins, At, motion, hist
    <3> QED
      BY <3>1, <3>2, <3>3, <3>4 DEF IInv
  <2>3. CASE SetState("calibrated", "READY", "idle") /\ UNCHANGED hist
    <3>1. held' = FALSE
      BY <2>3 DEF IInv, TypeOK, SetState, At, hist
    <3> QED
      BY <2>3, <3>1, StoreIInv DEF hist, IInv, TypeOK
  <2> QED
    BY <1>3, <2>1, <2>2, <2>3 DEF motor_calibrate
<1>4. CASE motor_prepare
  <2>1. CASE Check("CALIBRATION", "prepare")
    BY <2>1, CheckIInv DEF Label
  <2>2. CASE SetState("prepare", "READY", "idle") /\ UNCHANGED hist
    <3>1. held' = FALSE
      BY <2>2 DEF IInv, TypeOK, SetState, At, hist
    <3> QED
      BY <2>2, <3>1, StoreIInv DEF hist, IInv, TypeOK
  <2> QED
    BY <1>4, <2>1, <2>2 DEF motor_prepare
<1>5. CASE motor_enable
  <2>1. CASE Check("READY", "enable")
    BY <2>1, CheckIInv DEF Label
  <2>2. CASE OnEnter
    BY <2>2, ZeroIInv DEF OnEnter, ZeroIntegral
  <2>3. CASE EnterRunning
    <3>0. run' \in Nat
      BY <2>3 DEF IInv, TypeOK, EnterRunning
    <3>1. TypeOK'
      BY <3>0, <2>3 DEF IInv, TypeOK, EnterRunning, SetState, At, Label, FocState, motion
    <3>2. /\ state' = "RUNNING" /\ pc' = "idle" /\ slow' = 0
          /\ integ' = 0 /\ ~fresh' /\ ~held'
      BY <2>3 DEF IInv, EnterRunning, SetState, At, motion
    <3> QED
      BY <3>1, <3>2 DEF IInv, IdleFaultHolds, StopIsSafe, StopIsExplained,
         FreshAfterFirstSlow, NoCarriedIntegral
  <2> QED
    BY <1>5, <2>1, <2>2, <2>3 DEF motor_enable
<1>6. CASE motor_stop
  <2>1. CASE Check("RUNNING", "stop")
    BY <2>1, CheckIInv DEF Label
  <2>2. CASE SetState("stop", "STOPPING", "stopping") /\ UNCHANGED hist
    <3>1. held' = FALSE
      BY <2>2 DEF IInv, TypeOK, SetState, At, hist
    <3> QED
      BY <2>2, <3>1, StoreIInv DEF hist, IInv, TypeOK
  <2>3. CASE ZeroIntegral("stopping", "exited") \/ ZeroIntegral("exited", "reset")
    BY <2>3, ZeroIInv
  <2>4. CASE SetState("reset", "READY", "idle") /\ UNCHANGED hist
    <3>1. held' = FALSE
      BY <2>4 DEF IInv, TypeOK, SetState, At, hist
    <3> QED
      BY <2>4, <3>1, StoreIInv DEF hist, IInv, TypeOK
  <2> QED
    BY <1>6, <2>1, <2>2, <2>3, <2>4 DEF motor_stop
<1>7. CASE motor_recover
  <2>1. CASE Check("FAULT", "recover")
    BY <2>1, CheckIInv DEF Label
  <2>2. CASE ClearRegister("recover", [fault EXCEPT !.current = {}], "current_cleared")
    BY <2>2, ClearIInv
  <2>3. CASE ClearRegister("current_cleared", [fault EXCEPT !.latched = {}],
                           "latched_cleared")
    BY <2>3, ClearIInv
  <2>4. CASE /\ SetState("latched_cleared", "READY", "idle")
             /\ held' = FALSE
             /\ UNCHANGED <<run, fresh>>
    BY <2>4, StoreIInv DEF IInv, TypeOK
  <2> QED
    BY <1>7, <2>1, <2>2, <2>3, <2>4 DEF motor_recover
<1> QED
  BY <1>1, <1>2, <1>3, <1>4, <1>5, <1>6, <1>7 DEF Service

LEMMA MotionIInv == IInv /\ (SlowBegin \/ SlowEnd) => IInv'
<1> SUFFICES ASSUME IInv, SlowBegin \/ SlowEnd PROVE IInv'
  OBVIOUS
<1>1. CASE SlowBegin
  <2>1. TypeOK'
    BY <1>1 DEF IInv, TypeOK, SlowBegin, hist
  <2>2. state' = "RUNNING" /\ pc' \in {"idle", "stop"} /\ slow' = run'
    BY <1>1 DEF IInv, SlowBegin, hist
  <2>3. ~held'
    BY <1>1 DEF IInv, IdleFaultHolds, SlowBegin, hist
  <2>4. FreshAfterFirstSlow' /\ NoCarriedIntegral'
    BY <1>1 DEF IInv, FreshAfterFirstSlow, NoCarriedIntegral, SlowBegin, hist
  <2> QED
    BY <2>1, <2>2, <2>3, <2>4 DEF IInv, IdleFaultHolds, StopIsSafe, StopIsExplained
<1>2. CASE SlowEnd
  <2>1. TypeOK'
    BY <1>2 DEF IInv, TypeOK, SlowEnd
  <2>2. slow' = 0 /\ sp' = run' /\ integ' = run' /\ fresh' /\ pc' \in {"idle", "stop"}
    BY <1>2 DEF IInv, SlowEnd
  <2>3. state' # "CREATED"
    BY <1>2 DEF IInv, SlowEnd
  <2>4. IdleFaultHolds' /\ StopIsSafe' /\ StopIsExplained'
    BY <1>2 DEF IInv, IdleFaultHolds, StopIsSafe, StopIsExplained, SlowEnd
  <2>5. held' => pc' = "idle"
    BY <1>2 DEF IInv, SlowEnd
  <2> QED
    BY <2>1, <2>2, <2>3, <2>4, <2>5 DEF IInv, FreshAfterFirstSlow, NoCarriedIntegral
<1> QED
  BY <1>1, <1>2

(* Every shutdown, whoever asks for it.                                    *)
LEMMA ShutdownIInv ==
  ASSUME IInv, NEW c \in FaultCode, motor_enter_safe_state(c)
  PROVE  IInv'
<1> USE EnterSafeState DEF IInv
<1>1. TypeOK'
  BY DEF TypeOK, FocState, SafetyState
<1>2. IdleFaultHolds' /\ StopIsSafe' /\ StopIsExplained'
  BY DEF IdleFaultHolds, StopIsSafe, StopIsExplained
<1>3. FreshAfterFirstSlow' /\ NoCarriedIntegral'
  BY DEF FreshAfterFirstSlow, NoCarriedIntegral
<1>4. held' => pc' \in {"idle", "recover", "current_cleared", "latched_cleared"}
  OBVIOUS
<1>5. state' \notin {"CREATED", "RUNNING"}
  OBVIOUS
<1> QED
  BY <1>1, <1>2, <1>3, <1>4, <1>5

(* The safety layer acts on its own: the motor's state is not touched.     *)
LEMMA CutIInv ==
  ASSUME IInv, WatchdogExpired \/ safety_enter_estop
  PROVE  IInv'
<1>1. /\ state # "CREATED"
      /\ safety' \in {"SAFE_FAULT_LATCH", "SAFE_ESTOP"}
      /\ fault' \in FaultReg
      /\ fault.latched \subseteq fault'.latched
      /\ UNCHANGED <<state, sp, integ, gate, slow, pc, run, fresh, held>>
  BY RaiseSafetyType DEF IInv, TypeOK, WatchdogExpired, safety_enter_estop, motion, hist
<1>2. TypeOK'
  BY <1>1 DEF IInv, TypeOK, SafetyState
<1>3. IdleFaultHolds' /\ StopIsSafe' /\ StopIsExplained'
  BY <1>1 DEF IInv, IdleFaultHolds, StopIsSafe, StopIsExplained
<1>4. FreshAfterFirstSlow' /\ NoCarriedIntegral'
  BY <1>1 DEF IInv, FreshAfterFirstSlow, NoCarriedIntegral
<1> QED
  BY <1>1, <1>2, <1>3, <1>4 DEF IInv

LEMMA DriveIInv == IInv /\ FastDrive => IInv'
<1> SUFFICES ASSUME IInv, FastDrive PROVE IInv'
  OBVIOUS
<1>1. TypeOK'
  BY DEF IInv, TypeOK, FastDrive, hist
<1>2. UNCHANGED <<state, fault, safety, sp, integ, slow, pc, run, fresh, held>>
  BY DEF FastDrive, hist
<1> QED
  BY <1>1, <1>2 DEF IInv, IdleFaultHolds, StopIsSafe, StopIsExplained,
     FreshAfterFirstSlow, NoCarriedIntegral

LEMMA FocIInv == IInv /\ FocTask => IInv'
<1> SUFFICES ASSUME IInv, FocTask PROVE IInv'
  OBVIOUS
<1>1. CASE FastFault
  BY <1>1, ShutdownIInv DEF FastFault, FastFaults, FaultCode, ShutdownCodes
<1>2. CASE motor_fast_loop_budget
  BY <1>2, ShutdownIInv DEF motor_fast_loop_budget, FaultCode, ShutdownCodes
<1>3. CASE BoardShutdown
  BY <1>3, ShutdownIInv, BoardCodesAssumption DEF BoardShutdown
<1>4. CASE FastDrive
  BY <1>4, DriveIInv
<1>5. CASE WatchdogExpired \/ safety_enter_estop
  BY <1>5, CutIInv
<1> QED
  BY <1>1, <1>2, <1>3, <1>4, <1>5 DEF FocTask

LEMMA PowerCycleIInv == PowerCycle => IInv'
<1> SUFFICES ASSUME PowerCycle PROVE IInv'
  OBVIOUS
<1>1. TypeOK'
  BY DEF PowerCycle, TypeOK, FocState, SafetyState, Label, FaultReg, fault_init
<1>2. /\ ~held' /\ ~fresh' /\ integ' = 0 /\ slow' = 0
      /\ state' = "CREATED" /\ pc' = "idle" /\ safety' = "SAFE_OK"
  BY DEF PowerCycle
<1> QED
  BY <1>1, <1>2 DEF IInv, IdleFaultHolds, StopIsSafe, StopIsExplained,
     FreshAfterFirstSlow, NoCarriedIntegral

LEMMA StutterIInv == IInv /\ UNCHANGED vars => IInv'
  BY DEF IInv, vars, TypeOK, IdleFaultHolds, StopIsSafe, StopIsExplained,
     FreshAfterFirstSlow, NoCarriedIntegral

-----------------------------------------------------------------------------
(* The strengthened invariant holds in every reachable state.              *)
THEOREM Invariant == Spec => []IInv
<1>1. Init => IInv
  BY InitIInv
<1>2. IInv /\ [Next]_vars => IInv'
  BY ServiceIInv, MotionIInv, FocIInv, PowerCycleIInv, StutterIInv DEF Next
<1> QED
  BY <1>1, <1>2, PTL DEF Spec

(* Every variable keeps its type.                                          *)
THEOREM TypeCorrect == Spec => []TypeOK
<1>1. IInv => TypeOK
  BY DEF IInv
<1> QED
  BY <1>1, Invariant, PTL

(* No step function runs in the middle of on_enter, on_exit or reset.      *)
THEOREM ControllerIsExclusive == Spec => []ControllerExclusive
<1>1. IInv => ControllerExclusive
  BY DEF IInv, ControllerExclusive
<1> QED
  BY <1>1, Invariant, PTL

(* A shutdown outside any operation holds until motor_recover.             *)
THEOREM FaultHolds == Spec => []IdleFaultHolds
<1>1. IInv => IdleFaultHolds
  BY DEF IInv
<1> QED
  BY <1>1, Invariant, PTL

(* A stopped motor has its torque cut, also half way through a recovery.   *)
THEOREM StopCutsTorque == Spec => []StopIsSafe
<1>1. IInv => StopIsSafe
  BY DEF IInv
<1> QED
  BY <1>1, Invariant, PTL

(* The register of a stopped motor says why until it is cleared.           *)
THEOREM StopHasReason == Spec => []StopIsExplained
<1>1. IInv => StopIsExplained
  BY DEF IInv
<1> QED
  BY <1>1, Invariant, PTL

(* No setpoint of an earlier run is used after a run's first slow step.    *)
THEOREM SetpointsAreFresh == Spec => []FreshAfterFirstSlow
<1>1. IInv => FreshAfterFirstSlow
  BY DEF IInv
<1> QED
  BY <1>1, Invariant, PTL

(* No integral carries over from one run to another.                       *)
THEOREM RunsAreSeparate == Spec => []NoCarriedIntegral
<1>1. IInv => NoCarriedIntegral
  BY DEF IInv
<1> QED
  BY <1>1, Invariant, PTL

-----------------------------------------------------------------------------
(* While a shutdown holds, no step puts a vector on the gate.              *)
LEMMA HeldStep == IInv /\ [Next]_vars => [held /\ held' => gate' = gate]_vars
<1> SUFFICES ASSUME IInv, Next, held, held' PROVE gate' = gate
  BY DEF vars
<1>1. CASE Service
  <2>1. CASE motor_init \/ motor_self_test \/ motor_calibrate \/ motor_prepare
    BY <2>1 DEF motor_init, motor_self_test, motor_calibrate, motor_prepare,
       RunPlugins, Check, SetState, motion
  <2>2. CASE motor_enable \/ motor_stop \/ motor_recover
    BY <2>2 DEF motor_enable, motor_stop, motor_recover, OnEnter, EnterRunning,
       ZeroIntegral, ClearRegister, Check, SetState, motion
  <2> QED
    BY <1>1, <2>1, <2>2 DEF Service
<1>2. CASE SlowBegin \/ SlowEnd
  BY <1>2 DEF SlowBegin, SlowEnd
<1>3. CASE FocTask
  BY <1>3 DEF IInv, IdleFaultHolds, FocTask, FastFault, FastDrive,
     motor_fast_loop_budget, WatchdogExpired, safety_enter_estop, BoardShutdown,
     motor_enter_safe_state, motion
<1>4. CASE PowerCycle
  BY <1>4 DEF PowerCycle
<1> QED
  BY <1>1, <1>2, <1>3, <1>4 DEF Next

(* The gate stays as it is from a held shutdown to its recovery.           *)
THEOREM HeldFaultStopsTheDrive == Spec => HeldFaultStopsDrive
  BY Invariant, HeldStep, PTL DEF Spec, HeldFaultStopsDrive

-----------------------------------------------------------------------------
(* The lifecycle implements the interlock: a shutdown is a trip, the store *)
(* of RUNNING a switch-on, the end of motor_recover a rearm; what the      *)
(* interlock does not see is a stutter.                                    *)

LEMMA InitInterlock == Init => Interlock!Init
  BY DEF Init, Interlock!Init

LEMMA ServiceInterlock == IInv /\ Service => [Interlock!Next]_(Interlock!vars)
<1> SUFFICES ASSUME IInv, Service PROVE Interlock!Next \/ UNCHANGED Interlock!vars
  OBVIOUS
<1> USE DEF Interlock!vars, motion, hist
<1>1. CASE motor_init
  BY <1>1 DEF motor_init, IInv
<1>2. CASE EnterRunning
  <2>1. ~held /\ state' = "RUNNING" /\ UNCHANGED <<held, safety, gate>>
    BY <1>2 DEF IInv, EnterRunning, SetState, At
  <2> QED
    BY <2>1 DEF Interlock!SwitchOn, Interlock!Next
<1>3. ASSUME NEW label, NEW s, NEW next, s # "RUNNING",
             SetState(label, s, next), UNCHANGED held
      PROVE  Interlock!Next
  BY <1>3 DEF SetState, Interlock!SwitchOff, Interlock!Next
<1>4. CASE SetState("latched_cleared", "READY", "idle") /\ held' = FALSE
  <2>1. /\ state # "RUNNING" /\ state' # "RUNNING"
        /\ UNCHANGED <<safety, gate>>
    BY <1>4 DEF IInv, SetState, At
  <2>2. CASE held
    BY <2>1, <2>2, <1>4 DEF Interlock!Rearm, Interlock!Next
  <2>3. CASE ~held
    BY <2>1, <2>3, <1>4 DEF Interlock!SwitchOff, Interlock!Next, IInv, TypeOK
  <2> QED
    BY <2>2, <2>3
<1>5. ASSUME UNCHANGED <<state, held, safety, gate>>
      PROVE  UNCHANGED Interlock!vars
  BY <1>5
<1>6. CASE motor_self_test \/ motor_calibrate \/ motor_prepare
  <2>1. CASE RunPlugins \/ (\E s, l : Check(s, l))
    BY <2>1, <1>5 DEF RunPlugins, Check
  <2> QED
    BY <1>3, <1>6, <2>1 DEF motor_self_test, motor_calibrate, motor_prepare
<1>7. CASE motor_enable
  <2>1. CASE OnEnter \/ Check("READY", "enable")
    BY <2>1, <1>5 DEF OnEnter, Check
  <2> QED
    BY <1>2, <1>7, <2>1 DEF motor_enable
<1>8. CASE motor_stop
  <2>1. CASE Check("RUNNING", "stop") \/ (\E l, n : ZeroIntegral(l, n))
    BY <2>1, <1>5 DEF ZeroIntegral, Check
  <2> QED
    BY <1>3, <1>8, <2>1 DEF motor_stop
<1>9. CASE motor_recover
  <2>1. CASE Check("FAULT", "recover") \/ (\E l, f, n : ClearRegister(l, f, n))
    BY <2>1, <1>5 DEF ClearRegister, Check
  <2> QED
    BY <1>4, <1>9, <2>1 DEF motor_recover
<1> QED
  BY <1>1, <1>6, <1>7, <1>8, <1>9 DEF Service

LEMMA FocInterlock == IInv /\ FocTask => [Interlock!Next]_(Interlock!vars)
<1> SUFFICES ASSUME IInv, FocTask PROVE Interlock!Next
  OBVIOUS
<1>1. ASSUME NEW c, motor_enter_safe_state(c)
      PROVE  Interlock!Next
  <2>1. /\ state' # "RUNNING" /\ safety' # "SAFE_OK" /\ gate' = gate
        /\ held' \in {held, TRUE}
    BY <1>1 DEF motor_enter_safe_state, motion, IInv, TypeOK
  <2> QED
    BY <2>1 DEF Interlock!Trip, Interlock!Next
<1>2. CASE FastDrive
  <2>1. ~held
    BY <1>2 DEF FastDrive, IInv, IdleFaultHolds
  <2> QED
    BY <1>2, <2>1 DEF FastDrive, hist, Interlock!Drive, Interlock!Next
<1>3. CASE WatchdogExpired \/ safety_enter_estop
  BY <1>3 DEF WatchdogExpired, safety_enter_estop, motion, hist,
     Interlock!CutTorque, Interlock!Next
<1> QED
  BY <1>1, <1>2, <1>3 DEF FocTask, FastFault, motor_fast_loop_budget, BoardShutdown

(* Every behaviour of the three tasks is a behaviour of the interlock.     *)
THEOREM Implementation == Spec => ImplementsInterlock
<1>1. IInv /\ [Next]_vars => [Interlock!Next]_(Interlock!vars)
  <2> SUFFICES ASSUME IInv, [Next]_vars
               PROVE  Interlock!Next \/ UNCHANGED Interlock!vars
    OBVIOUS
  <2>1. CASE SlowBegin \/ SlowEnd
    BY <2>1 DEF SlowBegin, SlowEnd, hist, Interlock!vars
  <2>2. CASE PowerCycle
    BY <2>2 DEF PowerCycle, Interlock!PowerCycle, Interlock!Next
  <2>3. CASE UNCHANGED vars
    BY <2>3 DEF vars, Interlock!vars
  <2> QED
    BY <2>1, <2>2, <2>3, ServiceInterlock, FocInterlock DEF Next
<1> QED
  BY <1>1, InitInterlock, Invariant, PTL DEF Spec, ImplementsInterlock, Interlock!Spec

=============================================================================
