--------------------------- MODULE MotorLifecycle ---------------------------
(***************************************************************************)
(* The lifecycle of one motor (src/core/motor_runtime.c) as its three      *)
(* tasks run it on one core under fixed-priority preemption:               *)
(*                                                                         *)
(*   FOC task      highest  motor_fast_step, motor_fast_loop_budget,       *)
(*                          safety_check, the board's own shutdowns        *)
(*   Motion task   middle   motor_slow_step                                *)
(*   Service task  lowest   the lifecycle API (init .. recover)            *)
(*                                                                         *)
(* A step of the FOC task is atomic: nothing preempts it.  motor_slow_step *)
(* is two steps, between which the FOC task may run.  An operation of the  *)
(* Service task is one step per statement that reads or writes shared      *)
(* state, and both other tasks may run between two of them: pc says which  *)
(* statement comes next.  The operations that a guard rejects return       *)
(* FOC_ERROR and change nothing, so they are no actions here.              *)
(*                                                                         *)
(* Numbers are abstracted to the run they were computed in: run counts the *)
(* motor_enable calls that completed, and a setpoint, a gate vector or a   *)
(* velocity integral is the run it belongs to (0: the initial zero).       *)
(***************************************************************************)
EXTENDS Naturals, Fault

CONSTANTS
  BoardCodes,   \* the codes the board passes to motor_enter_safe_state
  SafetyWired,  \* whether the board set safety.fault to the motor's register
  MaxRuns       \* bound: motor_enable calls that complete

ASSUME BoardCodesAssumption  == BoardCodes \subseteq FaultCode
ASSUME SafetyWiredAssumption == SafetyWired \in BOOLEAN
ASSUME MaxRunsAssumption     == MaxRuns \in Nat

VARIABLES
  state,    \* rt->state
  fault,    \* *rt->fault
  safety,   \* rt->safety.state
  sp,       \* the active slot of rt->sp_buf: the run that computed it
  integ,    \* the controller's velocity integral: the run it accumulated in
  gate,     \* the last vector given to gate_set_output: its setpoint's run
  pc,       \* the statement at which the Service task is, "idle" outside
  slow,     \* the run whose motor_slow_step is in progress, 0 if none is
  \* History, no part of the program:
  run,      \* motor_enable calls that completed
  fresh,    \* a motor_slow_step completed in this run
  held      \* a shutdown came while no operation was in progress, and no
            \* motor_recover completed since

vars == <<state, fault, safety, sp, integ, gate, pc, slow, run, fresh, held>>

hist   == <<run, fresh, held>>
motion == <<sp, integ, gate, slow>>

FocState == {"CREATED", "INIT", "SELF_TEST", "CALIBRATION", "READY",
             "RUNNING", "STOPPING", "FAULT", "LOCK"}

SafetyState == {"SAFE_OK", "SAFE_STO", "SAFE_ESTOP", "SAFE_FAULT_LATCH"}

\* Each label is the operation in progress and what it has done so far.
Label == {"idle", "self_test", "self_tested", "calibrate", "calibrated",
          "prepare", "enable", "entered", "stop", "stopping", "exited", "reset",
          "recover", "current_cleared", "latched_cleared"}

-----------------------------------------------------------------------------
(* Power on: rt is zero-initialised RAM, FOC_STATE_CREATED = 0.            *)

Init ==
  /\ state = "CREATED" /\ pc = "idle"
  /\ fault = fault_init /\ safety = "SAFE_OK"
  /\ sp = 0 /\ integ = 0 /\ gate = 0 /\ slow = 0
  /\ run = 0 /\ fresh = FALSE /\ held = FALSE

(* The board calls motor_init once, before it starts the other tasks.      *)
motor_init ==
  /\ state = "CREATED" /\ pc = "idle"
  /\ state' = "INIT"
  /\ safety' = "SAFE_OK" /\ sp' = 0 /\ integ' = 0
  /\ UNCHANGED <<fault, gate, slow, pc, hist>>

-----------------------------------------------------------------------------
(* The Service task.  It runs when the Motion task is not in progress.     *)

\* The check at the head of an operation: from is the state it requires.
Check(from, label) ==
  /\ slow = 0
  /\ pc = "idle" /\ pc' = label
  /\ state = from
  /\ UNCHANGED <<state, fault, safety, motion, hist>>

At(label, next) == slow = 0 /\ pc = label /\ pc' = next

\* A store to rt->state, after the check and whatever came in between.
SetState(label, s, next) ==
  /\ At(label, next)
  /\ state' = s
  /\ UNCHANGED <<fault, safety, motion>>

motor_self_test ==
  \/ Check("INIT", "self_test")
  \/ SetState("self_test", "SELF_TEST", "self_tested") /\ UNCHANGED hist
  \/ SetState("self_tested", "CALIBRATION", "idle") /\ UNCHANGED hist

\* The results of the plugins are discarded.
RunPlugins ==
  /\ At("calibrate", "calibrated")
  /\ UNCHANGED <<state, fault, safety, motion, hist>>

motor_calibrate ==
  \/ Check("CALIBRATION", "calibrate")
  \/ RunPlugins
  \/ SetState("calibrated", "READY", "idle") /\ UNCHANGED hist

\* Mutant: the state is not checked.
motor_prepare_Unguarded ==
  \/ \E s \in FocState : Check(s, "prepare")
  \/ SetState("prepare", "READY", "idle") /\ UNCHANGED hist

motor_prepare ==
  \/ Check("CALIBRATION", "prepare")
  \/ SetState("prepare", "READY", "idle") /\ UNCHANGED hist

\* Mutant: the integral is left as it was.
OnEnter_KeepsIntegral ==
  /\ At("enable", "entered")
  /\ UNCHANGED <<state, fault, safety, motion, hist>>

\* on_enter zeroes the integral.
OnEnter ==
  /\ At("enable", "entered")
  /\ integ' = 0
  /\ UNCHANGED <<state, fault, safety, sp, gate, slow, hist>>

EnterRunning ==
  /\ SetState("entered", "RUNNING", "idle")
  /\ run' = run + 1 /\ fresh' = FALSE
  /\ UNCHANGED held

\* Mutant: enabling out of FAULT is not rejected.
motor_enable_FromFault ==
  \/ run < MaxRuns /\ (Check("READY", "enable") \/ Check("FAULT", "enable"))
  \/ OnEnter
  \/ EnterRunning

motor_enable ==
  \/ run < MaxRuns /\ Check("READY", "enable")
  \/ OnEnter
  \/ EnterRunning

\* on_exit and reset both zero the integral.
ZeroIntegral(label, next) ==
  /\ At(label, next)
  /\ integ' = 0
  /\ UNCHANGED <<state, fault, safety, sp, gate, slow, hist>>

\* Mutant: STOPPING is stored after on_exit, not before it.
motor_stop_LateStopping ==
  \/ Check("RUNNING", "stopping")
  \/ ZeroIntegral("stopping", "stop")
  \/ SetState("stop", "STOPPING", "exited") /\ UNCHANGED hist
  \/ ZeroIntegral("exited", "reset")
  \/ SetState("reset", "READY", "idle") /\ UNCHANGED hist

motor_stop ==
  \/ Check("RUNNING", "stop")
  \/ SetState("stop", "STOPPING", "stopping") /\ UNCHANGED hist
  \/ ZeroIntegral("stopping", "exited")
  \/ ZeroIntegral("exited", "reset")
  \/ SetState("reset", "READY", "idle") /\ UNCHANGED hist

ClearRegister(label, cleared, next) ==
  /\ At(label, next)
  /\ fault' = cleared
  /\ UNCHANGED <<state, safety, motion, hist>>

\* Mutant: the state is released before the register is cleared.
motor_recover_EarlyReady ==
  \/ Check("FAULT", "recover")
  \/ /\ SetState("recover", "READY", "current_cleared")
     /\ held' = FALSE
     /\ UNCHANGED <<run, fresh>>
  \/ ClearRegister("current_cleared", [fault EXCEPT !.current = {}], "latched_cleared")
  \/ ClearRegister("latched_cleared", [fault EXCEPT !.latched = {}], "idle")

motor_recover ==
  \/ Check("FAULT", "recover")
  \/ ClearRegister("recover", [fault EXCEPT !.current = {}], "current_cleared")
  \/ ClearRegister("current_cleared", [fault EXCEPT !.latched = {}], "latched_cleared")
  \/ /\ SetState("latched_cleared", "READY", "idle")
     /\ held' = FALSE
     /\ UNCHANGED <<run, fresh>>

Service ==
  \/ motor_init \/ motor_self_test \/ motor_calibrate \/ motor_prepare
  \/ motor_enable \/ motor_stop \/ motor_recover

-----------------------------------------------------------------------------
(* The Motion task.                                                        *)

\* The guard, and the reads of configuration, command and feedback.
SlowBegin ==
  /\ slow = 0 /\ state = "RUNNING"
  /\ slow' = run
  /\ UNCHANGED <<state, fault, safety, sp, integ, gate, pc, hist>>

\* Mutant: the setpoint is computed and never stored.
SlowEnd_NoWrite ==
  /\ slow # 0
  /\ integ' = slow /\ slow' = 0
  /\ fresh' = TRUE
  /\ UNCHANGED <<state, fault, safety, sp, gate, pc, run, held>>

\* step_slow and setpoint_write, whatever became of the state meanwhile.
SlowEnd ==
  /\ slow # 0
  /\ sp' = slow /\ integ' = slow /\ slow' = 0
  /\ fresh' = TRUE
  /\ UNCHANGED <<state, fault, safety, gate, pc, run, held>>

-----------------------------------------------------------------------------
(* The FOC task.                                                           *)

RaiseSafety(f) == IF SafetyWired THEN fault_raise(f, "SAFETY", "CRITICAL") ELSE f

\* Mutant: the state changes, the torque line does not.
motor_enter_safe_state_NoSto(c) ==
  /\ state' = IF fault_get_action(c) = "LATCH" THEN "LOCK" ELSE "FAULT"
  /\ fault' = fault_raise(fault, c, "CRITICAL")
  /\ held' = (held \/ pc = "idle")
  /\ UNCHANGED <<safety, motion, pc, run, fresh>>

motor_enter_safe_state(c) ==
  /\ state' = IF fault_get_action(c) = "LATCH" THEN "LOCK" ELSE "FAULT"
  /\ fault' = RaiseSafety(fault_raise(fault, c, "CRITICAL"))
  /\ safety' = "SAFE_STO"
  /\ held' = (held \/ pc = "idle")
  /\ UNCHANGED <<motion, pc, run, fresh>>

FastFaults == {"ENCODER_LOSS", "ENCODER_QUALITY", "GATE_DRIVER", "OVERCURRENT"}

\* One of the checks of motor_fast_step fails before anything is driven.
FastFault ==
  /\ state = "RUNNING"
  /\ \E c \in FastFaults : motor_enter_safe_state(c)

\* Mutant: the guard of motor_fast_step is gone.
FastDrive_Unguarded ==
  /\ gate' = sp
  /\ UNCHANGED <<state, fault, safety, sp, integ, slow, pc, hist>>

\* All of them pass: the held setpoint goes through step_fast to the gate.
FastDrive ==
  /\ state = "RUNNING"
  /\ gate' = sp
  /\ UNCHANGED <<state, fault, safety, sp, integ, slow, pc, hist>>

\* Measured around motor_fast_step in every cycle, in every state.
motor_fast_loop_budget ==
  /\ state # "CREATED"
  /\ motor_enter_safe_state("CONTROL_OVERRUN")

\* safety_check finds the software watchdog expired: rt->state is not touched.
WatchdogExpired ==
  /\ state # "CREATED"
  /\ safety' = "SAFE_FAULT_LATCH"
  /\ fault' = RaiseSafety(fault)
  /\ UNCHANGED <<state, motion, pc, hist>>

\* External: the board's emergency stop input.
safety_enter_estop ==
  /\ state # "CREATED"
  /\ safety' = "SAFE_ESTOP"
  /\ fault' = RaiseSafety(fault)
  /\ UNCHANGED <<state, motion, pc, hist>>

\* External: a shutdown the board asks for, from its fault interrupt.
BoardShutdown ==
  /\ state # "CREATED"
  /\ \E c \in BoardCodes : motor_enter_safe_state(c)

FocTask ==
  \/ FastFault \/ FastDrive \/ motor_fast_loop_budget \/ WatchdogExpired
  \/ safety_enter_estop \/ BoardShutdown

-----------------------------------------------------------------------------
\* External: all of it is volatile memory.
PowerCycle ==
  /\ state' = "CREATED" /\ pc' = "idle"
  /\ fault' = fault_init /\ safety' = "SAFE_OK"
  /\ sp' = 0 /\ integ' = 0 /\ gate' = 0 /\ slow' = 0
  /\ run' = 0 /\ fresh' = FALSE /\ held' = FALSE

Next == Service \/ SlowBegin \/ SlowEnd \/ FocTask \/ PowerCycle

Spec == Init /\ [][Next]_vars

-----------------------------------------------------------------------------
TypeOK ==
  /\ state \in FocState
  /\ fault \in FaultReg
  /\ safety \in SafetyState
  /\ pc \in Label
  /\ sp \in Nat /\ integ \in Nat /\ gate \in Nat /\ slow \in Nat /\ run \in Nat
  /\ fresh \in BOOLEAN /\ held \in BOOLEAN

-----------------------------------------------------------------------------
(* What the interleaving of the three tasks may not break.                 *)

(* The controller is one object that the Service task resets and the other *)
(* two tasks step.  on_enter runs before the state becomes RUNNING, on_exit *)
(* and reset run after it stopped being RUNNING (motor_runtime.c:116-118,  *)
(* 126-128), so neither step function can run in the middle of one.        *)
ControllerExclusive ==
  pc \in {"enable", "stopping", "exited"} => state # "RUNNING" /\ slow = 0

(* A shutdown that comes while no operation is in progress holds until a   *)
(* motor_recover completes, whatever other operation is tried first.       *)
IdleFaultHolds == held => state \in {"FAULT", "LOCK"}

(* While such a shutdown holds the gate gets no new vector, not even from  *)
(* the motor_slow_step that was in progress when the fault came.           *)
HeldFaultStopsDrive == [][held /\ held' => gate' = gate]_vars

(* A stopped motor has its torque line off, also across a recovery: no code *)
(* path leads back to SAFE_OK (motor_enter_safe_state:166-167).            *)
StopIsSafe == state \in {"FAULT", "LOCK"} => safety # "SAFE_OK"

(* A stopped motor can say why: its register holds a latched code until    *)
(* the motor_recover that leaves the state cleared it (142, 144).          *)
StopIsExplained ==
  state \in {"FAULT", "LOCK"} /\ pc # "latched_cleared" => fault.latched # {}

(* From the first motor_slow_step of a run on, the setpoint the FOC task   *)
(* reads is one of this run: a motor_slow_step that began in an earlier run *)
(* cannot store its result late.  (Before it, the FOC task does apply the  *)
(* last setpoint of the run before: nothing resets sp_buf.)                *)
FreshAfterFirstSlow == fresh => sp = run

(* The velocity integral never carries over from an earlier run, neither   *)
(* after motor_stop nor after a fault that skipped on_exit and reset.      *)
NoCarriedIntegral == integ # 0 => fresh /\ integ = run

(* The inductive strengthening of the invariants above: where the Service  *)
(* task can be while the motor runs, while a slow step is in progress and  *)
(* while a shutdown holds, and that nothing ran before motor_init.         *)
IInv ==
  /\ TypeOK
  /\ state = "CREATED" => ~fresh /\ slow = 0 /\ safety = "SAFE_OK"
  /\ state = "RUNNING" => pc \in {"idle", "stop"}
  /\ slow # 0 => slow = run /\ pc \in {"idle", "stop"}
  /\ held => pc \in {"idle", "recover", "current_cleared", "latched_cleared"}
  /\ pc = "entered" => integ = 0
  /\ IdleFaultHolds /\ StopIsSafe /\ StopIsExplained
  /\ FreshAfterFirstSlow /\ NoCarriedIntegral

(* All of it together is an interlock: see Interlock for what it promises. *)
Interlock == INSTANCE Interlock WITH
  on <- state = "RUNNING", tripped <- held,
  torqueCut <- safety # "SAFE_OK", vector <- gate

ImplementsInterlock == Interlock!Spec

=============================================================================
