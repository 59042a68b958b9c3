-------------------------------- MODULE Timing --------------------------------
(***************************************************************************)
(* What the FOC task makes of the clock: TimeBase (src/runtime/timebase.c) *)
(* at its head, the dt that motor_fast_step hands to the controller,       *)
(* RuntimeStats (src/runtime/stats.c), the cycle budget, and the software  *)
(* watchdog (src/safety/safety.c), in the order of README.md:1298:         *)
(*                                                                         *)
(*   timebase_update, motor_fast_step, motor_fast_loop_budget,             *)
(*   safety_check, safety_watchdog_feed                                    *)
(*                                                                         *)
(* The task has the highest priority, and is late or slow all the same:    *)
(* any duration of Delay passes before a cycle and during a fast step.     *)
(* Times are whole microseconds: dt is a float of seconds, less than 1 us  *)
(* from the integer it stands for below 4 s, so that only the conversion   *)
(* back in stats_update, which truncates, can tell the difference.         *)
(*                                                                         *)
(* A sample of the clock has the reading us that the code sees, and base,  *)
(* the time at which the clock last started at 0, which it does not see:   *)
(* the clock may be narrower than the 64 bits it is handed out in, and     *)
(* wrap.                                                                   *)
(*                                                                         *)
(* TimeBase.cycle is left out, nothing reads it.  The Motion task runs the *)
(* same code on a TimeBase of its own.                                     *)
(***************************************************************************)
EXTENDS Integers

CONSTANTS
  DtMax,     \* the board's limit for a measured dt
  Short,     \* dt that (uint32_t)(dt * 1000000.0f) makes 1 us less: 247 us is one
  Budget,    \* FAST_BUDGET_US of the board
  Timeout,   \* safety.wdt_timeout_us
  ClockMod,  \* the clock counts from 0 to ClockMod - 1
  CountMod,  \* 2^32, the range of loop_count
  Delay,     \* how long anything may take
  PowerOn,   \* what the clock may read at first
  MaxTime    \* bound: the time up to which cycles begin

ASSUME LimitsAssumption ==
  /\ DtMax \in Nat /\ Budget \in Nat
  /\ Short \subseteq Nat \ {0}   \* nothing is lost of dt = 0
  /\ Timeout \in Nat \ {0}   \* 0 turns the watchdog off
  /\ CountMod \in Nat /\ CountMod > 1
  /\ MaxTime \in Nat
ASSUME ClockAssumption ==
  /\ ClockMod \in Nat /\ Timeout < ClockMod
  /\ Delay \subseteq Nat /\ PowerOn \subseteq 0 .. ClockMod - 1
  /\ \A d, e \in Delay : d + e < ClockMod   \* no cycle takes a lap of the clock

VARIABLES
  clock,         \* the clock now
  running,       \* rt->state = FOC_STATE_RUNNING
  pc,            \* the call the FOC task makes next, "wait" between cycles
  now,           \* the sample at the head of this cycle
  dt,            \* tb->dt; tb->timestamp_us is now.us
  timestamp,     \* rt->timestamp
  stats,         \* rt->stats
  safety,        \* rt->safety.state
  estop,         \* hal_set_estop(true) was called
  last_feed_us,  \* rt->safety.last_feed_us
  \* History, no part of the program:
  prev,          \* the sample at the head of the cycle before
  from,          \* the sample at the last head before this run
  handed,        \* the sum of the dt given to the controller in this run
  clean,         \* every interval of this run could be measured
  least, worst,  \* intervals of the steps since loop_count last was 1
  fed,           \* the sample of the last feed, or 0
  starved,       \* a check came late
  seen           \* a check came late, and the clock had not wrapped

program == <<clock, running, pc, now, dt, timestamp, stats, safety, estop, last_feed_us>>
history == <<prev, from, handed, clean, least, worst, fed, starved, seen>>
vars    == <<program, history>>

Sample  == [us : 0 .. ClockMod - 1, base : Nat]
Time(s) == s.base + s.us
Least(a, b) == IF a < b THEN a ELSE b

\* The code can tell how long it is from a to b.
Tellable(a, b) == a.base = b.base /\ a.us # 0

Interval == IF Tellable(prev, now) THEN Time(now) - Time(prev) ELSE 0

stats_init == [loop_count |-> 0, max_exec_us |-> 0, overrun_count |-> 0,
               min_dt_us |-> 0, max_dt_us |-> 0]

\* timebase_init by the board, with the time or with 0; then motor_init.
Init ==
  /\ clock \in [us : PowerOn, base : {0}]
  /\ now \in {clock, [us |-> 0, base |-> 0]}
  /\ dt = 0 /\ timestamp = 0 /\ stats = stats_init
  /\ running = FALSE /\ pc = "wait"
  /\ safety = "SAFE_OK" /\ estop = FALSE /\ last_feed_us = 0
  /\ prev = now /\ from = now /\ handed = 0 /\ clean = TRUE
  /\ least = 0 /\ worst = 0
  /\ fed = [us |-> 0, base |-> 0] /\ starved = FALSE /\ seen = FALSE

\* External: the clock d later.
After(d) ==
  IF clock.us + d < ClockMod
  THEN [us |-> clock.us + d, base |-> clock.base]
  ELSE [us |-> clock.us + d - ClockMod, base |-> clock.base + ClockMod]

-----------------------------------------------------------------------------
(* The Service task, which runs between cycles only.                       *)

\* motor_enable; MotorLifecycle says when it may.
motor_enable ==
  /\ pc = "wait" /\ ~running /\ running' = TRUE
  /\ from' = now /\ handed' = 0 /\ clean' = TRUE
  /\ UNCHANGED <<clock, pc, now, dt, timestamp, stats, safety, estop, last_feed_us,
                 prev, least, worst, fed, starved, seen>>

motor_stop ==
  /\ pc = "wait" /\ running /\ running' = FALSE
  /\ UNCHANGED <<clock, pc, now, dt, timestamp, stats, safety, estop, last_feed_us, history>>

-----------------------------------------------------------------------------
(* The FOC task.                                                           *)

\* Mutant: the time is not compared, and the difference is unsigned.
Measured_Unsigned(ts, us) ==
  IF ts = 0 THEN 0 ELSE IF us >= ts THEN Least(us - ts, DtMax) ELSE DtMax

Measured(ts, us) == IF ts # 0 /\ us > ts THEN Least(us - ts, DtMax) ELSE 0

timebase_update ==
  /\ pc = "wait" /\ pc' = "step"
  /\ Time(clock) < MaxTime
  /\ \E d \in Delay :
       /\ clock' = After(d) /\ now' = After(d)
       /\ dt' = Measured(now.us, After(d).us)
       /\ clean' = (clean /\ Tellable(now, After(d)) /\ Time(After(d)) - Time(now) <= DtMax)
  /\ prev' = now
  /\ UNCHANGED <<running, timestamp, stats, safety, estop, last_feed_us,
                 from, handed, least, worst, fed, starved, seen>>

\* dt_us of a dt.
Stored(d) == IF d \in Short THEN d - 1 ELSE d

\* Mutant: the first cycle is told by the count before it is advanced.
stats_update_Late(s, tick) ==
  LET d == Stored(tick) IN
  [loop_count    |-> IF s.loop_count = CountMod - 1 THEN 0 ELSE s.loop_count + 1,
   max_exec_us   |-> s.max_exec_us,
   overrun_count |-> s.overrun_count,
   min_dt_us     |-> IF s.loop_count = 1 \/ d < s.min_dt_us THEN d ELSE s.min_dt_us,
   max_dt_us     |-> IF s.loop_count = 1 \/ d > s.max_dt_us THEN d ELSE s.max_dt_us]

Count(n) == IF n = CountMod - 1 THEN 0 ELSE n + 1

stats_update(s, tick) ==
  LET first == Count(s.loop_count) = 1
      d     == Stored(tick)
  IN
  [loop_count    |-> Count(s.loop_count),
   max_exec_us   |-> s.max_exec_us,
   overrun_count |-> s.overrun_count,
   min_dt_us     |-> IF first \/ d < s.min_dt_us THEN d ELSE s.min_dt_us,
   max_dt_us     |-> IF first \/ d > s.max_dt_us THEN d ELSE s.max_dt_us]

\* Steps on to the budget, some time later.
Stepped == pc = "step" /\ pc' = "budget" /\ \E d \in Delay : clock' = After(d)

StepNotRunning ==
  /\ Stepped /\ ~running
  /\ UNCHANGED <<running, now, dt, timestamp, stats, safety, estop, last_feed_us, history>>

\* One of the checks fails: no step_fast, no statistics.
StepFaults ==
  /\ Stepped /\ running
  /\ running' = FALSE /\ safety' = "SAFE_STO"
  /\ UNCHANGED <<now, dt, timestamp, stats, estop, last_feed_us, history>>

StepCompletes ==
  /\ Stepped /\ running
  /\ handed' = handed + dt
  /\ stats' = stats_update(stats, dt)
  /\ timestamp' = now.us
  /\ LET first == stats'.loop_count = 1 IN
       /\ least' = IF first \/ Interval < least THEN Interval ELSE least
       /\ worst' = IF first \/ Interval > worst THEN Interval ELSE worst
  /\ UNCHANGED <<running, now, dt, safety, estop, last_feed_us,
                 prev, from, clean, fed, starved, seen>>

motor_fast_step == StepNotRunning \/ StepFaults \/ StepCompletes

\* exec_us is taken around motor_fast_step, in every state of the motor.
Exec == Time(clock) - Time(now)

motor_fast_loop_budget ==
  /\ pc = "budget" /\ pc' = "check"
  /\ stats' = [loop_count    |-> stats.loop_count,
               max_exec_us   |-> IF Exec > stats.max_exec_us THEN Exec ELSE stats.max_exec_us,
               overrun_count |-> IF Exec > Budget THEN Count(stats.overrun_count)
                                                  ELSE stats.overrun_count,
               min_dt_us     |-> stats.min_dt_us,
               max_dt_us     |-> stats.max_dt_us]
  /\ running' = (running /\ Exec <= Budget)
  /\ safety' = IF Exec > Budget THEN "SAFE_STO" ELSE safety
  /\ UNCHANGED <<clock, now, dt, timestamp, estop, last_feed_us, history>>

\* The board passes the sample of the head or a new one.
Samples == {now, clock}

\* Mutant: the guard against a clock that is behind the last feed is gone.
Expired_Unsigned(us) == us < last_feed_us \/ us - last_feed_us > Timeout

Expired(us) == us > last_feed_us /\ us - last_feed_us > Timeout

Overdue(s) == Time(s) - Time(fed) > Timeout

safety_check ==
  /\ pc = "check" /\ pc' = "feed"
  /\ \E s \in Samples :
       /\ estop' = (estop \/ Expired(s.us))
       /\ safety' = IF Expired(s.us) THEN "SAFE_FAULT_LATCH" ELSE safety
       /\ starved' = (starved \/ Overdue(s))
       /\ seen' = (seen \/ (s.base = fed.base /\ Overdue(s)))
  /\ UNCHANGED <<clock, running, now, dt, timestamp, stats, last_feed_us,
                 prev, from, handed, clean, least, worst, fed>>

safety_watchdog_feed ==
  /\ pc = "feed" /\ pc' = "wait"
  /\ \E s \in Samples : last_feed_us' = s.us /\ fed' = s
  /\ UNCHANGED <<clock, running, now, dt, timestamp, stats, safety, estop,
                 prev, from, handed, clean, least, worst, starved, seen>>

Next ==
  \/ motor_enable \/ motor_stop
  \/ timebase_update \/ motor_fast_step \/ motor_fast_loop_budget
  \/ safety_check \/ safety_watchdog_feed

Spec == Init /\ [][Next]_vars

-----------------------------------------------------------------------------
(* Every variable has its type.                                            *)
TypeOK ==
  /\ clock \in Sample /\ now \in Sample
  /\ prev \in Sample /\ from \in Sample /\ fed \in Sample
  /\ running \in BOOLEAN /\ estop \in BOOLEAN
  /\ clean \in BOOLEAN /\ starved \in BOOLEAN /\ seen \in BOOLEAN
  /\ pc \in {"wait", "step", "budget", "check", "feed"}
  /\ safety \in {"SAFE_OK", "SAFE_STO", "SAFE_FAULT_LATCH"}
  /\ dt \in 0 .. DtMax /\ timestamp \in 0 .. ClockMod - 1
  /\ last_feed_us \in 0 .. ClockMod - 1
  /\ handed \in Nat /\ least \in Nat /\ worst \in Nat
  /\ stats \in [loop_count : Nat, max_exec_us : Nat, overrun_count : Nat,
                min_dt_us : Nat, max_dt_us : Nat]

(* The dt that the controller integrates over a run never add up to more   *)
(* than the time that passed, through late cycles, a clock that wraps and  *)
(* a time base started at 0 (timebase.c:22-29); and while each interval is *)
(* at most DtMax and can be told, they add up to exactly that time.        *)
TimeIsMeasured ==
  running /\ pc # "step" =>
    /\ handed <= Time(now) - Time(from)
    /\ clean => handed = Time(now) - Time(from)

(* The statistics show the shortest and the longest interval, the latter   *)
(* up to DtMax, of the steps since loop_count last was 1, or 1 us less,    *)
(* whatever the runs and the cycles in between that faulted or did not run *)
(* (stats.c:24-33).                                                        *)
Shows(us, t) == us \in Least(t, DtMax) - 1 .. Least(t, DtMax)

JitterShows == Shows(stats.max_dt_us, worst) /\ Shows(stats.min_dt_us, least)

(* The watchdog stops the motor only if a check came more than Timeout     *)
(* after the last feed, or before the first feed more than Timeout after   *)
(* the clock was 0; and if one did, and the clock did not wrap meanwhile,  *)
(* it has, whatever else stopped it first (safety.c:46-50).                *)
AlarmIsRight == (estop => starved) /\ (seen => estop)
=============================================================================
