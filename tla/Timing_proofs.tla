----------------------------- MODULE Timing_proofs -----------------------------
(***************************************************************************)
(* TimeIsMeasured, JitterShows and AlarmIsRight for every limit, width of  *)
(* the clock and of the counter, and set of delays without a whole lap.    *)
(***************************************************************************)
EXTENDS Timing, TLAPS

\* Where the clock is: it moved by at most one delay since the head of the
\* cycle, and not at all before the step; a time base started at 0 may lag.
ClockIsNear ==
  /\ pc = "step" => clock = now
  /\ now.base = clock.base \/ now.base + ClockMod <= clock.base
  /\ \/ now.us = 0
     \/ clock = now
     \/ \E d \in Delay : Time(clock) = Time(now) + d

\* dt is the interval as far as it can be told, up to its limit.
DtIsInterval ==
  /\ Time(prev) <= Time(now)
  /\ Interval \in Nat
  /\ dt = Least(Interval, DtMax)

\* The sum of the dt handed over, with the one about to be.
Due == IF pc = "step" THEN handed + dt ELSE handed

RunIsMeasured ==
  running =>
    /\ Due <= Time(now) - Time(from)
    /\ clean => Due = Time(now) - Time(from)

\* The program has the reading of the last feed, which is past.
FeedIsPast ==
  /\ last_feed_us = fed.us
  /\ fed.base <= clock.base
  /\ pc # "wait" => fed.base <= now.base

\* The extremes are those of the intervals, truncated once.
ExtremesAreStored ==
  /\ stats.max_dt_us = Stored(Least(worst, DtMax))
  /\ stats.min_dt_us = Stored(Least(least, DtMax))

IInv ==
  /\ TypeOK /\ ClockIsNear /\ DtIsInterval /\ RunIsMeasured
  /\ ExtremesAreStored /\ FeedIsPast /\ AlarmIsRight

-----------------------------------------------------------------------------
\* What the proofs use of TypeOK.
LEMMA Types ==
  ASSUME TypeOK
  PROVE  /\ clock \in Sample /\ now \in Sample /\ prev \in Sample /\ from \in Sample
         /\ fed \in Sample
         /\ running \in BOOLEAN /\ estop \in BOOLEAN /\ clean \in BOOLEAN
         /\ starved \in BOOLEAN /\ seen \in BOOLEAN
         /\ dt \in Nat /\ dt <= DtMax /\ last_feed_us \in Nat
         /\ handed \in Nat /\ least \in Nat /\ worst \in Nat
         /\ stats.loop_count \in Nat /\ stats.max_exec_us \in Nat
         /\ stats.overrun_count \in Nat
         /\ stats.min_dt_us \in Nat /\ stats.max_dt_us \in Nat
BY LimitsAssumption DEF TypeOK

\* The conversion to microseconds keeps the order, and is one short at most.
LEMMA StoredIsMonotone ==
  /\ Stored(0) = 0
  /\ \A d \in Nat : Stored(d) \in Nat
  /\ \A d, e \in Nat : d <= e => Stored(d) <= Stored(e)
BY LimitsAssumption DEF Stored

\* Time as a number.
LEMMA TimeType == \A s \in Sample :
  /\ s.us \in Nat /\ s.us < ClockMod /\ s.base \in Nat
  /\ Time(s) \in Nat /\ Time(s) = s.base + s.us
BY ClockAssumption DEF Sample, Time

\* What After makes of the clock.
LEMMA AfterMoves ==
  ASSUME TypeOK, NEW d \in Delay
  PROVE  /\ After(d) \in Sample /\ d \in Nat /\ d < ClockMod
         /\ Time(After(d)) = Time(clock) + d
         /\ After(d).base \in {clock.base, clock.base + ClockMod}
<1>1. clock.us \in Nat /\ clock.us < ClockMod /\ clock.base \in Nat
  BY Types, TimeType
<1>2. d \in Nat /\ d < ClockMod /\ ClockMod \in Nat
  <2>1. d \in Nat /\ d + d < ClockMod /\ ClockMod \in Nat
    BY ClockAssumption
  <2> QED
    BY <2>1
<1>3. CASE clock.us + d < ClockMod
  <2>1. After(d) = [us |-> clock.us + d, base |-> clock.base]
    BY <1>3 DEF After
  <2> QED
    BY <1>1, <1>2, <1>3, <2>1 DEF Sample, Time
<1>4. CASE ~(clock.us + d < ClockMod)
  <2>1. After(d) = [us |-> clock.us + d - ClockMod, base |-> clock.base + ClockMod]
    BY <1>4 DEF After
  <2> QED
    BY <1>1, <1>2, <1>4, <2>1 DEF Sample, Time
<1> QED
  BY <1>3, <1>4

LEMMA InitIInv == Init => IInv
<1> SUFFICES ASSUME Init PROVE IInv
  OBVIOUS
<1>1. clock \in Sample /\ now \in Sample /\ prev = now /\ from = now /\ clock.base = 0
      /\ now.base = 0 /\ (now = clock \/ now.us = 0)
  <2>1. clock.us \in 0 .. ClockMod - 1 /\ clock.base = 0
        /\ clock = [us |-> clock.us, base |-> clock.base]
    BY ClockAssumption DEF Init
  <2>2. clock \in Sample /\ [us |-> 0, base |-> 0] \in Sample
    BY <2>1, ClockAssumption, LimitsAssumption DEF Sample
  <2> QED
    BY <2>1, <2>2 DEF Init
<1>2. fed.us = 0 /\ fed.base = 0 /\ fed \in Sample
  BY ClockAssumption, LimitsAssumption DEF Init, Sample
<1>3. TypeOK
  <2>1. dt \in 0 .. DtMax /\ timestamp \in 0 .. ClockMod - 1 /\ last_feed_us \in 0 .. ClockMod - 1
    BY LimitsAssumption, ClockAssumption DEF Init
  <2>2. stats \in [loop_count : Nat, max_exec_us : Nat, overrun_count : Nat,
                   min_dt_us : Nat, max_dt_us : Nat]
    BY DEF Init, stats_init
  <2> QED
    BY <1>1, <1>2, <2>1, <2>2 DEF Init, TypeOK
<1>4. ClockIsNear
  BY <1>1 DEF ClockIsNear, Init
<1>5. DtIsInterval
  <2>1. Time(prev) = Time(now) /\ Time(now) \in Nat
    BY <1>1, TimeType
  <2>2. Interval = 0
    BY <1>1, <2>1 DEF Interval
  <2> QED
    BY <2>1, <2>2, LimitsAssumption DEF DtIsInterval, Init, Least
<1>6. RunIsMeasured /\ AlarmIsRight /\ FeedIsPast
  BY <1>1, <1>2 DEF RunIsMeasured, AlarmIsRight, FeedIsPast, Init
<1>7. ExtremesAreStored
  BY LimitsAssumption, StoredIsMonotone DEF ExtremesAreStored, Init, Least, stats_init
<1> QED
  BY <1>3, <1>4, <1>5, <1>6, <1>7 DEF IInv

-----------------------------------------------------------------------------
(* The Service task.                                                       *)
LEMMA ServiceIInv ==
  ASSUME IInv, motor_enable \/ motor_stop
  PROVE  IInv'
<1>1. TypeOK'
  <2>1. CASE motor_enable
    BY <2>1 DEF IInv, TypeOK, motor_enable, Sample
  <2>2. CASE motor_stop
    BY <2>2 DEF IInv, TypeOK, motor_stop, history, Sample
  <2> QED
    BY <2>1, <2>2
<1>2. ClockIsNear' /\ DtIsInterval' /\ ExtremesAreStored' /\ FeedIsPast' /\ AlarmIsRight'
  BY DEF IInv, ClockIsNear, DtIsInterval, Interval, ExtremesAreStored, FeedIsPast, AlarmIsRight,
         motor_enable, motor_stop, history
<1>3. RunIsMeasured'
  <2>1. Time(now) \in Nat
    BY Types, TimeType DEF IInv
  <2> QED
    BY <2>1 DEF IInv, RunIsMeasured, Due, motor_enable, motor_stop, history
<1> QED
  BY <1>1, <1>2, <1>3 DEF IInv

-----------------------------------------------------------------------------
(* The head of a cycle: what dt is made of.                                *)
LEMMA HeadIInv ==
  ASSUME IInv, timebase_update
  PROVE  IInv'
<1>1. PICK d \in Delay :
        /\ clock' = After(d) /\ now' = After(d)
        /\ dt' = Measured(now.us, After(d).us)
        /\ clean' = (clean /\ Tellable(now, After(d)) /\ Time(After(d)) - Time(now) <= DtMax)
  BY DEF timebase_update
<1>2. pc = "wait" /\ pc' = "step" /\ prev' = now
      /\ UNCHANGED <<running, timestamp, stats, safety, estop, last_feed_us,
                     from, handed, least, worst, fed, starved, seen>>
  BY DEF timebase_update
<1> DEFINE a == After(d)
<1>3. /\ now \in Sample /\ clock \in Sample /\ from \in Sample /\ a \in Sample
      /\ d \in Nat /\ d < ClockMod /\ Time(a) = Time(clock) + d
      /\ a.base \in {clock.base, clock.base + ClockMod}
  BY Types, AfterMoves DEF IInv
<1>4. /\ now.us \in Nat /\ now.base \in Nat /\ now.us < ClockMod
      /\ clock.us \in Nat /\ clock.base \in Nat /\ clock.us < ClockMod
      /\ a.us \in Nat /\ a.base \in Nat /\ a.us < ClockMod
      /\ Time(now) = now.base + now.us /\ Time(clock) = clock.base + clock.us
      /\ Time(a) = a.base + a.us /\ Time(from) \in Nat
  BY <1>3, TimeType
<1>5. ClockMod \in Nat /\ DtMax \in Nat
  BY ClockAssumption, LimitsAssumption
<1>6. now.base = clock.base \/ now.base + ClockMod <= clock.base
  BY DEF IInv, ClockIsNear
<1>7. Time(now) <= Time(clock) /\ (now.us = 0 \/ Time(a) - Time(now) < ClockMod)
  <2>1. CASE now.us = 0
    BY <1>4, <1>5, <1>6, <2>1
  <2>2. CASE clock = now
    BY <1>3, <1>4, <1>5, <2>2
  <2>3. CASE \E e \in Delay : Time(clock) = Time(now) + e
    <3>1. PICK e \in Delay : Time(clock) = Time(now) + e
      BY <2>3
    <3>2. e \in Nat /\ e + d < ClockMod
      BY ClockAssumption
    <3> QED
      BY <1>3, <1>4, <1>5, <3>1, <3>2
  <2> QED
    BY <2>1, <2>2, <2>3 DEF IInv, ClockIsNear
<1>8. now.base <= a.base /\ (now.base = a.base \/ now.base + ClockMod <= a.base)
  BY <1>3, <1>4, <1>5, <1>6
<1>9. Time(now) <= Time(a)
  BY <1>3, <1>4, <1>7
<1>10. now.us # 0 /\ now.base # a.base => a.us < now.us
  BY <1>4, <1>5, <1>7, <1>8
<1>11. Interval' = IF Tellable(now, a) THEN Time(a) - Time(now) ELSE 0
  BY <1>1, <1>2 DEF Interval
<1>12. /\ Interval' \in Nat /\ Interval' <= Time(a) - Time(now)
       /\ dt' = Least(Interval', DtMax)
  <2>1. CASE now.us = 0
    <3>1. Interval' = 0 /\ dt' = 0
      BY <1>1, <1>11, <2>1 DEF Tellable, Measured
    <3> QED
      BY <3>1, <1>4, <1>5, <1>9 DEF Least
  <2>2. CASE now.us # 0 /\ now.base = a.base
    <3>1. Interval' = a.us - now.us /\ Interval' \in Nat
      BY <1>4, <1>9, <1>11, <2>2 DEF Tellable
    <3>2. dt' = IF a.us > now.us THEN Least(a.us - now.us, DtMax) ELSE 0
      BY <1>1, <2>2 DEF Measured
    <3> QED
      BY <1>4, <1>5, <1>9, <2>2, <3>1, <3>2 DEF Least
  <2>3. CASE now.us # 0 /\ now.base # a.base
    <3>1. Interval' = 0
      BY <1>11, <2>3 DEF Tellable
    <3>2. dt' = 0
      BY <1>1, <1>4, <1>10, <2>3 DEF Measured
    <3> QED
      BY <3>1, <3>2, <1>4, <1>5, <1>9 DEF Least
  <2> QED
    BY <2>1, <2>2, <2>3
<1>13. dt' \in Nat /\ dt' <= DtMax /\ dt' <= Interval'
  BY <1>5, <1>12 DEF Least
<1>14. TypeOK'
  BY <1>1, <1>2, <1>3, <1>5, <1>13 DEF IInv, TypeOK, Tellable
<1>15. ClockIsNear'
  BY <1>1 DEF ClockIsNear
<1>16. DtIsInterval'
  BY <1>1, <1>2, <1>9, <1>12 DEF DtIsInterval
<1>17. RunIsMeasured'
  <2> SUFFICES ASSUME running
               PROVE  /\ handed + dt' <= Time(a) - Time(from)
                      /\ clean' => handed + dt' = Time(a) - Time(from)
    BY <1>1, <1>2 DEF RunIsMeasured, Due
  <2>1. handed \in Nat
    BY Types DEF IInv
  <2>2. handed <= Time(now) - Time(from) /\ (clean => handed = Time(now) - Time(from))
    BY <1>2 DEF IInv, RunIsMeasured, Due
  <2>3. handed + dt' <= Time(a) - Time(from)
    BY <1>4, <1>12, <1>13, <2>1, <2>2
  <2>4. ASSUME clean' PROVE handed + dt' = Time(a) - Time(from)
    <3>1. clean /\ Tellable(now, a) /\ Time(a) - Time(now) <= DtMax
      BY <1>1, <2>4
    <3>2. dt' = Time(a) - Time(now)
      BY <1>4, <1>5, <1>11, <1>12, <3>1 DEF Least
    <3> QED
      BY <1>4, <2>1, <2>2, <3>1, <3>2
  <2> QED
    BY <2>3, <2>4
<1>18. FeedIsPast'
  <2>1. fed.base \in Nat /\ fed.base <= clock.base
    BY Types, TimeType DEF IInv, FeedIsPast
  <2>2. fed.base <= a.base
    BY <1>3, <1>4, <1>5, <2>1
  <2> QED
    BY <1>1, <1>2, <2>2 DEF IInv, FeedIsPast
<1>19. ExtremesAreStored' /\ AlarmIsRight'
  BY <1>2 DEF IInv, ExtremesAreStored, AlarmIsRight
<1> QED
  BY <1>14, <1>15, <1>16, <1>17, <1>18, <1>19 DEF IInv

-----------------------------------------------------------------------------
(* The rest of the cycle.                                                  *)

\* The clock of a step: one delay after the head.
LEMMA SteppedClock ==
  ASSUME IInv, Stepped, UNCHANGED now
  PROVE  ClockIsNear' /\ clock' \in Sample /\ pc = "step" /\ pc' = "budget"
         /\ clock.base <= clock'.base
<1>1. PICK d \in Delay : clock' = After(d)
  BY DEF Stepped
<1>2. pc = "step" /\ pc' = "budget" /\ clock = now
  BY DEF Stepped, IInv, ClockIsNear
<1>3. /\ clock' \in Sample /\ Time(clock') = Time(clock) + d /\ d \in Nat
      /\ clock'.base \in {clock.base, clock.base + ClockMod}
  BY <1>1, AfterMoves DEF IInv
<1>4. clock.base \in Nat /\ ClockMod \in Nat
  BY Types, TimeType, ClockAssumption DEF IInv
<1> QED
  BY <1>2, <1>3, <1>4 DEF ClockIsNear

LEMMA StepIInv ==
  ASSUME IInv, motor_fast_step
  PROVE  IInv'
<1>1. Stepped /\ UNCHANGED now /\ UNCHANGED <<dt, estop, last_feed_us, prev, from, clean,
                                              fed, starved, seen>>
  BY DEF motor_fast_step, StepNotRunning, StepFaults, StepCompletes, history
<1>2. ClockIsNear' /\ clock' \in Sample /\ pc = "step" /\ pc' = "budget"
      /\ clock.base <= clock'.base
  BY <1>1, SteppedClock
<1>3. DtIsInterval' /\ AlarmIsRight'
  BY <1>1 DEF IInv, DtIsInterval, Interval, AlarmIsRight
<1>4. FeedIsPast'
  <2>1. fed.base \in Nat /\ now.base \in Nat /\ clock.base \in Nat /\ clock'.base \in Nat
    BY <1>2, Types, TimeType DEF IInv
  <2> QED
    BY <1>1, <1>2, <2>1 DEF IInv, FeedIsPast
<1>5. CASE StepNotRunning \/ StepFaults
  <2>1. TypeOK'
    BY <1>1, <1>2, <1>5 DEF IInv, TypeOK, StepNotRunning, StepFaults, history, Sample
  <2>2. RunIsMeasured' /\ ExtremesAreStored'
    BY <1>5 DEF IInv, RunIsMeasured, ExtremesAreStored, StepNotRunning, StepFaults, history
  <2> QED
    BY <1>2, <1>3, <1>4, <2>1, <2>2 DEF IInv
<1>6. CASE StepCompletes
  <2>1. /\ handed' = handed + dt /\ stats' = stats_update(stats, dt)
        /\ running /\ running' = running
    BY <1>6 DEF StepCompletes
  <2>2. /\ least' = IF stats'.loop_count = 1 \/ Interval < least THEN Interval ELSE least
        /\ worst' = IF stats'.loop_count = 1 \/ Interval > worst THEN Interval ELSE worst
    BY <1>6 DEF StepCompletes
  <2>3. Interval \in Nat /\ dt = Least(Interval, DtMax)
    BY DEF IInv, DtIsInterval
  <2>4. /\ DtMax \in Nat /\ dt \in Nat /\ least \in Nat /\ worst \in Nat /\ handed \in Nat
        /\ stats.min_dt_us \in Nat /\ stats.max_dt_us \in Nat /\ stats.loop_count \in Nat
        /\ Count(stats.loop_count) \in Nat
    BY Types, LimitsAssumption DEF IInv, Count
  <2>5. /\ stats'.loop_count = Count(stats.loop_count)
        /\ stats'.min_dt_us = IF stats'.loop_count = 1 \/ Stored(dt) < stats.min_dt_us
                              THEN Stored(dt) ELSE stats.min_dt_us
        /\ stats'.max_dt_us = IF stats'.loop_count = 1 \/ Stored(dt) > stats.max_dt_us
                              THEN Stored(dt) ELSE stats.max_dt_us
    BY <2>1 DEF stats_update
  <2>6. ExtremesAreStored'
    <3>1. /\ stats.max_dt_us = Stored(Least(worst, DtMax))
          /\ stats.min_dt_us = Stored(Least(least, DtMax))
      BY DEF IInv, ExtremesAreStored
    <3>2. Least(worst, DtMax) \in Nat /\ Least(least, DtMax) \in Nat
      BY <2>4 DEF Least
    <3>3. stats'.max_dt_us = IF stats'.loop_count = 1 \/ dt > Least(worst, DtMax)
                             THEN Stored(dt) ELSE Stored(Least(worst, DtMax))
      BY <2>4, <2>5, <3>1, <3>2, StoredIsMonotone
    <3>4. stats'.min_dt_us = IF stats'.loop_count = 1 \/ dt < Least(least, DtMax)
                             THEN Stored(dt) ELSE Stored(Least(least, DtMax))
      BY <2>4, <2>5, <3>1, <3>2, StoredIsMonotone
    <3> QED
      BY <2>2, <2>3, <2>4, <3>3, <3>4 DEF ExtremesAreStored, Least
  <2>7. stats' \in [loop_count : Nat, max_exec_us : Nat, overrun_count : Nat,
                    min_dt_us : Nat, max_dt_us : Nat]
    BY <2>1, <2>4, StoredIsMonotone, Types DEF IInv, stats_update
  <2>8. handed' \in Nat /\ least' \in Nat /\ worst' \in Nat
    BY <2>1, <2>2, <2>3, <2>4
  <2>9. timestamp' = now.us /\ now.us \in 0 .. ClockMod - 1 /\ safety' = safety
    BY <1>6, Types DEF IInv, StepCompletes, Sample
  <2>10. TypeOK'
    BY <1>1, <1>2, <2>1, <2>7, <2>8, <2>9 DEF IInv, TypeOK, Sample
  <2>11. RunIsMeasured'
    BY <1>1, <1>2, <2>1 DEF IInv, RunIsMeasured, Due
  <2> QED
    BY <1>2, <1>3, <1>4, <2>6, <2>10, <2>11 DEF IInv
<1> QED
  BY <1>5, <1>6 DEF motor_fast_step

LEMMA BudgetIInv ==
  ASSUME IInv, motor_fast_loop_budget
  PROVE  IInv'
<1>1. /\ pc = "budget" /\ pc' = "check"
      /\ UNCHANGED <<clock, now, dt, timestamp, estop, last_feed_us, history>>
      /\ running' = (running /\ Exec <= Budget)
      /\ safety' = IF Exec > Budget THEN "SAFE_STO" ELSE safety
      /\ stats'.min_dt_us = stats.min_dt_us /\ stats'.max_dt_us = stats.max_dt_us
  BY DEF motor_fast_loop_budget
<1>2. Exec \in Int /\ (Exec > stats.max_exec_us => Exec \in Nat)
  BY Types, TimeType DEF IInv, Exec
<1>3. stats' \in [loop_count : Nat, max_exec_us : Nat, overrun_count : Nat,
                  min_dt_us : Nat, max_dt_us : Nat]
  BY <1>2, Types, LimitsAssumption DEF IInv, motor_fast_loop_budget, Count
<1>4. TypeOK'
  BY <1>1, <1>3 DEF IInv, TypeOK, history, Sample
<1>5. ClockIsNear' /\ DtIsInterval' /\ ExtremesAreStored' /\ FeedIsPast' /\ AlarmIsRight'
  BY <1>1 DEF IInv, ClockIsNear, DtIsInterval, Interval, ExtremesAreStored, FeedIsPast, AlarmIsRight,
              history
<1>6. RunIsMeasured'
  BY <1>1 DEF IInv, RunIsMeasured, Due, history
<1> QED
  BY <1>4, <1>5, <1>6 DEF IInv

LEMMA CheckIInv ==
  ASSUME IInv, safety_check
  PROVE  IInv'
<1>1. PICK s \in Samples :
        /\ estop' = (estop \/ Expired(s.us))
        /\ safety' = IF Expired(s.us) THEN "SAFE_FAULT_LATCH" ELSE safety
        /\ starved' = (starved \/ Overdue(s))
        /\ seen' = (seen \/ (s.base = fed.base /\ Overdue(s)))
  BY DEF safety_check
<1>2. /\ pc = "check" /\ pc' = "feed"
      /\ UNCHANGED <<clock, running, now, dt, timestamp, stats, last_feed_us,
                     prev, from, handed, clean, least, worst, fed>>
  BY DEF safety_check
<1>3. TypeOK'
  BY <1>1, <1>2 DEF IInv, TypeOK, Sample
<1>4. ClockIsNear' /\ DtIsInterval' /\ ExtremesAreStored' /\ FeedIsPast'
  BY <1>2 DEF IInv, ClockIsNear, DtIsInterval, Interval, ExtremesAreStored, FeedIsPast
<1>5. RunIsMeasured'
  BY <1>2 DEF IInv, RunIsMeasured, Due
<1>6. AlarmIsRight'
  <2>1. /\ s.us \in Nat /\ s.base \in Nat /\ fed.us \in Nat /\ fed.base \in Nat
        /\ now.base \in Nat /\ clock.base \in Nat /\ Timeout \in Nat /\ ClockMod \in Nat
    BY Types, TimeType, LimitsAssumption, ClockAssumption DEF IInv, Samples
  <2>2. fed.base <= s.base /\ last_feed_us = fed.us
    BY <1>2, <2>1 DEF IInv, FeedIsPast, Samples
  <2>3. Expired(s.us) => Overdue(s)
    BY <2>1, <2>2 DEF Expired, Overdue, Time
  <2>4. s.base = fed.base /\ Overdue(s) => Expired(s.us)
    BY <2>1, <2>2 DEF Expired, Overdue, Time
  <2> QED
    BY <1>1, <2>3, <2>4 DEF IInv, AlarmIsRight
<1> QED
  BY <1>3, <1>4, <1>5, <1>6 DEF IInv

LEMMA FeedIInv ==
  ASSUME IInv, safety_watchdog_feed
  PROVE  IInv'
<1>1. PICK s \in Samples : last_feed_us' = s.us /\ fed' = s
  BY DEF safety_watchdog_feed
<1>2. /\ pc = "feed" /\ pc' = "wait"
      /\ UNCHANGED <<clock, running, now, dt, timestamp, stats, safety, estop,
                     prev, from, handed, clean, least, worst, starved, seen>>
  BY DEF safety_watchdog_feed
<1>3. s \in Sample
  BY Types DEF IInv, Samples
<1>4. TypeOK'
  <2>1. s.us \in 0 .. ClockMod - 1
    BY <1>3 DEF Sample
  <2> QED
    BY <1>1, <1>2, <1>3, <2>1 DEF IInv, TypeOK
<1>5. ClockIsNear' /\ DtIsInterval' /\ ExtremesAreStored' /\ AlarmIsRight'
  BY <1>2 DEF IInv, ClockIsNear, DtIsInterval, Interval, ExtremesAreStored, AlarmIsRight
<1>6. RunIsMeasured'
  BY <1>2 DEF IInv, RunIsMeasured, Due
<1>7. FeedIsPast'
  <2>1. now.base \in Nat /\ clock.base \in Nat /\ ClockMod \in Nat
    BY Types, TimeType, ClockAssumption DEF IInv
  <2>2. now.base <= clock.base
    BY <2>1 DEF IInv, ClockIsNear
  <2> QED
    BY <1>1, <1>2, <2>1, <2>2 DEF FeedIsPast, Samples
<1> QED
  BY <1>4, <1>5, <1>6, <1>7 DEF IInv

-----------------------------------------------------------------------------
LEMMA NextIInv == IInv /\ [Next]_vars => IInv'
<1> SUFFICES ASSUME IInv, [Next]_vars PROVE IInv'
  OBVIOUS
<1>1. CASE UNCHANGED vars
  BY <1>1 DEF vars, program, history, IInv, TypeOK, Sample, ClockIsNear, DtIsInterval, Interval,
              RunIsMeasured, Due, ExtremesAreStored, FeedIsPast, AlarmIsRight
<1>2. CASE Next
  BY <1>2, ServiceIInv, HeadIInv, StepIInv, BudgetIInv, CheckIInv, FeedIInv DEF Next
<1> QED
  BY <1>1, <1>2

LEMMA Invariant == Spec => []IInv
BY InitIInv, NextIInv, PTL DEF Spec

(* Every variable of the cycle keeps its type: dt never exceeds DtMax and  *)
(* is never negative (timebase.c:22-29).                                   *)
THEOREM TypeCorrect == Spec => []TypeOK
<1>1. IInv => TypeOK
  BY DEF IInv
<1> QED
  BY <1>1, Invariant, PTL

(* The time given to the controller in a run is never more than what       *)
(* passed, and all of it while it can be measured.                         *)
THEOREM ControllerTime == Spec => []TimeIsMeasured
<1>1. IInv => TimeIsMeasured
  BY DEF IInv, RunIsMeasured, Due, TimeIsMeasured
<1> QED
  BY <1>1, Invariant, PTL

(* The statistics show the extreme intervals since loop_count last was 1,  *)
(* whichever of them lose 1 us in the conversion to microseconds.          *)
THEOREM JitterIsShown == Spec => []JitterShows
<1>1. IInv => JitterShows
  <2> SUFFICES ASSUME IInv PROVE JitterShows
    OBVIOUS
  <2>1. Least(worst, DtMax) \in Nat /\ Least(least, DtMax) \in Nat
    BY Types, LimitsAssumption DEF IInv, Least
  <2> QED
    BY <2>1 DEF IInv, ExtremesAreStored, JitterShows, Shows, Stored
<1> QED
  BY <1>1, Invariant, PTL

(* The watchdog gives no false alarm, and misses none it can tell.         *)
THEOREM WatchdogIsRight == Spec => []AlarmIsRight
<1>1. IInv => AlarmIsRight
  BY DEF IInv
<1> QED
  BY <1>1, Invariant, PTL
=============================================================================
