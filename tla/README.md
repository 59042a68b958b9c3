# foc_lib: formal models

foc_lib is a C library for field-oriented control of one motor on a microcontroller. It has no scheduler,
no board and no interrupt table of its own: a board calls it from three tasks. This directory holds TLA+ models of the
parts of it that have state, TLC configurations that check them on small instances, and proofs that the TLA+
proof system checks for every value of the constants.

Paths below are relative to the repository: `motor_runtime.c` is `src/core/motor_runtime.c`, and so on; `README.md` followed by
a section or a line is the repository's own.

## 1. The system

### 1.1 Tasks

The library is written for fixed-priority preemption on one core (`README.md` §20, `motor_runtime.h:82-84`):

| task | rate | priority | calls |
|---|---|---|---|
| FOC (PWM/ADC interrupt) | 20 kHz | highest | `motor_fast_step`, `motor_fast_loop_budget`, `safety_check`, and with them every `motor_enter_safe_state` |
| Motion | 1 kHz | middle | `motor_slow_step`; it polls the fault monitor and publishes events (§16.3-16.5) |
| Service | about 100 Hz | lowest | the lifecycle functions, the debug CLI, `event_poll` |

A task can be interrupted between any two instructions by one of higher priority, and only by those; there is not one
lock or critical section in the code. A step of the FOC task is therefore atomic to the others, and every model follows from this table.

### 1.2 Components

| component | state | operations | correct when |
|---|---|---|---|
| Lifecycle, `motor_runtime.c` | `rt->state`, snapshots and buffers, controller, gate | init, self_test, calibrate, prepare, enable, stop, recover; slow step, fast step, budget check, enter_safe_state | a shutdown holds until it is recovered, cuts torque and can be explained; runs do not inherit from each other |
| Safety layer, `safety.c` | `SafetyState`, last feed | enter_sto, enter_estop, feed, check | torque is cut and stays cut; no false alarm, no missed one |
| Fault register, `fault.c` | masks `current`, `latched` | raise, clear, is_set, get_action | no code is lost or left behind |
| Fault monitor, `fault_monitor.c` | thresholds, counter, `active` of each channel | init, configure, update | hysteresis and debounce; the register tells what was measured |
| Feedback, setpoint, configuration buffers | two slots, `index` | init, write, read | reads are whole, recent, in order |
| Command buffer, `command_buffer.c` | the same and `last_index` | write, read, set_mode, get_mode, get_target | and what is called new is new |
| Event queue, `event.c` | ring, head, tail | init, publish, poll | bounded queue: in order, nothing accepted is lost |
| Incremental encoder, `enc_abi.c` | last count, total, index_found, quality | init, update, get_feedback | counts the way of the shaft; says GOOD only if absolute |
| Absolute encoder, `enc_abs.c` | last raw, turns, error counters, quality | init, update, get_feedback | angle never too old; velocity through the wrap |
| Current sensing, `current_sense.c` | debounce and blanking counters | init, reconstruct, set_oc_blank | trips in time, not while blanked; no current nobody measured |
| Calibration plugins, `cal_*.c` | their contexts | index search, phase alignment, current offset | success is deserved; the angle is right; no voltage left |
| Controllers, `pid_controller.c`, `current_controller.c` | integrals, filter | on_enter, on_exit, reset, step_slow, step_fast | integrals bounded, leave the limit again |
| Limiter, configuration, `foc_types.c` | none | clamps | |
| Time base, statistics, `timebase.c`, `stats.c` | timestamp, dt, counters | init, update | the controller's time is the time that passed; extremes are shown |
| Mathematics, `foc_math.c`, `foc_trig.c` | none | transforms, wrap, sine by table | the frame is the rotor's, whatever is rounded |
| Debug CLI, `debug_cli.c` | line buffer, stream rate and divider | init, putc, exec, stream_tick, stream_stop | a line changes what it names, whole and once; the stream keeps its rate |
| Telemetry; adapter, gate, encoder interfaces | none | tables of functions a board fills | |

### 1.3 Interactions

- The **Service task** stores `rt->state`; so does `motor_enter_safe_state` on the **FOC task**. Both step functions read it as
  their guard. It is the one variable the three tasks contend for.
- Commands go Service → command buffer → Motion; setpoints Motion → setpoint buffer → FOC; feedback FOC → feedback
  buffer → Motion and Service; configuration Service → snapshot → Motion and FOC. Each is a double buffer.
- The controller is one object: Service resets it, Motion and FOC step it.
- The fault register is written by FOC (shutdowns), Motion (monitor) and Service (recovery).
- Events go from the producing task through the ring to Service.
- The calibration plugins use the encoder, a voltage vector and a wait function through callbacks of the board, which copies their
  outputs into the encoder and the motor afterwards.

### 1.4 What is hard

Read-test-store of `rt->state` across a preemption; double buffers without locks whose safety rests on priorities and
periods; read-modify-write of two fault masks; results that must not cross from one run of the motor to the next; readings that
fail, are invalid, wrap, slip or are old; a calibration whose every step may fail and whose rotor need not follow. `hazards` in
`PROJECT.json` lists each at its line.

## 2. Modules

| module | models | implements | used by |
|---|---|---|---|
| `Fault` | fault table and register operations as pure operators | | `MotorLifecycle`, `FaultMonitor` |
| `MotorLifecycle` | lifecycle, safety layer, three tasks | `Interlock` | `MCMotorLifecycle`, `MotorLifecycle_proofs` |
| `Interlock` | what a bystander is promised | | |
| `DoubleBuffer` | the double buffer of `feedback.c`, word by word | `Register` | `MCDoubleBuffer`, `CommandBuffer` |
| `CommandBuffer` | `DoubleBuffer` and the new flag, `set_mode` | `Register` | `MCCommandBuffer`, `Commands_proofs` |
| `Register` | an atomic register with one reader | | |
| `EventQueue` | the ring, access by access | `Fifo` | `MCEventQueue`, `EventQueue_proofs` |
| `Fifo` | a bounded queue | | |
| `FaultMonitor` | channels, and the loads and stores of the masks | | `MCFaultMonitor`, `FaultMonitor_proofs` |
| `EncAbi` | `enc_abi.c` as a function of its context | | `EncAbiTracking`, `Calibration` |
| `EncAbiTracking` | a turning shaft read by `EncAbi` | | `EncAbi_proofs` |
| `Calibration` | plugins, rotor and `EncAbi` | | `Commutation`, `EncAbi_proofs` |
| `EncAbs`, `CurrentSense` | `enc_abs.c` and `current_sense.c` as functions of their contexts | | `Sensing` |
| `Sensing` | sampling part of `motor_fast_step` on a turning shaft | | `SensingClaims`, `Sensing_proofs` |
| `Limiter`, `PidController`, `CurrentController` | clamps and both control laws as functions of their contexts | | `ControlLoop` |
| `ControlLoop` | slow and fast step with either controller | | `MCControlLoop`, `ControlLoop_proofs` |
| `Timing` | a cycle of the FOC task in time: time base, statistics, budget, watchdog | | `MCTiming`, `Timing_proofs` |
| `DebugCli` | the debug CLI with the configuration snapshot, the command buffer and the stream | `Settings` | `MCDebugCli`, `Commands_proofs` |
| `Settings` | what a line at the CLI promises | | |
| `Commutation` | electrical angle, sine and cosine in rounded arithmetic, of a calibrated motor | | `MCCalibration`, `EncAbi_proofs` |

`MC*` modules give the constants their values, `*_proofs` hold theorems, `SensingClaims` holds a statement of the repository that does not hold.
An operator `X_Something` commented "Mutant" is a plausible mistake in `X`; it takes part in no specification and documents what the
properties would notice.

### 2.1 Lifecycle

`pc` says at which statement the Service task is, and each statement that reads or writes shared state is a step; FOC and Motion
may run between any two. An operation is one definition with a disjunct per statement, so `motor_enable` is: test READY; `on_enter`; store RUNNING.
`motor_slow_step` is two steps (test and inputs; controller and setpoint), because only FOC comes in between. Numbers are abstracted to the *run* in which they were computed:
a setpoint of run 3 seen in run 4 is a stale one. `held`, a history variable, says that a shutdown came while no operation was in progress.

Assumptions: `motor_init` is called once and before the tasks start (every example and test does); the shutdowns of a board come from its fault interrupt,
that is with FOC's priority; the cycle budget may be exceeded in any state, since `motor_fast_loop_budget` does not test it; `safety.fault` is
wired by the board (`SafetyWired`; the theorems hold for either). Calls that a guard rejects change nothing and are left out. The watchdog may expire in any state; when it does is `Timing`.

### 2.2 Channels

A struct copy is one step per word in any order. The release fence is what `WriteSwap`'s guard stands for: no store to the slot after
the store to `index`. `ReaderFirst` says who has priority; `MaxOverlap` how many writes fit into one read, which follows from
priorities and periods: FOC writes feedback every 50 µs, so at most one write falls into a read of the Motion task, whose copy takes a few µs. `setpoint.c` and
`config_snapshot.c` are the same statements with another payload. In `CommandBuffer`, the read inside `set_mode` stores `last_index` on the writer's side.

`EventQueue` takes the stores in program order, as gcc emits them; the code has no fence that obliges it to. Its one publisher is an assumption (`MCPublisher`, `SinglePublisher` in
the proofs): nothing in `src/` calls `event_publish`, and `event.h:4` would allow two.

### 2.3 Fault monitor

Nothing in `src/` calls `fault_monitor_update`; it is modelled where §16.3-16.4 puts it, in the Motion task. `|=` and `&=` on a mask are a load and a store, with FOC in between. Recovery and
configuration come at any time, whatever a channel measures; recovery clears the masks one after the other. They make register and channels disagree, and two history variables say of which codes: `forgiven` were recovered while their channel was
active, which stays silent until a value at `lo`; `stale` stayed in the register when their channel was configured, which then has nothing to clear.

### 2.4 Encoders, currents, calibration

Angles are whole counts, as in the devices; scale factors, the PLL estimator, error rates and rounding are left out. A velocity is the way and the time it took. `EncAbi`, `EncAbs` and `CurrentSense` are operators from a context to the next one; the machines around them supply a shaft
(turning, coasting, losing counts), failing and invalid reads and spikes.
Assumed: count and index are sampled together; good reads of a running motor are less than half a turn apart (stated as an ASSUME with the other bounds; of the absolute encoder the shaft may turn at will while the motor is stopped); a board does not combine `read_multi` with `inverted`, whose turns the code
leaves uninverted.
The time since the absolute encoder's last good read (`gap`) grows by any of `Pause` per cycle or rest, 0 included, as the clock need not have advanced; `DtMax` is the second from which `enc_abs.c:166` keeps the old velocity.

`Calibration` has a rotor that goes to the next equilibrium of a vector, sticks, is dragged at a count per vector, or stops following at any step, and a counter wired either way. Every callback that returns a reading may fail; the code ignores the results of the others. The number of pole pairs fits within `Tol`
percent, 5 in the code. A tolerance below the reciprocal of the motor's number tells it from its neighbours (`ToldApart`): in the code for motors of fewer than 20. The run has 50 % of 2, a tolerance at which the neighbours just pass, as with 20 in the code. The
encoder is updated after every vector, as in the board of `tests/algorithm/test_abz_board.c:38-45`. After the plugins the board copies the outputs back, whatever they returned, and the shaft turns.

### 2.5 Controllers

`ControlLoop` has the state of a controller (its integrals), the setpoint buffer's value and the voltages handed to the gate. A slow step takes any command, configuration and feedback of small sets, as Service may have written others since
the last one, limits the command and runs the `step_slow` of the controller installed; a fast step runs `step_fast` and the output limiter. The two may come at any rate. Each is one action: the loops write different integrals, so that no
order of their statements gives another result, and `ControllerExclusive` (lifecycle) keeps `reset` and `on_enter` out of a step. Numbers are whole multiples of a unit, the least change of an integral in use; gains times `dt` are natural numbers. `slowRun` and `fastRun` are
history: how often in a row a demand opposed its error. Assumed: gains are not negative, and the back-EMF at the speeds in use is below the voltage limit (`SpeedAssumption`); beyond that the feed-forward alone saturates the output.

### 2.6 Timing

`Timing` is the FOC task's cycle in the order of `README.md:1298`: time base, fast step, budget, check, feed. Any duration of `Delay` passes before a cycle and during its fast step. A sample of the clock is
what the code sees, `us`, and the time at which the clock last started at 0, `base`, which it does not see; the history variables speak of real time. Service enables and stops between cycles. The Motion task runs the same
`timebase_update` on a `TimeBase` of its own. Assumed: no two delays take a lap of the clock (it is passed on in 64 bits, but a port may hand out a narrower counter); the watchdog is on (`Timeout` not 0). A `dt` passes through seconds as a float and is cut to whole microseconds again: of some, the set `Short`, one is lost, in the code of 247 us and other values. A computation of all `dt` from 1 us to 0.1 s in single precision has shown that it is never more than one. `cycle`, which nothing reads, is left out.

### 2.7 Debug CLI

A line is a sequence of symbols: blanks, digits, a sign, and one symbol for a keyword or a name. A number may be negative; where `strtoul` reads one it wraps, modulo `ULongMod`, and `stream -1` asks for the highest rate. The Service task types, parses (`cli_dispatch` gives the stores a line leads to) and executes, one step per store that another task can see:
slot, then index; rate, then divider. The Motion task's `debug_cli_stream_tick` comes between any two. Its and the FOC task's reads of configuration and command are atomic to Service, so what they see is what `index` points to at any instant.
`OrderOf`, in `MCDebugCli`, says what each line should do, as `tests/algorithm/test_debug_cli.c` does. Assumed: characters arrive on the Service task. `debug_cli.h:52` also allows a UART interrupt, in which every command would run at interrupt priority.
What is printed is left out, and with it `fmt_buf`, `stream_seq` and the sequence number of a command, on which nothing acts.

### 2.8 Commutation

`Commutation` extends `Calibration`: it has no state, but says which angle and which sine and cosine `motor_fast_step` computes in the states of a calibrated motor that turns.
Angles are floats with a short mantissa: whole units up to `Precision`, multiples of 2 up to twice that, and so on through `Gaps`, each operation rounded to the nearest, ties to even: the count made a float, the angle's product and quotient, times the pole pairs, the zero, their sum, the whole turns, and each subtraction. The product that counts turns has a factor that was rounded before, so it may be off by two gaps either way.
In units of 2^-23 rad the code's pi / 2 is `Quarter` = 13176795, with `Precision` = 2^24; `Quarter` = 1515 and `Precision` = 2048 keep what matters of it: pi / 2 < `Precision` < pi, so that pi and 2 pi lie where every second and every fourth number is a float, and three quarters of a turn is no float. A count is no whole number of units, and sines are thousandths.
Below `Precision` the code's floats lie closer than a unit, and a compiler may fuse the product and the sum of `foc_calc_elec_angle`: both round less than the model. The table is a constant of its own, of any number of intervals, which need not be whole units: neither 16 in the run nor the code's 256 divide the quarter. What is assumed of it is that interpolation is within 4 thousandths of the sine.

The two properties state how far off the angle may be, as the sum of the roundings made on the way (`Err` of each, added up in `Slack`, and `Tolerance` for the frame), and hold if the turns are `Limited`: floats at the electrical angle are less than half of pi apart, less what the wrap rounds.
This makes precise what `foc_math.c:69` assumes (less than a million turns, where floats are 0.5 rad apart). TLC was used to see that every state of the run is limited and that `Slack` stays below 100 of the 6060 units of a turn, a fifth of a count, so that the run's properties say something.

## 3. Runs

| run | constants | question and answer |
|---|---|---|
| `lifecycle` | one code per action, 2 runs of the motor | Whatever the interleaving: shutdowns between operations hold, cut torque and are explained; nothing carries over; refines `Interlock` |
| `feedback_buffer` | 3 words, 4 writes, one overlap, writer first | The buffer is an atomic register; what is published is read |
| `command_buffer` | 3 words, 4 writes, reader first | And never calls an old command new |
| `event_queue` | 4 slots, 6 events, equal priorities | The ring is a queue, and is drained |
| `fault_monitor` | 2 channels, 3 values, 2 settings, 4-valued counter | Debounce and hysteresis; register and channels agree, but for codes recovered or configured while active |
| `enc_abi` | 10 counts a turn, two turns, 1 slip, 1 failed read | Way, absolute angle and velocity survive wraps, slips, gaps and coasting |
| `calibration` | 24 counts, 2 pole pairs, configured as 1, 2, 3 or 4, tolerance 50 %; 6 further steps; a quarter of 1515 units, table of 16 | What success means for index, direction, pole pairs, angle and voltage; the frame is the rotor's in each quadrant, wherever roundings fall |
| `sensing` | 6 counts, limits 0 and 2, 1 blanked cycle, `DtMax` 2, pauses 0 and 1 | How old an angle may be, when overcurrent trips, when the velocity is the shaft's |
| `control_loop` | limits of 1 to 3 units, 4 configurations, speeds and currents of -1 to 1 | Both controllers keep their bounds and do not stay wound up |
| `timing` | dt up to 2, one lost of 2, budget 1, timeout 3, delays 0, 1, 3, a clock of 7, a counter of 3, 12 units of time | The controller's time, the statistics and the watchdog are right through late cycles, wraps and faults |
| `debug_cli` | 19 lines, three of them executed; buffer of 8, 9 ticks a second, rates modulo 7, `unsigned long` of 100 | Each line changes one setting at one instant, or nothing; the stream keeps its rate to one tick a row; refines `Settings` |
| `claim_CurrentIsDefined` | as `sensing` | violated, see 6 |

Why the bounds are enough. *Lifecycle*: two runs are one to leave something behind and one to find it; a code's effect depends on its action alone, so one of each suffices. *Buffers*: each slot is written twice, and every
preemption point of every word is visited. Numbers of writes are never compared by the code, only slots. *Ring*: with four slots it wraps, fills and refuses; equal priorities allow every
interleaving, those of any priorities included. *Monitor*: the counter wraps within the run; settings with and without a dead band, latching and not; recovery and configuration meet every state of either channel. *Encoders*: the path crosses the wrap and the index both
ways; a half turn is five (three) counts, so the moves assumed to fit are next to the boundary at which they would not. *Calibration*: of the pole pairs configured one and three are at the very tolerance and pass, four does not; scans cross zero and the
half turn. *Sensing*: error counters reach their limits (a limit of 0 behaves as 1; 2 has a first error that is tolerated), and blanking is interrupted at its only point; reads are 0, 1 and `DtMax` apart. *Controllers*: integrals reach
both limits from either side, the limits of the setpoint and of the output are all smaller than what is asked for, the configurations are integral-only, proportional with swapped limits, of the bandwidth, and without current gains; the run has no bounds of its own. *Timing*: the delays are below, at and above budget, `DtMax` and timeout; the longest `dt` is one that is stored short; clock and counter wrap, the clock nearly twice, and may start at 0 or not.
*CLI*: lines are accepted, refused at each of their parts, cut inside a number, typed with every line end, and follow each other; the rates divide a second, do not, exceed what is stored, and are negative. *Commutation*: six counts are half an electrical turn, so that from wherever it was calibrated the motor turns through all four quadrants and across the wrap, and its angle meets the floats below 0 that are rounded up to a turn. Bounds in guards
(`MaxRuns`, `MaxWrites`, `MaxEvents`, `MaxPos`, `MaxAngle`, `MaxErrors`, `MaxRun`, `MaxTime`, `MaxLines`, `MaxTicks`) only cut counters; the theorems hold for all their values.

Deadlock is checked in every run but `calibration`, `timing` and `debug_cli`, which end at `MaxRun`, `MaxTime` and `MaxLines`.

**Fairness** is assumed in three runs. `feedback_buffer`: the reader is a periodic task, so it begins a read again and again and completes it; the writer completes what it began but need never begin.
`event_queue`: the same for the poller and the publisher. `debug_cli`: Service finishes the command it began. All follow from periodic activation and from higher tasks leaving time to lower ones; no fairness is asked between the outcomes of a choice.

## 4. What the properties say

- **Lifecycle.** `IdleFaultHolds`, `HeldFaultStopsDrive`: a shutdown that comes between operations keeps the motor in FAULT or LOCK until a `motor_recover` completes, and no vector reaches the gate meanwhile.
  `StopIsSafe`, `StopIsExplained`: a stopped motor has torque cut and a latched code, also half way through a recovery. `ControllerExclusive`: no step function runs while Service resets the controller. `FreshAfterFirstSlow`,
  `NoCarriedIntegral`: a slow step of an earlier run does not store late into this one, and integrals start at zero even when a fault skipped `on_exit`. Before the first slow step of a run FOC *does* apply the setpoint of the run before: nothing resets `sp_buf`. `ImplementsInterlock` sums up.
- **Channels.** `Untorn`, `ImplementsRegister`, `PublishedIsRead`, `NoSpuriousNew`; `SlotExclusive`, `EventsKept`, `ImplementsFifo`, `Drained`. They hold in the conditions of 2.2; outside them see 6.
- **Fault monitor.** `Debounced` also when the counter wraps; `ReportedWhenOver`, `ClearedBelowLo`: after each update the register agrees with the last values, though FOC's codes come between load and store and recoveries between updates, but for `forgiven` and `stale` codes.
- **Encoders.** `Tracks`: the total is the way of the shaft minus slipped counts since the last index. `GoodIsAbsolute`: after coasting unseen too. `VelocityIsMotion`: the correction at the index is no motion.
  `AngleIsNear`: an angle is passed on only while it lags by fewer cycles than the limit. `VelocityIsWay`: for the absolute encoder way and time since the last good read, wherever the wrap and whatever reads failed, if time passed and less than `DtMax`.
- **Currents.** `TripInTime`: no more than limit − 1 samples over the threshold in a row, twice as many if blanking is interrupted by its own length. `BlankHolds`: none reported from the call of `set_oc_blank` on, for `blank_cycles`.
- **Calibration.** `FoundIsAbsolute`, `OkIsEarned`, `AngleIsRight`, `NoVoltageLeft`: success of the search means an absolute angle; success of the alignment pole pairs within the tolerance, the right direction and a rotor that followed; commutation
  then uses the angle of the rotor, with the right pole pairs or a tolerance that tells them apart (`Calibrated`); and the motor is without voltage.
- **Controllers.** `Bounded`: integrals, current and voltages keep their limits, also with limits whose ends are swapped. `Unwinds`: while the error points out of saturation, the velocity integral opposes it for fewer than
  `IntegralLimit` steps and the current loop stays saturated for at most `Lim` steps, though commands, modes, gains and speed change at every one. A regulator that integrates nothing while saturated would hang there for ever.

- **Timing.** `TimeIsMeasured`: the dt of a run never add up to more than the time that passed, and to exactly that while each interval can be told and is at most `DtMax`. `JitterShows`: the statistics show the shortest and longest interval of the steps
  since `loop_count` was last 1, or 1 us less, across runs and faulted cycles. `AlarmIsRight`: an alarm only if a check came late, and always if one did, but across a wrap of the clock, where the code cannot tell.
- **CLI.** `ImplementsSettings`: slots and stores are not seen; an accepted line takes effect at one instant and before the next one, and in the end. `RateIsKept`: at least the rows asked for, of a rate as far as eight bits hold it; each of them less than one tick early, which at high rates is a third more rows than asked for (6); none after a stop, whatever stream ran before.
- **Commutation.** `ElecIsRotors`: the electrical angle is in [-pi, pi) and the rotor's within its roundings, however far the rotor turned, if the turns are limited. `FrameIsRotors`: sine and cosine against their symmetries, within the error of the table and, below 0, of the two roundings there. The reduced angle is a whole turn only for angles within the rounding below 0; the frame is then the one a quarter of a turn back (6).

Every property is violated by at least one of the mutants.

## 5. Proofs

Each `*_proofs` module has the same shape: `Init => IInv`, a lemma per group of actions for `IInv /\ [Next]_vars => IInv'`, and temporal theorems that cite them.

- `MotorLifecycle_proofs`: `TypeCorrect`, `ControllerIsExclusive`, `FaultHolds`, `StopCutsTorque`, `StopHasReason`, `SetpointsAreFresh`, `RunsAreSeparate`, `HeldFaultStopsTheDrive` and `Implementation` (of `Interlock`), for every set of board codes, either wiring and any number of runs. The properties are not inductive:
  that a shutdown holds needs to know where Service can be while it does. `IInv` adds: RUNNING only between operations or at the test of `motor_stop`; a slow step in progress belongs to the current run and finds Service outside an
  operation; while a shutdown holds Service is idle or recovering. The last one is why `held` is defined for shutdowns *between* operations: one during an operation may be overwritten (6).
- `Commands_proofs`: about the double buffer, `ReadsAreWhole` and `Refinement`, for any struct, if `OneOverlap == ReaderFirst \/ MaxOverlap <= 1`. `IInv`: the active slot is whole; the slot being read is active, or one write was completed since and none is under way that could reach it.
  About the command buffer, `NewMeansChanged` and `CommandRefinement`, if `ReaderFirst`. The refinement is not repeated as a run: it is the run of `DoubleBuffer` and this proof. Steps of the command buffer project to those of the double buffer. `CInv` adds: a slot other than `last_index` holds a command no read returned.
  About the debug CLI, `RatesAreKept` for every rate and every line, and `SettingsAreSafe`, for all lines of which the parser makes the store that `OrderOf` says (`OrdersFit`, evaluated by `MCDebugCli`). `CliInv` has four parts. `CliType`: a rate is a number within its limit, which rests on what the parser
  returns (`NumberType`: the recursion over the digits of a line has a solution, and it is a natural number, by induction over the set of indices for which that is so; `UpTo` derives it from the fact that every set of numbers has a least one). `StreamInv`: but between `StreamHz` and `StreamDiv` the rate is the low bits of the one asked for, and the ticks are the rows times
  their period and what the divider has. `StoreInv`: the store under way is what its line orders, and the inactive slot has what the swap is to publish. `LineInv`: the buffer has what fits of the symbols typed and the rest is still to come, so that the line executed is the one typed, cut (`EndLine`). Then the swap, or the store of the rate, is the instant of the change.
- `EventQueue_proofs`: `SlotsAreExclusive`, `EventsAreKept` and `RefinesFifo`, for any size and priorities, with a single publisher. `IInv`: each side's loaded index is the ring's, and a passed test stays true, since only the other side moves away. `Advance` is injective.
  The refinement rests on what the ring holds: the i-th event from the tail is in slot `Place(tail, i)` (`RingIsQueue`). So a store to the slot at the head leaves the queue (`StoreKeepsRing`), moving the head appends that slot (`HeadAppends`), moving the tail takes the
  first event (`TailTakes`), and the test for a full ring is one for a full queue (`FullRing`), across the end of the array too. `Numbered` adds what either side has in hand, and that events come in the order of their numbers.
- `FaultMonitor_proofs`: `TypeCorrect`, `RaisedInTime`, `RegisterTells`, `RegisterForgets`, for any codes, thresholds and counter width, recoveries and configurations. `IInv`: the register follows the channels but for `forgiven` and `stale` codes and the code whose mask is not stored yet, and a mask in hand agrees with the
  register on all monitored codes (FOC's codes are others).
- `ControlLoop_proofs`: `BoundsAreKept`, `NothingStaysWoundUp`, for any gains, limits, targets and feedback. `Unwinds` speaks of lengths of runs; `IInv` adds what a run of length n has done: it took at least n units off the integral, which started within its limit
  and, as long as the demand opposes the error, has not reached zero. `SlowUnwinds` and `FastUnwinds` are one step of this argument as lemmas about the control laws.

- `Timing_proofs`: `TypeCorrect`, `ControllerTime`, `JitterIsShown`, `WatchdogIsRight`, for every clock width, limit, timeout set of delays of which no two take a lap of the clock, and set of `dt` that are stored short. `IInv` adds: the statistics are the extremes as stored (`ExtremesAreStored`), which are those that passed or one less; within a cycle the clock is at most
  one delay past the sample at the head; `dt` is the interval since the head before, cut at `DtMax`, or 0 where it cannot be told; outside the fast step the run's sum follows the head; the code's last feed is a sample of the past.
- `Sensing_proofs`: `TripsInTime`, `BlankingHolds`, for every limit and blanking time. `IInv`: what is left of the blanking and what went of it add up to it (`BlankCovers`), and the debounce counter follows the samples over the
  threshold but for what an interrupted `set_oc_blank` took off (`CountFollows`). `TypeCorrect`, `AngleStaysNear`, `VelocityIsShafts`, for every number of counts per turn, wiring, speed and error limit: `EInv` says that raw counts and turns are those of the last good read, that the
  angle is then the shaft's, and that since then there were as many cycles as the error counters say. Arithmetic modulo the resolution is a handful of lemmas about `%`.
- `EncAbi_proofs` is about the two machines around the incremental encoder and begins with the lemmas they share: `Same(a, b)` is equality modulo a turn; `SameSum`, `DeltaIs` and `WholeTurnIs` say how the encoder's operators respect it, `UpdateReports` what one update does.
  *On a shaft* (`EncAbiTracking`): `ShaftTracks`, `GoodStaysAbsolute`, `VelocityFollows`, for any bounds that satisfy `MoveAssumption`. `ShaftInv`: the last count is the shaft's but for the drift at the last good read; the total is the way since
  `origin`; what is unread is at most one move and one slip per read that failed, which is less than half a turn (`Reach`), so that the shortest way around is the way the shaft went (`DeltaNear`), and an index is met within half a turn of the whole turn that it is (`WholeNear`). The total is
  not determined once the shaft coasted; that it is right modulo a turn from the index on survives (`CoastFollows`).
  *In the calibration*: `NoVoltageIsLeft`, `FoundStaysAbsolute`, `SuccessIsEarned`, `CommutatesRight`, for every number of counts per turn, pole pairs, scan steps, their width and base vector. Three invariants, each on top of the one before:
  `Inv1` (types; the counter is followed, and an index that was found makes the total absolute; which plugins may have left a vector); `ScanInv2` (what a scan measured so far of a rotor that follows, sticks or is dragged: the way of the
  vectors, nothing, or a count per vector, of which only the first can pass both tests, and only with pole pairs within the tolerance and in the right direction; `NearProduct` takes the tolerance from the measured angles to the numbers, `NearIsExact` makes them equal if they are told apart); `ZeroInv` (with the motor's pole pairs, from the last vector on, total minus last count is steady modulo a turn, and the zero makes up for it).
  *In floats* (`Commutation`): `ElecIsTheRotors`, `FrameIsTheRotors`, for every precision, range of the floats, quarter of a turn, table of sines and number of its intervals that `FloatAssumption` and `TableAssumption` allow, the code's precision, quarter and 256 intervals included. They need no further invariant: `CommutatedIs` takes from `Inv1`, `ScanInv2` and `ZeroInv` that the exact angle is the rotor's, and the rest is about the operators.
  The gap at a number is the least that fits (`GapIs`) and grows with it (`GapGrows`); a number moves by at most half its gap when rounded (`FloatIs`), and not at all when short enough (`ShortFloat`). `Within(a, b, t)` then adds up along the computation: `RadiansAre`, `TurnsAre`, `ZeroIsNear`, `SumIsNear`. `WrapIsNear` is the wrap: for each outcome of the quotient the difference is less than a turn and a half
  on either side of 0, so that one correction suffices. For the frame, `SineNear` bounds the sine between two angles by their distance, `LookupIs` the table, and `UpperFrame` and `LowerFrame` go through the quadrants of the angles from 0 on and of those below, of which `LowerFloat` says what adding 2 pi does to them; `TurnFloat` and `TurnFrame` are the angles that it makes a whole turn.
  The first part cites the assumptions on `CPR`, `DtMax` and the shaft, the second those on `CPR`, `DtMax`, the motor and the scan, the third the latter and those on floats and table.

Assumptions of the theorems are the ASSUMEs of the modules (types and ranges of the constants; `FocCodes` disjoint from `Monitored`; delays below a lap) and the named conditions above. TLC evaluates the ASSUMEs in the runs.

**Only model-checked**: liveness (`PublishedIsRead`, `Drained`, the fairness in `ImplementsSettings`: out of the prover's reach); what the parser makes of one line or another (`OrdersFit`); and that the turns are `Limited` (a condition of two theorems, and a fact about the size of a motor's counts). Types of the lifecycle, the buffers, the ring, the monitor and the timing are proved only;
`Bounded` and the `TypeOK` of `Sensing` are invariants of their runs too, the types of `Calibration` and `EncAbiTracking` are conjuncts of their invariants, and the other modules have none.

## 6. Where code and documentation disagree

One is a run that TLC violates:

| run | code | says |
|---|---|---|
| `claim_CurrentIsDefined` | a tolerated overcurrent sample leaves the caller's uninitialized frame unwritten (`current_sense.c:110`) | the comment on that line: the old value is used |

Others were met while modelling; the conditions of properties (2, 4) exclude them:

- Lifecycle: a shutdown in LOCK stores FAULT (`motor_runtime.c:163`), and recovery READY, though LOCK ends with a power cycle only (147). `motor_enable` stores RUNNING (118) over a FAULT that came after its test (113); `README.md:759-761` draws two ways out of FAULT, neither to RUNNING.
  `motor_stop` clears neither the command buffer nor the setpoint: a command written while the motor was stopped is executed by the next run.
- Calibration: `motor_calibrate` discards the results of its plugins (`motor_runtime.c:92-96`) and goes to READY; `README.md:753` draws CALIBRATION to FAULT on failure.
- Modes: `README.md:778-788` has a `svc_set_mode` that calls `on_exit` and `on_enter` when the mode changes while running. There is none: `debug_cli.c:346` writes a command with the new mode, and the integral goes on.
- Buffers: two writes within one read tear it (`feedback.c:44`), as the Service task's reads may meet under a 20 kHz writer; two writes between two reads hide a new command (`command_buffer.c:49`), and `set_mode` does (`command_buffer.c:60`, against its comment). Two publishers overwrite each other (`event.c:21-28`).
- Faults: `|=` without protection can lose a code FOC raises (`fault.c:24`); latching is by severity, not also by action class as the comment there says. Recovery clears the register but not the channel, which never reports again until a value at `lo` (`fault_monitor.c:48`); reconfiguration resets the channel but not the register (35), where the code stays until the channel reports it again and clears it, or a recovery does; an undervoltage channel reports high values (45). The latch of an expired watchdog is downgraded by the next shutdown (`safety.c:21`).
- Time: `timebase.h:26` lets the consumer skip a cycle whose `valid` is false; `motor_runtime.c:222` does not look. `README.md:413` raises an overrun after several dt over the limit; nothing does. An interval of 247 us is shown as 246 (`stats.c:25`: the float 0.000247 times 10^6 is just under 247, and is cut). The extremes are forgotten after 2^32 steps (`stats.c:24`, against `stats.c:3`).
  A watchdog checked for the first time more than its timeout after power-on alarms, as the last feed is at 0 (`safety.c:14`).
- CLI: the stream's rate is stored in 8 bits (`debug_cli.c:376`): 256 Hz turns it off, 1000 Hz and -1 give 232, and the reply (380) repeats what was asked for. The period is cut to whole ticks (456), so that 255 Hz prints 333 rows a second, where `debug_cli.h:42` says one every 1s/stream_hz. Indented commands with arguments are refused (393, against the comment at 98). The header of the stream names 8 columns (379), a row has 10 (465-474).
  A command's sequence number is 1 or 2, whatever was sent before (346). A row may overwrite a reply in `fmt_buf` before it is printed (85).
- Configuration: `config_snapshot_read` returns true before anything was stored (`config_snapshot.c:44`, against the comment at 4).
- Absolute encoder: with `read_multi` the velocity counts the turn twice at the boundary (`enc_abs.c:150-152`; `test_enc_abs.c` expects it). The velocity is not updated by a read 1 s or more after the last good one (`enc_abs.c:166`): a run after such a rest begins with the velocity at which the last one ended, and the way of a read with the clock unmoved is in no velocity. Invalid reads before the first valid one pass on angle 0 as STALE, and after coasting the angle of the run before.
- Incremental encoder: the first index sets the total to 0 without moving `last_angle_rad`: a velocity spike and, if it comes while running, a jump of the commutation angle (`enc_abi.c:91-93`).
- Calibration: `cal_abi_align.c:98-105` checks the number of pole pairs, but from 20 pole pairs on a neighbour of the right number passes too: 21 configured as 20 or 22. The phase plugin runs after a failed index search, and an index met in its scan resets the angle it measures; the final alignment is not checked, so a rotor that stops following after the scans gives a wrong zero and success (`cal_abi_align.c:108-115`); setting `inverted` afterwards leaves `last_count` with the old sign, which shifts the angle unless counter and total agree modulo cpr (`enc_abi.c:79-86`). Error returns leave the vector applied. One context pointer is passed to three plugins of different context types (`motor_runtime.c:92-94`).
- Sine and cosine: for an angle just below 0, `a += 2 pi` rounds to 2 pi (`foc_trig.c:41`), though `foc_trig.c:30` and `foc_trig.h:43` say [0, 2 pi) and line 161 that the quadrant is 0 to 3. It is then 4, and sine and cosine are -1 and 0 instead of 0 and 1. The compiled code does so for every angle within half a float's gap below 2 pi, from about -2.4e-7 rad up to 0: one voltage vector a quarter turn off. `FrameIsRotors` says so of these angles and denies it of all others.
- Currents: the debounce counter survives a recovery (`current_sense.c:102`).

## 7. Not modelled, and why

Telemetry (assignments); Clarke, Park and inverse Park (sums of products without a branch), the polynomial and CORDIC sines, SVPWM (in the board's driver); the PLL estimators, error rates and the current controller's low pass (floating-point
filters without control flow); `set_param` (nothing calls it); `pid.c`, which nothing uses; what the CLI prints; boards, drivers and the simulated plant (outside the library: their answers are choices of the models).
Weak memory is no question on one core; compiler reordering across the release fence is excluded by the fence, and in the ring assumed away (2.2).

## 8. Plan

Order: what stops the motor first, then what carries data between tasks, then what measures, then what computes.

1. Done: lifecycle with `Interlock`; buffers with `Register`; event queue with `Fifo`; fault monitor; encoders; calibration; sampling; controllers and limiter; the FOC task in time with its watchdog; the debug CLI with `Settings`; commutation.
   Theorems for every group.
2. `ControlLoop` with the lifecycle's runs: what the setpoint and the integrals of one mode mean in the next, and the low pass between measurement and controller.
3. A composition of lifecycle, command, setpoint and feedback channels, so that "fresh" and "whole" are one statement about what reaches the gate.
4. What the CLI prints, with the row that overwrites a reply in `fmt_buf`.
