------------------------------ MODULE SimClock ------------------------------
(***************************************************************************)
(* The simulated clock (sim-core, env/simloop.rs and timers/): the loop    *)
(* counts instructions, takes a clock tick when current_delay of them have *)
(* run, and once a second of ticks calibrate_clock_ewma reads the host's   *)
(* clock and sets current_delay anew.  The other timers follow.            *)
(*                                                                         *)
(* The host's clock is an arbitrary reading: it is a wall clock (timers/   *)
(* platform/unix.rs), so it may have been set back, and it counts through  *)
(* any time the machine spent at the prompt.  Numbers that the code keeps  *)
(* as f64 are integers here, rounded down.  u32 arithmetic wraps, as in a  *)
(* release build.                                                          *)
(***************************************************************************)
EXTENDS Integers

CONSTANTS
  Timers,       \* timer identifiers
  Main,         \* timer 0, the one the loop calibrates
  MainRate,     \* its ticks per second (60)
  Rates,        \* frequencies other timers can be given
  InitialIPS,   \* CalibrationState::initial_ips: 5,000,000, the benchmark's result is dropped
  Batch,        \* INSTRUCTION_BATCH
  Second,       \* a second in units of get_msec (1000)
  GapTooBig,    \* 30000
  MaxDrift,     \* SIM_TMAX
  Wrap,         \* 2^32, where get_msec wraps
  Readings,     \* what get_msec can return
  MaxSamples,   \* bound: measurements in a behaviour
  MaxExecuted,  \* bound: instructions since the last measurement at a reset or when
                \* the host's clock has been set back
  MaxDebt       \* bound: debt in a behaviour

Initial(hz) == InitialIPS \div hz

ASSUME ClockAssumption ==
  /\ Main \in Timers
  /\ MainRate \in Nat \ {0} /\ Rates \subseteq Nat \ {0}
  /\ InitialIPS \in Nat
  /\ Batch \in Nat \ {0}
  /\ Batch <= Initial(MainRate) \div 5
  /\ Second \in Nat \ {0} /\ GapTooBig \in Nat /\ MaxDrift \in 0 .. Second
  /\ Wrap \in Nat \ {0} /\ Readings \subseteq 0 .. Wrap - 1
  /\ MaxSamples \in Nat /\ MaxExecuted \in Nat /\ MaxDebt \in Nat

VARIABLES
  rtcs,       \* TimerManager::rtcs
  average,    \* the moving average of CalibrationState
  executed,   \* total_instructions minus instructions_last of the main timer
  sinceTick,  \* instructions_since_tick
  ran,        \* TRUE between a batch and the loop's look at the clock
  debt        \* history: instructions of batches that were cut short, and
              \* what resets took off the delay

clockVars == <<rtcs, average, executed, sinceTick, ran, debt>>

\* hz = 0: not initialised.  Statistics are left out: nothing reads them.
RealTimeClock ==
  [hz : Nat, current : Int, base : Int, ticks : Nat,
   vtime : 0 .. Wrap - 1, rtime : 0 .. Wrap - 1, interval : Int]

CalibrationState == [smoothed : Int, accel : Int, samples : Nat]

ClockTypeOK ==
  /\ rtcs \in [Timers -> RealTimeClock]
  /\ average \in CalibrationState
  /\ executed \in Nat
  /\ sinceTick \in Nat
  /\ ran \in BOOLEAN
  /\ debt \in Nat

NewRtc ==
  [hz |-> 0, current |-> 0, base |-> 0, ticks |-> 0,
   vtime |-> 0, rtime |-> 0, interval |-> Second]

\* What init_timer makes of a clock: its tick count and instructions_last stay.
Initialised(rtc, hz, reading) ==
  [rtc EXCEPT !.hz = hz, !.current = Initial(hz), !.base = Initial(hz),
              !.vtime = reading, !.rtime = reading, !.interval = Second]

ClockInit ==
  /\ \E reading \in Readings :
       rtcs = [[t \in Timers |-> NewRtc] EXCEPT ![Main] = Initialised(NewRtc, MainRate, reading)]
  /\ average = [smoothed |-> InitialIPS, accel |-> 0, samples |-> 0]
  /\ executed = 0
  /\ sinceTick = 0
  /\ ran = FALSE
  /\ debt = 0

Least(a, b) == IF a <= b THEN a ELSE b
Greatest(a, b) == IF a <= b THEN b ELSE a
Clamp(x, low, high) == Greatest(low, Least(x, high))

\* update_ewma: alpha is 0.2, the alpha of the acceleration 0.1.
Smoothed(ips) == (ips + 4 * average.smoothed) \div 5

Updated(ips) ==
  IF average.samples = 0
  THEN [average EXCEPT !.smoothed = ips, !.samples = 1]
  ELSE [smoothed |-> Smoothed(ips),
        accel |-> (Smoothed(ips) - average.smoothed + 9 * average.accel) \div 10,
        samples |-> average.samples + 1]

Predicted(avg) == IF avg.samples > 2 THEN avg.smoothed + avg.accel ELSE avg.smoothed

\* Mutant: the gap is taken between u32s, where it is never negative.
Gap_Unsigned(vtime, rtime) == (vtime - rtime) % Wrap

\* vtime as i32 - rtime as i32: positive when simulated time is ahead.
Gap(vtime, rtime) ==
  LET d == (vtime - rtime) % Wrap IN IF 2 * d >= Wrap THEN d - Wrap ELSE d

\* Mutant: only the lower bound on the swing is applied.
Swung_NoCeiling(rtc, delay) == Greatest(Greatest(delay, 1), Initial(rtc.hz) \div 5)

\* Mutant: only the upper bound on the swing is applied.
Swung_NoFloor(rtc, delay) == Least(Greatest(delay, 1), 5 * Initial(rtc.hz))

\* At least 1, and at most five times more or less than the first estimate
\* (which the assumption makes positive).
Swung(rtc, delay) ==
  Clamp(Greatest(delay, 1), Initial(rtc.hz) \div 5, 5 * Initial(rtc.hz))

\* The last part of calibrate_clock_ewma: new rates from the average and from
\* how far simulated time is ahead of the host's.
Adjusted(rtc, avg, vtime, reading) ==
  LET base     == Predicted(avg) \div rtc.hz
      interval == Second + Clamp(Gap(vtime, reading), -MaxDrift, MaxDrift)
  IN  [rtc EXCEPT !.base = Greatest(base, 1),
                  !.interval = interval,
                  !.current = Swung(rtc, (base * interval) \div Second),
                  !.ticks = 0, !.vtime = vtime, !.rtime = reading]

\* Mutant: divided before it is multiplied.
Follow_Truncated(rtc) ==
  [t \in Timers |->
     IF t = Main THEN rtc
     ELSE IF rtcs[t].hz = 0 THEN rtcs[t]
     ELSE [rtcs[t] EXCEPT !.current = Greatest(1, (rtc.current \div rtcs[t].hz) * rtc.hz)]]

\* adjust_dependent_timers, after timer Main has become rtc.
Follow(rtc) ==
  [t \in Timers |->
     IF t = Main THEN rtc
     ELSE IF rtcs[t].hz = 0 THEN rtcs[t]
     ELSE [rtcs[t] EXCEPT !.current = Greatest(1, (rtc.current * rtc.hz) \div rtcs[t].hz)]]

-----------------------------------------------------------------------------
\* A full batch, which add_instructions counts.
RunBatch ==
  /\ ~ran
  /\ ran' = TRUE
  /\ sinceTick' = sinceTick + Batch
  /\ executed' = executed + Batch
  /\ UNCHANGED <<rtcs, average, debt>>

\* An instruction stops the machine: those before it are in
\* instructions_since_tick, total_instructions misses them, and the loop
\* leaves without looking at the clock.
CutShort ==
  /\ ~ran
  /\ \E n \in 1 .. Batch - 1 :
       /\ debt + n <= MaxDebt
       /\ sinceTick' = sinceTick + n
       /\ debt' = debt + n
  /\ UNCHANGED <<rtcs, average, executed, ran>>

\* Not a tick yet.
NoTick ==
  /\ ran
  /\ sinceTick < rtcs[Main].current
  /\ ran' = FALSE
  /\ UNCHANGED <<rtcs, average, executed, sinceTick, debt>>

\* calibrate_timer(0, 60) with what it makes of timer 0, of the average and of
\* the instructions since the last measurement.
TickTaken(rtc, avg, left) ==
  /\ ran
  /\ sinceTick >= rtcs[Main].current
  /\ sinceTick' = sinceTick - rtcs[Main].current
  /\ rtcs' = Follow(rtc)
  /\ average' = avg
  /\ executed' = left
  /\ ran' = FALSE
  /\ UNCHANGED debt

\* The outcomes of calibrate_clock_ewma, in its order.
Tick ==
  LET rtc == rtcs[Main] IN
  /\ rtc.ticks + 1 < MainRate
  /\ TickTaken([rtc EXCEPT !.ticks = @ + 1], average, executed)

SecondDue == rtcs[Main].ticks + 1 >= MainRate
Elapsed(reading) == reading - rtcs[Main].rtime

\* The host's clock was set back.  instructions_last stays behind.
WentBack(reading) ==
  LET rtc == rtcs[Main] IN
  /\ SecondDue
  /\ Elapsed(reading) < 0
  /\ executed <= MaxExecuted
  /\ TickTaken([rtc EXCEPT !.ticks = 0, !.vtime = reading, !.rtime = reading,
                           !.interval = Second, !.base = rtc.current], average, executed)

\* A long gap: simulated time starts again from the host's.
Resynchronised(reading) ==
  LET rtc == rtcs[Main] IN
  /\ SecondDue
  /\ Elapsed(reading) > GapTooBig
  /\ TickTaken([rtc EXCEPT !.ticks = 0, !.vtime = reading, !.rtime = reading,
                           !.interval = Second, !.base = rtc.current], average, 0)

\* Mutant: simulated time does not wrap with the host's clock.
NextVtime_Grows == rtcs[Main].vtime + Second

NextVtime == (rtcs[Main].vtime + Second) % Wrap

NoTimePassed(reading) ==
  LET rtc == rtcs[Main] IN
  /\ SecondDue
  /\ Elapsed(reading) = 0
  /\ TickTaken([rtc EXCEPT !.ticks = 0, !.vtime = NextVtime], average, 0)

Measured(reading) ==
  LET rtc == rtcs[Main]
      avg == Updated((executed * Second) \div Elapsed(reading)) IN
  /\ SecondDue
  /\ Elapsed(reading) \in 1 .. GapTooBig
  /\ average.samples < MaxSamples
  /\ TickTaken(Adjusted(rtc, avg, NextVtime, reading), avg, 0)

\* init_timer for a timer of the machine's devices.  The reading is not kept:
\* only calibrate_timer of the same timer looks at it, and nothing calls that.
InitTimer ==
  /\ \E t \in Timers \ {Main}, hz \in Rates :
       /\ rtcs[t].hz = 0
       /\ rtcs' = [rtcs EXCEPT ![t] = Initialised(rtcs[t], hz, rtcs[t].rtime)]
  /\ UNCHANGED <<average, executed, sinceTick, ran, debt>>

\* reset_calibration: the average, the times and the host's reading stay.
ResetCalibration ==
  /\ executed <= MaxExecuted
  /\ rtcs' = [t \in Timers |->
                IF rtcs[t].hz = 0 THEN rtcs[t]
                ELSE [rtcs[t] EXCEPT !.current = Initial(rtcs[t].hz),
                                     !.base = Initial(rtcs[t].hz), !.ticks = 0]]
  /\ debt' = debt + Greatest(0, rtcs[Main].current - Initial(MainRate))
  /\ debt' <= MaxDebt
  /\ UNCHANGED <<average, executed, sinceTick, ran>>

CalibrateOn(reading) ==
  \/ WentBack(reading) \/ Resynchronised(reading) \/ NoTimePassed(reading) \/ Measured(reading)

ClockNext ==
  \/ RunBatch \/ CutShort \/ NoTick \/ Tick
  \/ \E reading \in Readings : CalibrateOn(reading)
  \/ InitTimer \/ ResetCalibration

ClockSpec == ClockInit /\ [][ClockNext]_clockVars

-----------------------------------------------------------------------------
\* The delay of timer 0 stays within five times of the first estimate, either
\* way, whatever the host's clock says: the prompt, a clock set back and a
\* machine that stalls can all spoil a measurement, and this is what limits
\* the damage (calibration.rs:111-124).
DelayInRange ==
  rtcs[Main].current \in Initial(MainRate) \div 5 .. 5 * Initial(MainRate)

\* The loop takes at most one tick a batch (simloop.rs:140), and yet the
\* clock owes no whole tick beyond the debt of batches that were cut short and
\* of resets: a delay is never below a batch, however calibration turns out.
TicksKeepUp ==
  sinceTick < rtcs[Main].current + debt + (IF ran THEN Batch ELSE 0)

\* The product that adjust_dependent_timers computes in i32 is bounded by
\* initial_ips (manager.rs:303): it fits as long as five times that does.
ProductInRange == rtcs[Main].current * rtcs[Main].hz <= 5 * InitialIPS

\* After a measurement, a machine that is behind the host's clock is given no
\* longer a second than the nominal one, and one that is ahead no shorter,
\* also when the clocks are on two sides of 2^31 or of 2^32.
CatchesUp ==
  [][\A reading \in Readings : Measured(reading) =>
       LET gap == (rtcs'[Main].vtime - rtcs'[Main].rtime) % Wrap IN
       /\ 2 * gap > Wrap => rtcs'[Main].interval <= Second
       /\ 2 * gap < Wrap => rtcs'[Main].interval >= Second]_clockVars

\* Whenever the main timer ticks, a timer of any other frequency keeps the ratio
\* of the two, to within rounding: its delay times its frequency is short of the
\* main timer's by less than its frequency.
DependentsInStep ==
  [][sinceTick' < sinceTick =>
       \A t \in Timers : rtcs[t].hz # 0 =>
         LET ahead == rtcs'[Main].current * MainRate - rtcs'[t].current * rtcs[t].hz IN
         rtcs'[t].current > 1 => ahead \in 0 .. rtcs[t].hz - 1]_clockVars
=============================================================================
