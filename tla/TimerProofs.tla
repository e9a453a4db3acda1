---------------------------- MODULE TimerProofs ----------------------------
(***************************************************************************)
(* What calibration and throttling never do, whatever the host's clock     *)
(* reads and whatever a client asks for.                                   *)
(***************************************************************************)
EXTENDS MCTimers, TLAPS

-----------------------------------------------------------------------------
(***************************************************************************)
(* Arithmetic.                                                             *)
(***************************************************************************)
LEMMA QuotientFacts ==
  ASSUME NEW n \in Nat, NEW d \in Nat \ {0}
  PROVE  n \div d \in Nat /\ (n \div d) * d <= n
  BY SMT

LEMMA IntQuotient ==
  ASSUME NEW n \in Int, NEW d \in Nat \ {0}
  PROVE  n \div d \in Int
  BY SMT

LEMMA ProductIsNat ==
  ASSUME NEW a \in Nat, NEW b \in Nat
  PROVE  a * b \in Nat
  BY SMT

LEMMA ProductIsMonotone ==
  ASSUME NEW a \in Int, NEW b \in Int, NEW c \in Nat, a <= b
  PROVE  a * c <= b * c
  BY SMT

LEMMA RemainderFacts ==
  ASSUME NEW n \in Int
  PROVE  n % Wrap \in 0 .. Wrap - 1
  BY ClockAssumption, SMT

LEMMA ClockConstants ==
  /\ Second \in Int /\ Readings \subseteq 0 .. Wrap - 1 /\ 0 \in 0 .. Wrap - 1
  /\ MainRate \in Nat /\ InitialIPS \in Int
  BY ClockAssumption

\* The first estimate of a timer's delay, and the range of the main timer's.
Low  == Initial(MainRate) \div 5
High == 5 * Initial(MainRate)

LEMMA InitialFacts ==
  ASSUME NEW hz \in Nat \ {0}
  PROVE  Initial(hz) \in Nat /\ Initial(hz) * hz <= InitialIPS
  BY QuotientFacts, ClockAssumption DEF Initial

LEMMA RangeFacts ==
  /\ Initial(MainRate) \in Nat /\ Initial(MainRate) * MainRate <= InitialIPS
  /\ Low \in Nat /\ High \in Nat /\ Low <= Initial(MainRate) /\ Initial(MainRate) <= High
  /\ Batch <= Low
<1>1. Initial(MainRate) \in Nat /\ Initial(MainRate) * MainRate <= InitialIPS
  BY InitialFacts, ClockAssumption
<1>2. Batch <= Low
  BY ClockAssumption DEF Low
<1> QED
  BY <1>1, <1>2, SMT DEF Low, High

\* The limit on the swing puts any delay in the range.
LEMMA SwingIsLimited ==
  ASSUME NEW rtc \in RealTimeClock, rtc.hz = MainRate, NEW delay \in Int
  PROVE  Swung(rtc, delay) \in Low .. High
  BY RangeFacts, SMT DEF Swung, Clamp, Least, Greatest, Low, High, RealTimeClock

LEMMA RtcRestarted ==
  ASSUME NEW rtc \in RealTimeClock, NEW reading \in Readings, NEW new,
         new = [rtc EXCEPT !.ticks = 0, !.vtime = reading, !.rtime = reading,
                           !.interval = Second, !.base = rtc.current]
  PROVE  new \in RealTimeClock /\ new.hz = rtc.hz /\ new.current = rtc.current
<1>1. rtc.current \in Int /\ reading \in 0 .. Wrap - 1 /\ rtc.hz \in Nat
  BY ClockConstants DEF RealTimeClock
<1>2. new = [hz |-> rtc.hz, current |-> rtc.current, base |-> rtc.current, ticks |-> 0,
             vtime |-> reading, rtime |-> reading, interval |-> Second]
  BY DEF RealTimeClock
<1> QED
  BY <1>1, <1>2, ClockConstants DEF RealTimeClock

LEMMA InitialisedFacts ==
  ASSUME NEW rtc \in RealTimeClock, NEW hz \in Nat, Initial(hz) \in Int,
         NEW reading \in 0 .. Wrap - 1
  PROVE  /\ Initialised(rtc, hz, reading) \in RealTimeClock
         /\ Initialised(rtc, hz, reading).hz = hz
         /\ Initialised(rtc, hz, reading).current = Initial(hz)
<1> DEFINE first == Initial(hz)
<1>1. Initialised(rtc, hz, reading)
        = [rtc EXCEPT !.hz = hz, !.current = first, !.base = first,
                      !.vtime = reading, !.rtime = reading, !.interval = Second]
  BY DEF Initialised
<1>2. first \in Int /\ Second \in Int
  BY ClockConstants
<1> HIDE DEF first
<1>3. Initialised(rtc, hz, reading)
        = [hz |-> hz, current |-> first, base |-> first, ticks |-> rtc.ticks,
           vtime |-> reading, rtime |-> reading, interval |-> Second]
  BY <1>1 DEF RealTimeClock
<1>4. rtc.ticks \in Nat
  BY DEF RealTimeClock
<1>5. Initialised(rtc, hz, reading) \in RealTimeClock
  BY <1>2, <1>3, <1>4 DEF RealTimeClock
<1> QED
  BY <1>3, <1>5 DEF first

-----------------------------------------------------------------------------
(***************************************************************************)
(* The clock.                                                              *)
(***************************************************************************)
\* Why the ticks keep up: the loop takes one tick a batch and no delay is
\* shorter than a batch; a delay is in range because every value calibration
\* assigns to it went through the limit on the swing.
ClockInvariant ==
  /\ ClockTypeOK
  /\ rtcs[Main].hz = MainRate
  /\ DelayInRange
  /\ TicksKeepUp

LEMMA PredictionIsInt ==
  ASSUME ClockTypeOK, NEW ips \in Int
  PROVE  Updated(ips) \in CalibrationState /\ Predicted(Updated(ips)) \in Int
<1>1. Smoothed(ips) \in Int
  BY IntQuotient, SMT DEF ClockTypeOK, CalibrationState, Smoothed
<1> DEFINE accel == (Smoothed(ips) - average.smoothed + 9 * average.accel) \div 10
<1>2. accel \in Int
  BY <1>1, SMT DEF ClockTypeOK, CalibrationState
<1>3. Updated(ips) = IF average.samples = 0
                     THEN [average EXCEPT !.smoothed = ips, !.samples = 1]
                     ELSE [smoothed |-> Smoothed(ips), accel |-> accel,
                           samples |-> average.samples + 1]
  BY DEF Updated
<1> HIDE DEF accel
<1>4. Updated(ips) \in CalibrationState
  <2>1. average.samples \in Nat /\ average.accel \in Int
    BY DEF ClockTypeOK, CalibrationState
  <2>2. CASE average.samples = 0
    <3>1. Updated(ips) = [average EXCEPT !.smoothed = ips, !.samples = 1]
      BY <1>3, <2>2
    <3>2. Updated(ips) = [smoothed |-> ips, accel |-> average.accel, samples |-> 1]
      BY <3>1 DEF ClockTypeOK, CalibrationState
    <3> QED
      BY <2>1, <3>2 DEF CalibrationState
  <2>3. CASE average.samples # 0
    <3>1. Updated(ips) = [smoothed |-> Smoothed(ips), accel |-> accel,
                          samples |-> average.samples + 1]
      BY <1>3, <2>3
    <3>2. average.samples + 1 \in Nat
      BY <2>1
    <3> QED
      BY <1>1, <1>2, <3>1, <3>2 DEF CalibrationState
  <2> QED
    BY <2>2, <2>3
<1> QED
  BY <1>4, SMT DEF CalibrationState, Predicted

LEMMA GapIsInt ==
  ASSUME NEW a \in Int, NEW b \in Int
  PROVE  Gap(a, b) \in Int
  BY RemainderFacts, ClockAssumption DEF Gap

LEMMA AdjustedFacts ==
  ASSUME NEW rtc \in RealTimeClock, rtc.hz = MainRate,
         NEW avg, Predicted(avg) \in Int,
         NEW vtime \in 0 .. Wrap - 1, NEW reading \in Readings
  PROVE  /\ Adjusted(rtc, avg, vtime, reading) \in RealTimeClock
         /\ Adjusted(rtc, avg, vtime, reading).hz = MainRate
         /\ Adjusted(rtc, avg, vtime, reading).current \in Low .. High
<1> DEFINE base     == Predicted(avg) \div rtc.hz
           interval == Second + Clamp(Gap(vtime, reading), -MaxDrift, MaxDrift)
<1>1. base \in Int
  BY IntQuotient, ClockAssumption
<1>2. reading \in 0 .. Wrap - 1
  BY ClockAssumption
<1>3. interval \in Int
  BY GapIsInt, <1>2, ClockAssumption, SMT DEF Clamp, Least, Greatest
<1>4. base * interval \in Int
  BY <1>1, <1>3, SMT
<1>5. (base * interval) \div Second \in Int
  BY <1>4, IntQuotient, ClockAssumption
<1>6. Swung(rtc, (base * interval) \div Second) \in Low .. High
  BY <1>5, SwingIsLimited
<1>7. Greatest(base, 1) \in Int
  BY <1>1, SMT DEF Greatest
<1>8. Adjusted(rtc, avg, vtime, reading)
        = [rtc EXCEPT !.base = Greatest(base, 1), !.interval = interval,
                      !.current = Swung(rtc, (base * interval) \div Second),
                      !.ticks = 0, !.vtime = vtime, !.rtime = reading]
  BY DEF Adjusted
<1> DEFINE current == Swung(rtc, (base * interval) \div Second)
           floor   == Greatest(base, 1)
<1>9. /\ current \in Int /\ current \in Low .. High /\ floor \in Int
      /\ Adjusted(rtc, avg, vtime, reading)
           = [rtc EXCEPT !.base = floor, !.interval = interval, !.current = current,
                         !.ticks = 0, !.vtime = vtime, !.rtime = reading]
  BY <1>6, <1>7, <1>8, RangeFacts
<1> DEFINE new == Adjusted(rtc, avg, vtime, reading)
<1> HIDE DEF base, interval, current, floor
<1>10. new = [rtc EXCEPT !.base = floor, !.interval = interval, !.current = current,
                         !.ticks = 0, !.vtime = vtime, !.rtime = reading]
  BY <1>9
<1> HIDE DEF new
<1>11. new = [hz |-> rtc.hz, current |-> current, base |-> floor, ticks |-> 0,
              vtime |-> vtime, rtime |-> reading, interval |-> interval]
  BY <1>10 DEF RealTimeClock
<1>12. rtc.hz \in Nat /\ 0 \in Nat /\ current \in Int /\ floor \in Int
  BY <1>9 DEF RealTimeClock
<1>13. new \in RealTimeClock
  BY <1>2, <1>3, <1>11, <1>12 DEF RealTimeClock
<1>14. new.hz = MainRate /\ new.current = current
  BY <1>11
<1> QED
  BY <1>9, <1>13, <1>14 DEF new

LEMMA FollowFacts ==
  ASSUME ClockTypeOK, NEW rtc \in RealTimeClock
  PROVE  Follow(rtc) \in [Timers -> RealTimeClock] /\ Follow(rtc)[Main] = rtc
<1>1. ASSUME NEW t \in Timers, t # Main, rtcs[t].hz # 0
      PROVE  [rtcs[t] EXCEPT !.current = Greatest(1, (rtc.current * rtc.hz) \div rtcs[t].hz)]
               \in RealTimeClock
  <2>1. rtcs[t] \in RealTimeClock /\ rtcs[t].hz \in Nat \ {0}
    BY <1>1 DEF ClockTypeOK, RealTimeClock
  <2>2. rtc.current * rtc.hz \in Int
    BY SMT DEF RealTimeClock
  <2>3. (rtc.current * rtc.hz) \div rtcs[t].hz \in Int
    BY <2>1, <2>2, IntQuotient
  <2>4. Greatest(1, (rtc.current * rtc.hz) \div rtcs[t].hz) \in Int
    BY <2>3, SMT DEF Greatest
  <2> QED
    BY <2>1, <2>4 DEF RealTimeClock
<1> QED
  BY <1>1, ClockAssumption DEF Follow, ClockTypeOK

\* A tick that leaves the delay in range keeps the clock on time.
LEMMA TickKeeps ==
  ASSUME ClockInvariant, NEW rtc \in RealTimeClock, rtc.hz = MainRate,
         rtc.current \in Low .. High, NEW avg \in CalibrationState, NEW left \in Nat,
         TickTaken(rtc, avg, left)
  PROVE  ClockInvariant'
<1>1. rtcs' \in [Timers -> RealTimeClock] /\ rtcs'[Main] = rtc
  BY FollowFacts DEF TickTaken, ClockInvariant
<1>2. rtcs[Main].current \in Int /\ rtc.current \in Int
  BY ClockAssumption DEF ClockInvariant, ClockTypeOK, RealTimeClock
<1>3. sinceTick' \in Nat /\ sinceTick' < Batch + debt
  BY <1>2, ClockAssumption DEF ClockInvariant, ClockTypeOK, TickTaken, TicksKeepUp
<1>4. sinceTick' < rtc.current + debt
  BY <1>2, <1>3, RangeFacts, ClockAssumption DEF ClockInvariant, ClockTypeOK
<1>5. ClockTypeOK'
  BY <1>1, <1>3 DEF ClockInvariant, ClockTypeOK, TickTaken
<1> QED
  <2>1. DelayInRange'
    BY <1>1 DEF DelayInRange, Low, High
  <2>2. TicksKeepUp'
    <3>1. ran' = FALSE /\ debt' = debt
      BY DEF TickTaken
    <3> QED
      BY <1>1, <1>2, <1>3, <1>4, <3>1 DEF TicksKeepUp, ClockInvariant, ClockTypeOK
  <2> QED
    BY <1>1, <1>5, <2>1, <2>2 DEF ClockInvariant

LEMMA ClockInitHolds == ClockInit => ClockInvariant
<1> SUFFICES ASSUME ClockInit PROVE ClockInvariant
  OBVIOUS
<1>1. PICK reading \in Readings :
        rtcs = [[t \in Timers |-> NewRtc] EXCEPT ![Main] = Initialised(NewRtc, MainRate, reading)]
  BY DEF ClockInit
<1>2. NewRtc \in RealTimeClock
  BY ClockConstants DEF NewRtc, RealTimeClock
<1>3. Initialised(NewRtc, MainRate, reading) \in RealTimeClock
  BY <1>2, InitialisedFacts, RangeFacts, ClockConstants
<1>4. rtcs \in [Timers -> RealTimeClock] /\ rtcs[Main] = Initialised(NewRtc, MainRate, reading)
  BY <1>1, <1>2, <1>3, ClockAssumption
<1>5. rtcs[Main].hz = MainRate /\ rtcs[Main].current = Initial(MainRate)
  BY <1>2, <1>4, InitialisedFacts, RangeFacts, ClockConstants
<1>6. ClockTypeOK
  <2>1. average \in CalibrationState
    BY ClockConstants DEF ClockInit, CalibrationState
  <2> QED
    BY <1>4, <2>1 DEF ClockInit, ClockTypeOK
<1> QED
  BY <1>5, <1>6, RangeFacts, ClockAssumption
  DEF ClockInvariant, ClockInit, DelayInRange, TicksKeepUp, Low, High

LEMMA ClockStepKeeps ==
  ASSUME ClockInvariant, [ClockNext]_clockVars
  PROVE  ClockInvariant'
<1> DEFINE rtc == rtcs[Main]
<1>1. rtc \in RealTimeClock /\ rtc.hz = MainRate /\ rtc.current \in Low .. High
  BY ClockAssumption DEF ClockInvariant, ClockTypeOK, DelayInRange, Low, High
<1>2. average \in CalibrationState /\ executed \in Nat
  BY DEF ClockInvariant, ClockTypeOK
<1>3. /\ rtcs[Main].current \in Int /\ sinceTick \in Nat /\ debt \in Nat /\ Batch \in Nat
      /\ sinceTick < rtcs[Main].current + debt + (IF ran THEN Batch ELSE 0)
  BY <1>1, ClockAssumption DEF ClockInvariant, ClockTypeOK, TicksKeepUp, RealTimeClock
<1>4. ASSUME rtcs' = rtcs, average' = average, executed' \in Nat, sinceTick' \in Nat,
             ran' \in BOOLEAN, debt' \in Nat, TicksKeepUp'
      PROVE  ClockInvariant'
  <2>1. ClockTypeOK'
    BY <1>4 DEF ClockInvariant, ClockTypeOK
  <2>2. DelayInRange' /\ rtcs'[Main].hz = MainRate
    BY <1>4 DEF ClockInvariant, DelayInRange
  <2> QED
    BY <1>4, <2>1, <2>2 DEF ClockInvariant
<1>5. CASE RunBatch
  <2>1. /\ sinceTick' = sinceTick + Batch /\ executed' = executed + Batch /\ ran' = TRUE
        /\ ran = FALSE /\ UNCHANGED <<rtcs, average, debt>>
    BY <1>5 DEF RunBatch, ClockInvariant, ClockTypeOK
  <2>2. TicksKeepUp'
    BY <1>3, <2>1 DEF TicksKeepUp
  <2>3. sinceTick' \in Nat /\ executed' \in Nat
    BY <1>2, <1>3, <2>1
  <2> QED
    BY <1>3, <1>4, <2>1, <2>2, <2>3
<1>6. CASE UNCHANGED clockVars
  <2>1. TicksKeepUp'
    BY <1>6 DEF ClockInvariant, TicksKeepUp, clockVars
  <2> QED
    BY <1>2, <1>3, <1>6, <1>4, <2>1 DEF clockVars, ClockInvariant, ClockTypeOK
<1>7. CASE CutShort
  <2>1. PICK n \in 1 .. Batch - 1 : sinceTick' = sinceTick + n /\ debt' = debt + n
    BY <1>7 DEF CutShort
  <2>2. UNCHANGED <<rtcs, average, executed, ran>>
    BY <1>7 DEF CutShort
  <2>3. TicksKeepUp'
    BY <1>3, <2>1, <2>2 DEF TicksKeepUp
  <2>4. sinceTick' \in Nat /\ debt' \in Nat
    BY <1>3, <2>1
  <2> QED
    BY <1>2, <1>4, <2>2, <2>3, <2>4 DEF ClockInvariant, ClockTypeOK
<1>8. CASE NoTick
  <2>1. ran' = FALSE /\ sinceTick < rtcs[Main].current
        /\ UNCHANGED <<rtcs, average, executed, sinceTick, debt>>
    BY <1>8 DEF NoTick
  <2>2. TicksKeepUp'
    BY <1>3, <2>1 DEF TicksKeepUp
  <2> QED
    BY <1>2, <1>3, <1>4, <2>1, <2>2
<1>9. CASE Tick
  <2>1. [rtc EXCEPT !.ticks = @ + 1] \in RealTimeClock
    BY <1>1 DEF RealTimeClock
  <2> QED
    BY <1>1, <1>2, <1>9, <2>1, TickKeeps DEF Tick, RealTimeClock
<1>10. ASSUME NEW reading \in Readings, WentBack(reading) \/ Resynchronised(reading)
      PROVE  ClockInvariant'
  <2> DEFINE new == [rtc EXCEPT !.ticks = 0, !.vtime = reading, !.rtime = reading,
                                !.interval = Second, !.base = rtc.current]
  <2>1. new \in RealTimeClock /\ new.hz = rtc.hz /\ new.current = rtc.current
    BY <1>1, RtcRestarted
  <2>2. TickTaken(new, average, executed) \/ TickTaken(new, average, 0)
    BY <1>10 DEF WentBack, Resynchronised
  <2> QED
    BY <1>1, <1>2, <2>1, <2>2, TickKeeps
<1>11. NextVtime \in 0 .. Wrap - 1
  BY <1>1, RemainderFacts, ClockAssumption DEF NextVtime, RealTimeClock
<1>12. ASSUME NEW reading \in Readings, NoTimePassed(reading)
      PROVE  ClockInvariant'
  <2>1. [rtc EXCEPT !.ticks = 0, !.vtime = NextVtime] \in RealTimeClock
    BY <1>1, <1>11 DEF RealTimeClock
  <2> QED
    BY <1>1, <1>2, <1>12, <2>1, TickKeeps DEF NoTimePassed, RealTimeClock
<1>13. ASSUME NEW reading \in Readings, Measured(reading)
      PROVE  ClockInvariant'
  <2> DEFINE ips == (executed * Second) \div Elapsed(reading)
  <2>1. Elapsed(reading) \in Nat \ {0}
    BY <1>1, <1>13, ClockAssumption DEF Measured, Elapsed, RealTimeClock
  <2>2. executed * Second \in Nat
    BY <1>2, ProductIsNat, ClockAssumption
  <2>3. ips \in Int
    BY <2>1, <2>2, QuotientFacts
  <2> HIDE DEF ips
  <2>4. Updated(ips) \in CalibrationState /\ Predicted(Updated(ips)) \in Int
    BY <2>3, PredictionIsInt DEF ClockInvariant
  <2>5. TickTaken(Adjusted(rtc, Updated(ips), NextVtime, reading), Updated(ips), 0)
    BY <1>13 DEF Measured, ips
  <2> QED
    BY <1>1, <1>11, <2>4, <2>5, AdjustedFacts, TickKeeps
<1>14. CASE InitTimer
  <2>1. PICK t \in Timers \ {Main} : \E hz \in Rates :
          rtcs' = [rtcs EXCEPT ![t] = Initialised(rtcs[t], hz, rtcs[t].rtime)]
    BY <1>14 DEF InitTimer
  <2>2. PICK hz \in Rates :
          rtcs' = [rtcs EXCEPT ![t] = Initialised(rtcs[t], hz, rtcs[t].rtime)]
    BY <2>1
  <2>3. hz \in Nat \ {0} /\ Initial(hz) \in Int
    BY InitialFacts, ClockAssumption
  <2>4. Initialised(rtcs[t], hz, rtcs[t].rtime) \in RealTimeClock
    <3>1. rtcs[t] \in RealTimeClock /\ rtcs[t].rtime \in 0 .. Wrap - 1
      BY DEF RealTimeClock, ClockInvariant, ClockTypeOK
    <3> QED
      BY <2>3, <3>1, InitialisedFacts
  <2>5. rtcs' \in [Timers -> RealTimeClock] /\ rtcs'[Main] = rtcs[Main]
    BY <2>2, <2>4, ClockAssumption DEF ClockInvariant, ClockTypeOK
  <2> QED
    BY <1>14, <2>5 DEF InitTimer, ClockInvariant, ClockTypeOK, DelayInRange, TicksKeepUp
<1>15. CASE ResetCalibration
  <2>1. ASSUME NEW t \in Timers, rtcs[t].hz # 0
        PROVE  [rtcs[t] EXCEPT !.current = Initial(rtcs[t].hz), !.base = Initial(rtcs[t].hz),
                               !.ticks = 0] \in RealTimeClock
    <3>1. rtcs[t] \in RealTimeClock /\ rtcs[t].hz \in Nat \ {0}
      BY <2>1 DEF ClockInvariant, ClockTypeOK, RealTimeClock
    <3>2. Initial(rtcs[t].hz) \in Int
      BY <3>1, InitialFacts
    <3> QED
      BY <3>1, <3>2 DEF RealTimeClock
  <2>2. rtcs' \in [Timers -> RealTimeClock]
    BY <1>15, <2>1 DEF ResetCalibration, ClockInvariant, ClockTypeOK
  <2>3. rtcs'[Main].hz = MainRate /\ rtcs'[Main].current = Initial(MainRate)
    BY <1>1, <1>15, ClockAssumption DEF ResetCalibration, RealTimeClock
  <2>4. debt' \in Nat /\ debt' + Initial(MainRate) >= debt + rtcs[Main].current
    <3>1. debt' = debt + Greatest(0, rtcs[Main].current - Initial(MainRate))
      BY <1>15 DEF ResetCalibration
    <3>2. Initial(MainRate) \in Nat
      BY RangeFacts
    <3> QED
      BY <1>3, <3>1, <3>2 DEF Greatest
  <2>5. ClockTypeOK'
    BY <1>15, <2>2, <2>4 DEF ResetCalibration, ClockInvariant, ClockTypeOK
  <2>6. TicksKeepUp'
    <3>1. sinceTick' = sinceTick /\ ran' = ran
      BY <1>15 DEF ResetCalibration
    <3>2. Initial(MainRate) \in Nat
      BY RangeFacts
    <3> QED
      BY <1>3, <2>3, <2>4, <3>1, <3>2 DEF TicksKeepUp
  <2> QED
    BY <2>3, <2>5, <2>6, RangeFacts DEF ClockInvariant, DelayInRange, Low, High
<1> QED
  BY <1>5, <1>7, <1>8, <1>6, <1>9, <1>10, <1>12, <1>13, <1>14, <1>15 DEF ClockNext, CalibrateOn

\* The clock's invariant holds in every behaviour.
THEOREM ClockIsCalibrated == ClockSpec => []ClockInvariant
<1>1. ClockInvariant /\ [ClockNext]_clockVars => ClockInvariant'
  BY ClockStepKeeps
<1> QED
  BY <1>1, ClockInitHolds, PTL DEF ClockSpec

\* The loop takes a tick as often as the delay asks for one, for every batch,
\* first estimate and rate that leave a batch shorter than the shortest delay
\* (simloop.rs:140).
THEOREM TicksAreOnTime == ClockSpec => []TicksKeepUp
<1>1. ClockInvariant => TicksKeepUp
  BY DEF ClockInvariant
<1> QED
  BY <1>1, ClockIsCalibrated, PTL

\* The product that adjust_dependent_timers forms never exceeds five times
\* initial_ips (manager.rs:303), whatever that is.
THEOREM ProductIsBounded == ClockSpec => []ProductInRange
<1>1. ClockInvariant => ProductInRange
  <2> SUFFICES ASSUME ClockInvariant PROVE ProductInRange
    OBVIOUS
  <2>1. rtcs[Main].current \in Int /\ rtcs[Main].current <= High /\ rtcs[Main].hz = MainRate
    BY RangeFacts, ClockAssumption
    DEF ClockInvariant, ClockTypeOK, RealTimeClock, DelayInRange, High
  <2>2. rtcs[Main].current * MainRate <= High * MainRate
    BY <2>1, RangeFacts, ProductIsMonotone, ClockAssumption
  <2>3. High * MainRate = 5 * (Initial(MainRate) * MainRate)
    BY RangeFacts, ClockAssumption, SMT DEF High
  <2>4. 5 * (Initial(MainRate) * MainRate) <= 5 * InitialIPS
    BY RangeFacts, ClockAssumption, SMT
  <2>5. rtcs[Main].current * MainRate \in Int /\ Initial(MainRate) * MainRate \in Int
    BY <2>1, RangeFacts, ClockAssumption, SMT
  <2> QED
    BY <2>1, <2>2, <2>3, <2>4, <2>5, ClockAssumption, SMT DEF ProductInRange
<1> QED
  BY <1>1, ClockIsCalibrated, PTL

\* Only a tick takes instructions off the count, and it sets every timer by the
\* main one.
LEMMA TicksLead ==
  ASSUME ClockInvariant, [ClockNext]_clockVars, sinceTick' < sinceTick
  PROVE  /\ rtcs'[Main] \in RealTimeClock /\ rtcs'[Main].hz = MainRate
         /\ rtcs' = Follow(rtcs'[Main])
<1>1. rtcs'[Main] \in RealTimeClock /\ rtcs'[Main].hz = MainRate
  BY ClockStepKeeps, ClockAssumption DEF ClockInvariant, ClockTypeOK
<1>2. ASSUME NEW rtc, NEW avg, NEW left, TickTaken(rtc, avg, left)
      PROVE  rtcs' = Follow(rtcs'[Main])
  BY <1>2, ClockAssumption DEF TickTaken, Follow
<1>3. sinceTick \in Nat /\ Batch \in Nat
  BY ClockAssumption DEF ClockInvariant, ClockTypeOK
<1>4. ~RunBatch /\ ~CutShort /\ ~NoTick /\ ~InitTimer /\ ~ResetCalibration
      /\ ~UNCHANGED clockVars
  <2>1. sinceTick' # sinceTick + Batch /\ sinceTick' # sinceTick
        /\ \A n \in 1 .. Batch - 1 : sinceTick' # sinceTick + n
    BY <1>3
  <2> QED
    BY <2>1 DEF RunBatch, CutShort, NoTick, InitTimer, ResetCalibration, clockVars
<1>5. CASE Tick
  BY <1>1, <1>2, <1>5 DEF Tick
<1>6. ASSUME NEW reading \in Readings, CalibrateOn(reading)
      PROVE  rtcs' = Follow(rtcs'[Main])
  BY <1>2, <1>6 DEF CalibrateOn, WentBack, Resynchronised, NoTimePassed, Measured
<1> QED
  BY <1>1, <1>4, <1>5, <1>6 DEF ClockNext

\* What is left of a number when a multiple of another is taken off.
LEMMA QuotientRemains ==
  ASSUME NEW n \in Int, NEW d \in Nat \ {0}
  PROVE  n - (n \div d) * d \in 0 .. d - 1
  BY SMT

\* The other timers keep the ratio of their frequencies to the main one's
\* (adjust_dependent_timers), for every frequency and every delay but the
\* shortest.
THEOREM TimersStayInStep == ClockSpec => DependentsInStep
<1>1. ClockInvariant /\ [ClockNext]_clockVars =>
        [sinceTick' < sinceTick =>
           \A t \in Timers : rtcs[t].hz # 0 =>
             LET ahead == rtcs'[Main].current * MainRate - rtcs'[t].current * rtcs[t].hz IN
             rtcs'[t].current > 1 => ahead \in 0 .. rtcs[t].hz - 1]_clockVars
  <2> SUFFICES ASSUME ClockInvariant, [ClockNext]_clockVars, sinceTick' < sinceTick,
                      NEW t \in Timers, rtcs[t].hz # 0, rtcs'[t].current > 1
               PROVE  rtcs'[Main].current * MainRate - rtcs'[t].current * rtcs[t].hz
                        \in 0 .. rtcs[t].hz - 1
    OBVIOUS
  <2> DEFINE now == rtcs'[Main].current
             hz == rtcs[t].hz
  <2>1. now \in Int /\ MainRate \in Nat \ {0} /\ rtcs'[Main].hz = MainRate /\ hz \in Nat \ {0}
    BY TicksLead, ClockAssumption DEF ClockInvariant, ClockTypeOK, RealTimeClock
  <2>2. now * MainRate \in Int
    BY <2>1, SMT
  <2>3. CASE t = Main
    <3>1. hz = MainRate
      BY <2>3 DEF ClockInvariant
    <3> QED
      BY <2>1, <2>2, <2>3, <3>1, SMT
  <2>4. CASE t # Main
    <3>1. rtcs'[t].current = Greatest(1, (now * MainRate) \div hz)
      BY <2>1, <2>4, TicksLead, ClockAssumption DEF Follow, ClockInvariant, ClockTypeOK, RealTimeClock
    <3> HIDE DEF now, hz
    <3>2. rtcs'[t].current = (now * MainRate) \div hz
      BY <2>1, <2>2, <3>1, IntQuotient DEF Greatest
    <3>3. (now * MainRate) - ((now * MainRate) \div hz) * hz \in 0 .. hz - 1
      BY <2>1, <2>2, QuotientRemains
    <3> QED
      BY <3>2, <3>3 DEF now, hz
  <2> QED
    BY <2>3, <2>4
<1> QED
  BY <1>1, ClockIsCalibrated, PTL DEF ClockSpec, DependentsInStep

\* The sign of the gap is that of the distance on the circle of Wrap, and the
\* limit on the drift keeps it.
LEMMA GapHasItsSign ==
  ASSUME NEW a \in Int, NEW b \in Int
  PROVE  LET gap == (a - b) % Wrap
             interval == Second + Clamp(Gap(a, b), -MaxDrift, MaxDrift)
         IN  /\ 2 * gap > Wrap => interval <= Second
             /\ 2 * gap < Wrap => interval >= Second
<1> DEFINE gap == (a - b) % Wrap
<1>1. a - b \in Int
  OBVIOUS
<1>2. gap \in 0 .. Wrap - 1
  BY <1>1, RemainderFacts
<1>3. Gap(a, b) = IF 2 * gap >= Wrap THEN gap - Wrap ELSE gap
  BY DEF Gap
<1> HIDE DEF gap
<1>4. 2 * gap > Wrap => Gap(a, b) \in Int /\ Gap(a, b) < 0
  BY <1>2, <1>3, ClockAssumption
<1>5. 2 * gap < Wrap => Gap(a, b) \in Nat
  BY <1>2, <1>3, ClockAssumption
<1>6. Second \in Nat /\ MaxDrift \in Nat
  BY ClockAssumption
<1> QED
  BY <1>4, <1>5, <1>6 DEF Clamp, Least, Greatest, gap

\* The next second is made longer only when simulated time is ahead and shorter
\* only when it is behind (calibrate_clock_ewma), for any width of the clocks
\* and on either side of their wraps.
THEOREM CalibrationCatchesUp == ClockSpec => CatchesUp
<1>1. ClockInvariant /\ [ClockNext]_clockVars =>
        [\A reading \in Readings : Measured(reading) =>
           LET gap == (rtcs'[Main].vtime - rtcs'[Main].rtime) % Wrap IN
           /\ 2 * gap > Wrap => rtcs'[Main].interval <= Second
           /\ 2 * gap < Wrap => rtcs'[Main].interval >= Second]_clockVars
  <2> SUFFICES ASSUME ClockInvariant, NEW reading \in Readings, Measured(reading)
               PROVE  LET gap == (rtcs'[Main].vtime - rtcs'[Main].rtime) % Wrap IN
                      /\ 2 * gap > Wrap => rtcs'[Main].interval <= Second
                      /\ 2 * gap < Wrap => rtcs'[Main].interval >= Second
    OBVIOUS
  <2> DEFINE avg == Updated((executed * Second) \div Elapsed(reading))
  <2>1. rtcs[Main] \in RealTimeClock
    BY ClockAssumption DEF ClockInvariant, ClockTypeOK
  <2>2. rtcs'[Main] = Adjusted(rtcs[Main], avg, NextVtime, reading)
    BY ClockAssumption DEF Measured, TickTaken, Follow
  <2>3. /\ rtcs'[Main].vtime = NextVtime /\ rtcs'[Main].rtime = reading
        /\ rtcs'[Main].interval = Second + Clamp(Gap(NextVtime, reading), -MaxDrift, MaxDrift)
    <3> HIDE DEF avg
    <3> QED
      BY <2>1, <2>2 DEF Adjusted, RealTimeClock
  <2>4. NextVtime \in Int /\ reading \in Int
    BY <2>1, RemainderFacts, ClockAssumption DEF NextVtime, RealTimeClock
  <2> QED
    BY <2>3, <2>4, GapHasItsSign
<1> QED
  BY <1>1, ClockIsCalibrated, PTL DEF ClockSpec, CatchesUp

-----------------------------------------------------------------------------
(***************************************************************************)
(* The throttle and the idle detector.                                     *)
(***************************************************************************)
LEMMA DesiredIsNat ==
  ASSUME NEW c \in Controller
  PROVE  c.type.value \in Nat => Desired(c) \in Nat
<1> SUFFICES ASSUME c.type.value \in Nat PROVE Desired(c) \in Nat
  OBVIOUS
<1>1. c.type.value * Mega \in Nat
  BY ProductIsNat, ThrottleAssumption
<1> QED
  BY <1>1 DEF Desired

\* A controller is made for a number of cycles: the one asked for, if one is.
ControllerHasTarget ==
  controller # NoController =>
    /\ controller.type.kind \in {"Mega", "Kilo"}
    /\ setting.kind \in {"Mega", "Kilo"} => controller.type = setting

LEMMA TargetIsNat ==
  ASSUME NEW c \in Controller, c.type.kind \in {"Mega", "Kilo"}
  PROVE  Desired(c) \in Nat
<1>1. c.type \in ThrottleType
  BY DEF Controller
<1>2. c.type.value \in Numbers
  BY <1>1 DEF ThrottleType
<1> QED
  BY <1>2, DesiredIsNat, ThrottleAssumption

LEMMA AverageFacts ==
  ASSUME NEW c \in Controller, NEW speed \in Nat
  PROVE  /\ Averaged(c, speed) \in Controller
         /\ Averaged(c, speed).type = c.type /\ Averaged(c, speed).mode = c.mode
         /\ Averaged(c, speed).wait = c.wait
         /\ Sampled(c, speed) \in Controller
         /\ Sampled(c, speed).type = c.type /\ Sampled(c, speed).mode = c.mode
         /\ Sampled(c, speed).wait = c.wait
<1>1. c.smoothed \in Int /\ c.accel \in Int /\ c.samples \in Nat
  BY DEF Controller
<1> DEFINE smoothed == SpeedSmoothed(c, speed)
           accel    == (smoothed - c.smoothed + 9 * c.accel) \div 10
<1>2. smoothed \in Int
  BY <1>1, SMT DEF SpeedSmoothed
<1>3. accel \in Int
  BY <1>1, <1>2, SMT
<1>4. Averaged(c, speed) = [c EXCEPT !.smoothed = smoothed, !.accel = accel]
  BY DEF Averaged
<1> HIDE DEF smoothed, accel
<1>5. Averaged(c, speed) = [type |-> c.type, mode |-> c.mode, wait |-> c.wait,
                            smoothed |-> smoothed, accel |-> accel, samples |-> c.samples]
  BY <1>4 DEF Controller
<1>6. c.type \in ThrottleType /\ c.mode \in {"Init", "CheckingTime", "Throttling"} /\ c.wait \in Nat
  BY DEF Controller
<1>7. Averaged(c, speed) \in Controller
  BY <1>1, <1>2, <1>3, <1>5, <1>6 DEF Controller
<1>8. c.samples + 1 \in Nat
  BY <1>1
<1>9. CASE c.samples = 0
  <2>1. Sampled(c, speed) = [[c EXCEPT !.smoothed = speed] EXCEPT !.samples = c.samples + 1]
    BY <1>9 DEF Sampled
  <2>2. Sampled(c, speed) = [type |-> c.type, mode |-> c.mode, wait |-> c.wait,
                             smoothed |-> speed, accel |-> c.accel, samples |-> c.samples + 1]
    BY <2>1 DEF Controller
  <2>3. Sampled(c, speed) \in Controller
    BY <1>1, <1>6, <1>8, <2>2 DEF Controller
  <2> QED
    BY <1>5, <1>7, <2>2, <2>3
<1>10. CASE c.samples # 0
  <2>1. Sampled(c, speed) = [Averaged(c, speed) EXCEPT !.samples = c.samples + 1]
    BY <1>10 DEF Sampled
  <2>2. Sampled(c, speed) = [type |-> c.type, mode |-> c.mode, wait |-> c.wait,
                             smoothed |-> smoothed, accel |-> accel, samples |-> c.samples + 1]
    BY <1>5, <2>1
  <2>3. Sampled(c, speed) \in Controller
    BY <1>1, <1>2, <1>3, <1>6, <1>8, <2>2 DEF Controller
  <2> QED
    BY <1>5, <1>7, <2>2, <2>3
<1> QED
  BY <1>9, <1>10

\* What a sleep says of the speed it was computed from.
LEMMA SleepFacts ==
  ASSUME NEW c \in Controller, c.type.kind \in {"Mega", "Kilo"}
  PROVE  /\ SleepTime(c) \in 0 .. 100
         /\ SleepTime(c) > 0 => c.smoothed > Desired(c)
<1>1. Desired(c) \in Nat /\ c.smoothed \in Int /\ c.accel \in Int /\ c.samples \in Nat
  BY TargetIsNat DEF Controller
<1>2. CASE c.smoothed <= Desired(c)
  BY <1>2 DEF SleepTime
<1>3. CASE ~(c.smoothed <= Desired(c))
  <2>1. Effective(c) \in Nat \ {0}
    BY <1>1, <1>3 DEF Effective
  <2>2. (Effective(c) - Desired(c)) * 1000 \in Int
    BY <1>1, <2>1, SMT
  <2>3. ((Effective(c) - Desired(c)) * 1000) \div Effective(c) \in Int
    BY <2>1, <2>2, IntQuotient
  <2>4. Slowdown(c) \in 1 .. 100
    BY <2>3, SMT DEF Slowdown
  <2> QED
    BY <1>1, <1>3, <2>4 DEF SleepTime
<1> QED
  BY <1>2, <1>3

\* The controller slows the machine at a speed its target asks for.
WellSlowed(c) ==
  c.wait > 0 =>
    /\ c.wait <= 100
    /\ c.mode = "Throttling"
    /\ c.smoothed * 100 >= Desired(c) * 100 - DriftDefault * Desired(c)

LEMMA FastEnough ==
  ASSUME NEW c \in Controller, Desired(c) \in Nat, c.smoothed > Desired(c)
  PROVE  c.smoothed * 100 >= Desired(c) * 100 - DriftDefault * Desired(c)
<1>1. DriftDefault * Desired(c) \in Nat
  BY ProductIsNat, ThrottleAssumption
<1>2. c.smoothed \in Int
  BY DEF Controller
<1> QED
  BY <1>1, <1>2, SMT

LEMMA RecalculatedFacts ==
  ASSUME NEW c \in Controller, c.type.kind \in {"Mega", "Kilo"}, c.mode = "Throttling",
         c.wait <= 100
  PROVE  /\ Recalculated(c) \in Controller
         /\ Recalculated(c).type = c.type
         /\ WellSlowed(Recalculated(c))
<1>1. Desired(c) \in Nat /\ c.smoothed \in Int /\ c.wait \in Nat
  BY TargetIsNat DEF Controller
<1>2. CASE Drifting(c)
  <2>1. Recalculated(c) = [c EXCEPT !.wait = SleepTime(c)]
    BY <1>2 DEF Recalculated
  <2>2. SleepTime(c) \in 0 .. 100 /\ (SleepTime(c) > 0 => c.smoothed > Desired(c))
    BY SleepFacts
  <2> DEFINE new == [c EXCEPT !.wait = SleepTime(c)]
  <2>3. new \in Controller /\ new.type = c.type /\ new.smoothed = c.smoothed
        /\ new.mode = c.mode /\ new.wait = SleepTime(c)
    BY <2>2 DEF Controller
  <2>4. Desired(new) = Desired(c)
    BY <2>3 DEF Desired
  <2>5. SleepTime(c) > 0 => c.smoothed * 100 >= Desired(c) * 100 - DriftDefault * Desired(c)
    BY <1>1, <2>2, FastEnough
  <2>6. WellSlowed(new)
    BY <2>2, <2>3, <2>4, <2>5 DEF WellSlowed
  <2> QED
    BY <2>1, <2>3, <2>6
<1>3. CASE ~Drifting(c)
  <2>1. Recalculated(c) = c
    BY <1>3 DEF Recalculated
  <2> DEFINE slack == DriftDefault * Desired(c)
  <2>2. slack \in Nat
    BY <1>1, ProductIsNat, ThrottleAssumption
  <2>3. Distance(c.smoothed, Desired(c)) * 100 <= slack
    <3>1. Distance(c.smoothed, Desired(c)) \in Int
      BY <1>1 DEF Distance
    <3> QED
      BY <1>3, <2>2, <3>1 DEF Drifting
  <2> HIDE DEF slack
  <2>4. c.smoothed * 100 >= Desired(c) * 100 - slack
    BY <1>1, <2>2, <2>3, SMT DEF Distance
  <2> QED
    BY <2>1, <2>4 DEF WellSlowed, slack
<1> QED
  BY <1>2, <1>3
\* Why a sleep is deserved: it is taken from an average, the average from the
\* measurements made for the present target, and a change of target starts
\* with none.  A call returns an error only when nobody sleeps.
ThrottleInvariant ==
  /\ ThrottleTypeOK
  /\ ControllerHasTarget
  /\ controller # NoController => WellSlowed(controller)
  /\ IdleFlag
  /\ sleep # NoSleep => reply = "ok"

LEMMA ThrottleInitHolds == ThrottleInit => ThrottleInvariant
<1> SUFFICES ASSUME ThrottleInit PROVE ThrottleInvariant
  OBVIOUS
<1>1. setting \in ThrottleType /\ sleep \in [by : {"none", "throttle", "idle"}, ms : Nat]
  BY DEF ThrottleInit, ThrottleType, NoSleep
<1>2. drift \in 1 .. 100 /\ controller = NoController /\ reply = "ok" /\ sleep.by # "idle"
  BY ThrottleAssumption DEF ThrottleInit, NoSleep
<1>3. idle \in IdleState /\ idle.waiting = FALSE
  <2>1. StableDefault \in StableMin .. StableMax /\ 0 \in 0 .. StableMax
    BY ThrottleAssumption
  <2> QED
    BY <2>1 DEF ThrottleInit, IdleState
<1> QED
  BY <1>1, <1>2, <1>3 DEF ThrottleInvariant, ThrottleTypeOK, ControllerHasTarget, IdleFlag

LEMMA NewControllerFacts ==
  ASSUME NEW type \in ThrottleType
  PROVE  /\ NewController(type) \in Controller
         /\ NewController(type).type = type
         /\ WellSlowed(NewController(type))
  BY DEF NewController, Controller, WellSlowed

\* The requests of a client.
LEMMA RequestsKeep ==
  ASSUME ThrottleInvariant, SetThrottle \/ CancelThrottle \/ SetDriftPercent
  PROVE  ThrottleInvariant'
<1>1. sleep = NoSleep /\ UNCHANGED <<idle, sleep>>
  BY DEF SetThrottle, CancelThrottle, SetDriftPercent
<1>2. IdleFlag' /\ sleep' = NoSleep
  BY <1>1 DEF ThrottleInvariant, IdleFlag
<1>3. CASE SetThrottle
  <2>1. PICK type \in ThrottleType :
          IF Valid(type)
          THEN controller' = ControllerFor(type) /\ setting' = type /\ reply' = "ok"
          ELSE UNCHANGED <<controller, setting>> /\ reply' = "error"
    BY <1>3 DEF SetThrottle
  <2>2. UNCHANGED <<drift, idle, sleep>>
    BY <1>3 DEF SetThrottle
  <2>3. CASE controller' = controller /\ (setting' = setting \/ setting'.kind = "Percent")
    <3>1. setting' \in ThrottleType /\ reply' \in {"ok", "error"}
      BY <2>1 DEF ThrottleInvariant, ThrottleTypeOK
    <3>2. ThrottleTypeOK'
      BY <2>2, <2>3, <3>1 DEF ThrottleInvariant, ThrottleTypeOK
    <3> QED
      BY <1>2, <2>3, <3>2 DEF ThrottleInvariant, ControllerHasTarget, WellSlowed, Desired
  <2>4. CASE controller' = NoController /\ setting' = type /\ reply' = "ok"
    <3>1. ThrottleTypeOK'
      BY <2>2, <2>4 DEF ThrottleInvariant, ThrottleTypeOK
    <3> QED
      BY <1>2, <2>4, <3>1 DEF ThrottleInvariant, ControllerHasTarget
  <2>5. CASE /\ controller' = NewController(type) /\ type.kind \in {"Mega", "Kilo"}
             /\ setting' = type /\ reply' = "ok"
    <3>1. ThrottleTypeOK'
      BY <2>2, <2>5, NewControllerFacts DEF ThrottleInvariant, ThrottleTypeOK
    <3>2. ControllerHasTarget' /\ WellSlowed(controller')
      BY <2>5, NewControllerFacts DEF ControllerHasTarget
    <3> QED
      BY <1>2, <2>5, <3>1, <3>2 DEF ThrottleInvariant
  <2>6. type.kind \in {"None", "Specific", "Mega", "Kilo", "Percent"}
    BY DEF ThrottleType
  <2> QED
    BY <2>1, <2>3, <2>4, <2>5, <2>6 DEF ControllerFor
<1>4. CASE CancelThrottle
  <2>1. setting' \in ThrottleType
    BY <1>4 DEF CancelThrottle, ThrottleType
  <2>2. UNCHANGED <<drift, controller, idle, sleep>> /\ reply' = "ok"
    BY <1>4 DEF CancelThrottle
  <2>3. ThrottleTypeOK'
    BY <2>1, <2>2 DEF ThrottleInvariant, ThrottleTypeOK
  <2>4. ControllerHasTarget'
    BY <1>4, <2>2 DEF CancelThrottle, ThrottleInvariant, ControllerHasTarget
  <2> QED
    BY <1>2, <2>2, <2>3, <2>4 DEF ThrottleInvariant, WellSlowed, Desired
<1>5. CASE SetDriftPercent
  <2>1. drift' \in 1 .. 100 /\ reply' \in {"ok", "error"}
    BY <1>5 DEF SetDriftPercent, ThrottleInvariant, ThrottleTypeOK
  <2>2. UNCHANGED <<setting, controller, idle, sleep>>
    BY <1>5 DEF SetDriftPercent
  <2>3. ThrottleTypeOK'
    BY <2>1, <2>2 DEF ThrottleInvariant, ThrottleTypeOK
  <2> QED
    BY <1>2, <2>2, <2>3 DEF ThrottleInvariant, ControllerHasTarget, WellSlowed, Desired
<1> QED
  BY <1>3, <1>4, <1>5

\* What a measurement makes of the controller.
LEMMA UpdatesKeep ==
  ASSUME ThrottleInvariant, controller # NoController, sleep = NoSleep,
         NEW elapsed \in Lapses, NEW speed \in Speeds,
         \/ UpdateInit(elapsed)
         \/ UpdateChecking(elapsed, speed)
         \/ UpdateThrottling(elapsed, speed)
         \/ UpdateTooEarly(elapsed)
  PROVE  /\ controller' \in Controller
         /\ controller'.type = controller.type
         /\ WellSlowed(controller')
         /\ sleep' \in [by : {"none", "throttle"}, ms : Nat]
<1>1. controller \in Controller /\ controller.type.kind \in {"Mega", "Kilo"}
      /\ WellSlowed(controller) /\ speed \in Nat /\ Desired(controller) \in Nat
  BY TargetIsNat, ThrottleAssumption DEF ThrottleInvariant, ThrottleTypeOK, ControllerHasTarget
<1>2. controller.wait \in Nat /\ (controller.mode # "Throttling" => controller.wait = 0)
  BY <1>1 DEF WellSlowed, Controller
<1>3. NoSleep \in [by : {"none", "throttle"}, ms : Nat]
  BY DEF NoSleep
<1>4. CASE UpdateInit(elapsed)
  <2>1. controller' \in Controller /\ controller'.type = controller.type /\ controller'.wait = 0
    BY <1>1, <1>2, <1>4 DEF UpdateInit, Controller
  <2> QED
    BY <1>3, <1>4, <2>1 DEF UpdateInit, WellSlowed
<1>5. CASE UpdateTooEarly(elapsed)
  BY <1>1, <1>3, <1>5 DEF UpdateTooEarly
<1>6. CASE UpdateChecking(elapsed, speed)
  <2> DEFINE c == Sampled(controller, speed)
  <2>1. c \in Controller /\ c.type = controller.type /\ c.wait = 0
    BY <1>1, <1>2, <1>6, AverageFacts DEF UpdateChecking
  <2>2. SleepTime(c) \in 0 .. 100 /\ (SleepTime(c) > 0 => c.smoothed > Desired(c))
    BY <1>1, <2>1, SleepFacts
  <2>3. Desired(c) \in Nat
    BY <1>1, <2>1, TargetIsNat
  <2>4. CASE SleepTime(c) > 0
    <3>1. controller' = [c EXCEPT !.mode = "Throttling", !.wait = SleepTime(c)]
          /\ sleep' = [by |-> "throttle", ms |-> SleepTime(c)]
      BY <1>6, <2>4 DEF UpdateChecking, SleepFor
    <3> HIDE DEF c
    <3>2. controller' = [type |-> c.type, mode |-> "Throttling", wait |-> SleepTime(c),
                         smoothed |-> c.smoothed, accel |-> c.accel, samples |-> c.samples]
      BY <2>1, <3>1 DEF Controller
    <3>3. /\ c.type \in ThrottleType /\ c.smoothed \in Int /\ c.accel \in Int
          /\ c.samples \in Nat /\ SleepTime(c) \in Nat
      BY <2>1, <2>2 DEF Controller
    <3>4. controller' \in Controller /\ controller'.type = controller.type
          /\ controller'.mode = "Throttling" /\ controller'.wait = SleepTime(c)
          /\ controller'.smoothed = c.smoothed /\ controller'.type = c.type
      BY <2>1, <3>2, <3>3 DEF Controller
    <3>5. Desired(controller') = Desired(c)
      BY <3>4 DEF Desired
    <3>6. c.smoothed * 100 >= Desired(c) * 100 - DriftDefault * Desired(c)
      BY <2>1, <2>2, <2>3, <2>4, FastEnough
    <3>7. WellSlowed(controller')
      BY <2>2, <3>4, <3>5, <3>6 DEF WellSlowed
    <3> QED
      BY <2>2, <3>1, <3>4, <3>7
  <2>5. CASE ~(SleepTime(c) > 0)
    <3>1. controller' = [c EXCEPT !.samples = IF @ > 3 THEN 3 ELSE @] /\ sleep' = sleep
      BY <1>6, <2>5 DEF UpdateChecking
    <3> HIDE DEF c
    <3>2. controller' \in Controller /\ controller'.type = c.type /\ controller'.wait = c.wait
      BY <2>1, <3>1 DEF Controller
    <3> QED
      BY <1>3, <2>1, <3>1, <3>2 DEF WellSlowed
  <2> QED
    BY <2>4, <2>5
<1>7. CASE UpdateThrottling(elapsed, speed)
  <2> DEFINE c == Averaged(controller, speed)
  <2>1. controller.wait <= 100 /\ controller.mode = "Throttling"
    BY <1>2, <1>1, <1>7 DEF UpdateThrottling, WellSlowed
  <2>2. c \in Controller /\ c.type = controller.type /\ c.mode = "Throttling" /\ c.wait <= 100
    BY <1>1, <2>1, AverageFacts
  <2> HIDE DEF c
  <2>3. controller' = Recalculated(c) \/ controller' = controller
    BY <1>7 DEF UpdateThrottling, c
  <2>4. controller' \in Controller /\ controller'.type = controller.type /\ WellSlowed(controller')
    <3>1. CASE controller' = controller
      BY <1>1, <3>1
    <3>2. CASE controller' = Recalculated(c)
      BY <1>1, <2>2, <3>2, RecalculatedFacts
    <3> QED
      BY <2>3, <3>1, <3>2
  <2>5. sleep' = [by |-> "throttle", ms |-> controller'.wait]
    BY <1>7 DEF UpdateThrottling, SleepFor
  <2>6. controller'.wait \in Nat
    BY <2>4 DEF Controller
  <2> QED
    BY <2>4, <2>5, <2>6
<1> QED
  BY <1>4, <1>5, <1>6, <1>7

LEMMA SchedulesKeep ==
  ASSUME ThrottleInvariant, ScheduleControlled \/ ScheduleFixed
  PROVE  ThrottleInvariant'
<1>1. UNCHANGED <<setting, drift, idle>> /\ reply' = "ok" /\ sleep = NoSleep
  BY DEF ScheduleControlled, ScheduleFixed
<1>2. idle.waiting = FALSE
  BY <1>1 DEF ThrottleInvariant, ThrottleTypeOK, IdleState, IdleFlag, NoSleep
<1>3. CASE ScheduleControlled
  <2>1. PICK elapsed \in Lapses, speed \in Speeds :
          \/ UpdateInit(elapsed)
          \/ UpdateChecking(elapsed, speed)
          \/ UpdateThrottling(elapsed, speed)
          \/ UpdateTooEarly(elapsed)
    BY <1>3 DEF ScheduleControlled
  <2>2. controller # NoController
    BY <1>3 DEF ScheduleControlled
  <2>3. /\ controller' \in Controller /\ controller'.type = controller.type
        /\ WellSlowed(controller') /\ sleep' \in [by : {"none", "throttle"}, ms : Nat]
    BY <1>1, <2>1, <2>2, UpdatesKeep
  <2>4. ControllerHasTarget'
    BY <1>1, <2>2, <2>3 DEF ThrottleInvariant, ControllerHasTarget
  <2>5. ThrottleTypeOK' /\ IdleFlag'
    BY <1>1, <1>2, <2>3 DEF ThrottleInvariant, ThrottleTypeOK, IdleFlag
  <2> QED
    BY <1>1, <2>3, <2>4, <2>5 DEF ThrottleInvariant
<1>4. CASE ScheduleFixed
  <2>1. setting.kind = "Specific" /\ sleep' = [by |-> "throttle", ms |-> setting.delay]
        /\ controller = NoController /\ controller' = controller
    BY <1>4 DEF ScheduleFixed, SleepFor
  <2>2. setting.delay \in Nat
    BY <2>1, ThrottleAssumption DEF ThrottleInvariant, ThrottleTypeOK, ThrottleType
  <2>3. ThrottleTypeOK' /\ IdleFlag'
    BY <1>1, <1>2, <2>1, <2>2 DEF ThrottleInvariant, ThrottleTypeOK, IdleFlag
  <2> QED
    BY <1>1, <2>1, <2>3 DEF ThrottleInvariant, ControllerHasTarget
<1> QED
  BY <1>3, <1>4

\* The idle detector, and the end of a sleep.
LEMMA IdlesKeep ==
  ASSUME ThrottleInvariant,
         SetEnabled \/ SetStabilityThreshold \/ TryIdleUnstable \/ TryIdle \/ Wake
  PROVE  ThrottleInvariant'
<1>1. UNCHANGED <<setting, drift, controller>>
  BY DEF SetEnabled, SetStabilityThreshold, TryIdleUnstable, TryIdle, Wake
<1>2. ControllerHasTarget' /\ (controller' # NoController => WellSlowed(controller'))
  BY <1>1 DEF ThrottleInvariant, ControllerHasTarget
<1>3. idle \in IdleState /\ StableMin \in Nat /\ StableMax \in Nat
  BY ThrottleAssumption DEF ThrottleInvariant, ThrottleTypeOK
<1>4. ASSUME idle' \in IdleState, reply' \in {"ok", "error"}, IdleFlag',
             sleep' \in [by : {"none", "throttle", "idle"}, ms : Nat],
             sleep' # NoSleep => reply' = "ok"
      PROVE  ThrottleInvariant'
  BY <1>1, <1>2, <1>4 DEF ThrottleInvariant, ThrottleTypeOK
<1>5. /\ sleep = NoSleep => idle.waiting = FALSE
      /\ sleep \in [by : {"none", "throttle", "idle"}, ms : Nat] /\ reply \in {"ok", "error"}
  BY <1>3 DEF ThrottleInvariant, ThrottleTypeOK, IdleState, IdleFlag, NoSleep
<1>6. CASE SetEnabled \/ SetStabilityThreshold \/ TryIdleUnstable
  <2>1. sleep = NoSleep /\ sleep' = sleep /\ sleep'.by # "idle"
    BY <1>6 DEF SetEnabled, SetStabilityThreshold, TryIdleUnstable, NoSleep
  <2>2. idle' \in IdleState /\ idle'.waiting = FALSE /\ reply' \in {"ok", "error"}
    BY <1>3, <1>5, <1>6, <2>1
    DEF SetEnabled, SetStabilityThreshold, TryIdleUnstable, IdleState
  <2> QED
    BY <1>4, <1>5, <2>1, <2>2 DEF IdleFlag
<1>7. CASE TryIdle
  <2>1. idle' = [idle EXCEPT !.waiting = TRUE] /\ idle.enabled /\ idle.stable >= idle.threshold
        /\ reply' = "ok"
    BY <1>7 DEF TryIdle
  <2>2. idle' \in IdleState /\ idle'.enabled
    <3>1. idle' \in IdleState
      BY <1>3, <2>1 DEF IdleState
    <3>2. idle'.enabled = idle.enabled
      BY <1>3, <2>1 DEF IdleState
    <3> QED
      BY <2>1, <3>1, <3>2
  <2>3. idle'.stable >= StableMin
    <3>1. idle'.stable = idle.stable /\ idle.stable \in Nat /\ idle.threshold \in Int
          /\ idle.threshold >= StableMin
      BY <1>3, <2>1 DEF IdleState
    <3> QED
      BY <1>3, <2>1, <3>1
  <2>4. PICK ms \in SleepTimes : sleep' = [by |-> "idle", ms |-> ms]
    BY <1>7 DEF TryIdle
  <2>5. sleep' \in [by : {"none", "throttle", "idle"}, ms : Nat] /\ sleep'.by = "idle"
    BY <2>4, ThrottleAssumption
  <2> QED
    BY <1>4, <2>1, <2>2, <2>5, <2>3 DEF IdleFlag
<1>8. CASE Wake
  <2>1. sleep' = NoSleep /\ reply' = reply
        /\ idle' = IF sleep.by = "idle" THEN [idle EXCEPT !.waiting = FALSE] ELSE idle
    BY <1>8 DEF Wake
  <2>2. idle' \in IdleState /\ idle'.waiting = FALSE
    BY <1>3, <2>1 DEF IdleState, ThrottleInvariant, IdleFlag
  <2>3. sleep' \in [by : {"none", "throttle", "idle"}, ms : Nat] /\ sleep'.by # "idle"
    BY <2>1 DEF NoSleep
  <2> QED
    BY <1>4, <1>5, <2>1, <2>2, <2>3 DEF IdleFlag
<1> QED
  BY <1>6, <1>7, <1>8

LEMMA ThrottleStepKeeps ==
  ASSUME ThrottleInvariant, [ThrottleNext]_throttleVars
  PROVE  ThrottleInvariant'
<1>1. CASE UNCHANGED throttleVars
  BY <1>1 DEF throttleVars, ThrottleInvariant, ThrottleTypeOK, ControllerHasTarget, WellSlowed,
              IdleFlag, Desired
<1> QED
  BY <1>1, RequestsKeep, SchedulesKeep, IdlesKeep DEF ThrottleNext

\* The throttle's invariant holds in every behaviour.
THEOREM ThrottleIsSound == ThrottleSpec => []ThrottleInvariant
<1>1. ThrottleInvariant /\ [ThrottleNext]_throttleVars => ThrottleInvariant'
  BY ThrottleStepKeeps
<1> QED
  BY <1>1, ThrottleInitHolds, PTL DEF ThrottleSpec

\* A machine is slowed only while it is faster than the controller's target,
\* which is the speed asked for last, as long as one is (throttle.rs:96-231).
THEOREM SlowingIsDeserved == ThrottleSpec => []SlowedOnlyWhenFast
<1>1. ThrottleInvariant => SlowedOnlyWhenFast
  BY DEF ThrottleInvariant, SlowedOnlyWhenFast, WellSlowed, ControllerHasTarget
<1> QED
  BY <1>1, ThrottleIsSound, PTL

\* The flag other threads read is up exactly while the idle detector sleeps,
\* after enough stable checks (manager.rs:428-448).
THEOREM IdleFlagIsRight == ThrottleSpec => []IdleFlag
<1>1. ThrottleInvariant => IdleFlag
  BY DEF ThrottleInvariant
<1> QED
  BY <1>1, ThrottleIsSound, PTL

\* A call that is refused has changed nothing (manager.rs:447-543).
THEOREM RefusalsChangeNothing == ThrottleSpec => ErrorsChangeNothing
<1>1. ASSUME ThrottleInvariant, [ThrottleNext]_throttleVars
      PROVE  [reply' = "error" => UNCHANGED <<setting, drift, controller, idle>>]_throttleVars
  <2> SUFFICES ASSUME ThrottleNext, reply' = "error"
               PROVE  UNCHANGED <<setting, drift, controller, idle>>
    BY <1>1
  <2>1. CASE SetThrottle
    <3>1. PICK type \in ThrottleType :
            IF Valid(type)
            THEN controller' = ControllerFor(type) /\ setting' = type /\ reply' = "ok"
            ELSE UNCHANGED <<controller, setting>> /\ reply' = "error"
      BY <2>1 DEF SetThrottle
    <3> QED
      BY <2>1, <3>1 DEF SetThrottle
  <2>2. CASE SetDriftPercent
    BY <2>2 DEF SetDriftPercent
  <2>3. CASE SetStabilityThreshold
    BY <2>3 DEF SetStabilityThreshold
  <2>4. CASE Wake
    BY <1>1, <2>4 DEF Wake, ThrottleInvariant
  <2>5. CASE CancelThrottle \/ ScheduleControlled \/ ScheduleFixed \/ SetEnabled
             \/ TryIdleUnstable \/ TryIdle
    BY <2>5 DEF CancelThrottle, ScheduleControlled, ScheduleFixed, SetEnabled,
                TryIdleUnstable, TryIdle
  <2> QED
    BY <2>1, <2>2, <2>3, <2>4, <2>5 DEF ThrottleNext
<1> QED
  BY <1>1, ThrottleIsSound, PTL DEF ThrottleSpec, ErrorsChangeNothing

-----------------------------------------------------------------------------
\* Both halves together keep their types.
THEOREM TimersTypeCorrect == TimersSpec => []TimersTypeOK
<1> DEFINE I == ClockInvariant /\ ThrottleInvariant
<1>1. TimersInit => I
  BY ClockInitHolds, ThrottleInitHolds DEF TimersInit
<1>2. ASSUME I, [TimersNext]_<<part, clockVars, throttleVars>>
      PROVE  I'
  <2>1. [ClockNext]_clockVars /\ [ThrottleNext]_throttleVars
    BY <1>2 DEF TimersNext
  <2> QED
    BY <1>2, <2>1, ClockStepKeeps, ThrottleStepKeeps
<1>3. I => TimersTypeOK
  BY DEF ClockInvariant, ThrottleInvariant, TimersTypeOK
<1> QED
  BY <1>1, <1>2, <1>3, PTL DEF TimersSpec
=============================================================================
