------------------------------ MODULE Throttle ------------------------------
(***************************************************************************)
(* Throttling and idling (sim-core, timers/manager.rs, timers/throttle.rs  *)
(* and the states in timers/types.rs): what a client of TimerManager can   *)
(* ask for, the controller that measures the machine's speed and decides   *)
(* how long it sleeps, and the idle detector.  The methods that take       *)
(* &mut self exclude one another; is_waiting may be read during a sleep.   *)
(*                                                                         *)
(* How much time a call finds to have passed and what speed it measures    *)
(* are arbitrary: the host's clock is a wall clock, and get_msec() -       *)
(* ms_start wraps when it was set back.  Speeds are in thousands of        *)
(* instructions a second, rounded down.                                    *)
(***************************************************************************)
EXTENDS Integers

CONSTANTS
  Mega,         \* kilocycles in a megacycle (1000)
  Numbers,      \* numbers a client can ask with
  Speeds,       \* speeds a measurement can find
  SleepTimes,   \* delays of a fixed throttle, and milliseconds of an idle sleep
  MinMeasure,   \* MIN_MEASURE_MS
  Target,       \* TARGET_MEASURE_MS
  Lapses,       \* times a call can find to have passed
  DriftDefault, \* SIM_THROT_DRIFT_PCT_DFLT
  Drifts,       \* drift percentages a client can ask for
  StableMin, StableMax, StableDefault,   \* SIM_IDLE_ST*
  Thresholds,   \* stability thresholds a client can ask for
  NoController

ASSUME ThrottleAssumption ==
  /\ Mega \in Nat \ {0}
  /\ Numbers \subseteq Nat /\ Speeds \subseteq Nat /\ SleepTimes \subseteq Nat
  /\ MinMeasure \in Nat /\ Target \in Nat /\ Lapses \subseteq Nat
  /\ DriftDefault \in 1 .. 100 /\ Drifts \subseteq Nat
  /\ StableMin \in Nat /\ StableMax \in Nat /\ StableDefault \in StableMin .. StableMax
  /\ Thresholds \subseteq Nat

VARIABLES
  setting,      \* TimerManager::throttle.throttle_type
  drift,        \* TimerManager::throttle.drift_pct
  controller,   \* TimerManager::throttle_controller
  idle,         \* TimerManager::idle
  sleep,        \* the sleep in progress: which kind, how long
  reply         \* what the last call returned

throttleVars == <<setting, drift, controller, idle, sleep, reply>>

ThrottleType ==
  [kind : {"None"}] \cup [kind : {"Mega", "Kilo", "Percent"}, value : Numbers]
    \cup [kind : {"Specific"}, value : Numbers, delay : SleepTimes]

Controller ==
  [type : ThrottleType, mode : {"Init", "CheckingTime", "Throttling"}, wait : Nat,
   smoothed : Int, accel : Int, samples : Nat]

\* stable_count stops at the largest threshold: beyond it nothing changes.
IdleState ==
  [enabled : BOOLEAN, waiting : BOOLEAN, stable : 0 .. StableMax,
   threshold : StableMin .. StableMax]

NoSleep == [by |-> "none", ms |-> 0]

ThrottleTypeOK ==
  /\ setting \in ThrottleType
  /\ drift \in 1 .. 100
  /\ controller \in Controller \cup {NoController}
  /\ idle \in IdleState
  /\ sleep \in [by : {"none", "throttle", "idle"}, ms : Nat]
  /\ reply \in {"ok", "error"}

ThrottleInit ==
  /\ setting = [kind |-> "None"]
  /\ drift = DriftDefault
  /\ controller = NoController
  /\ idle = [enabled |-> FALSE, waiting |-> FALSE, stable |-> 0, threshold |-> StableDefault]
  /\ sleep = NoSleep
  /\ reply = "ok"

-----------------------------------------------------------------------------
\* What set_throttle refuses.
Valid(type) ==
  CASE type.kind = "None" -> TRUE
    [] type.kind \in {"Mega", "Kilo"} -> type.value # 0
    [] type.kind = "Percent" -> type.value \in 1 .. 100
    [] type.kind = "Specific" -> type.value # 0 /\ type.delay # 0

\* ThrottleController::new, set_throttle and start_calibration.
NewController(type) ==
  [type |-> type, mode |-> "Init", wait |-> 0, smoothed |-> 0, accel |-> 0, samples |-> 0]

\* Mutant: a new target keeps the measurements made for the old one.
ControllerFor_Stale(type) ==
  CASE type.kind \in {"None", "Specific"} -> NoController
    [] type.kind \in {"Mega", "Kilo"} ->
         IF controller = NoController THEN NewController(type) ELSE [controller EXCEPT !.type = type]
    [] type.kind = "Percent" -> controller

\* A percentage does not touch the controller (a TODO in the code).
ControllerFor(type) ==
  CASE type.kind \in {"None", "Specific"} -> NoController
    [] type.kind \in {"Mega", "Kilo"} -> NewController(type)
    [] type.kind = "Percent" -> controller

SetThrottle ==
  /\ sleep = NoSleep
  /\ \E type \in ThrottleType :
       IF Valid(type)
       THEN controller' = ControllerFor(type) /\ setting' = type /\ reply' = "ok"
       ELSE UNCHANGED <<controller, setting>> /\ reply' = "error"
  /\ UNCHANGED <<drift, idle, sleep>>

\* cancel_throttle sets the type only: a controller stays.
CancelThrottle ==
  /\ sleep = NoSleep
  /\ setting' = [kind |-> "None"]
  /\ reply' = "ok"
  /\ UNCHANGED <<drift, controller, idle, sleep>>

\* set_drift_percent sets the manager's own: a controller has the default.
SetDriftPercent ==
  /\ sleep = NoSleep
  /\ \E percent \in Drifts :
       IF percent \in 1 .. 100
       THEN drift' = percent /\ reply' = "ok"
       ELSE UNCHANGED drift /\ reply' = "error"
  /\ UNCHANGED <<setting, controller, idle, sleep>>

-----------------------------------------------------------------------------
Desired(c) == IF c.type.kind = "Mega" THEN c.type.value * Mega ELSE c.type.value

Distance(a, b) == IF a >= b THEN a - b ELSE b - a

\* The moving averages: alpha is 0.2, that of the acceleration 0.1.
SpeedSmoothed(c, speed) == (speed + 4 * c.smoothed) \div 5

Averaged(c, speed) ==
  [c EXCEPT !.smoothed = SpeedSmoothed(c, speed),
            !.accel = (SpeedSmoothed(c, speed) - c.smoothed + 9 * c.accel) \div 10]

Sampled(c, speed) ==
  [IF c.samples = 0 THEN [c EXCEPT !.smoothed = speed] ELSE Averaged(c, speed)
     EXCEPT !.samples = c.samples + 1]

\* Which speed the sleep is computed from.
Effective(c) ==
  IF c.samples > 2 /\ c.smoothed + c.accel > Desired(c) THEN c.smoothed + c.accel ELSE c.smoothed

\* A sleep of between 1 and 100 milliseconds: the part of a second by which
\* the machine is too fast.
Slowdown(c) ==
  LET ms == ((Effective(c) - Desired(c)) * 1000) \div Effective(c)
  IN  IF ms < 1 THEN 1 ELSE IF ms > 100 THEN 100 ELSE ms

\* calculate_sleep_time: 0 when there is nothing to slow down.
SleepTime(c) == IF c.smoothed <= Desired(c) THEN 0 ELSE Slowdown(c)

Drifting(c) == Distance(c.smoothed, Desired(c)) * 100 > DriftDefault * Desired(c)

Recalculated(c) == IF Drifting(c) THEN [c EXCEPT !.wait = SleepTime(c)] ELSE c

\* schedule_throttle sleeps for what update returns, which may be 0.
SleepFor(ms) == sleep' = [by |-> "throttle", ms |-> ms]

\* ThrottleController::update, by its mode and by whether enough time passed.
UpdateInit(elapsed) ==
  /\ controller.mode = "Init"
  /\ elapsed >= MinMeasure
  /\ controller' = [controller EXCEPT !.mode = "CheckingTime"]
  /\ UNCHANGED sleep

UpdateChecking(elapsed, speed) ==
  LET c == Sampled(controller, speed) IN
  /\ controller.mode = "CheckingTime"
  /\ elapsed >= Target
  /\ IF SleepTime(c) > 0
     THEN /\ controller' = [c EXCEPT !.mode = "Throttling", !.wait = SleepTime(c)]
          /\ SleepFor(SleepTime(c))
     ELSE /\ controller' = [c EXCEPT !.samples = IF @ > 3 THEN 3 ELSE @]
          /\ UNCHANGED sleep

UpdateThrottling(elapsed, speed) ==
  /\ controller.mode = "Throttling"
  /\ controller' = IF elapsed >= Target
                   THEN Recalculated(Averaged(controller, speed)) ELSE controller
  /\ SleepFor(controller'.wait)

UpdateTooEarly(elapsed) ==
  /\ \/ controller.mode = "Init" /\ elapsed < MinMeasure
     \/ controller.mode = "CheckingTime" /\ elapsed < Target
  /\ UNCHANGED <<controller, sleep>>

\* schedule_throttle when there is a controller.
ScheduleControlled ==
  /\ sleep = NoSleep
  /\ controller # NoController
  /\ \E elapsed \in Lapses, speed \in Speeds :
       \/ UpdateInit(elapsed)
       \/ UpdateChecking(elapsed, speed)
       \/ UpdateThrottling(elapsed, speed)
       \/ UpdateTooEarly(elapsed)
  /\ reply' = "ok"
  /\ UNCHANGED <<setting, drift, idle>>

\* schedule_throttle without one: a fixed throttle sleeps after enough
\* instructions, any other setting does not.
ScheduleFixed ==
  /\ sleep = NoSleep
  /\ controller = NoController
  /\ setting.kind = "Specific"
  /\ \E executed \in Numbers : executed >= setting.value
  /\ SleepFor(setting.delay)
  /\ reply' = "ok"
  /\ UNCHANGED <<setting, drift, controller, idle>>

-----------------------------------------------------------------------------
\* Disabling leaves the count of stable checks as it is.
SetEnabled ==
  /\ sleep = NoSleep
  /\ \E enabled \in BOOLEAN : idle' = [idle EXCEPT !.enabled = enabled]
  /\ reply' = "ok"
  /\ UNCHANGED <<setting, drift, controller, sleep>>

SetStabilityThreshold ==
  /\ sleep = NoSleep
  /\ \E seconds \in Thresholds :
       IF seconds \in StableMin .. StableMax
       THEN idle' = [idle EXCEPT !.threshold = seconds] /\ reply' = "ok"
       ELSE UNCHANGED idle /\ reply' = "error"
  /\ UNCHANGED <<setting, drift, controller, sleep>>

\* try_idle while the pattern is not stable yet: count and return false.
TryIdleUnstable ==
  /\ sleep = NoSleep
  /\ idle.enabled
  /\ idle.stable < idle.threshold
  /\ idle' = [idle EXCEPT !.stable = @ + 1]
  /\ reply' = "ok"
  /\ UNCHANGED <<setting, drift, controller, sleep>>

\* try_idle in a stable pattern: the flag is up during the sleep.
TryIdle ==
  /\ sleep = NoSleep
  /\ idle.enabled
  /\ idle.stable >= idle.threshold
  /\ idle' = [idle EXCEPT !.waiting = TRUE]
  /\ \E ms \in SleepTimes : sleep' = [by |-> "idle", ms |-> ms]
  /\ reply' = "ok"
  /\ UNCHANGED <<setting, drift, controller>>

Wake ==
  /\ sleep # NoSleep
  /\ sleep' = NoSleep
  /\ idle' = IF sleep.by = "idle" THEN [idle EXCEPT !.waiting = FALSE] ELSE idle
  /\ UNCHANGED <<setting, drift, controller, reply>>

ThrottleNext ==
  \/ SetThrottle \/ CancelThrottle \/ SetDriftPercent
  \/ ScheduleControlled \/ ScheduleFixed
  \/ SetEnabled \/ SetStabilityThreshold \/ TryIdleUnstable \/ TryIdle \/ Wake

ThrottleSpec == ThrottleInit /\ [][ThrottleNext]_throttleVars

-----------------------------------------------------------------------------
\* The controller slows the machine only in the mode that has measured, for
\* at most 100 ms at a time, and only while its average speed for its target is
\* above that target, to within the drift it tolerates; and its target is the
\* speed asked for last, as long as one is: a change of target, a stalled host
\* or a clock set back leave no sleep that the average does not ask for
\* (throttle.rs:96-231, manager.rs:483-543).  Of a controller that a percentage
\* or cancel_throttle has left in place it says nothing more.
SlowedOnlyWhenFast ==
  controller # NoController /\ controller.wait > 0 =>
    /\ controller.wait <= 100
    /\ controller.mode = "Throttling"
    /\ controller.smoothed * 100 >= Desired(controller) * 100 - DriftDefault * Desired(controller)
    /\ setting.kind \in {"Mega", "Kilo"} => controller.type = setting

\* A call that returns an error has changed nothing: settings, controller and
\* idle detector go on as before (manager.rs:447-543).
ErrorsChangeNothing ==
  [][reply' = "error" => UNCHANGED <<setting, drift, controller, idle>>]_throttleVars

\* The flag that other threads read is up exactly while the idle detector
\* sleeps, it sleeps only when enabled, and only after at least the smallest
\* threshold of stable checks (manager.rs:428-448).
IdleFlag ==
  /\ idle.waiting <=> sleep.by = "idle"
  /\ idle.waiting => idle.enabled /\ idle.stable >= StableMin

\* Violated: "Cancel any pending throttle delays" (traits.rs:253).  The sleep
\* is the throttle's although no throttle is set.
CancelledMeansNoSleep == sleep.by = "throttle" => setting.kind # "None"
=============================================================================
