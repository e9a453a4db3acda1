------------------------------ MODULE MCTimers ------------------------------
\* The two halves of TimerManager.  They share no variable, so a behaviour is
\* of one or of the other.
EXTENDS SimClock, Throttle

VARIABLE part

AReading == CHOOSE reading \in Readings : TRUE

TimersInit ==
  /\ part \in {"clock", "throttle"}
  /\ ClockInit /\ ThrottleInit
  /\ part = "throttle" => rtcs[Main].rtime = AReading

TimersNext ==
  \/ part = "clock" /\ ClockNext /\ UNCHANGED <<part, throttleVars>>
  \/ part = "throttle" /\ ThrottleNext /\ UNCHANGED <<part, clockVars>>

TimersSpec == TimersInit /\ [][TimersNext]_<<part, clockVars, throttleVars>>

\* Types of both halves, whatever the host's clock and the client say.
TimersTypeOK == ClockTypeOK /\ ThrottleTypeOK
=============================================================================
