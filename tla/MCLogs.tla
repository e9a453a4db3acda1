------------------------------- MODULE MCLogs -------------------------------
\* What can be logged and where it goes.  The registry and the sessions share
\* no variable, so a behaviour is of one or of the other.
EXTENDS DebugRegistry, Logging, TLC

VARIABLE part

\* Category names: two that differ in case only, and another.
MCUpper == [n \in {"cpu", "CPU", "tti"} |-> IF n = "tti" THEN "TTI" ELSE "CPU"]

\* Files and objects are told apart by who refers to them only.
Interchangeable ==
  Permutations(Sinks) \cup Permutations(Transcripts) \cup Permutations(Sessions)

LogsInit == part \in {"registry", "sessions"} /\ RegistryInit /\ LoggingInit

LogsNext ==
  \/ /\ part = "registry"
     /\ \E th \in Threads : RegistryStep(th)
     /\ UNCHANGED <<part, loggingVars>>
  \/ part = "sessions" /\ LoggingNext /\ UNCHANGED <<part, registryVars>>

LogsSpec == LogsInit /\ [][LogsNext]_<<part, registryVars, loggingVars>>
=============================================================================
