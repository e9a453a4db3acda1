----------------------------- MODULE SimMessages -----------------------------
(***************************************************************************)
(* The device namespace and the messages of the CLI and the simulator      *)
(* (sim-core, env/messages.rs).                                            *)
(***************************************************************************)
EXTENDS Integers, Sequences, FiniteSets

CONSTANTS
  Cpu,          \* the processor's name (CPU_DEVICE_NAME)
  Devices,      \* standalone devices and controllers: the top-level names
  Units,        \* units nested in a controller
  Stranger,     \* a name nobody registered
  Everything,   \* Reset(None)
  Values, Zero, \* contents of a cell; Zero is the contents after a reset
  NoValue,      \* the error element of an ExamineData answer
  DebugStates,  \* debug sessions SET DEBUG can open
  NoDebug,
  Delays        \* delays a service request can carry, in instructions

Known == {Cpu} \cup Devices \cup Units
Names == Known \cup {Stranger}

ASSUME NamesAssumption ==
  /\ Cpu \notin Devices \cup Units
  /\ Devices \cap Units = {}
  /\ Stranger \notin Known
  /\ Everything \notin Names

ASSUME ValuesAssumption ==
  /\ Zero \in Values
  /\ NoValue \notin Values
  /\ NoDebug \notin DebugStates
  /\ Delays \subseteq Int

SimRequest ==
       [op : {"Examine"}, names : (SUBSET Names) \ {{}}]
  \cup [op : {"Deposit"}, name : Names, value : Values]
  \cup [op : {"Attach", "Detach"}, name : Names]
  \cup [op : {"LoadFile", "Stop", "DebugDisable", "Quit"}]
  \cup [op : {"Step"}, n : Nat]
  \cup [op : {"Reset"}, name : Names \cup {Everything}]
  \cup [op : {"ScheduleDevice"}, name : Names, delay : Delays]
  \cup [op : {"SetDebugState"}, state : DebugStates]

ExamineResults == UNION {[ns -> Values \cup {NoValue}] : ns \in SUBSET Names}

SimResponse ==
  [kind : {"ExamineData"}, data : ExamineResults] \cup [kind : {"Ok", "Error"}]

Ok    == [kind |-> "Ok"]
Error == [kind |-> "Error"]

\* The kinds of response that answer a request.
Answers(req) ==
  CASE req.op = "Examine" -> {"ExamineData"}
    [] req.op \in {"Deposit", "Attach", "Detach", "LoadFile"} -> {"Ok", "Error"}
    [] OTHER -> {"Ok"}


=============================================================================
