----------------------------- MODULE MCSimSystem -----------------------------
(***************************************************************************)
(* Instances of SimSystem for TLC: a CPU, a console device, a controller   *)
(* with one unit, and two entries of the event heap.                       *)
(***************************************************************************)
EXTENDS SimSystem

CONSTANTS cpu, tti, rk, rk0, nobody, all, s1, s2, d1

MCOwnerOf == [u \in {rk0} |-> rk]

Request(op) == {r \in SimRequest : r.op = op}

Examine(names) == [op |-> "Examine", names |-> names]
Named(op, name) == [op |-> op, name |-> name]
ScheduleIn(name, delay) == [op |-> "ScheduleDevice", name |-> name, delay |-> delay]
Step(n) == [op |-> "Step", n |-> n]

Debugging == {[op |-> "SetDebugState", state |-> d1], [op |-> "DebugDisable"]}

\* What the command table of this commit sends: EXAMINE, LOAD, RESET, SET DEBUG.
CommandTable ==
  {Examine({cpu}), Examine({cpu, rk0}), [op |-> "LoadFile"]} \cup Debugging
    \cup {Named("Reset", n) : n \in Known \cup {all}}

\* The rest of the protocol, on the names that matter.
RunControl == {Step(0), [op |-> "Stop"]}
Deposits   == {[op |-> "Deposit", name |-> n, value |-> 1] : n \in {tti, nobody}}
Attaching  == {Named(op, n) : op \in {"Attach", "Detach"}, n \in {rk0, tti}}
Schedules  == {ScheduleIn(n, d) : n \in {tti, rk, rk0, nobody}, d \in {0, 3}}

ProtocolCommands ==
  CommandTable \cup RunControl \cup Deposits \cup Attaching \cup Schedules

TimerCommands == RunControl \cup Schedules

OneSource  == {<<n>> : n \in 1 .. 3}
Inputs     == OneSource \cup {<<1, 1>>}
=============================================================================
