------------------------------- MODULE Monitor -------------------------------
(***************************************************************************)
(* What the CLI is promised of the simulator: a monitor.  A command asks,  *)
(* the machine takes the request in one indivisible step between two       *)
(* instructions, and the command gets the answer computed in that step.    *)
(* There are no threads and no queues here; SimSystem implements it.       *)
(***************************************************************************)
EXTENDS SimEnv

CONSTANTS Commands, NoCall, Pending, Disconnected

VARIABLES
  machine,  \* "starting" (benchmark), "up" or "down"
  phase,    \* the client: "idle", "asked", "answered" or "leaving"
  call,     \* the client's last request and its result
  answer    \* the set of answers computed and not yet returned

monitorVars == <<envVars, machine, phase, call, answer>>

Init ==
  /\ EnvInit
  /\ machine = "starting"
  /\ phase = "idle"
  /\ call = NoCall
  /\ answer = {}

\* The machine comes up with whatever its benchmark left in the CPU, or not.
Start ==
  /\ machine = "starting"
  /\ machine' \in {"up", "down"}
  /\ \E v \in Values : cell' = [cell EXCEPT ![Cpu] = v]
  /\ UNCHANGED <<running, attached, debugging, events, phase, call, answer>>

Ask(req) ==
  /\ phase = "idle"
  /\ phase' = "asked"
  /\ call' = [req |-> req, resp |-> Pending]
  /\ UNCHANGED <<envVars, machine, answer>>

\* The one step in which a request has its effect.
Take ==
  /\ machine = "up"
  /\ phase = "asked"
  /\ \E resp \in PossibleResponses(call.req) :
       /\ HandleRequest(call.req, resp)
       /\ answer' = {resp}
  /\ phase' = "answered"
  /\ UNCHANGED <<machine, call>>

Return ==
  /\ phase = "answered"
  /\ \E resp \in answer : call' = [call EXCEPT !.resp = resp]
  /\ answer' = {}
  /\ phase' = "idle"
  /\ UNCHANGED <<envVars, machine>>

\* Only a machine that is down leaves a request without an answer.
Refuse ==
  /\ machine = "down"
  /\ \/ /\ phase = "asked"
        /\ call' = [call EXCEPT !.resp = Disconnected]
     \/ /\ phase = "idle"
        /\ \E req \in Commands : call' = [req |-> req, resp |-> Disconnected]
  /\ phase' = "idle"
  /\ UNCHANGED <<envVars, machine, answer>>

\* A running machine changes at will, and may stop; it never starts by itself.
Program ==
  /\ machine = "up"
  /\ running
  /\ running' \in BOOLEAN
  /\ cell' \in [Known -> Values]
  /\ events' \in [Slots -> Event \cup {NoEvent}]
  /\ UNCHANGED <<attached, debugging, machine, phase, call, answer>>

Leave ==
  /\ phase = "idle"
  /\ phase' = "leaving"
  /\ UNCHANGED <<envVars, machine, call, answer>>

\* The machine goes down at the client's wish and at no other time.
Shutdown ==
  /\ machine = "up"
  /\ phase = "leaving"
  /\ machine' = "down"
  /\ UNCHANGED <<envVars, phase, call, answer>>

Next ==
  \/ Start
  \/ \E req \in Commands : Ask(req)
  \/ Take
  \/ Return
  \/ Refuse
  \/ Program
  \/ Leave
  \/ Shutdown

Spec == Init /\ [][Next]_monitorVars
=============================================================================
