------------------------------- MODULE SimEnv -------------------------------
(***************************************************************************)
(* The simulator environment (sim-core, env/simenv.rs): the CPU, the       *)
(* devices and their units, the timer's event queue, and what one request  *)
(* of the CLI does to them.  The module has no process of its own: SimLoop *)
(* drives it from the simulator thread, and Monitor is the abstract        *)
(* machine in which a request takes effect in one step.                    *)
(*                                                                         *)
(* A component's resources (registers, memory) are one representative      *)
(* `cell' each: the handlers never look at a value, only at whose it is.   *)
(***************************************************************************)
EXTENDS SimMessages, SequencesExt

CONSTANTS
  OwnerOf,      \* the controller of each unit
  Attachable,   \* the devices and units whose attachment_mut() is Some
  Slots,        \* the entries of the event heap: a bound on its size
  NoEvent

ASSUME DevicesAssumption ==
  /\ OwnerOf \in [Units -> Devices]
  /\ Attachable \subseteq Devices \cup Units

ASSUME EventsAssumption ==
  /\ IsFiniteSet(Slots)
  /\ NoEvent \notin [name : Names, due : Int]

-----------------------------------------------------------------------------
VARIABLES
  running,    \* SimEnvironment::running
  cell,       \* the resources of every component
  attached,   \* the components with a file attached
  debugging,  \* SimEnvironment::debug_state
  events      \* TimerManager::event_queue, fire times relative to now

envVars == <<running, cell, attached, debugging, events>>

\* A fire time is absolute in the code; only its distance from
\* total_instructions is ever looked at, so the model keeps that distance.
Event == [name : Names, due : Int]

EnvTypeOK ==
  /\ running \in BOOLEAN
  /\ cell \in [Known -> Values]
  /\ attached \subseteq Attachable
  /\ debugging \in DebugStates \cup {NoDebug}
  /\ events \in [Slots -> Event \cup {NoEvent}]

EnvInit ==
  /\ running = FALSE
  /\ cell = [n \in Known |-> Zero]
  /\ attached = {}
  /\ debugging = NoDebug
  /\ events = [s \in Slots |-> NoEvent]

-----------------------------------------------------------------------------
(***************************************************************************)
(* The timer's event queue (timers/manager.rs).                            *)
(***************************************************************************)
FreeSlots == {s \in Slots : events[s] = NoEvent}

ScheduleDevice(name, delay) ==
  \E s \in FreeSlots :
    events' = [events EXCEPT ![s] = [name |-> name, due |-> delay]]

\* Mutant: the batch is not added to total_instructions.
Advanced_Frozen(n) == events

\* add_instructions moves total_instructions: every event comes n nearer.
Advanced(n) ==
  [s \in Slots |-> IF events[s] = NoEvent THEN NoEvent
                   ELSE [name |-> events[s].name, due |-> events[s].due - n]]

ExpiredIn(queue) == {s \in Slots : queue[s] # NoEvent /\ queue[s].due <= 0}

\* The heap yields expired events by fire time; ties come in any order.
FiringOrders(queue) ==
  {[i \in DOMAIN order |-> queue[order[i]].name] :
     order \in {o \in SetToSeqs(ExpiredIn(queue)) :
                  \A i, j \in DOMAIN o : i < j => queue[o[i]].due <= queue[o[j]].due}}

\* add_instructions followed by get_ready_devices: the names popped, in order.
PopReady(n, names) ==
  LET queue == Advanced(n)
  IN  /\ names \in FiringOrders(queue)
      /\ events' = [s \in Slots |-> IF s \in ExpiredIn(queue) THEN NoEvent ELSE queue[s]]

-----------------------------------------------------------------------------
(***************************************************************************)
(* Reset, service, resources.                                              *)
(***************************************************************************)
\* What a reset of `name' restores: a controller takes its units along; a
\* name that is neither the CPU nor a top-level device restores nothing.
ResetScope(name) ==
  CASE name = Everything    -> Known
    [] name = Cpu           -> {Cpu}
    [] name \in Devices     -> {name} \cup {u \in Units : OwnerOf[u] = name}
    [] OTHER                -> {}

Reset(name) ==
  cell' = [n \in Known |-> IF n \in ResetScope(name) THEN Zero ELSE cell[n]]

ReadResources(names) == [n \in names |-> IF n \in Known THEN cell[n] ELSE NoValue]

\* service_device on a registered top-level device: the handler may change its
\* own state and the CPU's, and may schedule the device again.  One slot stays
\* free for a request in flight (a bound of the model).
ServiceHandler(name) ==
  /\ \E v \in Values, w \in Values : cell' = [cell EXCEPT ![name] = v, ![Cpu] = w]
  /\ \/ UNCHANGED events
     \/ /\ Cardinality(FreeSlots) > 1
        /\ \E delay \in Delays : ScheduleDevice(name, delay)
  /\ UNCHANGED <<attached, debugging>>

ServiceFound(name) == name \in Devices

-----------------------------------------------------------------------------
(***************************************************************************)
(* handle_request: one operator per message, `resp' is the answer sent.    *)
(***************************************************************************)
ExamineData(names) == [kind |-> "ExamineData", data |-> ReadResources(names)]

\* An element read as mnemonics is text of the CPU's memory, whatever it names:
\* it is among those that name the CPU.
HandleExamine(req, resp) ==
  /\ req.op = "Examine"
  /\ resp = ExamineData(req.names)
  /\ UNCHANGED envVars

\* write_resource_by_name stops at the first element the resource refuses, and
\* keeps the elements it has written.
HandleDeposit(req, resp) ==
  /\ req.op = "Deposit"
  /\ \/ /\ req.name \in Known
        /\ cell' = [cell EXCEPT ![req.name] = req.value]
        /\ resp \in {Ok, Error}
     \/ /\ UNCHANGED cell
        /\ resp = Error
  /\ UNCHANGED <<running, attached, debugging, events>>

HandleAttach(req, resp) ==
  /\ req.op = "Attach"
  /\ \/ /\ req.name \in Attachable
        /\ attached' = attached \cup {req.name}
        /\ resp = Ok
     \/ /\ UNCHANGED attached
        /\ resp = Error
  /\ UNCHANGED <<running, cell, debugging, events>>

HandleDetach(req, resp) ==
  /\ req.op = "Detach"
  /\ attached' = attached \ {req.name}
  /\ resp = IF req.name \in Attachable THEN Ok ELSE Error
  /\ UNCHANGED <<running, cell, debugging, events>>

\* A load that fails half-way leaves the words it has stored.
HandleLoadFile(req, resp) ==
  /\ req.op = "LoadFile"
  /\ \E v \in Values : cell' = [cell EXCEPT ![Cpu] = v]
  /\ resp \in {Ok, Error}
  /\ UNCHANGED <<running, attached, debugging, events>>

\* The instruction count of the request is ignored (`SimRequest::Step(_n)').
HandleStep(req, resp) ==
  /\ req.op = "Step"
  /\ running' = TRUE
  /\ resp = Ok
  /\ UNCHANGED <<cell, attached, debugging, events>>

\* Mutant: stopping a machine that does not run is an error.
HandleStop_Refuses(req, resp) ==
  /\ req.op = "Stop"
  /\ running' = FALSE
  /\ resp = IF running THEN Ok ELSE Error
  /\ UNCHANGED <<cell, attached, debugging, events>>

HandleStop(req, resp) ==
  /\ req.op = "Stop"
  /\ running' = FALSE
  /\ resp = Ok
  /\ UNCHANGED <<cell, attached, debugging, events>>

HandleReset(req, resp) ==
  /\ req.op = "Reset"
  /\ Reset(req.name)
  /\ resp = Ok
  /\ UNCHANGED <<running, attached, debugging, events>>

\* The name is not looked up: any string can be scheduled.
HandleSchedule(req, resp) ==
  /\ req.op = "ScheduleDevice"
  /\ ScheduleDevice(req.name, req.delay)
  /\ resp = Ok
  /\ UNCHANGED <<running, cell, attached, debugging>>

HandleSetDebug(req, resp) ==
  /\ req.op = "SetDebugState"
  /\ debugging' = req.state
  /\ resp = Ok
  /\ UNCHANGED <<running, cell, attached, events>>

\* Mutant: the simulator keeps the debug state.
HandleDebugDisable_Keeps(req, resp) ==
  /\ req.op = "DebugDisable"
  /\ resp = Ok
  /\ UNCHANGED envVars

HandleDebugDisable(req, resp) ==
  /\ req.op = "DebugDisable"
  /\ debugging' = NoDebug
  /\ resp = Ok
  /\ UNCHANGED <<running, cell, attached, events>>

PossibleResponses(req) ==
  IF req.op = "Examine" THEN {ExamineData(req.names)} ELSE {Ok, Error}

\* Every request but Quit, which handle_request only reports to the loop.
HandleRequest(req, resp) ==
  \/ HandleExamine(req, resp)
  \/ HandleDeposit(req, resp)
  \/ HandleAttach(req, resp)
  \/ HandleDetach(req, resp)
  \/ HandleLoadFile(req, resp)
  \/ HandleStep(req, resp)
  \/ HandleStop(req, resp)
  \/ HandleReset(req, resp)
  \/ HandleSchedule(req, resp)
  \/ HandleSetDebug(req, resp)
  \/ HandleDebugDisable(req, resp)
=============================================================================
