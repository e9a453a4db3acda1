------------------------------ MODULE SimSystem ------------------------------
(***************************************************************************)
(* A simulator process: the main thread (CmdRepl) and the simulator thread *)
(* (SimLoop) joined by the channels, as main wires them.                   *)
(***************************************************************************)
EXTENDS SimLoop, CmdRepl

vars == <<envVars, channels, loopVars, cliVars>>

Init == EnvInit /\ ChannelsInit /\ LoopInit /\ CliInit

TypeOK == EnvTypeOK /\ ChannelsTypeOK /\ LoopTypeOK /\ CliTypeOK

SimThread == SimStep /\ UNCHANGED cliVars

\* A bound of the model: nothing is scheduled when the heap is full.
RoomFor(req) == req.op = "ScheduleDevice" => FreeSlots # {}

\* The main thread waits for a person (or a script) only when it reads a line.
ReadsInput ==
  \/ LocalCommand
  \/ \E req \in Commands : RoomFor(req) /\ Transact(req)
  \/ Quit
  \/ EndOfSource

MainThread == (ReadsInput \/ TransactReturns \/ Join) /\ UNCHANGED <<envVars, loopVars>>

Next == SimThread \/ MainThread

Spec == Init /\ [][Next]_vars

\* The operating system schedules both threads; nobody has to type.
FairSpec ==
  /\ Spec
  /\ WF_vars(SimThread)
  /\ WF_vars((TransactReturns \/ Join) /\ UNCHANGED <<envVars, loopVars>>)

\* Besides, the input goes on: a script is read to its end.
ScriptSpec == FairSpec /\ WF_vars(MainThread)

-----------------------------------------------------------------------------
(***************************************************************************)
(* The request protocol.                                                   *)
(***************************************************************************)
\* While the main thread is blocked in transact, its request is queued, or its
\* answer is, of a kind that answers it, or the simulator is gone; otherwise
\* nothing is in flight but the Quit sent on the way out.  Nothing is queued for
\* a simulator that is gone.
InFlight ==
  \/ requests = <<call.req>> /\ responses = <<>>
  \/ /\ requests = <<>>
     /\ \E r \in SimResponse : responses = <<r>> /\ r.kind \in Answers(call.req)
  \/ requests = <<>> /\ responses = <<>> /\ simEnd = "closed"

RpcDiscipline ==
  /\ mainPc = "waiting" => call \in Call /\ call.resp = Pending /\ InFlight
  /\ mainPc # "waiting" => responses = <<>> /\ requests \in {<<>>, <<[op |-> "Quit"]>>}
  /\ mainPc = "prompt" \/ simEnd = "closed" => requests = <<>>

\* A command never sees the answer to another one, nor an "Unexpected
\* response": what transact returned answers what it asked.
AnswerMatches ==
  mainPc # "waiting" /\ call # NoCall =>
    call.resp = Disconnected \/ call.resp.kind \in Answers(call.req)

\* SET DEBUG changes the CLI first and the simulator by message: at the prompt
\* the two agree on the debug session as long as the simulator is there.
DebugAgreement ==
  mainPc = "prompt" /\ simEnd = "open" => debugging = cliDebug

\* Once STOP has been acknowledged the program stands still until the next
\* command, and so do the timers: the CLI can examine a consistent machine.
StoppedMeansStopped ==
  mainPc = "prompt" /\ call # NoCall /\ call.req.op = "Stop" /\ call.resp = Ok =>
    ~running /\ simPc \in {"receive", "exited"}

\* A ready list outlives neither the machine's run nor the thread's pass over
\* it: no device is serviced while the CLI believes the machine paused.
ReadyOnlyInService == ready # <<>> => running /\ simPc = "service"

\* The machine changes only in a run, in the benchmark, or by a request.
StillWhenPaused ==
  [][~running /\ UNCHANGED requests /\ simPc # "benchmark" => UNCHANGED <<cell, events>>]_vars

-----------------------------------------------------------------------------
(***************************************************************************)
(* Refinement.  The client of the monitor is the main thread, the machine  *)
(* is the simulator thread, and the channels disappear.                    *)
(***************************************************************************)
Phase ==
  CASE mainPc = "prompt"  -> "idle"
    [] mainPc = "waiting" -> IF responses = <<>> THEN "asked" ELSE "answered"
    [] OTHER              -> "leaving"

Machine ==
  CASE simPc = "benchmark" -> "starting"
    [] simPc = "exited"    -> "down"
    [] OTHER               -> "up"

Atomic == INSTANCE Monitor
  WITH phase <- Phase, machine <- Machine, answer <- Range(responses)

\* The threads and channels implement the monitor: every request takes effect
\* exactly once, between two instructions, and its answer is of that moment.
ImplementsMonitor == Atomic!Spec

-----------------------------------------------------------------------------
(***************************************************************************)
(* Liveness.                                                               *)
(***************************************************************************)
\* A command always comes back to the prompt, however long the program runs
\* and even when the simulator thread ends before it looks at the request.
CommandsReturn == mainPc = "waiting" ~> mainPc = "prompt"

\* QUIT ends the simulator thread and then the process.
QuitSent == requests # <<>> /\ Last(requests).op = "Quit"
QuitEndsProcess == QuitSent ~> mainPc = "exited"

\* An event in the queue of a running machine is handed to its device, unless
\* the machine stops or QUIT ends the thread first.
EventsFire == \A s \in Slots : (running /\ events[s] # NoEvent) ~>
                 (events[s] = NoEvent \/ ~running \/ simPc = "exited")

\* main's join returns once the CLI has run: "Wait for the simulator thread to
\* exit" (pdp-8/src/main.rs).
MainEnds == mainPc = "joining" ~> mainPc = "exited"

-----------------------------------------------------------------------------
(***************************************************************************)
(* What the comments of the code promise and the code does not do.         *)
(***************************************************************************)
\* "Service any devices whose timers have expired" (simloop.rs): a name leaves
\* the ready list by being serviced.
ExpiredAreServiced == [][ready # <<>> /\ ready' # ready => ready' = Tail(ready)]_vars

\* "Name of the device to service (e.g., "RKA0", "TTI")" (manager.rs): a unit
\* can be scheduled, so its event alone does not stop the machine.
UnitEventsAreServed ==
  [][ready # <<>> /\ Head(ready) \in Units /\ ready' # ready => running']_vars

\* "Number of instructions to wait before servicing" (manager.rs): when the
\* loop leaves a batch, the queue has moved by the instructions executed.
TimeFollowsExecution ==
  [][inBatch > 0 /\ inBatch' = 0 =>
       \A s \in Slots : events[s] # NoEvent /\ events'[s] # NoEvent =>
         events'[s].due = events[s].due - inBatch]_vars

\* "Reads commands from the CmdReader input stack until the input stack is
\* empty" (cmd_repl.rs): short of QUIT, which sends a request while there is a simulator,
\* a source leaves the stack at its end.
SourcesAreReadToTheEnd ==
  [][\A i \in DOMAIN inputs :
       simPc # "exited" /\ inputs[i] > 0 /\ Len(inputs') < i => requests' # requests]_vars
=============================================================================
