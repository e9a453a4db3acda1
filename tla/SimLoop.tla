------------------------------- MODULE SimLoop -------------------------------
(***************************************************************************)
(* The simulator thread (sim-core, env/simloop.rs): benchmark, then a loop *)
(* that takes at most one request, runs a batch of instructions when the   *)
(* machine is running, services the devices whose time has come, and looks *)
(* at the clock (whose calibration is not modelled here).                  *)
(***************************************************************************)
EXTENDS SimEnv, Channels

CONSTANT Batch   \* INSTRUCTION_BATCH

ASSUME BatchAssumption == Batch \in Nat \ {0}

VARIABLES
  simPc,    \* where the thread is in its loop
  inBatch,  \* instructions executed so far in the current batch
  ready     \* names popped by get_ready_devices and not serviced yet

loopVars == <<simPc, inBatch, ready>>

LoopTypeOK ==
  /\ simPc \in {"benchmark", "receive", "batch", "service", "exited"}
  /\ inBatch \in 0 .. Batch
  /\ ready \in Seq(Names)

LoopInit ==
  /\ simPc = "benchmark"
  /\ inBatch = 0
  /\ ready = <<>>

\* measure_initial_ips runs its own code on the CPU; when it fails the thread
\* returns and drops the environment with the channel ends in it.
Benchmark ==
  /\ simPc = "benchmark"
  /\ \E v \in Values : cell' = [cell EXCEPT ![Cpu] = v]
  /\ running' = FALSE
  /\ \/ simPc' = "receive" /\ UNCHANGED channels
     \/ simPc' = "exited" /\ CloseSimEnd
  /\ UNCHANGED <<attached, debugging, events, inBatch, ready>>

\* Mutant: DebugDisable is handled without an answer.
Receive_ForgetsAnswer ==
  /\ simPc = "receive"
  /\ requests # <<>>
  /\ \E resp \in PossibleResponses(Head(requests)) :
       /\ HandleRequest(Head(requests), resp)
       /\ responses' = IF Head(requests).op = "DebugDisable" THEN responses
                       ELSE Append(responses, resp)
  /\ requests' = Tail(requests)
  /\ simPc' = IF running' THEN "batch" ELSE "receive"
  /\ UNCHANGED <<simEnd, inBatch, ready>>

\* Mutant: whether to run a batch is decided before the request is handled.
Receive_StaleRunning ==
  /\ simPc = "receive"
  /\ requests # <<>>
  /\ \E resp \in PossibleResponses(Head(requests)) :
       /\ HandleRequest(Head(requests), resp)
       /\ responses' = Append(responses, resp)
  /\ requests' = Tail(requests)
  /\ simPc' = IF running THEN "batch" ELSE "receive"
  /\ UNCHANGED <<simEnd, inBatch, ready>>

\* Mutant: the request is looked at and left in the queue.
Receive_Peeks ==
  /\ simPc = "receive"
  /\ requests # <<>>
  /\ \E resp \in PossibleResponses(Head(requests)) :
       /\ HandleRequest(Head(requests), resp)
       /\ responses' = Append(responses, resp)
  /\ UNCHANGED requests
  /\ simPc' = IF running' THEN "batch" ELSE "receive"
  /\ UNCHANGED <<simEnd, inBatch, ready>>

\* recv when paused, try_recv when running, and handle_request on the message.
Receive ==
  /\ simPc = "receive"
  /\ requests # <<>>
  /\ \E resp \in PossibleResponses(Head(requests)) :
       /\ HandleRequest(Head(requests), resp)
       /\ responses' = Append(responses, resp)
  /\ requests' = Tail(requests)
  /\ simPc' = IF running' THEN "batch" ELSE "receive"
  /\ UNCHANGED <<simEnd, inBatch, ready>>

\* Mutant: Quit stops the machine and not the thread.
ReceiveQuit_OnlyStops ==
  /\ simPc = "receive"
  /\ requests # <<>>
  /\ Head(requests).op = "Quit"
  /\ requests' = Tail(requests)
  /\ running' = FALSE
  /\ UNCHANGED <<cell, attached, debugging, events, responses, simEnd, loopVars>>

ReceiveQuit ==
  /\ simPc = "receive"
  /\ requests # <<>>
  /\ Head(requests).op = "Quit"
  /\ simPc' = "exited"
  /\ CloseSimEnd
  /\ UNCHANGED <<envVars, inBatch, ready>>

\* Mutant: a running machine may go on without looking at the queue.
PollEmpty_Blind ==
  /\ simPc = "receive"
  /\ running
  /\ simPc' = "batch"
  /\ UNCHANGED <<envVars, channels, inBatch, ready>>

\* try_recv finds nothing: the running machine goes on.
PollEmpty ==
  /\ simPc = "receive"
  /\ running
  /\ requests = <<>>
  /\ simPc' = "batch"
  /\ UNCHANGED <<envVars, channels, inBatch, ready>>

\* What simulate_instruction can change: the CPU, or a device it talks to.
ProgramEffect ==
  \E n \in {Cpu} \cup Devices, v \in Values : cell' = [cell EXCEPT ![n] = v]

\* Mutant: a batch of one instruction too many.
Instruction_OneMore ==
  /\ simPc = "batch"
  /\ inBatch <= Batch
  /\ ProgramEffect
  /\ inBatch' = inBatch + 1
  /\ UNCHANGED <<running, attached, debugging, events, channels, simPc, ready>>

Instruction ==
  /\ simPc = "batch"
  /\ inBatch < Batch
  /\ ProgramEffect
  /\ inBatch' = inBatch + 1
  /\ UNCHANGED <<running, attached, debugging, events, channels, simPc, ready>>

\* Mutant: the batch goes on after the instruction that halted.
Halt_GoesOn ==
  /\ simPc = "batch"
  /\ inBatch < Batch
  /\ ProgramEffect
  /\ running' = FALSE
  /\ inBatch' = inBatch + 1
  /\ UNCHANGED <<attached, debugging, events, channels, simPc, ready>>

\* The instruction stops the machine (HLT or an error): the loop leaves the
\* batch at once, before add_instructions, and tells the CLI nothing.
Halt ==
  /\ simPc = "batch"
  /\ inBatch < Batch
  /\ ProgramEffect
  /\ running' = FALSE
  /\ inBatch' = 0
  /\ simPc' = "receive"
  /\ UNCHANGED <<attached, debugging, events, channels, ready>>

EndBatch ==
  /\ simPc = "batch"
  /\ inBatch = Batch
  /\ \E names \in FiringOrders(Advanced(Batch)) :
       /\ PopReady(Batch, names)
       /\ ready' = names
  /\ inBatch' = 0
  /\ simPc' = "service"
  /\ UNCHANGED <<running, cell, attached, debugging, channels>>

Service ==
  /\ simPc = "service"
  /\ ready # <<>>
  /\ ServiceFound(Head(ready))
  /\ ServiceHandler(Head(ready))
  /\ ready' = Tail(ready)
  /\ UNCHANGED <<running, channels, simPc, inBatch>>

\* Mutant: the loop goes on with the rest of the ready list.
ServiceFails_GoesOn ==
  /\ simPc = "service"
  /\ ready # <<>>
  /\ IF ServiceFound(Head(ready))
     THEN ServiceHandler(Head(ready))
     ELSE UNCHANGED <<cell, attached, debugging, events>>
  /\ running' = FALSE
  /\ ready' = Tail(ready)
  /\ UNCHANGED <<channels, simPc, inBatch>>

\* The name is not a top-level device, or its handler fails: the machine stops
\* and the rest of the ready list is dropped with the iterator.
ServiceFails ==
  /\ simPc = "service"
  /\ ready # <<>>
  /\ IF ServiceFound(Head(ready))
     THEN ServiceHandler(Head(ready))
     ELSE UNCHANGED <<cell, attached, debugging, events>>
  /\ running' = FALSE
  /\ ready' = <<>>
  /\ simPc' = "receive"
  /\ UNCHANGED <<channels, inBatch>>

Tick ==
  /\ simPc = "service"
  /\ ready = <<>>
  /\ simPc' = "receive"
  /\ UNCHANGED <<envVars, channels, inBatch, ready>>

SimStep ==
  \/ Benchmark \/ Receive \/ ReceiveQuit \/ PollEmpty
  \/ Instruction \/ Halt \/ EndBatch
  \/ Service \/ ServiceFails \/ Tick
=============================================================================
