--------------------------- MODULE SimSystemProofs ---------------------------
(***************************************************************************)
(* Type correctness of SimSystem, its request protocol, the safety         *)
(* properties that rest on it and the refinement of Monitor, for every set *)
(* of devices, commands, scripts and every batch size.                     *)
(***************************************************************************)
EXTENDS SimSystem, SequenceTheorems, FiniteSetTheorems, TLAPS

(***************************************************************************)
(* The handlers.                                                           *)
(***************************************************************************)

\* An examine answers with a value or an error for every name it was asked.
LEMMA ExamineDataType ==
  ASSUME EnvTypeOK, NEW names \in SUBSET Names
  PROVE  ExamineData(names) \in SimResponse
<1>1. ReadResources(names) \in [names -> Values \cup {NoValue}]
  BY DEF EnvTypeOK, ReadResources, Names
<1>2. ReadResources(names) \in ExamineResults
  BY <1>1 DEF ExamineResults
<1> QED
  BY <1>2 DEF ExamineData, SimResponse

\* Every request handle_request takes is one it has an arm for, and the answer
\* it sends is a response of the kind that answers it.
LEMMA HandlerAnswers ==
  ASSUME EnvTypeOK, NEW req \in SimRequest,
         NEW resp \in PossibleResponses(req), HandleRequest(req, resp)
  PROVE  /\ req.op # "Quit"
         /\ resp \in SimResponse
         /\ resp.kind \in Answers(req)
<1>1. req.op = "Examine" => req.names \in SUBSET Names
  BY DEF SimRequest
<1>2. req.op = "Examine" => resp = ExamineData(req.names) /\ resp \in SimResponse
  BY <1>1, ExamineDataType DEF PossibleResponses
<1>3. req.op # "Examine" => resp \in {Ok, Error} /\ resp \in SimResponse
  BY DEF PossibleResponses, SimResponse, Ok, Error
<1>4. req.op # "Quit"
  BY DEF HandleRequest, HandleExamine, HandleDeposit, HandleAttach, HandleDetach,
         HandleLoadFile, HandleStep, HandleStop, HandleReset, HandleSchedule,
         HandleSetDebug, HandleDebugDisable
<1>5. req.op \notin {"Examine", "Deposit", "Attach", "Detach", "LoadFile"} => resp = Ok
  BY DEF HandleRequest, HandleExamine, HandleDeposit, HandleAttach, HandleDetach,
         HandleLoadFile, HandleStep, HandleStop, HandleReset, HandleSchedule,
         HandleSetDebug, HandleDebugDisable
<1>6. resp.kind \in Answers(req)
  BY <1>2, <1>3, <1>4, <1>5 DEF Answers, ExamineData, Ok, Error
<1> QED
  BY <1>2, <1>3, <1>4, <1>6

\* Scheduling keeps the heap well-typed.
LEMMA ScheduleType ==
  ASSUME EnvTypeOK, NEW name \in Names, NEW delay \in Delays, ScheduleDevice(name, delay)
  PROVE  events' \in [Slots -> Event \cup {NoEvent}]
<1>1. delay \in Int
  BY ValuesAssumption
<1>2. [name |-> name, due |-> delay] \in Event
  BY <1>1 DEF Event
<1> QED
  BY <1>2 DEF ScheduleDevice, EnvTypeOK, FreeSlots

\* A handler keeps the environment well-typed.
LEMMA HandlerType ==
  ASSUME EnvTypeOK, NEW req \in SimRequest, NEW resp, HandleRequest(req, resp)
  PROVE  EnvTypeOK'
<1>1. CASE HandleExamine(req, resp)
  BY <1>1 DEF HandleExamine, EnvTypeOK, envVars
<1>2. CASE HandleDeposit(req, resp)
  <2>1. req.value \in Values
    BY <1>2 DEF HandleDeposit, SimRequest
  <2> QED
    BY <1>2, <2>1 DEF HandleDeposit, EnvTypeOK
<1>3. CASE HandleAttach(req, resp)
  BY <1>3 DEF HandleAttach, EnvTypeOK
<1>4. CASE HandleDetach(req, resp)
  BY <1>4 DEF HandleDetach, EnvTypeOK
<1>5. CASE HandleLoadFile(req, resp)
  BY <1>5 DEF HandleLoadFile, EnvTypeOK
<1>6. CASE HandleStep(req, resp)
  BY <1>6 DEF HandleStep, EnvTypeOK
<1>7. CASE HandleStop(req, resp)
  BY <1>7 DEF HandleStop, EnvTypeOK
<1>8. CASE HandleReset(req, resp)
  <2>1. cell' \in [Known -> Values]
    BY <1>8, ValuesAssumption DEF HandleReset, Reset, EnvTypeOK
  <2> QED
    BY <1>8, <2>1 DEF HandleReset, EnvTypeOK
<1>9. CASE HandleSchedule(req, resp)
  <2>1. req.name \in Names /\ req.delay \in Delays
    BY <1>9 DEF HandleSchedule, SimRequest
  <2>2. events' \in [Slots -> Event \cup {NoEvent}]
    BY <1>9, <2>1, ScheduleType DEF HandleSchedule
  <2> QED
    BY <1>9, <2>2 DEF HandleSchedule, EnvTypeOK
<1>10. CASE HandleSetDebug(req, resp)
  <2>1. req.state \in DebugStates
    BY <1>10 DEF HandleSetDebug, SimRequest
  <2> QED
    BY <1>10, <2>1 DEF HandleSetDebug, EnvTypeOK
<1>11. CASE HandleDebugDisable(req, resp)
  BY <1>11 DEF HandleDebugDisable, EnvTypeOK
<1> QED
  BY <1>1, <1>2, <1>3, <1>4, <1>5, <1>6, <1>7, <1>8, <1>9, <1>10, <1>11 DEF HandleRequest

\* The service routine of a device keeps the environment well-typed.
LEMMA ServiceType ==
  ASSUME EnvTypeOK, NEW name \in Devices, ServiceHandler(name), running' \in BOOLEAN
  PROVE  EnvTypeOK'
<1>1. name \in Known /\ Cpu \in Known /\ name \in Names
  BY DEF Known, Names
<1>2. cell' \in [Known -> Values]
  BY <1>1 DEF ServiceHandler, EnvTypeOK
<1>3. events' \in [Slots -> Event \cup {NoEvent}]
  <2>1. CASE UNCHANGED events
    BY <2>1 DEF EnvTypeOK
  <2>2. CASE \E delay \in Delays : ScheduleDevice(name, delay)
    BY <1>1, <2>2, ScheduleType
  <2> QED
    BY <2>1, <2>2 DEF ServiceHandler
<1> QED
  BY <1>2, <1>3 DEF ServiceHandler, EnvTypeOK

\* What get_ready_devices returns is a sequence of names.
LEMMA FiringOrdersType ==
  ASSUME NEW queue \in [Slots -> Event \cup {NoEvent}]
  PROVE  FiringOrders(queue) \subseteq Seq(Names)
<1> DEFINE S == ExpiredIn(queue)
           n == Cardinality(S)
<1>1. n \in Nat
  BY EventsAssumption, FS_Subset, FS_CardinalityType DEF ExpiredIn
<1> SUFFICES ASSUME NEW o \in SetToSeqs(S)
             PROVE  [i \in DOMAIN o |-> queue[o[i]].name] \in Seq(Names)
  BY DEF FiringOrders
<1>2. o \in [1 .. n -> S]
  BY DEF SetToSeqs
<1>3. \A i \in 1 .. n : queue[o[i]].name \in Names
  <2> SUFFICES ASSUME NEW i \in 1 .. n PROVE queue[o[i]].name \in Names
    OBVIOUS
  <2>1. o[i] \in S
    BY <1>2
  <2>2. queue[o[i]] \in Event
    BY <2>1 DEF ExpiredIn
  <2> QED
    BY <2>2 DEF Event
<1>4. [i \in DOMAIN o |-> queue[o[i]].name] \in [1 .. n -> Names]
  BY <1>2, <1>3
<1> QED
  BY <1>1, <1>4, IsASeq, SeqDef

\* Moving time on keeps the heap well-typed.
LEMMA AdvancedType ==
  ASSUME EnvTypeOK, NEW n \in Int
  PROVE  Advanced(n) \in [Slots -> Event \cup {NoEvent}]
<1> SUFFICES ASSUME NEW s \in Slots, events[s] # NoEvent
             PROVE  [name |-> events[s].name, due |-> events[s].due - n] \in Event
  BY DEF Advanced, EnvTypeOK
<1>1. events[s] \in Event
  BY DEF EnvTypeOK
<1> QED
  BY <1>1 DEF Event

-----------------------------------------------------------------------------
(***************************************************************************)
(* Type correctness.                                                       *)
(***************************************************************************)

LEMMA InitType == Init => TypeOK
<1> SUFFICES ASSUME Init PROVE TypeOK
  OBVIOUS
<1>1. EnvTypeOK
  BY ValuesAssumption DEF Init, EnvInit, EnvTypeOK
<1>2. ChannelsTypeOK
  BY DEF Init, ChannelsInit, ChannelsTypeOK
<1>3. LoopTypeOK
  BY BatchAssumption DEF Init, LoopInit, LoopTypeOK
<1>4. CliTypeOK
  BY CommandsAssumption DEF Init, CliInit, CliTypeOK
<1> QED
  BY <1>1, <1>2, <1>3, <1>4 DEF TypeOK

\* A step of the simulator thread keeps what it works on well-typed.
LEMMA SimStepType ==
  ASSUME TypeOK, SimStep
  PROVE  EnvTypeOK' /\ ChannelsTypeOK' /\ LoopTypeOK'
<1> USE DEF TypeOK
<1>0. Cpu \in Known
  BY DEF Known
<1>1. CASE Benchmark
  <2>1. EnvTypeOK'
    BY <1>1, <1>0 DEF Benchmark, EnvTypeOK
  <2>2. ChannelsTypeOK'
    <3>1. CASE UNCHANGED channels
      BY <3>1 DEF channels, ChannelsTypeOK
    <3>2. CASE CloseSimEnd
      BY <3>2 DEF CloseSimEnd, ChannelsTypeOK
    <3> QED
      BY <1>1, <3>1, <3>2 DEF Benchmark
  <2>3. LoopTypeOK'
    BY <1>1 DEF Benchmark, LoopTypeOK
  <2> QED
    BY <2>1, <2>2, <2>3
<1>2. CASE Receive
  <2>1. Head(requests) \in SimRequest /\ Tail(requests) \in Seq(SimRequest)
    BY <1>2 DEF Receive, ChannelsTypeOK
  <2>2. PICK resp \in PossibleResponses(Head(requests)) :
          HandleRequest(Head(requests), resp) /\ responses' = Append(responses, resp)
    BY <1>2 DEF Receive
  <2>3. resp \in SimResponse
    BY <2>1, <2>2, HandlerAnswers
  <2>4. EnvTypeOK'
    BY <2>1, <2>2, HandlerType
  <2>5. ChannelsTypeOK'
    BY <1>2, <2>1, <2>2, <2>3 DEF Receive, ChannelsTypeOK
  <2>6. LoopTypeOK'
    BY <1>2 DEF Receive, LoopTypeOK
  <2> QED
    BY <2>4, <2>5, <2>6
<1>3. CASE ReceiveQuit
  BY <1>3 DEF ReceiveQuit, CloseSimEnd, envVars, EnvTypeOK, ChannelsTypeOK, LoopTypeOK
<1>4. CASE PollEmpty
  BY <1>4 DEF PollEmpty, envVars, channels, EnvTypeOK, ChannelsTypeOK, LoopTypeOK
<1>5. ASSUME ProgramEffect PROVE cell' \in [Known -> Values]
  BY <1>5, <1>0 DEF ProgramEffect, EnvTypeOK, Known
<1>6. CASE Instruction
  <2>1. inBatch' \in 0 .. Batch
    BY <1>6, BatchAssumption DEF Instruction, LoopTypeOK
  <2> QED
    BY <1>5, <1>6, <2>1 DEF Instruction, channels, EnvTypeOK, ChannelsTypeOK, LoopTypeOK
<1>7. CASE Halt
  <2>1. inBatch' \in 0 .. Batch
    BY <1>7, BatchAssumption DEF Halt
  <2> QED
    BY <1>5, <1>7, <2>1 DEF Halt, channels, EnvTypeOK, ChannelsTypeOK, LoopTypeOK
<1>8. CASE EndBatch
  <2>1. Advanced(Batch) \in [Slots -> Event \cup {NoEvent}]
    BY AdvancedType, BatchAssumption
  <2>2. ready' \in Seq(Names)
    BY <1>8, <2>1, FiringOrdersType DEF EndBatch
  <2>3. events' \in [Slots -> Event \cup {NoEvent}]
    BY <1>8, <2>1 DEF EndBatch, PopReady
  <2>4. inBatch' \in 0 .. Batch
    BY <1>8, BatchAssumption DEF EndBatch
  <2> QED
    BY <1>8, <2>2, <2>3, <2>4 DEF EndBatch, channels, EnvTypeOK, ChannelsTypeOK, LoopTypeOK
<1>9. CASE Service
  <2>1. Head(ready) \in Devices /\ Tail(ready) \in Seq(Names)
    BY <1>9 DEF Service, ServiceFound, LoopTypeOK
  <2>2. EnvTypeOK'
    BY <1>9, <2>1, ServiceType DEF Service, EnvTypeOK
  <2> QED
    BY <1>9, <2>1, <2>2 DEF Service, channels, ChannelsTypeOK, LoopTypeOK
<1>10. CASE ServiceFails
  <2>1. EnvTypeOK'
    <3>1. CASE ServiceFound(Head(ready))
      BY <1>10, <3>1, ServiceType DEF ServiceFails, ServiceFound
    <3>2. CASE ~ServiceFound(Head(ready))
      BY <1>10, <3>2 DEF ServiceFails, EnvTypeOK
    <3> QED
      BY <3>1, <3>2
  <2> QED
    BY <1>10, <2>1 DEF ServiceFails, channels, ChannelsTypeOK, LoopTypeOK
<1>11. CASE Tick
  BY <1>11 DEF Tick, envVars, channels, EnvTypeOK, ChannelsTypeOK, LoopTypeOK
<1> QED
  BY <1>1, <1>2, <1>3, <1>4, <1>6, <1>7, <1>8, <1>9, <1>10, <1>11 DEF SimStep

\* A step of the main thread keeps the channels and its own state well-typed.
LEMMA ReadsInputType ==
  ASSUME TypeOK, ReadsInput
  PROVE  ChannelsTypeOK' /\ CliTypeOK'
<1> USE DEF TypeOK
<1>0. ASSUME LineRead PROVE inputs' \in Seq(Nat)
  <2>1. Len(inputs) \in DOMAIN inputs /\ Last(inputs) = inputs[Len(inputs)]
    BY <1>0 DEF LineRead, CliTypeOK, Last
  <2>2. inputs[Len(inputs)] - 1 \in Nat
    BY <1>0, <2>1 DEF LineRead, CliTypeOK
  <2> QED
    BY <1>0, <2>1, <2>2, ExceptSeq DEF LineRead, CliTypeOK
<1>1. CASE LocalCommand
  BY <1>0, <1>1 DEF LocalCommand, channels, ChannelsTypeOK, CliTypeOK
<1>2. CASE \E req \in Commands : RoomFor(req) /\ Transact(req)
  <2>1. PICK req \in Commands : Transact(req)
    BY <1>2
  <2>2. req \in SimRequest
    BY CommandsAssumption
  <2>3. cliDebug' \in DebugStates \cup {NoDebug}
    <3>1. req.op = "SetDebugState" => req.state \in DebugStates
      BY <2>2 DEF SimRequest
    <3> QED
      BY <2>1, <3>1 DEF Transact, DebugAfter, CliTypeOK
  <2>4. call' \in Call
    BY <2>1, <2>2 DEF Transact, Call
  <2>5. ChannelsTypeOK'
    BY <2>1, <2>2 DEF Transact, ChannelsTypeOK
  <2>6. mainPc' \in {"prompt", "waiting"}
    BY <2>1 DEF Transact, LineRead
  <2> QED
    BY <1>0, <2>1, <2>3, <2>4, <2>5, <2>6 DEF Transact, CliTypeOK
<1>3. CASE Quit
  <2>1. [op |-> "Quit"] \in SimRequest
    BY DEF SimRequest
  <2> QED
    BY <1>3, <2>1 DEF Quit, ChannelsTypeOK, CliTypeOK
<1>4. CASE EndOfSource
  <2>1. PoppedTwice(inputs) \in Seq(Nat)
    BY DEF PoppedTwice, CliTypeOK
  <2> QED
    BY <1>4, <2>1 DEF EndOfSource, channels, ChannelsTypeOK, CliTypeOK
<1> QED
  BY <1>1, <1>2, <1>3, <1>4 DEF ReadsInput

\* A transact that returns has a call to store its answer in: this is where
\* type correctness rests on the protocol.
LEMMA NextType ==
  ASSUME TypeOK, RpcDiscipline, [Next]_vars
  PROVE  TypeOK'
<1>1. CASE SimThread
  BY <1>1, SimStepType DEF SimThread, cliVars, TypeOK, CliTypeOK
<1>2. CASE ReadsInput /\ UNCHANGED <<envVars, loopVars>>
  BY <1>2, ReadsInputType DEF envVars, loopVars, TypeOK, EnvTypeOK, LoopTypeOK
<1>3. CASE TransactReturns /\ UNCHANGED <<envVars, loopVars>>
  <2>1. ChannelsTypeOK'
    BY <1>3 DEF TransactReturns, TypeOK, ChannelsTypeOK
  <2>2. call' \in Call \cup {NoCall}
    BY <1>3 DEF TransactReturns, RpcDiscipline, TypeOK, CliTypeOK, ChannelsTypeOK, Call
  <2> QED
    BY <1>3, <2>1, <2>2
       DEF TransactReturns, envVars, loopVars, TypeOK, EnvTypeOK, LoopTypeOK, CliTypeOK
<1>4. CASE Join /\ UNCHANGED <<envVars, loopVars>>
  BY <1>4 DEF Join, channels, envVars, loopVars, TypeOK, EnvTypeOK, LoopTypeOK,
              CliTypeOK, ChannelsTypeOK
<1>5. CASE UNCHANGED vars
  BY <1>5 DEF vars, cliVars, channels, envVars, loopVars, TypeOK, EnvTypeOK, LoopTypeOK,
              CliTypeOK, ChannelsTypeOK
<1> QED
  BY <1>1, <1>2, <1>3, <1>4, <1>5 DEF Next, MainThread

-----------------------------------------------------------------------------
(***************************************************************************)
(* The request protocol.                                                   *)
(***************************************************************************)

LEMMA InitRpc == Init => RpcDiscipline
  BY DEF Init, ChannelsInit, CliInit, RpcDiscipline

\* Taking a request: outside transact there is none that handle_request takes.
LEMMA ReceiveRpc ==
  ASSUME TypeOK, RpcDiscipline, Receive, UNCHANGED cliVars
  PROVE  RpcDiscipline'
<1>1. requests # <<>> /\ Head(requests) \in SimRequest
  BY DEF Receive, TypeOK, ChannelsTypeOK
<1>2. PICK resp \in PossibleResponses(Head(requests)) :
        HandleRequest(Head(requests), resp) /\ responses' = Append(responses, resp)
  BY DEF Receive
<1>3. /\ Head(requests).op # "Quit"
      /\ resp \in SimResponse
      /\ resp.kind \in Answers(Head(requests))
  BY <1>1, <1>2, HandlerAnswers DEF TypeOK
<1>4. mainPc = "waiting"
  BY <1>1, <1>3 DEF RpcDiscipline
<1>5. requests = <<call.req>> /\ responses = <<>>
  BY <1>1, <1>4 DEF RpcDiscipline, InFlight
<1>6. requests' = <<>> /\ responses' = <<resp>> /\ Head(requests) = call.req
  BY <1>2, <1>5 DEF Receive
<1> QED
  BY <1>3, <1>4, <1>6 DEF RpcDiscipline, InFlight, cliVars

LEMMA NextRpc ==
  ASSUME TypeOK, RpcDiscipline, [Next]_vars
  PROVE  RpcDiscipline'
<1> USE DEF RpcDiscipline, InFlight
<1>1. CASE SimThread
  <2>1. UNCHANGED cliVars
    BY <1>1 DEF SimThread
  <2>2. CASE Receive
    BY <2>1, <2>2, ReceiveRpc
  <2>3. CASE CloseSimEnd
    BY <2>1, <2>3 DEF CloseSimEnd, cliVars
  <2>4. CASE UNCHANGED channels
    BY <2>1, <2>4 DEF channels, cliVars
  <2> QED
    BY <1>1, <2>2, <2>3, <2>4
       DEF SimThread, SimStep, Benchmark, ReceiveQuit, PollEmpty, Instruction, Halt,
           EndBatch, Service, ServiceFails, Tick
<1>2. CASE LocalCommand
  BY <1>2 DEF LocalCommand, LineRead, channels
<1>3. CASE \E req \in Commands : Transact(req)
  <2>1. PICK req \in Commands : Transact(req)
    BY <1>3
  <2>2. req \in SimRequest
    BY CommandsAssumption
  <2>3. mainPc = "prompt" /\ requests = <<>> /\ responses = <<>>
    BY <2>1 DEF Transact, LineRead
  <2>4. CASE simEnd = "closed"
    BY <2>1, <2>3, <2>4 DEF Transact
  <2>5. CASE simEnd = "open"
    <3>1. requests' = <<req>> /\ responses' = <<>>
      BY <2>1, <2>3, <2>5 DEF Transact
    <3>2. call' \in Call /\ call'.resp = Pending /\ call'.req = req
      BY <2>1, <2>2, <2>5 DEF Transact, Call
    <3>3. mainPc' = "waiting" /\ simEnd' = "open"
      BY <2>1, <2>5 DEF Transact
    <3> QED
      BY <3>1, <3>2, <3>3
  <2> QED
    BY <2>4, <2>5 DEF TypeOK, ChannelsTypeOK
<1>4. CASE Quit
  <2>1. requests = <<>> /\ responses = <<>>
    BY <1>4 DEF Quit
  <2>2. requests' = IF simEnd = "open" THEN <<[op |-> "Quit"]>> ELSE <<>>
    BY <1>4, <2>1 DEF Quit
  <2> QED
    BY <1>4, <2>1, <2>2 DEF Quit
<1>5. CASE EndOfSource
  BY <1>5 DEF EndOfSource, channels
<1>6. CASE TransactReturns
  <2>1. responses' = <<>> /\ requests' = <<>>
    BY <1>6 DEF TransactReturns
  <2> QED
    BY <1>6, <2>1 DEF TransactReturns
<1>7. CASE Join
  BY <1>7 DEF Join, channels
<1>8. CASE UNCHANGED vars
  BY <1>8 DEF vars, channels, cliVars
<1> QED
  BY <1>1, <1>2, <1>3, <1>4, <1>5, <1>6, <1>7, <1>8 DEF Next, MainThread, ReadsInput

\* The two invariants are inductive together.
LEMMA ProtocolInvariant == Spec => [](TypeOK /\ RpcDiscipline)
<1>1. Init => TypeOK /\ RpcDiscipline
  BY InitType, InitRpc
<1>2. (TypeOK /\ RpcDiscipline) /\ [Next]_vars => (TypeOK /\ RpcDiscipline)'
  BY NextType, NextRpc
<1> QED
  BY <1>1, <1>2, PTL DEF Spec

\* The state of the environment, the channels and both threads keeps its type:
\* no index, name or batch counter leaves its range, whatever the commands.
THEOREM TypeCorrect == Spec => []TypeOK
  BY ProtocolInvariant, PTL

\* At most one request is in flight, and its answer is the only one the CLI can
\* receive, in transact (repl_state.rs) against handle_request (simenv.rs).
THEOREM RpcDisciplineHolds == Spec => []RpcDiscipline
  BY ProtocolInvariant, PTL

(***************************************************************************)
(* The safety properties that rest on the request protocol.                *)
(***************************************************************************)

\* The steps of the simulator thread that are neither Receive nor an end of it
\* leave the channels alone, and none but Receive touches the debug state.
LEMMA OtherSimSteps ==
  ASSUME SimStep
  PROVE  Receive \/ (UNCHANGED debugging /\ (UNCHANGED channels \/ CloseSimEnd))
  BY DEF SimStep, Benchmark, ReceiveQuit, PollEmpty, Instruction, Halt, EndBatch,
         Service, ServiceHandler, ServiceFails, Tick, envVars

\* The main thread leaves the machine alone.
LEMMA MainSteps ==
  ASSUME [Next]_vars
  PROVE  \/ SimThread
         \/ /\ UNCHANGED <<envVars, loopVars>>
            /\ \/ LocalCommand \/ (\E req \in Commands : Transact(req))
               \/ Quit \/ EndOfSource \/ TransactReturns \/ Join
               \/ UNCHANGED vars
  BY DEF Next, MainThread, ReadsInput, vars

-----------------------------------------------------------------------------
\* A response reaches the command that asked for it, and no other.
THEOREM AnswersMatch == Spec => []AnswerMatches
<1>1. Init => AnswerMatches
  BY DEF Init, CliInit, AnswerMatches
<1>2. TypeOK /\ RpcDiscipline /\ AnswerMatches /\ [Next]_vars => AnswerMatches'
  <2> SUFFICES ASSUME TypeOK, RpcDiscipline, AnswerMatches, [Next]_vars
               PROVE  AnswerMatches'
    OBVIOUS
  <2>1. CASE SimThread
    BY <2>1 DEF SimThread, cliVars, AnswerMatches
  <2>2. CASE LocalCommand \/ Quit \/ EndOfSource \/ Join \/ UNCHANGED vars
    BY <2>2 DEF LocalCommand, LineRead, Quit, EndOfSource, Join, vars, cliVars, AnswerMatches
  <2>3. CASE \E req \in Commands : Transact(req)
    BY <2>3 DEF Transact, AnswerMatches
  <2>4. CASE TransactReturns
    <3>1. call \in Call
      BY <2>4 DEF TransactReturns, RpcDiscipline
    <3>2. CASE responses # <<>>
      <4>1. Head(responses).kind \in Answers(call.req)
        BY <2>4, <3>2 DEF TransactReturns, RpcDiscipline, InFlight
      <4>2. call'.resp = Head(responses) /\ call'.req = call.req
        BY <2>4, <3>1, <3>2 DEF TransactReturns, Call
      <4> QED
        BY <4>1, <4>2 DEF AnswerMatches
    <3>3. CASE responses = <<>>
      <4>1. call'.resp = Disconnected
        BY <2>4, <3>1, <3>3 DEF TransactReturns, Call
      <4> QED
        BY <4>1 DEF AnswerMatches
    <3> QED
      BY <3>2, <3>3
  <2> QED
    BY <2>1, <2>2, <2>3, <2>4, MainSteps
<1> QED
  BY <1>1, <1>2, ProtocolInvariant, PTL DEF Spec

-----------------------------------------------------------------------------
\* The debug session while a request is under way: the CLI is ahead of the
\* simulator by exactly what the request in the queue will do.
DebugInFlight ==
  simEnd = "open" =>
    IF mainPc = "waiting" /\ responses = <<>>
    THEN /\ call.req.op = "SetDebugState" => cliDebug = call.req.state
         /\ call.req.op = "DebugDisable"  => cliDebug = NoDebug
         /\ call.req.op \notin {"SetDebugState", "DebugDisable"} => debugging = cliDebug
    ELSE debugging = cliDebug

LEMMA DebugAfterCases ==
  ASSUME NEW req
  PROVE  /\ req.op = "SetDebugState" => DebugAfter(req) = req.state
         /\ req.op = "DebugDisable"  => DebugAfter(req) = NoDebug
         /\ req.op \notin {"SetDebugState", "DebugDisable"} => DebugAfter(req) = cliDebug
  BY DEF DebugAfter

\* What a request does to the simulator's debug state.
LEMMA HandlerDebug ==
  ASSUME NEW req, NEW resp, HandleRequest(req, resp)
  PROVE  /\ req.op = "SetDebugState" => debugging' = req.state
         /\ req.op = "DebugDisable"  => debugging' = NoDebug
         /\ req.op \notin {"SetDebugState", "DebugDisable"} => debugging' = debugging
  BY DEF HandleRequest, HandleExamine, HandleDeposit, HandleAttach, HandleDetach,
         HandleLoadFile, HandleStep, HandleStop, HandleReset, HandleSchedule,
         HandleSetDebug, HandleDebugDisable, envVars

\* SET DEBUG changes the CLI before the simulator, and the prompt never sees it.
THEOREM DebugAgrees == Spec => []DebugAgreement
<1>1. Init => DebugInFlight
  BY DEF Init, CliInit, EnvInit, ChannelsInit, DebugInFlight
<1>2. TypeOK /\ RpcDiscipline /\ DebugInFlight /\ [Next]_vars => DebugInFlight'
  <2> SUFFICES ASSUME TypeOK, RpcDiscipline, DebugInFlight, [Next]_vars, simEnd' = "open"
               PROVE  DebugInFlight'
    BY DEF DebugInFlight
  <2>1. CASE SimThread /\ Receive
    <3>1. requests # <<>> /\ Head(requests) \in SimRequest
      BY <2>1 DEF Receive, TypeOK, ChannelsTypeOK
    <3>2. PICK resp \in PossibleResponses(Head(requests)) :
            HandleRequest(Head(requests), resp) /\ responses' = Append(responses, resp)
      BY <2>1 DEF Receive
    <3>3. Head(requests).op # "Quit"
      BY <3>1, <3>2, HandlerAnswers DEF TypeOK
    <3>4. mainPc = "waiting" /\ Head(requests) = call.req /\ responses = <<>>
      BY <3>1, <3>3 DEF RpcDiscipline, InFlight
    <3>5. simEnd = "open"
      BY <2>1 DEF Receive
    <3>6. responses' # <<>>
      BY <3>2, <3>4
    <3>7. debugging' = cliDebug
      BY <3>2, <3>4, <3>5, HandlerDebug DEF DebugInFlight
    <3> QED
      BY <2>1, <3>6, <3>7 DEF SimThread, cliVars, DebugInFlight
  <2>2. CASE SimThread /\ ~Receive
    <3>1. UNCHANGED <<cliVars, debugging>> /\ (UNCHANGED channels \/ CloseSimEnd)
      BY <2>2, OtherSimSteps DEF SimThread
    <3> QED
      BY <3>1 DEF CloseSimEnd, channels, cliVars, DebugInFlight
  <2>3. CASE /\ UNCHANGED <<envVars, loopVars>>
             /\ LocalCommand \/ Quit \/ EndOfSource \/ Join \/ UNCHANGED vars
    BY <2>3 DEF LocalCommand, LineRead, Quit, EndOfSource, Join, vars, envVars, cliVars,
                channels, DebugInFlight
  <2>4. CASE UNCHANGED <<envVars, loopVars>> /\ \E req \in Commands : Transact(req)
    <3>1. PICK req \in Commands : Transact(req)
      BY <2>4
    <3>2. mainPc = "prompt" /\ simEnd = "open" /\ debugging = cliDebug /\ debugging' = debugging
      BY <2>4, <3>1 DEF Transact, LineRead, envVars, DebugInFlight
    <3>3. call'.req = req /\ cliDebug' = DebugAfter(req)
      BY <3>1 DEF Transact
    <3>4. mainPc' = "waiting" /\ responses' = <<>>
      BY <3>1, <3>2 DEF Transact, RpcDiscipline
    <3> QED
      BY <3>2, <3>3, <3>4, DebugAfterCases DEF DebugInFlight
  <2>5. CASE UNCHANGED <<envVars, loopVars>> /\ TransactReturns
    <3>1. simEnd = "open" /\ responses # <<>> /\ debugging = cliDebug
      BY <2>5 DEF TransactReturns, DebugInFlight
    <3> QED
      BY <2>5, <3>1 DEF TransactReturns, envVars, DebugInFlight
  <2> QED
    BY <2>1, <2>2, <2>3, <2>4, <2>5, MainSteps
<1>3. DebugInFlight => DebugAgreement
  BY DEF DebugInFlight, DebugAgreement
<1> QED
  BY <1>1, <1>2, <1>3, ProtocolInvariant, PTL DEF Spec

-----------------------------------------------------------------------------
\* The thread is inside a batch or a service pass only while the machine runs.
BusyMeansRunning ==
  /\ simPc \in {"batch", "service"} => running
  /\ ready # <<>> => simPc = "service"

LEMMA BusyInvariant == Spec => []BusyMeansRunning
<1>1. Init => BusyMeansRunning
  BY DEF Init, LoopInit, BusyMeansRunning
<1>2. TypeOK /\ BusyMeansRunning /\ [Next]_vars => BusyMeansRunning'
  <2> SUFFICES ASSUME TypeOK, BusyMeansRunning, [Next]_vars
               PROVE  BusyMeansRunning'
    OBVIOUS
  <2>1. CASE SimThread
    <3>1. CASE Service
      BY <3>1 DEF Service, BusyMeansRunning
    <3> QED
      BY <2>1, <3>1 DEF SimThread, SimStep, Benchmark, Receive, ReceiveQuit, PollEmpty,
         Instruction, Halt, EndBatch, ServiceFails, Tick, envVars, BusyMeansRunning
  <2>2. CASE UNCHANGED <<envVars, loopVars>>
    BY <2>2 DEF envVars, loopVars, BusyMeansRunning
  <2> QED
    BY <2>1, <2>2, MainSteps
<1> QED
  BY <1>1, <1>2, TypeCorrect, PTL DEF Spec

\* get_ready_devices' list is used up, or dropped, before the loop goes on.
THEOREM ReadyInService == Spec => []ReadyOnlyInService
<1>1. BusyMeansRunning => ReadyOnlyInService
  BY DEF BusyMeansRunning, ReadyOnlyInService
<1> QED
  BY <1>1, BusyInvariant, PTL

\* A paused machine is changed by nothing but the request being handled.
THEOREM PausedIsStill == Spec => StillWhenPaused
<1>1. TypeOK /\ BusyMeansRunning /\ [Next]_vars =>
        [~running /\ UNCHANGED requests /\ simPc # "benchmark" => UNCHANGED <<cell, events>>]_vars
  <2> SUFFICES ASSUME TypeOK, BusyMeansRunning, [Next]_vars,
                      ~running, UNCHANGED requests, simPc # "benchmark"
               PROVE  UNCHANGED <<cell, events>>
    OBVIOUS
  <2>1. CASE SimThread
    <3>1. ~Receive
      <4>1. requests # <<>> => Tail(requests) # requests
        BY DEF TypeOK, ChannelsTypeOK
      <4> QED
        BY <4>1 DEF Receive
    <3> QED
      BY <2>1, <3>1 DEF SimThread, SimStep, Benchmark, ReceiveQuit, PollEmpty, Instruction,
         Halt, EndBatch, Service, ServiceFails, Tick, envVars, BusyMeansRunning
  <2>2. CASE UNCHANGED <<envVars, loopVars>>
    BY <2>2 DEF envVars
  <2> QED
    BY <2>1, <2>2, MainSteps
<1> QED
  BY <1>1, TypeCorrect, BusyInvariant, PTL DEF Spec, StillWhenPaused

-----------------------------------------------------------------------------
\* From the step that handles STOP until the next request the thread is parked.
Parked ==
  (/\ call # NoCall
   /\ call.req.op = "Stop"
   /\ \/ mainPc = "prompt" /\ call.resp = Ok
      \/ mainPc = "waiting" /\ responses # <<>>)
  => ~running /\ simPc \in {"receive", "exited"}

LEMMA StopHandled ==
  ASSUME NEW req, NEW resp, req.op = "Stop", HandleRequest(req, resp)
  PROVE  running' = FALSE
  BY DEF HandleRequest, HandleExamine, HandleDeposit, HandleAttach, HandleDetach,
         HandleLoadFile, HandleStep, HandleStop, HandleReset, HandleSchedule,
         HandleSetDebug, HandleDebugDisable

\* STOP's answer is the program's last sign of life.
THEOREM StoppedStays == Spec => []StoppedMeansStopped
<1>1. Init => Parked
  BY DEF Init, CliInit, Parked
<1>2. TypeOK /\ RpcDiscipline /\ Parked /\ [Next]_vars => Parked'
  <2> SUFFICES ASSUME TypeOK, RpcDiscipline, Parked, [Next]_vars
               PROVE  Parked'
    OBVIOUS
  <2>1. CASE SimThread /\ Receive
    <3>1. requests # <<>> /\ Head(requests) \in SimRequest
      BY <2>1 DEF Receive, TypeOK, ChannelsTypeOK
    <3>2. PICK resp \in PossibleResponses(Head(requests)) :
            HandleRequest(Head(requests), resp)
      BY <2>1 DEF Receive
    <3>3. Head(requests).op # "Quit"
      BY <3>1, <3>2, HandlerAnswers DEF TypeOK
    <3>4. mainPc = "waiting" /\ Head(requests) = call.req
      BY <3>1, <3>3 DEF RpcDiscipline, InFlight
    <3>5. call.req.op = "Stop" => running' = FALSE /\ simPc' = "receive"
      BY <2>1, <3>2, <3>4, StopHandled DEF Receive
    <3> QED
      BY <2>1, <3>5 DEF SimThread, cliVars, Parked
  <2>2. CASE SimThread /\ ~Receive
    <3> SUFFICES ASSUME call # NoCall, call.req.op = "Stop",
                        \/ mainPc = "prompt" /\ call.resp = Ok
                        \/ mainPc = "waiting" /\ responses # <<>>
                 PROVE  FALSE
      BY <2>2, OtherSimSteps DEF SimThread, cliVars, channels, CloseSimEnd, Parked
    <3>1. ~running /\ simPc \in {"receive", "exited"}
      BY DEF Parked
    <3>2. requests = <<>>
      BY DEF RpcDiscipline, InFlight
    <3> QED
      BY <2>2, <3>1, <3>2 DEF SimThread, SimStep, Benchmark, ReceiveQuit, PollEmpty,
         Instruction, Halt, EndBatch, Service, ServiceFails, Tick
  <2>3. CASE /\ UNCHANGED <<envVars, loopVars>>
             /\ LocalCommand \/ Quit \/ EndOfSource \/ Join \/ UNCHANGED vars
    BY <2>3 DEF LocalCommand, LineRead, Quit, EndOfSource, Join, vars, envVars, loopVars,
                cliVars, channels, Parked
  <2>4. CASE UNCHANGED <<envVars, loopVars>> /\ \E req \in Commands : Transact(req)
    <3>1. mainPc = "prompt" /\ responses = <<>> /\ responses' = responses
      BY <2>4 DEF Transact, LineRead, RpcDiscipline
    <3>2. call'.resp # Ok
      <4>1. Ok \in SimResponse
        BY DEF Ok, SimResponse
      <4>2. Pending # Ok /\ Disconnected # Ok
        BY <4>1, CommandsAssumption
      <4> QED
        BY <2>4, <4>2 DEF Transact
    <3> QED
      BY <3>1, <3>2 DEF Parked
  <2>5. CASE UNCHANGED <<envVars, loopVars>> /\ TransactReturns
    <3>1. call \in Call
      BY <2>5 DEF TransactReturns, RpcDiscipline
    <3>2. call'.req = call.req /\ (responses = <<>> => call'.resp = Disconnected)
      BY <2>5, <3>1 DEF TransactReturns, Call
    <3>3. Disconnected # Ok
      BY CommandsAssumption DEF Ok, SimResponse
    <3>4. call # NoCall /\ mainPc' = "prompt"
      BY <2>5, <3>1, CommandsAssumption DEF TransactReturns, Call
    <3> QED
      BY <2>5, <3>2, <3>3, <3>4 DEF TransactReturns, envVars, loopVars, Parked
  <2> QED
    BY <2>1, <2>2, <2>3, <2>4, <2>5, MainSteps
<1>3. Parked => StoppedMeansStopped
  BY DEF Parked, StoppedMeansStopped
<1> QED
  BY <1>1, <1>2, <1>3, ProtocolInvariant, PTL DEF Spec
-----------------------------------------------------------------------------
(***************************************************************************)
(* SimSystem implements Monitor: for every set of devices, commands and    *)
(* scripts, threads and channels are invisible to the client.  First the   *)
(* refinement mapping, case by case.                                       *)
(***************************************************************************)
LEMMA PhaseCases ==
  /\ mainPc = "prompt" => Phase = "idle"
  /\ mainPc = "waiting" /\ responses = <<>> => Phase = "asked"
  /\ mainPc = "waiting" /\ responses # <<>> => Phase = "answered"
  /\ mainPc \in {"joining", "exited"} => Phase = "leaving"
  BY DEF Phase

LEMMA PhaseCasesNext ==
  /\ mainPc' = "prompt" => Phase' = "idle"
  /\ mainPc' = "waiting" /\ responses' = <<>> => Phase' = "asked"
  /\ mainPc' = "waiting" /\ responses' # <<>> => Phase' = "answered"
  /\ mainPc' \in {"joining", "exited"} => Phase' = "leaving"
  BY DEF Phase

LEMMA MachineCases ==
  /\ simPc = "benchmark" => Machine = "starting"
  /\ simPc = "exited" => Machine = "down"
  /\ simPc \in {"receive", "batch", "service"} => Machine = "up"
  BY DEF Machine

LEMMA MachineCasesNext ==
  /\ simPc' = "benchmark" => Machine' = "starting"
  /\ simPc' = "exited" => Machine' = "down"
  /\ simPc' \in {"receive", "batch", "service"} => Machine' = "up"
  BY DEF Machine

LEMMA AnswerCases ==
  /\ responses = <<>> => Range(responses) = {}
  /\ \A r : responses = <<r>> => Range(responses) = {r}
  BY DEF Range

LEMMA AnswerCasesNext ==
  /\ responses' = <<>> => Range(responses') = {}
  /\ \A r : responses' = <<r>> => Range(responses') = {r}
  BY DEF Range

\* A step that leaves these alone is invisible to the monitor's client.
LEMMA Invisible ==
  ASSUME UNCHANGED <<mainPc, responses, call>>
  PROVE  UNCHANGED <<Phase, call, Range(responses)>>
  BY DEF Phase, Range

-----------------------------------------------------------------------------
(***************************************************************************)
(* The invariant the mapping rests on, besides the protocol's.             *)
(***************************************************************************)
Alive ==
  /\ simPc = "benchmark" => ~running
  /\ simEnd = "closed" <=> simPc = "exited"
  /\ mainPc = "waiting" => call.req \in Commands

LEMMA AliveInvariant == Spec => []Alive
<1>1. Init => Alive
  BY DEF Init, EnvInit, ChannelsInit, LoopInit, CliInit, Alive
<1>2. TypeOK /\ RpcDiscipline /\ Alive /\ [Next]_vars => Alive'
  <2> SUFFICES ASSUME TypeOK, RpcDiscipline, Alive, [Next]_vars
               PROVE  Alive'
    OBVIOUS
  <2>1. CASE SimThread
    BY <2>1 DEF SimThread, SimStep, Benchmark, Receive, ReceiveQuit, PollEmpty, Instruction,
       Halt, EndBatch, Service, ServiceFails, Tick, CloseSimEnd, envVars, channels, cliVars, Alive
  <2>2. CASE UNCHANGED <<envVars, loopVars>> /\ \E req \in Commands : Transact(req)
    BY <2>2 DEF Transact, LineRead, envVars, loopVars, Alive
  <2>3. CASE UNCHANGED <<envVars, loopVars>> /\ TransactReturns
    BY <2>3 DEF TransactReturns, envVars, loopVars, Alive
  <2>4. CASE /\ UNCHANGED <<envVars, loopVars>>
             /\ LocalCommand \/ Quit \/ EndOfSource \/ Join \/ UNCHANGED vars
    BY <2>4 DEF LocalCommand, LineRead, Quit, EndOfSource, Join, vars, envVars, loopVars,
                channels, cliVars, Alive
  <2> QED
    BY <2>1, <2>2, <2>3, <2>4, MainSteps
<1> QED
  BY <1>1, <1>2, ProtocolInvariant, PTL DEF Spec

-----------------------------------------------------------------------------
(***************************************************************************)
(* The steps.                                                              *)
(***************************************************************************)

\* The monitor's handlers are the simulator's.
LEMMA SameHandlers ==
  ASSUME NEW req, NEW resp
  PROVE  /\ HandleRequest(req, resp) => Atomic!HandleRequest(req, resp)
         /\ PossibleResponses(req) = Atomic!PossibleResponses(req)
<1>1. PossibleResponses(req) = Atomic!PossibleResponses(req)
  BY DEF PossibleResponses, Atomic!PossibleResponses, ExamineData, Atomic!ExamineData,
         ReadResources, Atomic!ReadResources, Known, Atomic!Known, Ok, Atomic!Ok,
         Error, Atomic!Error
<1>2. ASSUME HandleRequest(req, resp) PROVE Atomic!HandleRequest(req, resp)
  <2>1. CASE HandleExamine(req, resp)
    BY <2>1 DEF HandleExamine, Atomic!HandleExamine, Atomic!HandleRequest, envVars,
       Atomic!envVars, ExamineData, Atomic!ExamineData, ReadResources,
       Atomic!ReadResources, Known, Atomic!Known
  <2>2. CASE HandleDeposit(req, resp)
    BY <2>2 DEF HandleDeposit, Atomic!HandleDeposit, Atomic!HandleRequest, Known,
       Atomic!Known, Ok, Atomic!Ok, Error, Atomic!Error
  <2>3. CASE HandleAttach(req, resp)
    BY <2>3 DEF HandleAttach, Atomic!HandleAttach, Atomic!HandleRequest, Ok, Atomic!Ok,
       Error, Atomic!Error
  <2>4. CASE HandleDetach(req, resp)
    BY <2>4 DEF HandleDetach, Atomic!HandleDetach, Atomic!HandleRequest, Ok, Atomic!Ok,
       Error, Atomic!Error
  <2>5. CASE HandleLoadFile(req, resp)
    BY <2>5 DEF HandleLoadFile, Atomic!HandleLoadFile, Atomic!HandleRequest, Ok,
       Atomic!Ok, Error, Atomic!Error
  <2>6. CASE HandleStep(req, resp)
    BY <2>6 DEF HandleStep, Atomic!HandleStep, Atomic!HandleRequest, Ok, Atomic!Ok
  <2>7. CASE HandleStop(req, resp)
    BY <2>7 DEF HandleStop, Atomic!HandleStop, Atomic!HandleRequest, Ok, Atomic!Ok
  <2>8. CASE HandleReset(req, resp)
    <3>1. ResetScope(req.name) = Atomic!ResetScope(req.name)
      BY DEF ResetScope, Atomic!ResetScope, Known, Atomic!Known
    <3> QED
      BY <2>8, <3>1 DEF HandleReset, Atomic!HandleReset, Atomic!HandleRequest, Reset,
         Atomic!Reset, Known, Atomic!Known, Ok, Atomic!Ok
  <2>9. CASE HandleSchedule(req, resp)
    BY <2>9 DEF HandleSchedule, Atomic!HandleSchedule, Atomic!HandleRequest,
       ScheduleDevice, Atomic!ScheduleDevice, FreeSlots, Atomic!FreeSlots, Ok, Atomic!Ok
  <2>10. CASE HandleSetDebug(req, resp)
    BY <2>10 DEF HandleSetDebug, Atomic!HandleSetDebug, Atomic!HandleRequest, Ok, Atomic!Ok
  <2>11. CASE HandleDebugDisable(req, resp)
    BY <2>11 DEF HandleDebugDisable, Atomic!HandleDebugDisable, Atomic!HandleRequest, Ok,
       Atomic!Ok
  <2> QED
    BY <1>2, <2>1, <2>2, <2>3, <2>4, <2>5, <2>6, <2>7, <2>8, <2>9, <2>10, <2>11
       DEF HandleRequest
<1> QED
  BY <1>1, <1>2

\* A step of the running program is a Program step of the monitor.
LEMMA ProgramStep ==
  ASSUME EnvTypeOK', running, simPc \in {"batch", "service"},
         simPc' \in {"receive", "batch", "service"},
         UNCHANGED <<attached, debugging, responses, mainPc, call>>
  PROVE  Atomic!Program
<1>1. UNCHANGED <<Machine, Phase, call, Range(responses)>> /\ Machine = "up"
  BY MachineCases, MachineCasesNext, Invisible
<1> QED
  BY <1>1 DEF Atomic!Program, EnvTypeOK, Known, Atomic!Known, Event, Atomic!Event, Names, Atomic!Names

\* Receive is the one step in which a request has its effect.
LEMMA TakeStep ==
  ASSUME TypeOK, RpcDiscipline, Alive, Receive, UNCHANGED cliVars
  PROVE  Atomic!Take
<1>1. requests # <<>> /\ Head(requests) \in SimRequest
  BY DEF Receive, TypeOK, ChannelsTypeOK
<1>2. PICK resp \in PossibleResponses(Head(requests)) :
        HandleRequest(Head(requests), resp) /\ responses' = Append(responses, resp)
  BY DEF Receive
<1>3. Head(requests).op # "Quit"
  BY <1>1, <1>2, HandlerAnswers DEF TypeOK
<1>4. mainPc = "waiting" /\ Head(requests) = call.req /\ responses = <<>>
  BY <1>1, <1>3 DEF RpcDiscipline, InFlight
<1>5. mainPc' = "waiting" /\ responses' = <<resp>> /\ call' = call
  BY <1>2, <1>4 DEF cliVars
<1>6. Phase = "asked" /\ Phase' = "answered"
  BY <1>4, <1>5, PhaseCases, PhaseCasesNext
<1>7. Range(responses') = {resp}
  BY <1>5, AnswerCasesNext
<1>8. Machine = "up" /\ Machine' = "up"
  BY MachineCases, MachineCasesNext DEF Receive
<1>9. resp \in Atomic!PossibleResponses(call.req) /\ Atomic!HandleRequest(call.req, resp)
  BY <1>2, <1>4, SameHandlers
<1> QED
  BY <1>5, <1>6, <1>7, <1>8, <1>9 DEF Atomic!Take

LEMMA SimThreadRefines ==
  ASSUME TypeOK, TypeOK', RpcDiscipline, BusyMeansRunning, Alive, SimThread
  PROVE  [Atomic!Next]_(Atomic!monitorVars)
<1> USE DEF SimThread
<1>0. UNCHANGED <<mainPc, call>>
  BY DEF cliVars
<1>1. CASE Benchmark
  <2>1. UNCHANGED responses
    BY <1>1 DEF Benchmark, channels, CloseSimEnd
  <2>2. UNCHANGED <<Phase, call, Range(responses)>>
    BY <1>0, <2>1, Invisible
  <2>3. Machine = "starting" /\ Machine' \in {"up", "down"}
    BY <1>1, MachineCases, MachineCasesNext DEF Benchmark
  <2>4. UNCHANGED <<running, attached, debugging, events>>
    BY <1>1 DEF Benchmark, Alive, TypeOK, EnvTypeOK
  <2>5. Atomic!Start
    BY <1>1, <2>2, <2>3, <2>4 DEF Benchmark, Atomic!Start
  <2> QED
    BY <2>5 DEF Atomic!Next
<1>2. CASE Receive
  BY <1>2, TakeStep DEF Atomic!Next
<1>3. CASE ReceiveQuit
  <2>1. mainPc \in {"joining", "exited"}
    BY <1>3, CommandsAssumption
       DEF ReceiveQuit, RpcDiscipline, InFlight, Alive, TypeOK, CliTypeOK
  <2>2. Phase = "leaving"
    BY <2>1, PhaseCases
  <2>3. UNCHANGED <<Phase, call, Range(responses)>>
    BY <1>0, <1>3, Invisible DEF ReceiveQuit, CloseSimEnd
  <2>4. Machine = "up" /\ Machine' = "down"
    BY <1>3, MachineCases, MachineCasesNext DEF ReceiveQuit
  <2>5. Atomic!Shutdown
    BY <1>3, <2>2, <2>3, <2>4 DEF ReceiveQuit, envVars, Atomic!Shutdown, Atomic!envVars
  <2> QED
    BY <2>5 DEF Atomic!Next
<1>4. CASE PollEmpty \/ Tick
  <2>1. UNCHANGED <<Phase, call, Range(responses)>>
    BY <1>0, <1>4, Invisible DEF PollEmpty, Tick, channels
  <2>2. UNCHANGED Machine
    BY <1>4, MachineCases, MachineCasesNext DEF PollEmpty, Tick
  <2> QED
    BY <1>4, <2>1, <2>2 DEF PollEmpty, Tick, envVars, Atomic!monitorVars, Atomic!envVars
<1>5. CASE Instruction \/ Halt \/ EndBatch
  <2>1. Atomic!Program
    BY <1>0, <1>5, ProgramStep
       DEF Instruction, Halt, EndBatch, channels, BusyMeansRunning, TypeOK
  <2> QED
    BY <2>1 DEF Atomic!Next
<1>6. CASE Service \/ ServiceFails
  <2>1. UNCHANGED <<attached, debugging, responses>>
    BY <1>6 DEF Service, ServiceFails, ServiceHandler, channels
  <2>2. simPc = "service" /\ simPc' \in {"receive", "service"}
    BY <1>6 DEF Service, ServiceFails
  <2>3. Atomic!Program
    BY <1>0, <2>1, <2>2, ProgramStep DEF BusyMeansRunning, TypeOK
  <2> QED
    BY <2>3 DEF Atomic!Next
<1> QED
  BY <1>1, <1>2, <1>3, <1>4, <1>5, <1>6 DEF SimStep

LEMMA MainThreadRefines ==
  ASSUME TypeOK, RpcDiscipline, Alive, UNCHANGED <<envVars, loopVars>>,
         \/ LocalCommand \/ (\E req \in Commands : Transact(req))
         \/ Quit \/ EndOfSource \/ TransactReturns \/ Join
         \/ UNCHANGED vars
  PROVE  [Atomic!Next]_(Atomic!monitorVars)
<1>0. UNCHANGED Atomic!envVars /\ UNCHANGED Machine
  BY DEF envVars, loopVars, Atomic!envVars, Machine
<1>1. CASE LocalCommand \/ Join \/ UNCHANGED vars
  <2>1. UNCHANGED responses /\ UNCHANGED call
    BY <1>1 DEF LocalCommand, LineRead, Join, channels, vars, cliVars
  <2>2. UNCHANGED Phase
    <3>1. CASE Join
      BY <3>1, PhaseCases, PhaseCasesNext DEF Join
    <3>2. CASE LocalCommand \/ UNCHANGED vars
      BY <2>1, <3>2, Invisible DEF LocalCommand, vars, cliVars
    <3> QED
      BY <1>1, <3>1, <3>2
  <2>3. UNCHANGED Range(responses)
    BY <2>1 DEF Range
  <2> QED
    BY <1>0, <2>1, <2>2, <2>3 DEF Atomic!monitorVars
<1>2. CASE \E req \in Commands : Transact(req)
  <2>1. PICK req \in Commands : Transact(req)
    BY <1>2
  <2>2. mainPc = "prompt" /\ responses = <<>> /\ responses' = <<>>
    BY <2>1 DEF Transact, LineRead, RpcDiscipline
  <2>3. Phase = "idle" /\ UNCHANGED Range(responses)
    BY <2>2, PhaseCases DEF Range
  <2>4. CASE simEnd = "open"
    <3>1. mainPc' = "waiting" /\ call' = [req |-> req, resp |-> Pending]
      BY <2>1, <2>4 DEF Transact
    <3>2. Phase' = "asked"
      BY <2>2, <3>1, PhaseCasesNext
    <3>3. Atomic!Ask(req)
      BY <1>0, <2>3, <3>1, <3>2 DEF Atomic!Ask
    <3> QED
      BY <3>3 DEF Atomic!Next
  <2>5. CASE simEnd = "closed"
    <3>1. mainPc' = "prompt" /\ call' = [req |-> req, resp |-> Disconnected]
      BY <2>1, <2>2, <2>5 DEF Transact
    <3>2. Phase' = "idle"
      BY <3>1, PhaseCasesNext
    <3>3. Machine = "down"
      BY <2>5, MachineCases DEF Alive
    <3>4. Atomic!Refuse
      BY <1>0, <2>3, <3>1, <3>2, <3>3 DEF Atomic!Refuse
    <3> QED
      BY <3>4 DEF Atomic!Next
  <2> QED
    BY <2>4, <2>5 DEF TypeOK, ChannelsTypeOK
<1>3. CASE Quit \/ EndOfSource
  <2>1. mainPc = "prompt" /\ UNCHANGED responses /\ UNCHANGED call
    BY <1>3 DEF Quit, EndOfSource, channels
  <2>2. Phase = "idle" /\ UNCHANGED Range(responses)
    BY <2>1, PhaseCases DEF Range
  <2>3. CASE mainPc' = "prompt"
    BY <1>0, <2>1, <2>2, <2>3, PhaseCasesNext DEF Atomic!monitorVars
  <2>4. CASE mainPc' = "joining"
    <3>1. Phase' = "leaving"
      BY <2>4, PhaseCasesNext
    <3>2. Atomic!Leave
      BY <1>0, <2>1, <2>2, <3>1 DEF Atomic!Leave
    <3> QED
      BY <3>2 DEF Atomic!Next
  <2> QED
    BY <1>3, <2>3, <2>4 DEF Quit, EndOfSource
<1>4. CASE TransactReturns
  <2>1. mainPc = "waiting" /\ mainPc' = "prompt"
    BY <1>4 DEF TransactReturns
  <2>2. Phase' = "idle"
    BY <2>1, PhaseCasesNext
  <2>3. CASE responses # <<>>
    <3>1. PICK r \in SimResponse : responses = <<r>>
      BY <2>1, <2>3 DEF RpcDiscipline, InFlight
    <3>2. responses' = <<>> /\ call' = [call EXCEPT !.resp = r]
      BY <1>4, <3>1 DEF TransactReturns
    <3>3. Range(responses) = {r} /\ Range(responses') = {}
      BY <3>1, <3>2, AnswerCases, AnswerCasesNext
    <3>4. Phase = "answered"
      BY <2>1, <2>3, PhaseCases
    <3>5. Atomic!Return
      BY <1>0, <2>2, <3>2, <3>3, <3>4 DEF Atomic!Return
    <3> QED
      BY <3>5 DEF Atomic!Next
  <2>4. CASE responses = <<>>
    <3>1. /\ simEnd = "closed"
          /\ responses' = responses
          /\ call' = [call EXCEPT !.resp = Disconnected]
      BY <1>4, <2>4 DEF TransactReturns
    <3>2. Machine = "down" /\ Phase = "asked" /\ UNCHANGED Range(responses)
      BY <2>1, <2>4, <3>1, MachineCases, PhaseCases DEF Alive, Range
    <3>3. Atomic!Refuse
      BY <1>0, <2>2, <3>1, <3>2 DEF Atomic!Refuse
    <3> QED
      BY <3>3 DEF Atomic!Next
  <2> QED
    BY <2>3, <2>4
<1> QED
  BY <1>1, <1>2, <1>3, <1>4

-----------------------------------------------------------------------------
\* Threads, channels and the batch loop are invisible to the CLI: each request
\* of a command takes effect exactly once, in one step between instructions,
\* and the command gets the answer of that step or learns the machine is gone.
THEOREM Refinement == Spec => ImplementsMonitor
<1>1. Init => Atomic!Init
  <2> SUFFICES ASSUME Init PROVE Atomic!Init
    OBVIOUS
  <2>1. Atomic!EnvInit
    BY DEF Init, EnvInit, Atomic!EnvInit, Known, Atomic!Known
  <2>2. Machine = "starting" /\ Phase = "idle"
    BY MachineCases, PhaseCases DEF Init, LoopInit, CliInit
  <2>3. Range(responses) = {}
    BY AnswerCases DEF Init, ChannelsInit
  <2> QED
    BY <2>1, <2>2, <2>3 DEF Init, CliInit, Atomic!Init
<1>2. TypeOK /\ TypeOK' /\ RpcDiscipline /\ BusyMeansRunning /\ Alive /\ [Next]_vars
        => [Atomic!Next]_(Atomic!monitorVars)
  BY MainSteps, SimThreadRefines, MainThreadRefines
<1> QED
  BY <1>1, <1>2, ProtocolInvariant, BusyInvariant, AliveInvariant, PTL
     DEF Spec, ImplementsMonitor, Atomic!Spec
=============================================================================
