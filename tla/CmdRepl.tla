------------------------------- MODULE CmdRepl -------------------------------
(***************************************************************************)
(* The main thread (sim-core, cli/cmd_repl.rs, cli/cmd_reader.rs,          *)
(* cli/repl_state.rs, and a simulator's main): the command loop over a     *)
(* stack of input sources, the synchronous transact of a command, and the  *)
(* join of the simulator thread at the end.                                *)
(*                                                                         *)
(* What a line says is chosen when it is read; a source is the number of   *)
(* lines it still holds.  cli_status is Operating at "prompt" and          *)
(* "waiting", and Completed at "joining" and "exited"; Quitting lives only *)
(* inside one turn of the loop.                                            *)
(***************************************************************************)
EXTENDS Channels, SequencesExt

CONSTANTS
  Commands,      \* the requests the command table can send
  Scripts,       \* initial input stacks, bottom source first
  NoCall,        \* before the first transact
  Pending,       \* the answer of a transact that is still blocked
  Disconnected   \* the answer when the simulator's end is closed

ASSUME CommandsAssumption ==
  /\ Commands \subseteq {r \in SimRequest : r.op # "Quit"}
  /\ Scripts \subseteq Seq(Nat) \ {<<>>}
  /\ {Pending, Disconnected} \cap SimResponse = {}
  /\ Pending # Disconnected
  /\ NoCall \notin [req : SimRequest, resp : SimResponse \cup {Pending, Disconnected}]

VARIABLES
  mainPc,    \* where the main thread is
  inputs,    \* CmdReader::sources: lines left in each, top source last
  cliDebug,  \* REPLState::debug_state
  call       \* the last transact: what was asked and what came back

cliVars == <<mainPc, inputs, cliDebug, call>>

Call == [req : SimRequest, resp : SimResponse \cup {Pending, Disconnected}]

CliTypeOK ==
  /\ mainPc \in {"prompt", "waiting", "joining", "exited"}
  /\ inputs \in Seq(Nat)
  /\ cliDebug \in DebugStates \cup {NoDebug}
  /\ call \in Call \cup {NoCall}

CliInit ==
  /\ mainPc = "prompt"
  /\ inputs \in Scripts
  /\ cliDebug = NoDebug
  /\ call = NoCall

\* read_logical_line returns the next line of the top source.
LineRead ==
  /\ mainPc = "prompt"
  /\ inputs # <<>>
  /\ Last(inputs) > 0
  /\ inputs' = [inputs EXCEPT ![Len(inputs)] = @ - 1]

\* A blank line, a comment, a shell command, a command that fails to parse, or
\* one the CLI answers by itself.
LocalCommand ==
  /\ LineRead
  /\ UNCHANGED <<channels, mainPc, cliDebug, call>>

\* SET DEBUG and SET NODEBUG change the CLI's own state before they transact.
DebugAfter(req) ==
  CASE req.op = "SetDebugState" -> req.state
    [] req.op = "DebugDisable"  -> NoDebug
    [] OTHER                    -> cliDebug

\* transact_apply: send, then block in recv; a closed channel fails the send.
Transact(req) ==
  /\ LineRead
  /\ cliDebug' = DebugAfter(req)
  /\ \/ /\ simEnd = "open"
        /\ requests' = Append(requests, req)
        /\ mainPc' = "waiting"
        /\ call' = [req |-> req, resp |-> Pending]
     \/ /\ simEnd = "closed"
        /\ call' = [req |-> req, resp |-> Disconnected]
        /\ UNCHANGED <<requests, mainPc>>
  /\ UNCHANGED <<responses, simEnd>>

\* recv returns a response, or fails once the sender is gone and the queue empty.
TransactReturns ==
  /\ mainPc = "waiting"
  /\ \/ /\ responses # <<>>
        /\ call' = [call EXCEPT !.resp = Head(responses)]
        /\ responses' = Tail(responses)
     \/ /\ responses = <<>>
        /\ simEnd = "closed"
        /\ call' = [call EXCEPT !.resp = Disconnected]
        /\ UNCHANGED responses
  /\ mainPc' = "prompt"
  /\ UNCHANGED <<requests, simEnd, inputs, cliDebug>>

\* QUIT empties the stack, completes the loop and sends Quit without waiting.
Quit ==
  /\ mainPc = "prompt"
  /\ inputs # <<>>
  /\ Last(inputs) > 0
  /\ inputs' = <<>>
  /\ requests' = IF simEnd = "open" THEN Append(requests, [op |-> "Quit"]) ELSE requests
  /\ mainPc' = "joining"
  /\ UNCHANGED <<responses, simEnd, cliDebug, call>>

\* The top source is at its end: read_logical_line pops it and reports the end
\* of input, and repl_loop pops once more; an empty stack completes the loop.
PoppedTwice(stack) ==
  IF Len(stack) > 1 THEN SubSeq(stack, 1, Len(stack) - 2) ELSE <<>>

EndOfSource ==
  /\ mainPc = "prompt"
  /\ inputs # <<>>
  /\ Last(inputs) = 0
  /\ inputs' = PoppedTwice(inputs)
  /\ mainPc' = IF inputs' = <<>> THEN "joining" ELSE "prompt"
  /\ UNCHANGED <<channels, cliDebug, call>>

\* sim_thread.join() in main; the CLI's channel ends are still alive here.
Join ==
  /\ mainPc = "joining"
  /\ simEnd = "closed"
  /\ mainPc' = "exited"
  /\ UNCHANGED <<channels, inputs, cliDebug, call>>
=============================================================================
