------------------------------- MODULE Channels -------------------------------
(***************************************************************************)
(* The two mpsc channels between the CLI and the simulator thread, created *)
(* by REPLState::sim_connect.  The simulator thread owns the receiver of   *)
(* `requests' and the sender of `responses', and drops both when it ends;  *)
(* the CLI's ends live until the process does.                             *)
(***************************************************************************)
EXTENDS SimMessages

VARIABLES
  requests,   \* CLI to simulator, in order
  responses,  \* simulator to CLI, in order
  simEnd      \* "open" while the simulator thread holds its ends

channels == <<requests, responses, simEnd>>

ChannelsTypeOK ==
  /\ requests \in Seq(SimRequest)
  /\ responses \in Seq(SimResponse)
  /\ simEnd \in {"open", "closed"}

ChannelsInit ==
  /\ requests = <<>>
  /\ responses = <<>>
  /\ simEnd = "open"

\* A dropped receiver discards what was queued for it; what the other end has
\* sent before it was dropped can still be received.
CloseSimEnd ==
  /\ simEnd' = "closed"
  /\ requests' = <<>>
  /\ UNCHANGED responses
=============================================================================
