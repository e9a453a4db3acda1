---------------------------- MODULE InterruptLine ----------------------------
(***************************************************************************)
(* What the PDP-8's devices see of its processor: the interrupt-enable     *)
(* flag, and their own requests, which stay until the program clears all.  *)
(* Pdp8Cpu implements it; the terminal (Kl8e) is built on it.              *)
(***************************************************************************)
EXTENDS FiniteSets

CONSTANT Devices

VARIABLES
  ion,        \* ION in int_req
  requests    \* the devices' flags in int_req

line == <<ion, requests>>

LineTypeOK == ion \in BOOLEAN /\ requests \subseteq Devices

LineInit == ion = FALSE /\ requests = {}

Raise(device) == requests' = requests \cup {device} /\ UNCHANGED ion

\* ION, IOF, an interrupt: the requests stay, whether they are served or not.
Switch == ion' \in BOOLEAN /\ UNCHANGED requests

\* CAF withdraws every request and turns interrupts off.
Clear == ion' = FALSE /\ requests' = {}

Program == Switch \/ Clear

LineNext == Program \/ (\E device \in Devices : Raise(device))

LineSpec == LineInit /\ [][LineNext]_line
=============================================================================
