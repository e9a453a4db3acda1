---------------------------- MODULE MCInterrupts ----------------------------
(* Interrupts, as the processor takes them and as the terminal asks for them.  *)
(* The two share no variable; a behaviour is of one of them.                   *)
EXTENDS Pdp8Cpu, Kl8e

VARIABLE part

InterruptsInit == part \in {"processor", "terminal"} /\ CpuInit /\ TermInit
InterruptsNext ==
  \/ part = "processor" /\ CpuNext /\ UNCHANGED <<part, termVars>>
  \/ part = "terminal" /\ TermNext /\ UNCHANGED <<part, cpuVars>>
InterruptsSpec == InterruptsInit /\ [][InterruptsNext]_<<part, cpuVars, termVars>>
=============================================================================
