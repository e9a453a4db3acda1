-------------------------------- MODULE Kl8e --------------------------------
(***************************************************************************)
(* The KL8E terminal of the PDP-8 (pdp-8, kl8e.rs): the keyboard TTI and   *)
(* the printer TTO, the console queues they read and write (env/           *)
(* console.rs), and the event queue that has them serviced.                *)
(*                                                                         *)
(* Nothing in this repository types yet.  The typist here keeps to what    *)
(* push_input asks of its caller: it schedules TTI when the queue was      *)
(* empty.  A request of the CLI can schedule either device at any time.    *)
(* The machine runs instructions and services devices only while it is     *)
(* running (env/simloop.rs).                                               *)
(***************************************************************************)
EXTENDS InterruptLine, Sequences, Naturals

CONSTANTS
  Characters,   \* what can be typed or printed
  Nul,          \* a buffer of 0
  MaxTyped,     \* bound: characters typed, and given to the printer, in a behaviour
  MaxDue        \* bound: events of one device in the queue

ASSUME TerminalAssumption ==
  /\ Devices = {"TTI", "TTO"}
  /\ Nul \notin Characters
  /\ MaxTyped \in Nat
  /\ MaxDue \in Nat \ {0}

Register == [flag : BOOLEAN, buffer : Characters \cup {Nul}]

VARIABLES
  tti, tto,   \* the two devices
  input,      \* ConsoleQueues::input
  output,     \* ConsoleQueues::output
  due,        \* how many events each device has in the event queue
  running,    \* SimEnvironment::running
  typed,      \* history: everything typed
  taken,      \* history: everything TTI has read
  given,      \* history: what was deposited in TTO and not taken back
  drained     \* history: everything the CLI has drained

keyboard == <<tti, input, typed, taken>>
printer == <<tto, output, given, drained>>
terminal == <<keyboard, printer, due>>
termVars == <<line, terminal, running>>

TermTypeOK ==
  /\ LineTypeOK
  /\ tti \in Register /\ tto \in Register
  /\ input \in Seq(Characters) /\ output \in Seq(Characters)
  /\ due \in [Devices -> 0 .. MaxDue]
  /\ running \in BOOLEAN
  /\ typed \in Seq(Characters) /\ taken \in Seq(Characters)
  /\ given \in Seq(Characters) /\ drained \in Seq(Characters)

NewTti == [flag |-> FALSE, buffer |-> Nul]
NewTto == [flag |-> TRUE, buffer |-> Nul]

TermInit ==
  /\ LineInit
  /\ tti = NewTti /\ tto = NewTto
  /\ input = <<>> /\ output = <<>>
  /\ due = [device \in Devices |-> 0]
  /\ running = FALSE
  /\ typed = <<>> /\ taken = <<>> /\ given = <<>> /\ drained = <<>>

-----------------------------------------------------------------------------
\* Mutant: the new character goes before those that wait.
Queued_First(ch) == <<ch>> \o input

Queued(ch) == Append(input, ch)

Scheduled(device) ==
  /\ due[device] < MaxDue
  /\ due' = [due EXCEPT ![device] = @ + 1]

\* get_ready_devices has popped an event of the device.
Popped(device) ==
  /\ due[device] > 0
  /\ due' = [due EXCEPT ![device] = @ - 1]

\* push_input, and the scheduling it asks for.
Type(ch) ==
  /\ Len(typed) < MaxTyped
  /\ input' = Queued(ch)
  /\ typed' = Append(typed, ch)
  /\ IF input = <<>> THEN Scheduled("TTI") ELSE UNCHANGED due
  /\ UNCHANGED <<line, running, printer, tti, taken>>

\* drain_output
Drain ==
  /\ output' = <<>>
  /\ drained' = drained \o output
  /\ UNCHANGED <<line, running, keyboard, due, tto, given>>

\* SimRequest::ScheduleDevice
Schedule(device) == Scheduled(device) /\ UNCHANGED <<line, running, keyboard, printer>>

\* The event is gone before the device looks whether it can do anything.
ServiceTti ==
  /\ running
  /\ Popped("TTI")
  /\ \/ /\ ion /\ ~tti.flag /\ input # <<>>
        /\ tti' = [flag |-> TRUE, buffer |-> Head(input)]
        /\ input' = Tail(input)
        /\ taken' = Append(taken, Head(input))
        /\ Raise("TTI")
     \/ /\ ~ion \/ tti.flag \/ input = <<>>
        /\ UNCHANGED <<line, tti, input, taken>>
  /\ UNCHANGED <<running, printer, typed>>

\* Mutant: the printer keeps what it has printed, with its flag down.
Printed_Forgets == tto

Printed == [flag |-> TRUE, buffer |-> Nul]

ServiceTto ==
  /\ running
  /\ Popped("TTO")
  /\ \/ /\ ~tto.flag /\ tto.buffer # Nul
        /\ output' = Append(output, tto.buffer)
        /\ tto' = Printed
        /\ Raise("TTO")
     \/ /\ tto.flag \/ tto.buffer = Nul
        /\ UNCHANGED <<line, tto, output>>
  /\ UNCHANGED <<running, keyboard, given, drained>>

\* What is in the printer's buffer, and what was given before it.
Waiting(reg) == IF reg.buffer = Nul THEN <<>> ELSE <<reg.buffer>>
GivenBefore == SubSeq(given, 1, Len(given) - Len(Waiting(tto)))

\* RESET of one of the two: its request to the processor stays.
ResetTti ==
  tti' = NewTti /\ UNCHANGED <<line, running, printer, due, input, typed, taken>>
ResetTto ==
  /\ tto' = NewTto /\ given' = GivenBefore
  /\ UNCHANGED <<line, running, keyboard, due, output, drained>>

\* DEPOSIT in FLAG or BUF: the only way to give TTO something to print, since
\* its IOTs do nothing.
DepositTti ==
  /\ \/ \E f \in BOOLEAN : tti' = [tti EXCEPT !.flag = f]
     \/ \E b \in Characters \cup {Nul} : tti' = [tti EXCEPT !.buffer = b]
  /\ UNCHANGED <<line, running, printer, due, input, typed, taken>>
DepositTto ==
  /\ \/ \E f \in BOOLEAN : tto' = [tto EXCEPT !.flag = f] /\ UNCHANGED given
     \/ \E b \in Characters \cup {Nul} :
          /\ Len(GivenBefore) < MaxTyped
          /\ tto' = [tto EXCEPT !.buffer = b]
          /\ given' = GivenBefore \o Waiting(tto')
  /\ UNCHANGED <<line, running, keyboard, due, output, drained>>

\* STEP
Start == ~running /\ running' = TRUE /\ UNCHANGED <<line, terminal>>

\* STOP, or a program that halts.
Stop == running /\ running' = FALSE /\ UNCHANGED <<line, terminal>>

\* Another device fails to be serviced: what was popped behind it is dropped.
ServiceFails ==
  /\ running /\ running' = FALSE
  /\ due' \in [Devices -> 0 .. MaxDue]
  /\ \A device \in Devices : due'[device] <= due[device]
  /\ UNCHANGED <<line, keyboard, printer>>

Service == ServiceTti \/ ServiceTto

TermNext ==
  \/ Service
  \/ (running /\ Program /\ UNCHANGED <<terminal, running>>)
  \/ \E ch \in Characters : Type(ch)
  \/ \E device \in Devices : Schedule(device)
  \/ Drain \/ ResetTti \/ ResetTto \/ DepositTti \/ DepositTto
  \/ Start \/ Stop \/ ServiceFails

TermSpec == TermInit /\ [][TermNext]_termVars

\* A machine that goes on running services what is due.  Nobody is obliged to
\* type, to start the machine or to switch interrupts on.
TermFairSpec == TermSpec /\ WF_termVars(ServiceTti) /\ WF_termVars(ServiceTto)

-----------------------------------------------------------------------------
\* What TTI has read and what waits is what was typed, in order: the console's
\* queue loses and repeats nothing, whatever is reset, stopped or switched off
\* meanwhile.
InputInOrder == taken \o input = typed

\* What the CLI has drained, what it is still to drain and what waits in the
\* printer is what the printer was given and not relieved of, in order: however
\* often TTO is scheduled, whatever is deposited in its flag and whichever of
\* its events are dropped, it prints a character once or not at all.
OutputInOrder == drained \o output \o Waiting(tto) = given

\* VIOLATED.  "the simulator polls at batch boundaries" (console.rs:11): while
\* the machine runs, with interrupts on and the keyboard free, a typed
\* character does not wait for ever.
InputIsPolled == []<>(~running \/ ~ion \/ tti.flag \/ input = <<>>)
=============================================================================
