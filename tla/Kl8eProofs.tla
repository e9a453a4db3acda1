----------------------------- MODULE Kl8eProofs -----------------------------
(***************************************************************************)
(* What is proved of the terminal (Kl8e), for any characters and bounds.   *)
(* The three properties are inductive together: what is in order is a      *)
(* fact about queues, and which queues there are is what the type says.    *)
(***************************************************************************)
EXTENDS Kl8e, SequenceTheorems, TLAPS

TermInvariant == TermTypeOK /\ InputInOrder /\ OutputInOrder

\* What joins the end of the queue joins the end of everything typed.
LEMMA AppendToBoth ==
  ASSUME NEW S, NEW s \in Seq(S), NEW t \in Seq(S), NEW ch \in S
  PROVE  s \o Append(t, ch) = Append(s \o t, ch)
<1>1. s \o t \in Seq(S) /\ Append(t, ch) = t \o <<ch>>
  BY ConcatProperties, AppendIsConcat
<1>2. Append(s \o t, ch) = (s \o t) \o <<ch>>
  BY <1>1, AppendIsConcat
<1>3. <<ch>> \in Seq(S)
  OBVIOUS
<1> QED
  BY <1>1, <1>2, <1>3, ConcatAssociative

\* What leaves the front of the queue joins the end of what was read.
LEMMA HeadMoves ==
  ASSUME NEW S, NEW s \in Seq(S), NEW t \in Seq(S), t # <<>>
  PROVE  /\ Head(t) \in S /\ Tail(t) \in Seq(S)
         /\ Append(s, Head(t)) \in Seq(S)
         /\ Append(s, Head(t)) \o Tail(t) = s \o t
<1>1. Head(t) \in S /\ Tail(t) \in Seq(S) /\ t = <<Head(t)>> \o Tail(t)
  BY HeadTailProperties, ConcatProperties
<1>2. Append(s, Head(t)) = s \o <<Head(t)>> /\ <<Head(t)>> \in Seq(S)
  BY <1>1, AppendIsConcat
<1>3. Append(s, Head(t)) \in Seq(S)
  BY <1>1, AppendProperties
<1>4. (s \o <<Head(t)>>) \o Tail(t) = s \o (<<Head(t)>> \o Tail(t))
  BY <1>1, <1>2, ConcatAssociative
<1> QED
  BY <1>1, <1>2, <1>3, <1>4

LEMMA PrefixOfConcat ==
  ASSUME NEW S, NEW s \in Seq(S), NEW t \in Seq(S)
  PROVE  SubSeq(s \o t, 1, Len(s)) = s
<1>1. Len(s) \in Nat /\ (s = <<>> <=> Len(s) = 0)
  OBVIOUS
<1>2. CASE s = <<>>
  BY <1>1, <1>2, SubSeqEmpty
<1>3. CASE s # <<>>
  <2>1. 1 \in 1 .. Len(s) /\ Len(s) \in 1 .. Len(s)
    BY <1>1, <1>3
  <2> QED
    BY <2>1, SubSeqOfConcat1, SubSeqFull
<1> QED
  BY <1>2, <1>3

LEMMA WaitingFacts ==
  ASSUME NEW reg \in Register
  PROVE  /\ Waiting(reg) \in Seq(Characters)
         /\ reg.buffer = Nul => Waiting(reg) = <<>>
         /\ reg.buffer # Nul => reg.buffer \in Characters /\ Waiting(reg) = <<reg.buffer>>
BY DEF Register, Waiting

\* Without what is in its buffer, the printer was given what it has printed.
LEMMA GivenBeforeIsPrinted ==
  ASSUME TermInvariant
  PROVE  /\ drained \o output \in Seq(Characters)
         /\ GivenBefore = drained \o output
<1> DEFINE printed == drained \o output
           wait == Waiting(tto)
<1>1. printed \in Seq(Characters) /\ wait \in Seq(Characters)
  BY ConcatProperties, WaitingFacts DEF TermInvariant, TermTypeOK
<1>2. given = printed \o wait
  BY DEF TermInvariant, OutputInOrder
<1> HIDE DEF printed, wait
<1>3. Len(given) = Len(printed) + Len(wait)
  BY <1>1, <1>2, ConcatProperties
<1>4. Len(given) - Len(wait) = Len(printed)
  BY <1>1, <1>3
<1>5. SubSeq(given, 1, Len(given) - Len(wait)) = printed
  BY <1>1, <1>2, <1>4, PrefixOfConcat
<1> QED
  BY <1>1, <1>5 DEF GivenBefore, printed, wait

\* A step that leaves the printer alone, or changes its flag only.
LEMMA PrinterKept ==
  ASSUME OutputInOrder, UNCHANGED <<output, given, drained>>, tto'.buffer = tto.buffer
  PROVE  OutputInOrder'
BY DEF OutputInOrder, Waiting

LEMMA DueFacts ==
  ASSUME due \in [Devices -> 0 .. MaxDue], NEW device \in Devices,
         Scheduled(device) \/ Popped(device)
  PROVE  due' \in [Devices -> 0 .. MaxDue]
<1>1. MaxDue \in Nat /\ due[device] \in 0 .. MaxDue
  BY TerminalAssumption
<1>2. due[device] < MaxDue => due[device] + 1 \in 0 .. MaxDue
  BY <1>1
<1>3. due[device] > 0 => due[device] - 1 \in 0 .. MaxDue
  BY <1>1
<1> QED
  BY <1>2, <1>3 DEF Scheduled, Popped

LEMMA TermInitHolds == TermInit => TermInvariant
<1> SUFFICES ASSUME TermInit PROVE TermInvariant
  OBVIOUS
<1>1. due \in [Devices -> 0 .. MaxDue]
  BY TerminalAssumption DEF TermInit
<1>2. NewTti \in Register /\ NewTto \in Register
  BY DEF NewTti, NewTto, Register
<1>3. TermTypeOK
  <2>1. LineTypeOK
    BY DEF TermInit, LineInit, LineTypeOK
  <2>2. <<>> \in Seq(Characters)
    OBVIOUS
  <2> QED
    BY <1>1, <1>2, <2>1, <2>2 DEF TermInit, TermTypeOK
<1>4. <<>> \o <<>> = <<>>
  OBVIOUS
<1>5. InputInOrder
  BY <1>4 DEF TermInit, InputInOrder
<1>6. OutputInOrder
  BY <1>4 DEF TermInit, OutputInOrder, NewTto, Waiting
<1> QED
  BY <1>3, <1>5, <1>6 DEF TermInvariant

LEMMA TypeKeeps ==
  ASSUME TermInvariant, NEW ch \in Characters, Type(ch)
  PROVE  TermInvariant'
<1>1. due' \in [Devices -> 0 .. MaxDue]
  <2>1. CASE input = <<>>
    BY <2>1, DueFacts, TerminalAssumption DEF TermInvariant, TermTypeOK, Type
  <2>2. CASE input # <<>>
    BY <2>2 DEF TermInvariant, TermTypeOK, Type
  <2> QED
    BY <2>1, <2>2
<1>2. input' = Append(input, ch) /\ typed' = Append(typed, ch)
  BY DEF Type, Queued
<1>3. input' \in Seq(Characters) /\ typed' \in Seq(Characters)
  BY <1>2, AppendProperties DEF TermInvariant, TermTypeOK
<1>4. TermTypeOK'
  BY <1>1, <1>3 DEF TermInvariant, TermTypeOK, LineTypeOK, line, printer, Type
<1>5. InputInOrder'
  BY <1>2, AppendToBoth DEF TermInvariant, TermTypeOK, InputInOrder, Type
<1>6. OutputInOrder'
  BY PrinterKept DEF TermInvariant, Type, printer
<1> QED
  BY <1>4, <1>5, <1>6 DEF TermInvariant

LEMMA ServiceTtiKeeps ==
  ASSUME TermInvariant, ServiceTti
  PROVE  TermInvariant'
<1>1. due' \in [Devices -> 0 .. MaxDue]
  BY DueFacts, TerminalAssumption DEF TermInvariant, TermTypeOK, ServiceTti
<1>2. OutputInOrder'
  BY PrinterKept DEF TermInvariant, ServiceTti, printer
<1>3. CASE /\ ion /\ ~tti.flag /\ input # <<>>
           /\ tti' = [flag |-> TRUE, buffer |-> Head(input)]
           /\ input' = Tail(input)
           /\ taken' = Append(taken, Head(input))
           /\ Raise("TTI")
  <2>1. /\ Head(input) \in Characters /\ Tail(input) \in Seq(Characters)
        /\ Append(taken, Head(input)) \in Seq(Characters)
        /\ Append(taken, Head(input)) \o Tail(input) = taken \o input
    BY <1>3, HeadMoves DEF TermInvariant, TermTypeOK
  <2>2. tti' \in Register
    BY <1>3, <2>1 DEF Register
  <2>3. LineTypeOK'
    BY <1>3, TerminalAssumption DEF TermInvariant, TermTypeOK, LineTypeOK, Raise
  <2>4. TermTypeOK'
    BY <1>1, <1>3, <2>1, <2>2, <2>3 DEF TermInvariant, TermTypeOK, ServiceTti, printer
  <2>5. InputInOrder'
    BY <1>3, <2>1 DEF TermInvariant, InputInOrder, ServiceTti
  <2> QED
    BY <1>2, <2>4, <2>5 DEF TermInvariant
<1>4. CASE UNCHANGED <<line, tti, input, taken>>
  BY <1>1, <1>2, <1>4
  DEF TermInvariant, TermTypeOK, LineTypeOK, line, InputInOrder, ServiceTti, printer
<1> QED
  BY <1>3, <1>4 DEF ServiceTti

LEMMA ServiceTtoKeeps ==
  ASSUME TermInvariant, ServiceTto
  PROVE  TermInvariant'
<1>1. due' \in [Devices -> 0 .. MaxDue]
  BY DueFacts, TerminalAssumption DEF TermInvariant, TermTypeOK, ServiceTto
<1>2. InputInOrder'
  BY DEF TermInvariant, InputInOrder, ServiceTto, keyboard
<1>3. CASE /\ ~tto.flag /\ tto.buffer # Nul
           /\ output' = Append(output, tto.buffer)
           /\ tto' = Printed
           /\ Raise("TTO")
  <2>1. tto.buffer \in Characters /\ Waiting(tto) = <<tto.buffer>>
    BY <1>3, WaitingFacts DEF TermInvariant, TermTypeOK
  <2>2. output' \in Seq(Characters)
    BY <1>3, <2>1, AppendProperties DEF TermInvariant, TermTypeOK
  <2>3. tto' \in Register /\ Waiting(tto') = <<>>
    BY <1>3 DEF Printed, Register, Waiting
  <2>4. LineTypeOK'
    BY <1>3, TerminalAssumption DEF TermInvariant, TermTypeOK, LineTypeOK, Raise
  <2>5. TermTypeOK'
    BY <1>1, <2>2, <2>3, <2>4 DEF TermInvariant, TermTypeOK, ServiceTto, keyboard
  <2>6. OutputInOrder'
    <3>1. drained \in Seq(Characters) /\ output \in Seq(Characters)
      BY DEF TermInvariant, TermTypeOK
    <3>2. drained \o output' = (drained \o output) \o <<tto.buffer>>
      BY <1>3, <2>1, <3>1, AppendToBoth, ConcatProperties, AppendIsConcat
    <3>3. (drained \o output) \o <<tto.buffer>> = given
      BY <2>1 DEF TermInvariant, OutputInOrder
    <3>4. given \in Seq(Characters) /\ given' = given /\ drained' = drained
      BY DEF TermInvariant, TermTypeOK, ServiceTto
    <3> QED
      BY <2>3, <3>2, <3>3, <3>4, ConcatEmptySeq DEF OutputInOrder
  <2> QED
    BY <1>2, <2>5, <2>6 DEF TermInvariant
<1>4. CASE UNCHANGED <<line, tto, output>>
  <2>1. OutputInOrder'
    BY <1>4, PrinterKept DEF TermInvariant, ServiceTto
  <2> QED
    BY <1>1, <1>2, <1>4, <2>1
    DEF TermInvariant, TermTypeOK, LineTypeOK, line, ServiceTto, keyboard
<1> QED
  BY <1>3, <1>4 DEF ServiceTto

\* What is drained leaves the end of one queue for the end of the other.
LEMMA DrainKeeps ==
  ASSUME TermInvariant, Drain
  PROVE  TermInvariant'
<1>1. drained \o output \in Seq(Characters) /\ <<>> \in Seq(Characters)
  BY GivenBeforeIsPrinted
<1>2. TermTypeOK' /\ InputInOrder'
  BY <1>1 DEF TermInvariant, TermTypeOK, LineTypeOK, line, InputInOrder, Drain, keyboard
<1>3. drained' \o output' = drained \o output
  BY <1>1, ConcatEmptySeq DEF Drain
<1>4. OutputInOrder'
  BY <1>3 DEF TermInvariant, OutputInOrder, Drain
<1> QED
  BY <1>2, <1>4 DEF TermInvariant

LEMMA RegisterFacts ==
  /\ NewTti \in Register /\ NewTto \in Register
  /\ \A reg \in Register, f \in BOOLEAN, b \in Characters \cup {Nul} :
       /\ [reg EXCEPT !.flag = f] \in Register
       /\ [reg EXCEPT !.buffer = b] \in Register
BY DEF Register, NewTti, NewTto

\* RESET and DEPOSIT change one of the two devices and no queue.  A character
\* taken out of the printer's buffer unprinted is no longer given.
LEMMA KeyboardKeeps ==
  ASSUME TermInvariant, ResetTti \/ DepositTti
  PROVE  TermInvariant'
<1>1. OutputInOrder'
  BY PrinterKept DEF TermInvariant, ResetTti, DepositTti, printer
<1>2. tti' \in Register
  BY RegisterFacts DEF TermInvariant, TermTypeOK, ResetTti, DepositTti
<1> QED
  BY <1>1, <1>2 DEF TermInvariant, TermTypeOK, LineTypeOK, line, InputInOrder, ResetTti,
     DepositTti, printer

LEMMA PrinterKeeps ==
  ASSUME TermInvariant, ResetTto \/ DepositTto
  PROVE  TermInvariant'
<1>1. tto' \in Register
  BY RegisterFacts DEF TermInvariant, TermTypeOK, ResetTto, DepositTto
<1>2. /\ GivenBefore \in Seq(Characters) /\ GivenBefore = drained \o output
      /\ Waiting(tto') \in Seq(Characters)
  BY <1>1, GivenBeforeIsPrinted, WaitingFacts
<1>3. output' = output /\ drained' = drained
  BY DEF ResetTto, DepositTto
<1>4. ASSUME given' = GivenBefore \o Waiting(tto')
      PROVE  given' \in Seq(Characters) /\ OutputInOrder'
  <2>1. given' \in Seq(Characters)
    BY <1>2, <1>4, ConcatProperties
  <2> QED
    BY <1>2, <1>3, <1>4, <2>1 DEF OutputInOrder
<1>5. given' \in Seq(Characters) /\ OutputInOrder'
  <2>1. CASE ResetTto
    <3>1. Waiting(tto') = <<>>
      BY <2>1 DEF ResetTto, NewTto, Waiting
    <3>2. given' = GivenBefore \o Waiting(tto')
      BY <1>2, <2>1, <3>1, ConcatEmptySeq DEF ResetTto
    <3> QED
      BY <1>4, <3>2
  <2>2. CASE \E f \in BOOLEAN : tto' = [tto EXCEPT !.flag = f] /\ UNCHANGED given
    <3>1. tto'.buffer = tto.buffer
      BY <2>2 DEF TermInvariant, TermTypeOK, Register
    <3> QED
      BY <1>3, <2>2, <3>1, PrinterKept DEF TermInvariant, TermTypeOK
  <2>3. CASE given' = GivenBefore \o Waiting(tto')
    BY <1>4, <2>3
  <2> QED
    BY <2>1, <2>2, <2>3 DEF DepositTto
<1>6. InputInOrder'
  BY DEF TermInvariant, InputInOrder, ResetTto, DepositTto, keyboard
<1>7. TermTypeOK'
  BY <1>1, <1>5 DEF TermInvariant, TermTypeOK, LineTypeOK, line, ResetTto, DepositTto, keyboard
<1> QED
  BY <1>5, <1>6, <1>7 DEF TermInvariant

LEMMA TermStepKeeps == TermInvariant /\ [TermNext]_termVars => TermInvariant'
<1> SUFFICES ASSUME TermInvariant, [TermNext]_termVars PROVE TermInvariant'
  OBVIOUS
<1>1. ASSUME LineTypeOK', due' \in [Devices -> 0 .. MaxDue], running' \in BOOLEAN,
             UNCHANGED <<keyboard, printer>>
      PROVE  TermInvariant'
  <2>1. OutputInOrder'
    BY <1>1, PrinterKept DEF TermInvariant, printer
  <2> QED
    BY <1>1, <2>1 DEF TermInvariant, TermTypeOK, InputInOrder, keyboard, printer
<1>2. ASSUME running /\ Program /\ UNCHANGED <<terminal, running>>
      PROVE  TermInvariant'
  <2>1. LineTypeOK'
    BY <1>2 DEF TermInvariant, TermTypeOK, LineTypeOK, Program, Switch, Clear
  <2> QED
    BY <1>1, <1>2, <2>1 DEF TermInvariant, TermTypeOK, terminal
<1>3. ASSUME NEW device \in Devices, Schedule(device)
      PROVE  TermInvariant'
  <2>1. due' \in [Devices -> 0 .. MaxDue]
    BY <1>3, DueFacts DEF TermInvariant, TermTypeOK, Schedule
  <2> QED
    BY <1>1, <1>3, <2>1 DEF TermInvariant, TermTypeOK, LineTypeOK, line, Schedule
<1>4. CASE Start \/ Stop \/ ServiceFails \/ UNCHANGED termVars
  BY <1>1, <1>4 DEF TermInvariant, TermTypeOK, LineTypeOK, termVars, line, terminal, Start, Stop,
     ServiceFails
<1> QED
  BY <1>2, <1>3, <1>4, TypeKeeps, ServiceTtiKeeps, ServiceTtoKeeps, DrainKeeps, KeyboardKeeps,
     PrinterKeeps
  DEF TermNext, Service

-----------------------------------------------------------------------------
\* All three hold in every behaviour.
THEOREM TerminalIsSound == TermSpec => []TermInvariant
  BY TermInitHolds, TermStepKeeps, PTL DEF TermSpec

\* The devices, the console's queues and the events due keep their types: a
\* device that is popped was due, and TTI never reads an empty queue
\* (kl8e.rs:41-60, console.rs).
THEOREM TermTypeCorrect == TermSpec => []TermTypeOK
<1>1. TermInvariant => TermTypeOK
  BY DEF TermInvariant
<1> QED
  BY <1>1, TerminalIsSound, PTL

\* What the keyboard has handed to the program, followed by what still waits,
\* is what was typed: no reset, deposit, early event or switch of the interrupt
\* line loses, repeats or reorders a character (kl8e.rs:41-60).
THEOREM InputIsInOrder == TermSpec => []InputInOrder
<1>1. TermInvariant => InputInOrder
  BY DEF TermInvariant
<1> QED
  BY <1>1, TerminalIsSound, PTL

\* What the CLI has drained, what it has yet to drain and what waits in the
\* printer's buffer is what the printer was given, in order: no reset, deposit,
\* repeated, dropped or early event prints a character twice or out of order
\* (kl8e.rs:88-110, simloop.rs:117-135).
THEOREM OutputIsInOrder == TermSpec => []OutputInOrder
<1>1. TermInvariant => OutputInOrder
  BY DEF TermInvariant
<1> QED
  BY <1>1, TerminalIsSound, PTL
=============================================================================
