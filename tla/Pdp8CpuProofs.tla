--------------------------- MODULE Pdp8CpuProofs ---------------------------
(***************************************************************************)
(* Proofs about the PDP-8's interrupts, fields and user mode, for any      *)
(* number of fields and any field size.                                    *)
(***************************************************************************)
EXTENDS Pdp8Cpu, TLAPS

(***************************************************************************)
(* The inductive invariant, of a processor c and the history r, rel: it    *)
(* has to hold of the processor between fetch and execution too.           *)
(***************************************************************************)
Typed(c, r, rel) ==
  /\ c \in PDP8Processor
  /\ r \in [of : Context, restored : BOOLEAN] \cup {NoContext}
  /\ rel \in BOOLEAN

\* Unless a field change is held, the buffers agree with what they buffer.
BuffersAgree(c, rel) ==
  "NO_CIF_PENDING" \in c.int_req /\ ~rel => c.ib = c.pc.field /\ c.ub = c.uf

\* In user mode nothing is held: the changes are the supervisor's.
UserIsSettled(c, rel) ==
  c.uf /\ ~rel => c.ub /\ "NO_CIF_PENDING" \in c.int_req

\* The save field and location 0 hold the context last interrupted.
ContextIsSaved(c, r) ==
  r # NoContext =>
    /\ c.slot0 = r.of.pc.offset
    /\ c.sf = [uf |-> r.of.uf, field |-> r.of.pc.field, df |-> r.of.df]

\* Once restored, it is in the buffers, and held.
ContextIsHeld(c, r) ==
  Restoring(r) =>
    /\ "NO_CIF_PENDING" \notin c.int_req
    /\ c.ib = r.of.pc.field /\ c.df = r.of.df /\ c.ub = r.of.uf

Settled(c, r, rel) ==
  BuffersAgree(c, rel) /\ UserIsSettled(c, rel) /\ ContextIsSaved(c, r) /\ ContextIsHeld(c, r)

CpuInvariant == Typed(cpu, resume, released) /\ Settled(cpu, resume, released)

-----------------------------------------------------------------------------
(***************************************************************************)
(* The operations of the processor.                                        *)
(***************************************************************************)
\* The next address is an address: it wraps within its field.
LEMMA NextOffset ==
  ASSUME NEW o \in Offsets
  PROVE  (o + 1) % FieldSize \in Offsets
BY FieldSizeAssumption DEF Offsets

\* BumpPc changes the offset of the program counter and nothing else; so does
\* a skip.
LEMMA BumpPcFacts ==
  ASSUME NEW c \in PDP8Processor
  PROVE  /\ BumpPc(c) \in PDP8Processor
         /\ BumpPc(c).pc.field = c.pc.field
         /\ BumpPc(c).int_req = c.int_req
         /\ BumpPc(c).ib = c.ib /\ BumpPc(c).df = c.df
         /\ BumpPc(c).uf = c.uf /\ BumpPc(c).ub = c.ub
         /\ BumpPc(c).sf = c.sf /\ BumpPc(c).slot0 = c.slot0
<1>1. c.pc \in Address
  BY DEF PDP8Processor
<1>2. (c.pc.offset + 1) % FieldSize \in Offsets
  BY <1>1, NextOffset DEF Address
<1>3. [c.pc EXCEPT !.offset = (@ + 1) % FieldSize] \in Address
  BY <1>1, <1>2 DEF Address
<1> QED
  BY <1>1, <1>2, <1>3 DEF BumpPc, PDP8Processor, Address

\* What a bump or a skip changes, the invariant does not look at.
LEMMA SkipKeeps ==
  ASSUME NEW c, NEW r, NEW rel, Typed(c, r, rel), Settled(c, r, rel),
         NEW condition \in BOOLEAN
  PROVE  Typed(SkipIf(condition, c), r, rel) /\ Settled(SkipIf(condition, c), r, rel)
<1>1. c \in PDP8Processor
  BY DEF Typed
<1>2. CASE condition
  BY <1>1, <1>2, BumpPcFacts
  DEF Typed, Settled, BuffersAgree, UserIsSettled, ContextIsSaved, ContextIsHeld, SkipIf
<1>3. CASE ~condition
  BY <1>3 DEF SkipIf
<1> QED
  BY <1>2, <1>3

\* Flags other than NO_CIF_PENDING are of no interest to the invariant.
LEMMA FlagsKeep ==
  ASSUME NEW c, NEW r, NEW rel, Typed(c, r, rel), Settled(c, r, rel),
         NEW flags \in SUBSET (InterruptFlags \ {"NO_CIF_PENDING"})
  PROVE  /\ Typed(Insert(c, flags), r, rel) /\ Settled(Insert(c, flags), r, rel)
         /\ Typed(Remove(c, flags), r, rel) /\ Settled(Remove(c, flags), r, rel)
<1>1. c \in PDP8Processor
  BY DEF Typed
<1>2. Insert(c, flags) \in PDP8Processor /\ Remove(c, flags) \in PDP8Processor
  BY <1>1 DEF Insert, Remove, PDP8Processor
<1>3. /\ "NO_CIF_PENDING" \in Insert(c, flags).int_req <=> "NO_CIF_PENDING" \in c.int_req
      /\ "NO_CIF_PENDING" \in Remove(c, flags).int_req <=> "NO_CIF_PENDING" \in c.int_req
  BY <1>1 DEF Insert, Remove, PDP8Processor
<1> QED
  BY <1>1, <1>2, <1>3
  DEF Typed, Settled, BuffersAgree, UserIsSettled, ContextIsSaved, ContextIsHeld,
      Insert, Remove, PDP8Processor

\* A violation in user mode raises its flag.
LEMMA ViolationKeeps ==
  ASSUME NEW c, NEW r, NEW rel, Typed(c, r, rel), Settled(c, r, rel)
  PROVE  Typed(Insert(c, {"UF"}), r, rel) /\ Settled(Insert(c, {"UF"}), r, rel)
BY FlagsKeep DEF InterruptFlags, Pending

\* An interrupt leaves every buffer clear and its context saved.
LEMMA InterruptSettles ==
  ASSUME NEW c \in PDP8Processor
  PROVE  LET r == [of |-> ContextOf(c), restored |-> FALSE]
         IN  Typed(HandleInterrupt(c), r, FALSE) /\ Settled(HandleInterrupt(c), r, FALSE)
<1> DEFINE r == [of |-> ContextOf(c), restored |-> FALSE]
           d == HandleInterrupt(c)
<1>1. r \in [of : Context, restored : BOOLEAN]
  BY DEF ContextOf, Context, PDP8Processor
<1>2. [field |-> 0, offset |-> 1] \in Address
  BY FieldsAssumption, FieldSizeAssumption DEF Address, Offsets
<1>3. d \in PDP8Processor
  BY <1>2, FieldsAssumption DEF HandleInterrupt, PDP8Processor, SaveField, Address,
     InterruptFlags, Pending
<1>4. /\ d.ib = 0 /\ d.pc.field = 0 /\ d.uf = FALSE /\ d.ub = FALSE
      /\ d.slot0 = c.pc.offset
      /\ d.sf = [uf |-> c.uf, field |-> c.pc.field, df |-> c.df]
  BY DEF HandleInterrupt, PDP8Processor
<1>5. r.of.pc = c.pc /\ r.of.df = c.df /\ r.of.uf = c.uf /\ ~Restoring(r)
  BY DEF ContextOf, Restoring
<1> HIDE DEF r, d
<1>6. Typed(d, r, FALSE) /\ Settled(d, r, FALSE)
  BY <1>1, <1>3, <1>4, <1>5
  DEF Typed, Settled, BuffersAgree, UserIsSettled, ContextIsSaved, ContextIsHeld
<1> QED
  BY <1>6 DEF r, d

\* The processor between fetch and execution.
LEMMA FetchKeeps ==
  ASSUME CpuInvariant
  PROVE  /\ Typed(Fetched, ResumeFetched, ReleasedFetched)
         /\ Settled(Fetched, ResumeFetched, ReleasedFetched)
<1> DEFINE c == IF ShouldInterrupt(cpu) THEN HandleInterrupt(cpu) ELSE cpu
<1>1. Typed(c, ResumeFetched, ReleasedFetched) /\ Settled(c, ResumeFetched, ReleasedFetched)
  <2>1. CASE ShouldInterrupt(cpu)
    BY <2>1, InterruptSettles DEF CpuInvariant, Typed, ResumeFetched, ReleasedFetched
  <2>2. CASE ~ShouldInterrupt(cpu)
    <3>1. c = cpu /\ ResumeFetched = resume /\ ReleasedFetched = released
      BY <2>2 DEF ResumeFetched, ReleasedFetched, CpuInvariant, Typed
    <3> QED
      BY <3>1 DEF CpuInvariant
  <2> QED
    BY <2>1, <2>2
<1> HIDE DEF c
<1>2. SkipIf(TRUE, c) = BumpPc(c)
  BY DEF SkipIf
<1>3. /\ Typed(BumpPc(c), ResumeFetched, ReleasedFetched)
      /\ Settled(BumpPc(c), ResumeFetched, ReleasedFetched)
  BY <1>1, <1>2, SkipKeeps
<1>4. Fetched = Insert(BumpPc(c), {"NO_ION_PENDING"})
  BY DEF Fetched, c
<1> QED
  BY <1>3, <1>4, FlagsKeep DEF InterruptFlags, Pending

-----------------------------------------------------------------------------
(***************************************************************************)
(* The steps.                                                              *)
(***************************************************************************)
\* A step that only executes: what it makes of the fetched processor decides.
LEMMA ExecutesKeeps ==
  ASSUME CpuInvariant, NEW d, Executes(d),
         Typed(d, ResumeFetched, ReleasedFetched), Settled(d, ResumeFetched, ReleasedFetched)
  PROVE  CpuInvariant'
<1>1. cpu' = d /\ resume' = ResumeFetched /\ released' = ReleasedFetched
  BY DEF Executes
<1>2. Typed(cpu', resume', released') /\ Settled(cpu', resume', released')
  BY <1>1
<1> QED
  BY <1>2 DEF CpuInvariant, Typed, Settled, BuffersAgree, UserIsSettled,
     ContextIsSaved, ContextIsHeld, Restoring

\* A step that gives up a return in progress need not hold the context.
LEMMA AsideKeeps ==
  ASSUME CpuInvariant, NEW d \in PDP8Processor, ExecutesAside(d),
         BuffersAgree(d, ReleasedFetched), UserIsSettled(d, ReleasedFetched),
         d.slot0 = Fetched.slot0, d.sf = Fetched.sf
  PROVE  CpuInvariant'
<1>1. /\ Typed(Fetched, ResumeFetched, ReleasedFetched)
      /\ Settled(Fetched, ResumeFetched, ReleasedFetched)
  BY FetchKeeps
<1>2. /\ cpu' = d /\ released' = ReleasedFetched
      /\ resume' = IF Restoring(ResumeFetched) THEN NoContext ELSE ResumeFetched
  BY DEF ExecutesAside
<1>3. Typed(d, resume', ReleasedFetched)
  BY <1>1, <1>2 DEF Typed
<1>4. ~Restoring(resume')
  BY <1>2 DEF Restoring
<1>5. ContextIsSaved(d, resume') /\ ContextIsHeld(d, resume')
  BY <1>1, <1>2, <1>4 DEF Settled, ContextIsSaved, ContextIsHeld
<1>6. Typed(cpu', resume', released') /\ Settled(cpu', resume', released')
  BY <1>2, <1>3, <1>5 DEF Settled
<1> QED
  BY <1>6 DEF CpuInvariant, Typed, Settled, BuffersAgree, UserIsSettled,
     ContextIsSaved, ContextIsHeld, Restoring

\* A jump settles the buffers, whatever was held.
LEMMA JumpFacts ==
  ASSUME NEW c \in PDP8Processor, NEW offset \in Offsets
  PROVE  /\ Jump(c, offset) \in PDP8Processor
         /\ Jump(c, offset).pc = [field |-> c.ib, offset |-> offset]
         /\ Jump(c, offset).ib = c.ib /\ Jump(c, offset).df = c.df
         /\ Jump(c, offset).uf = c.ub /\ Jump(c, offset).ub = c.ub
         /\ Jump(c, offset).sf = c.sf /\ Jump(c, offset).slot0 = c.slot0
         /\ "NO_CIF_PENDING" \in Jump(c, offset).int_req
<1>1. [field |-> c.ib, offset |-> offset] \in Address
  BY DEF Address, PDP8Processor
<1>2. Insert(c, {"NO_CIF_PENDING"}) \in PDP8Processor
  BY DEF Insert, PDP8Processor, InterruptFlags, Pending
<1> QED
  BY <1>1, <1>2 DEF Jump, Insert, PDP8Processor

\* Jumps, to anywhere, keep the invariant.
LEMMA JumpsKeep ==
  ASSUME CpuInvariant, NEW offset \in Offsets, Jumps(Jump(Fetched, offset))
  PROVE  CpuInvariant'
<1> DEFINE d == Jump(Fetched, offset)
<1>1. /\ Typed(Fetched, ResumeFetched, ReleasedFetched)
      /\ Settled(Fetched, ResumeFetched, ReleasedFetched)
  BY FetchKeeps
<1>2. /\ cpu' = d /\ released' = FALSE
      /\ resume' = IF Restoring(ResumeFetched) THEN NoContext ELSE ResumeFetched
  BY DEF Jumps
<1>3. Fetched \in PDP8Processor
  BY <1>1 DEF Typed
<1>4. /\ d \in PDP8Processor /\ d.pc = [field |-> Fetched.ib, offset |-> offset]
      /\ d.ib = Fetched.ib /\ d.uf = Fetched.ub /\ d.ub = Fetched.ub
      /\ d.sf = Fetched.sf /\ d.slot0 = Fetched.slot0
      /\ "NO_CIF_PENDING" \in d.int_req
  BY <1>3, JumpFacts
<1> HIDE DEF d
<1>5. d.pc.field = d.ib /\ d.uf = d.ub
  BY <1>4
<1>6. Typed(d, resume', FALSE) /\ ~Restoring(resume')
  BY <1>1, <1>2, <1>4 DEF Typed, Restoring
<1>7. Settled(d, resume', FALSE)
  BY <1>1, <1>2, <1>4, <1>5, <1>6
  DEF Settled, BuffersAgree, UserIsSettled, ContextIsSaved, ContextIsHeld
<1>8. Typed(cpu', resume', released') /\ Settled(cpu', resume', released')
  BY <1>2, <1>6, <1>7
<1> QED
  BY <1>8 DEF CpuInvariant, Typed, Settled, BuffersAgree, UserIsSettled,
     ContextIsSaved, ContextIsHeld, Restoring

\* Every instruction keeps the invariant.
LEMMA InstructionKeeps ==
  ASSUME CpuInvariant, Instruction
  PROVE  CpuInvariant'
<1> DEFINE c == Fetched
           r == ResumeFetched
           rel == ReleasedFetched
<1>1. Typed(c, r, rel) /\ Settled(c, r, rel)
  BY FetchKeeps
<1>2. c \in PDP8Processor
  BY <1>1 DEF Typed
<1>3. Supervisor => ~c.uf
  BY DEF Supervisor
<1>4. ASSUME NEW d, Typed(d, r, rel), Settled(d, r, rel), Executes(d)
      PROVE  CpuInvariant'
  BY <1>4, ExecutesKeeps
<1>5. ASSUME NEW condition \in BOOLEAN, Executes(SkipIf(condition, c))
      PROVE  CpuInvariant'
  BY <1>1, <1>4, <1>5, SkipKeeps
<1>6. ASSUME NEW d \in PDP8Processor, ExecutesAside(d), ~d.uf,
             "NO_CIF_PENDING" \in d.int_req => d.ib = c.ib /\ d.ub = c.ub /\ d.pc = c.pc
                                              /\ "NO_CIF_PENDING" \in c.int_req,
             d.uf = c.uf, d.slot0 = c.slot0, d.sf = c.sf
      PROVE  CpuInvariant'
  <2>1. BuffersAgree(d, rel) /\ UserIsSettled(d, rel)
    BY <1>1, <1>6 DEF Settled, BuffersAgree, UserIsSettled
  <2> QED
    BY <1>6, <2>1, AsideKeeps
<1>7. CASE Compute
  BY <1>5, <1>7 DEF Compute
<1>8. CASE StoreZero
  <2>1. PICK value \in Offsets, skip \in BOOLEAN :
          /\ cpu' = SkipIf(skip, [c EXCEPT !.slot0 = value])
          /\ resume' = NoContext /\ released' = rel
    BY <1>8 DEF StoreZero
  <2> DEFINE d == [c EXCEPT !.slot0 = value]
  <2>2. Typed(d, NoContext, rel)
    BY <1>1, <1>2 DEF Typed, PDP8Processor
  <2>3. Settled(d, NoContext, rel)
    BY <1>1, <1>2 DEF Settled, BuffersAgree, UserIsSettled, ContextIsSaved, ContextIsHeld,
       Restoring, PDP8Processor
  <2> HIDE DEF d
  <2>4. /\ Typed(SkipIf(skip, d), NoContext, rel)
        /\ Settled(SkipIf(skip, d), NoContext, rel)
    BY <2>2, <2>3, SkipKeeps
  <2>5. Typed(cpu', resume', released') /\ Settled(cpu', resume', released')
    BY <2>1, <2>4 DEF d
  <2> QED
    BY <2>5 DEF CpuInvariant, Typed, Settled, BuffersAgree, UserIsSettled,
       ContextIsSaved, ContextIsHeld, Restoring
<1>9. CASE Jmp
  BY <1>9, JumpsKeep DEF Jmp
<1>10. CASE JmpIndirectZero
  BY <1>2, <1>10, JumpsKeep DEF JmpIndirectZero, PDP8Processor
<1>11. CASE Jms
  <2>1. PICK offset \in Offsets :
          LET d == Jump(c, (offset + 1) % FieldSize)
              overZero == c.ib = 0 /\ offset = 0
          IN  /\ cpu' = [d EXCEPT !.slot0 = IF overZero THEN c.pc.offset ELSE @]
              /\ resume' = IF overZero \/ Restoring(r) THEN NoContext ELSE r
              /\ released' = FALSE
    BY <1>11 DEF Jms
  <2> DEFINE next == (offset + 1) % FieldSize
             d == Jump(c, next)
             overZero == c.ib = 0 /\ offset = 0
             e == [d EXCEPT !.slot0 = IF overZero THEN c.pc.offset ELSE @]
  <2>2. next \in Offsets
    BY NextOffset
  <2>3. /\ d \in PDP8Processor /\ d.pc = [field |-> c.ib, offset |-> next]
        /\ d.ib = c.ib /\ d.uf = c.ub /\ d.ub = c.ub
        /\ d.sf = c.sf /\ d.slot0 = c.slot0
        /\ "NO_CIF_PENDING" \in d.int_req
    BY <1>2, <2>2, JumpFacts
  <2>4. c.pc.offset \in Offsets
    BY <1>2 DEF PDP8Processor, Address
  <2> HIDE DEF d, next
  <2>5. /\ e \in PDP8Processor /\ e.pc = d.pc /\ e.ib = d.ib /\ e.uf = d.uf /\ e.ub = d.ub
        /\ e.sf = d.sf /\ e.int_req = d.int_req
        /\ ~overZero => e.slot0 = c.slot0
    BY <2>3, <2>4 DEF PDP8Processor
  <2>6. cpu' = e /\ resume' = (IF overZero \/ Restoring(r) THEN NoContext ELSE r)
          /\ released' = FALSE
    BY <2>1 DEF d, next
  <2> HIDE DEF e, overZero
  <2>7. Typed(e, resume', FALSE) /\ ~Restoring(resume')
    BY <1>1, <2>5, <2>6 DEF Typed, Restoring
  <2>8. e.pc.field = e.ib /\ e.uf = e.ub
    BY <2>3, <2>5
  <2>9. Settled(e, resume', FALSE)
    BY <1>1, <2>3, <2>5, <2>6, <2>7, <2>8
    DEF Settled, BuffersAgree, UserIsSettled, ContextIsSaved, ContextIsHeld
  <2>10. Typed(cpu', resume', released') /\ Settled(cpu', resume', released')
    BY <2>6, <2>7, <2>9
  <2> QED
    BY <2>10 DEF CpuInvariant, Typed, Settled, BuffersAgree, UserIsSettled,
       ContextIsSaved, ContextIsHeld, Restoring
<1>12. ASSUME Executes(Insert(c, {"UF"}))
       PROVE  CpuInvariant'
  BY <1>1, <1>4, <1>12, ViolationKeeps
<1>13. CASE HltOsr
  <2>1. PICK skip \in BOOLEAN :
          LET d == SkipIf(skip, c)
          IN  Executes(IF d.uf THEN Insert(d, {"UF"}) ELSE d)
    BY <1>13 DEF HltOsr
  <2> DEFINE d == SkipIf(skip, c)
  <2>2. Typed(d, r, rel) /\ Settled(d, r, rel)
    BY <1>1, SkipKeeps
  <2> HIDE DEF d
  <2>3. CASE d.uf
    <3>1. Executes(Insert(d, {"UF"}))
      BY <2>1, <2>3 DEF d
    <3> QED
      BY <1>4, <2>2, <3>1, ViolationKeeps
  <2>4. CASE ~d.uf
    <3>1. Executes(d)
      BY <2>1, <2>4 DEF d
    <3> QED
      BY <1>4, <2>2, <3>1
  <2> QED
    BY <2>3, <2>4
<1>14. CASE UserIot
  BY <1>12, <1>14 DEF UserIot
<1>15. CASE OtherIot
  BY <1>5, <1>15 DEF OtherIot
<1>16. CASE Skon
  <2>1. ("ION" \in c.int_req) \in BOOLEAN /\ {"ION"} \in SUBSET (InterruptFlags \ {"NO_CIF_PENDING"})
    BY DEF InterruptFlags, Pending
  <2>2. /\ Typed(SkipIf("ION" \in c.int_req, c), r, rel)
        /\ Settled(SkipIf("ION" \in c.int_req, c), r, rel)
    BY <1>1, <2>1, SkipKeeps
  <2> QED
    BY <1>4, <1>16, <2>1, <2>2, FlagsKeep DEF Skon
<1>17. CASE Ion
  <2>1. {"ION"} \in SUBSET (InterruptFlags \ {"NO_CIF_PENDING"})
          /\ {"NO_ION_PENDING"} \in SUBSET (InterruptFlags \ {"NO_CIF_PENDING"})
    BY DEF InterruptFlags, Pending
  <2>2. Typed(Insert(c, {"ION"}), r, rel) /\ Settled(Insert(c, {"ION"}), r, rel)
    BY <1>1, <2>1, FlagsKeep
  <2> QED
    BY <1>4, <1>17, <2>1, <2>2, FlagsKeep DEF Ion
<1>18. CASE Iof
  <2>1. {"ION"} \in SUBSET (InterruptFlags \ {"NO_CIF_PENDING"})
          /\ {"NO_ION_PENDING"} \in SUBSET (InterruptFlags \ {"NO_CIF_PENDING"})
    BY DEF InterruptFlags, Pending
  <2>2. Typed(Remove(c, {"ION"}), r, rel) /\ Settled(Remove(c, {"ION"}), r, rel)
    BY <1>1, <2>1, FlagsKeep
  <2> QED
    BY <1>4, <1>18, <2>1, <2>2, FlagsKeep DEF Iof
<1>19. CASE Srq
  BY <1>5, <1>19 DEF Srq, Requested
<1>20. CASE Rtf
  <2>1. PICK ub \in BOOLEAN, ib \in Fields, df \in Fields :
          ExecutesAside([Remove(Insert(c, {"ION"}), {"NO_CIF_PENDING"}) EXCEPT
                           !.ub = ub, !.ib = ib, !.df = df])
    BY <1>20 DEF Rtf
  <2> DEFINE d == [Remove(Insert(c, {"ION"}), {"NO_CIF_PENDING"}) EXCEPT
                     !.ub = ub, !.ib = ib, !.df = df]
  <2>2. /\ d \in PDP8Processor /\ d.uf = c.uf /\ d.slot0 = c.slot0 /\ d.sf = c.sf
        /\ "NO_CIF_PENDING" \notin d.int_req
    BY <1>2 DEF Remove, Insert, PDP8Processor, InterruptFlags, Pending
  <2> HIDE DEF d
  <2>3. ~d.uf
    BY <1>3, <1>20, <2>2 DEF Rtf
  <2>4. ExecutesAside(d)
    BY <2>1 DEF d
  <2> QED
    BY <1>6, <2>2, <2>3, <2>4
<1>21. CASE Caf
  <2> DEFINE d == [c EXCEPT !.int_req = {"NO_CIF_PENDING"}]
  <2>1. /\ cpu' = d /\ resume' = (IF Restoring(r) THEN NoContext ELSE r)
        /\ released' = (rel \/ "NO_CIF_PENDING" \notin c.int_req)
    BY <1>21 DEF Caf
  <2>2. /\ d \in PDP8Processor /\ d.pc = c.pc /\ d.ib = c.ib /\ d.ub = c.ub /\ d.uf = c.uf
        /\ d.slot0 = c.slot0 /\ d.sf = c.sf /\ d.int_req = {"NO_CIF_PENDING"}
    BY <1>2 DEF PDP8Processor, InterruptFlags, Pending
  <2> HIDE DEF d
  <2>3. Typed(d, resume', released') /\ ~Restoring(resume')
    BY <1>1, <2>1, <2>2 DEF Typed, Restoring
  <2>4. BuffersAgree(d, released') /\ UserIsSettled(d, released')
    BY <1>1, <1>3, <1>21, <2>1, <2>2 DEF Settled, BuffersAgree, UserIsSettled, Caf, Typed
  <2>5. ContextIsSaved(d, resume') /\ ContextIsHeld(d, resume')
    BY <1>1, <2>1, <2>2, <2>3 DEF Settled, ContextIsSaved, ContextIsHeld
  <2>6. Typed(cpu', resume', released') /\ Settled(cpu', resume', released')
    BY <2>1, <2>3, <2>4, <2>5 DEF Settled
  <2> QED
    BY <2>6 DEF CpuInvariant, Typed, Settled, BuffersAgree, UserIsSettled,
       ContextIsSaved, ContextIsHeld, Restoring
<1>22. CASE Cdf
  <2>1. PICK field \in Fields : ExecutesAside([c EXCEPT !.df = field])
    BY <1>22 DEF Cdf
  <2> DEFINE d == [c EXCEPT !.df = field]
  <2>2. /\ d \in PDP8Processor /\ d.uf = c.uf /\ d.ub = c.ub /\ d.pc = c.pc /\ d.ib = c.ib
        /\ d.slot0 = c.slot0 /\ d.sf = c.sf /\ d.int_req = c.int_req
    BY <1>2 DEF PDP8Processor
  <2>3. ExecutesAside(d)
    BY <2>1
  <2> HIDE DEF d
  <2>4. ~d.uf
    BY <1>3, <1>22, <2>2 DEF Cdf
  <2> QED
    BY <1>6, <2>2, <2>3, <2>4
<1>23. CASE Cif
  <2>1. PICK field \in Fields, both \in BOOLEAN :
          ExecutesAside([Remove(c, {"NO_CIF_PENDING"}) EXCEPT
                           !.ib = field, !.df = IF both THEN field ELSE @])
    BY <1>23 DEF Cif
  <2> DEFINE d == [Remove(c, {"NO_CIF_PENDING"}) EXCEPT
                     !.ib = field, !.df = IF both THEN field ELSE @]
  <2>2. /\ d \in PDP8Processor /\ d.uf = c.uf /\ d.slot0 = c.slot0 /\ d.sf = c.sf
        /\ "NO_CIF_PENDING" \notin d.int_req
    BY <1>2 DEF Remove, PDP8Processor
  <2>3. ExecutesAside(d)
    BY <2>1
  <2> HIDE DEF d
  <2>4. ~d.uf
    BY <1>3, <1>23, <2>2 DEF Cif
  <2> QED
    BY <1>6, <2>2, <2>3, <2>4
<1>24. CASE Cint
  BY <1>1, <1>4, <1>24, FlagsKeep DEF Cint, InterruptFlags, Pending
<1>25. CASE Sint
  <2>1. ("UF" \in c.int_req) \in BOOLEAN
    OBVIOUS
  <2>2. Executes(SkipIf("UF" \in c.int_req, c))
    BY <1>25 DEF Sint
  <2> QED
    BY <1>5, <2>1, <2>2
<1>26. CASE SetUserBuffer
  <2>1. PICK ub \in BOOLEAN :
          ExecutesAside([Remove(c, {"NO_CIF_PENDING"}) EXCEPT !.ub = ub])
    BY <1>26 DEF SetUserBuffer
  <2> DEFINE d == [Remove(c, {"NO_CIF_PENDING"}) EXCEPT !.ub = ub]
  <2>2. /\ d \in PDP8Processor /\ d.uf = c.uf /\ d.slot0 = c.slot0 /\ d.sf = c.sf
        /\ "NO_CIF_PENDING" \notin d.int_req
    BY <1>2 DEF Remove, PDP8Processor
  <2>3. ExecutesAside(d)
    BY <2>1
  <2> HIDE DEF d
  <2>4. ~d.uf
    BY <1>3, <1>26, <2>2 DEF SetUserBuffer
  <2> QED
    BY <1>6, <2>2, <2>3, <2>4
<1>27. CASE Rmf
  <2>1. /\ cpu' = Restored(c) /\ released' = rel
        /\ resume' = IF r = NoContext THEN NoContext ELSE [r EXCEPT !.restored = TRUE]
    BY <1>27 DEF Rmf
  <2> DEFINE d == Restored(c)
  <2>2. /\ d \in PDP8Processor /\ d.uf = c.uf /\ d.slot0 = c.slot0 /\ d.sf = c.sf
        /\ d.ib = c.sf.field /\ d.df = c.sf.df /\ d.ub = c.sf.uf
        /\ "NO_CIF_PENDING" \notin d.int_req
    BY <1>2 DEF Restored, Remove, PDP8Processor, SaveField
  <2> HIDE DEF d
  <2>3. /\ resume' \in [of : Context, restored : BOOLEAN] \cup {NoContext}
        /\ resume' # NoContext => r # NoContext /\ resume'.of = r.of
    BY <1>1, <2>1 DEF Typed
  <2>4. Typed(d, resume', rel)
    BY <1>1, <2>2, <2>3 DEF Typed
  <2>5. BuffersAgree(d, rel) /\ UserIsSettled(d, rel)
    BY <1>3, <1>27, <2>2 DEF BuffersAgree, UserIsSettled, Rmf
  <2>6. ContextIsSaved(d, resume')
    BY <1>1, <2>2, <2>3 DEF Settled, ContextIsSaved
  <2>7. ContextIsHeld(d, resume')
    BY <2>2, <2>6 DEF ContextIsSaved, ContextIsHeld, Restoring
  <2>8. Typed(cpu', resume', released') /\ Settled(cpu', resume', released')
    BY <2>1, <2>4, <2>5, <2>6, <2>7 DEF Settled, d
  <2> QED
    BY <2>8 DEF CpuInvariant, Typed, Settled, BuffersAgree, UserIsSettled,
       ContextIsSaved, ContextIsHeld, Restoring
<1> QED
  BY <1>7, <1>8, <1>9, <1>10, <1>11, <1>13, <1>14, <1>15, <1>16, <1>17, <1>18, <1>19, <1>20,
     <1>21, <1>22, <1>23, <1>24, <1>25, <1>26, <1>27 DEF Instruction

-----------------------------------------------------------------------------
(***************************************************************************)
(* The theorems.                                                           *)
(***************************************************************************)
\* The processor starts settled, with nothing held.
LEMMA CpuInitSettles ==
  ASSUME CpuInit
  PROVE  CpuInvariant
<1>1. PICK o \in Offsets : cpu = PowerOn([field |-> 0, offset |-> o])
  BY DEF CpuInit
<1>2. resume = NoContext /\ released = FALSE
  BY DEF CpuInit
<1>3. cpu \in PDP8Processor
  BY <1>1, FieldsAssumption, FieldSizeAssumption
  DEF PowerOn, PDP8Processor, SaveField, Address, Offsets, InterruptFlags, Pending
<1>4. cpu.ib = 0 /\ cpu.pc.field = 0 /\ cpu.uf = FALSE /\ cpu.ub = FALSE
  BY <1>1 DEF PowerOn
<1> QED
  BY <1>2, <1>3, <1>4 DEF CpuInvariant, Typed, Settled, BuffersAgree, UserIsSettled,
     ContextIsSaved, ContextIsHeld, Restoring

\* A reset settles the buffers too, though it leaves a hold as it is.
LEMMA ResetSettles ==
  ASSUME CpuInvariant, CpuReset
  PROVE  CpuInvariant'
<1>1. cpu' = ResetRegisters(cpu) /\ resume' = NoContext /\ released' = FALSE
  BY DEF CpuReset
<1>2. cpu \in PDP8Processor
  BY DEF CpuInvariant, Typed
<1>3. [field |-> 0, offset |-> 0] \in Address
  BY FieldsAssumption, FieldSizeAssumption DEF Address, Offsets
<1>4. cpu' \in PDP8Processor
  BY <1>1, <1>2, <1>3, FieldsAssumption
  DEF ResetRegisters, PowerOn, PDP8Processor, SaveField
<1>5. cpu'.ib = 0 /\ cpu'.pc.field = 0 /\ cpu'.uf = FALSE /\ cpu'.ub = FALSE
  BY <1>1 DEF ResetRegisters, PowerOn
<1> QED
  BY <1>1, <1>4, <1>5 DEF CpuInvariant, Typed, Settled, BuffersAgree, UserIsSettled,
     ContextIsSaved, ContextIsHeld, Restoring

\* After a deposit nothing is claimed until the next jump.
LEMMA DepositKeeps ==
  ASSUME CpuInvariant, Deposit
  PROVE  CpuInvariant'
<1>1. cpu' \in PDP8Processor
  BY DEF Deposit, Deposited, CpuInvariant, Typed, PDP8Processor
<1>2. resume' = NoContext /\ released' = TRUE
  BY DEF Deposit
<1> QED
  BY <1>1, <1>2 DEF CpuInvariant, Typed, Settled, BuffersAgree, UserIsSettled,
     ContextIsSaved, ContextIsHeld, Restoring

\* A device's request is a flag of no interest to the invariant.
LEMMA RaiseKeeps ==
  ASSUME CpuInvariant, NEW device \in DeviceFlags, RaiseInterrupt(device)
  PROVE  CpuInvariant'
<1>1. cpu' = Insert(cpu, {device}) /\ resume' = resume /\ released' = released
  BY DEF RaiseInterrupt
<1>2. Typed(cpu', resume', released') /\ Settled(cpu', resume', released')
  BY <1>1, FlagsKeep DEF CpuInvariant, DeviceFlags, InterruptFlags, Pending
<1> QED
  BY <1>2 DEF CpuInvariant, Typed, Settled, BuffersAgree, UserIsSettled,
     ContextIsSaved, ContextIsHeld, Restoring

\* The invariant the other theorems rest on.
THEOREM CpuIsSettled == CpuSpec => []CpuInvariant
<1>1. CpuInvariant /\ [CpuNext]_cpuVars => CpuInvariant'
  <2> SUFFICES ASSUME CpuInvariant, [CpuNext]_cpuVars
               PROVE  CpuInvariant'
    OBVIOUS
  <2>1. CASE Instruction
    BY <2>1, InstructionKeeps
  <2>2. CASE \E device \in DeviceFlags : RaiseInterrupt(device)
    BY <2>2, RaiseKeeps
  <2>3. CASE CpuReset
    BY <2>3, ResetSettles
  <2>4. CASE Deposit
    BY <2>4, DepositKeeps
  <2>5. CASE UNCHANGED cpuVars
    BY <2>5 DEF cpuVars, CpuInvariant, Typed, Settled, BuffersAgree, UserIsSettled,
       ContextIsSaved, ContextIsHeld, Restoring
  <2> QED
    BY <2>1, <2>2, <2>3, <2>4, <2>5 DEF CpuNext
<1> QED
  BY <1>1, CpuInitSettles, PTL DEF CpuSpec

\* The processor's registers keep their types (cpu.rs, PDP8Processor).
THEOREM CpuTypeCorrect == CpuSpec => []CpuTypeOK
<1>1. CpuInvariant => CpuTypeOK
  BY DEF CpuInvariant, Typed, CpuTypeOK
<1> QED
  BY <1>1, CpuIsSettled, PTL

\* An interrupt comes only when the field and user buffers agree with what they
\* buffer (cpu.rs, handle_interrupt): it loses no change of field.
THEOREM NothingIsLost == CpuSpec => []NothingLost
<1>1. CpuInvariant => NothingLost
  BY DEF CpuInvariant, Settled, BuffersAgree, NothingLost, ShouldInterrupt, Pending
<1> QED
  BY <1>1, CpuIsSettled, PTL

\* From RMF to the jump that returns, no interrupt is taken.
THEOREM ReturnIsAtomic == CpuSpec => []ResumeIsAtomic
<1>1. CpuInvariant => ResumeIsAtomic
  BY DEF CpuInvariant, Settled, ContextIsHeld, ResumeIsAtomic, ShouldInterrupt, Pending
<1> QED
  BY <1>1, CpuIsSettled, PTL

\* RMF and JMP I 0 resume exactly the context that was interrupted.
THEOREM ReturnIsExact == CpuSpec => ResumeIsExact
<1>1. CpuInvariant /\ Restoring(resume) /\ JmpIndirectZero => ContextOf(cpu') = resume.of
  <2> SUFFICES ASSUME CpuInvariant, Restoring(resume), JmpIndirectZero
               PROVE  ContextOf(cpu') = resume.of
    OBVIOUS
  <2>1. ~ShouldInterrupt(cpu)
    BY DEF CpuInvariant, Settled, ContextIsHeld, ShouldInterrupt, Pending
  <2>2. ResumeFetched = resume
    BY <2>1 DEF ResumeFetched
  <2>3. /\ Typed(Fetched, resume, ReleasedFetched)
        /\ Settled(Fetched, resume, ReleasedFetched)
    BY <2>2, FetchKeeps
  <2>4. Fetched \in PDP8Processor /\ Fetched.slot0 \in Offsets
    BY <2>3 DEF Typed, PDP8Processor
  <2>5. /\ cpu'.pc = [field |-> Fetched.ib, offset |-> Fetched.slot0]
        /\ cpu'.df = Fetched.df /\ cpu'.uf = Fetched.ub
    BY <2>4, JumpFacts DEF JmpIndirectZero, Jumps
  <2>6. resume.of \in Context /\ resume # NoContext
    BY <2>3 DEF Typed, Restoring
  <2>7. /\ Fetched.ib = resume.of.pc.field /\ Fetched.slot0 = resume.of.pc.offset
        /\ Fetched.df = resume.of.df /\ Fetched.ub = resume.of.uf
    BY <2>3, <2>6 DEF Settled, ContextIsSaved, ContextIsHeld
  <2>8. resume.of.pc = [field |-> resume.of.pc.field, offset |-> resume.of.pc.offset]
    BY <2>6 DEF Context, Address
  <2>9. resume.of = [pc |-> resume.of.pc, df |-> resume.of.df, uf |-> resume.of.uf]
    BY <2>6 DEF Context
  <2> QED
    BY <2>5, <2>7, <2>8, <2>9 DEF ContextOf
<1> QED
  BY <1>1, CpuIsSettled, PTL DEF CpuSpec, ResumeIsExact

\* A program in user mode leaves it by an interrupt, a reset or a deposit only.
THEOREM UserModeStays == CpuSpec => UserModeSticks
<1>1. CpuInvariant /\ [CpuNext]_cpuVars =>
        [cpu.uf /\ ~cpu'.uf => ShouldInterrupt(cpu) \/ CpuReset \/ Deposit \/ released]_cpuVars
  <2> SUFFICES ASSUME CpuInvariant, CpuNext, cpu.uf, ~ShouldInterrupt(cpu), ~released,
                      ~CpuReset, ~Deposit
               PROVE  cpu'.uf
    BY DEF cpuVars
  <2>1. /\ Fetched \in PDP8Processor /\ ResumeFetched = resume
        /\ Fetched.uf /\ Fetched.ub
    <3>1. cpu \in PDP8Processor /\ cpu.uf /\ cpu.ub
      BY DEF CpuInvariant, Typed, Settled, UserIsSettled
    <3>2. Fetched = Insert(BumpPc(cpu), {"NO_ION_PENDING"})
      BY DEF Fetched
    <3>3. BumpPc(cpu) \in PDP8Processor /\ BumpPc(cpu).uf = cpu.uf /\ BumpPc(cpu).ub = cpu.ub
      BY <3>1, BumpPcFacts
    <3> HIDE DEF Fetched
    <3>4. Fetched.uf = BumpPc(cpu).uf /\ Fetched.ub = BumpPc(cpu).ub
      BY <3>2, <3>3 DEF Insert, PDP8Processor
    <3>5. Fetched \in PDP8Processor
      BY FetchKeeps DEF Typed
    <3> QED
      BY <3>1, <3>3, <3>4, <3>5 DEF ResumeFetched
  <2>2. ~Supervisor
    BY <2>1 DEF Supervisor
  <2>3. ASSUME NEW condition \in BOOLEAN, NEW d \in PDP8Processor, d.uf
        PROVE  SkipIf(condition, d).uf
    BY <2>3, BumpPcFacts DEF SkipIf
  <2>4. CASE Compute
    BY <2>1, <2>3, <2>4 DEF Compute, Executes
  <2>5. CASE StoreZero
    <3>1. PICK value \in Offsets, skip \in BOOLEAN :
            cpu' = SkipIf(skip, [Fetched EXCEPT !.slot0 = value])
      BY <2>5 DEF StoreZero
    <3>2. /\ [Fetched EXCEPT !.slot0 = value] \in PDP8Processor
          /\ [Fetched EXCEPT !.slot0 = value].uf = Fetched.uf
      BY <2>1 DEF PDP8Processor
    <3> QED
      BY <2>1, <2>3, <3>1, <3>2
  <2>6. CASE Jmp \/ JmpIndirectZero
    <3>1. PICK offset \in Offsets : cpu' = Jump(Fetched, offset)
      BY <2>1, <2>6 DEF Jmp, JmpIndirectZero, Jumps, PDP8Processor
    <3> QED
      BY <2>1, <3>1, JumpFacts
  <2>7. CASE Jms
    <3>1. PICK offset \in Offsets : \E slot :
            cpu' = [Jump(Fetched, (offset + 1) % FieldSize) EXCEPT !.slot0 = slot]
      BY <2>7 DEF Jms
    <3>2. /\ Jump(Fetched, (offset + 1) % FieldSize) \in PDP8Processor
          /\ Jump(Fetched, (offset + 1) % FieldSize).uf
      BY <2>1, NextOffset, JumpFacts
    <3> QED
      BY <3>1, <3>2 DEF PDP8Processor
  <2>8. CASE HltOsr \/ UserIot
    <3>1. PICK d \in PDP8Processor :
            /\ d.uf
            /\ cpu' = d \/ cpu' = Insert(d, {"UF"})
      <4>1. CASE HltOsr
        <5>1. PICK skip \in BOOLEAN :
                LET d == SkipIf(skip, Fetched)
                IN  cpu' = IF d.uf THEN Insert(d, {"UF"}) ELSE d
          BY <4>1 DEF HltOsr, Executes
        <5>2. SkipIf(skip, Fetched) \in PDP8Processor
          BY <2>1, BumpPcFacts DEF SkipIf
        <5> QED
          BY <2>1, <2>3, <5>1, <5>2
      <4>2. CASE UserIot
        BY <2>1, <4>2 DEF UserIot, Executes
      <4> QED
        BY <2>8, <4>1, <4>2
    <3> QED
      BY <3>1 DEF Insert, PDP8Processor
  <2>9. CASE \E device \in DeviceFlags : RaiseInterrupt(device)
    BY <2>9 DEF RaiseInterrupt, Insert, CpuInvariant, Typed, PDP8Processor
  <2> QED
    BY <2>2, <2>4, <2>5, <2>6, <2>7, <2>8, <2>9
    DEF CpuNext, Instruction, OtherIot, Skon, Ion, Iof, Srq, Rtf, Caf, Cdf, Cif, Cint, Sint,
        SetUserBuffer, Rmf
<1> QED
  BY <1>1, CpuIsSettled, PTL DEF CpuSpec, UserModeSticks

-----------------------------------------------------------------------------
(***************************************************************************)
(* The processor implements the line its devices see.                      *)
(***************************************************************************)
RequestsOf(c) == c.int_req \cap DeviceFlags

\* Neither an interrupt, nor a bump, nor the end of ION's delay withdraws one.
LEMMA FetchKeepsRequests ==
  ASSUME CpuInvariant
  PROVE  RequestsOf(Fetched) = RequestsOf(cpu)
<1> DEFINE c == IF ShouldInterrupt(cpu) THEN HandleInterrupt(cpu) ELSE cpu
<1>1. cpu \in PDP8Processor
  BY DEF CpuInvariant, Typed
<1>2. HandleInterrupt(cpu) \in PDP8Processor
  BY <1>1, InterruptSettles DEF Typed
<1>3. RequestsOf(HandleInterrupt(cpu)) = RequestsOf(cpu)
  BY <1>1 DEF HandleInterrupt, RequestsOf, DeviceFlags, PDP8Processor
<1>4. c \in PDP8Processor /\ RequestsOf(c) = RequestsOf(cpu)
  BY <1>1, <1>2, <1>3
<1> HIDE DEF c
<1>5. BumpPc(c) \in PDP8Processor /\ BumpPc(c).int_req = c.int_req
  BY <1>4, BumpPcFacts
<1>6. Fetched = Insert(BumpPc(c), {"NO_ION_PENDING"})
  BY DEF Fetched, c
<1> HIDE DEF Fetched
<1> QED
  BY <1>4, <1>5, <1>6 DEF Insert, RequestsOf, DeviceFlags, PDP8Processor

\* Every instruction but CAF leaves the requests alone.
LEMMA InstructionKeepsRequests ==
  ASSUME CpuInvariant, Instruction, ~Caf
  PROVE  RequestsOf(cpu') = RequestsOf(cpu)
<1> DEFINE c == Fetched
<1>1. c \in PDP8Processor /\ RequestsOf(c) = RequestsOf(cpu)
  BY FetchKeeps, FetchKeepsRequests DEF Typed
<1> HIDE DEF c
<1>2. ASSUME NEW d, d \in PDP8Processor, NEW condition \in BOOLEAN
      PROVE  SkipIf(condition, d).int_req = d.int_req /\ SkipIf(condition, d) \in PDP8Processor
  BY <1>2, BumpPcFacts DEF SkipIf
<1>3. CASE Compute \/ OtherIot \/ Srq \/ Sint
  <2>1. cpu' = c \/ cpu' = BumpPc(c)
    BY <1>3 DEF Compute, OtherIot, Srq, Sint, SkipIf, Executes, c
  <2> QED
    BY <1>1, <2>1, BumpPcFacts DEF RequestsOf
<1>4. CASE StoreZero
  <2>1. PICK value \in Offsets, skip \in BOOLEAN :
          cpu' = SkipIf(skip, [c EXCEPT !.slot0 = value])
    BY <1>4 DEF StoreZero, c
  <2>2. /\ [c EXCEPT !.slot0 = value] \in PDP8Processor
        /\ [c EXCEPT !.slot0 = value].int_req = c.int_req
    BY <1>1 DEF PDP8Processor
  <2> QED
    BY <1>1, <1>2, <2>1, <2>2 DEF RequestsOf
<1>5. ASSUME NEW offset \in Offsets
      PROVE  /\ Jump(c, offset).int_req = c.int_req \cup {"NO_CIF_PENDING"}
             /\ Jump(c, offset) \in PDP8Processor
  <2>1. Jump(c, offset) \in PDP8Processor
    BY <1>1, <1>5, JumpFacts
  <2> QED
    BY <1>1, <2>1 DEF Jump, Insert, PDP8Processor
<1>6. CASE Jmp \/ JmpIndirectZero
  <2>1. PICK offset \in Offsets : cpu' = Jump(c, offset)
    BY <1>1, <1>6 DEF Jmp, JmpIndirectZero, Jumps, PDP8Processor, c
  <2> QED
    BY <1>1, <1>5, <2>1 DEF RequestsOf, DeviceFlags
<1>7. CASE Jms
  <2>1. PICK offset \in Offsets : \E slot :
          cpu' = [Jump(c, (offset + 1) % FieldSize) EXCEPT !.slot0 = slot]
    BY <1>7 DEF Jms, c
  <2>2. cpu'.int_req = Jump(c, (offset + 1) % FieldSize).int_req
    BY <1>5, <2>1, NextOffset DEF PDP8Processor
  <2> QED
    BY <1>1, <1>5, <2>2, NextOffset DEF RequestsOf, DeviceFlags
<1>8. CASE HltOsr \/ UserIot
  <2>1. PICK d \in PDP8Processor :
          /\ d.int_req = c.int_req
          /\ cpu' = d \/ cpu' = Insert(d, {"UF"})
    <3>1. CASE HltOsr
      <4>1. PICK skip \in BOOLEAN :
              LET d == SkipIf(skip, c)
              IN  cpu' = IF d.uf THEN Insert(d, {"UF"}) ELSE d
        BY <3>1 DEF HltOsr, Executes, c
      <4> QED
        BY <1>1, <1>2, <4>1
    <3>2. CASE UserIot
      BY <1>1, <3>2 DEF UserIot, Executes, c
    <3> QED
      BY <1>8, <3>1, <3>2
  <2>2. RequestsOf(d) = RequestsOf(c)
    BY <2>1 DEF RequestsOf
  <2>3. RequestsOf(Insert(d, {"UF"})) = RequestsOf(d)
    BY <2>1 DEF Insert, RequestsOf, DeviceFlags, PDP8Processor
  <2> QED
    BY <1>1, <2>1, <2>2, <2>3
<1>9. CASE Skon
  <2>1. cpu' = Remove(c, {"ION"}) \/ cpu' = Remove(BumpPc(c), {"ION"})
    BY <1>9 DEF Skon, SkipIf, Executes, c
  <2> QED
    BY <1>1, <2>1, BumpPcFacts DEF Remove, RequestsOf, DeviceFlags, PDP8Processor
<1>10. CASE Ion \/ Iof \/ Cint
  BY <1>1, <1>10 DEF Ion, Iof, Cint, Executes, Insert, Remove, RequestsOf, DeviceFlags,
     PDP8Processor, c
<1>11. CASE Rtf
  BY <1>1, <1>11 DEF Rtf, ExecutesAside, Insert, Remove, RequestsOf, DeviceFlags,
     PDP8Processor, c
<1>12. CASE Cdf \/ Cif \/ SetUserBuffer
  BY <1>1, <1>12 DEF Cdf, Cif, SetUserBuffer, ExecutesAside, Remove, RequestsOf,
     DeviceFlags, PDP8Processor, c
<1>13. CASE Rmf
  BY <1>1, <1>13 DEF Rmf, Restored, Remove, RequestsOf, DeviceFlags, PDP8Processor, c
<1> QED
  BY <1>3, <1>4, <1>6, <1>7, <1>8, <1>9, <1>10, <1>11, <1>12, <1>13 DEF Instruction

\* Every step is a step of the line, or one it does not see.
LEMMA StepIsLineStep ==
  ASSUME CpuInvariant, [CpuNext]_cpuVars
  PROVE  [Line!LineNext]_(Line!line)
<1> USE DEF Line!LineNext, Line!Program, Line!Switch, Line!Clear, Line!Raise, Line!line
<1>1. cpu \in PDP8Processor
  BY DEF CpuInvariant, Typed
<1>2. ("ION" \in cpu'.int_req) \in BOOLEAN
  OBVIOUS
<1>3. CASE Instruction /\ ~Caf
  BY <1>2, <1>3, InstructionKeepsRequests DEF RequestsOf
<1>4. CASE Caf
  <2>1. cpu'.int_req = {"NO_CIF_PENDING"}
    BY <1>4, FetchKeeps DEF Caf, Typed, PDP8Processor
  <2> QED
    BY <2>1 DEF DeviceFlags
<1>5. CASE \E device \in DeviceFlags : RaiseInterrupt(device)
  BY <1>1, <1>5 DEF RaiseInterrupt, Insert, DeviceFlags, PDP8Processor
<1>6. CASE CpuReset
  <2>1. cpu'.int_req = cpu.int_req
    BY <1>1, <1>6 DEF CpuReset, ResetRegisters, PowerOn
  <2> QED
    BY <2>1
<1>7. CASE Deposit
  <2>1. cpu'.int_req = cpu.int_req
    BY <1>1, <1>7 DEF Deposit, Deposited, PDP8Processor
  <2> QED
    BY <2>1
<1>8. CASE UNCHANGED cpuVars
  BY <1>8 DEF cpuVars
<1> QED
  BY <1>3, <1>4, <1>5, <1>6, <1>7, <1>8 DEF CpuNext

\* A device's request stays until the program clears them all: what the terminal
\* (Kl8e) is built on is what the processor does.
THEOREM LineIsImplemented == CpuSpec => ImplementsLine
<1>1. CpuInit => Line!LineInit
  BY DEF CpuInit, PowerOn, Line!LineInit, DeviceFlags
<1> QED
  BY <1>1, StepIsLineStep, CpuIsSettled, PTL DEF CpuSpec, ImplementsLine, Line!LineSpec
=============================================================================
