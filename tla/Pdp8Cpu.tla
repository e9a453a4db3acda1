------------------------------- MODULE Pdp8Cpu -------------------------------
(***************************************************************************)
(* Interrupts, memory fields and user mode of the PDP-8 (pdp-8, cpu.rs).   *)
(* One step is one simulate_instruction: it takes an interrupt if one is   *)
(* due, fetches, and executes.  The program is any program, so what a step *)
(* executes is chosen when it is fetched, and the accumulator and memory   *)
(* are left out, location 0 of field 0 excepted: interrupts return by it.  *)
(*                                                                         *)
(* An operator that takes a processor `c' returns the processor after it.  *)
(***************************************************************************)
EXTENDS Integers

CONSTANTS
  Fields,      \* the memory fields, 0 to 7 in the code
  FieldSize,   \* words of a field, 4096 in the code
  NoContext

ASSUME FieldsAssumption == Fields \subseteq Nat /\ 0 \in Fields
ASSUME FieldSizeAssumption == FieldSize \in Nat \ {0, 1}

Offsets == 0 .. FieldSize - 1
Address == [field : Fields, offset : Offsets]

\* The flags something inserts.  Those of the TSC8 are left out, as are its
\* registers: tsc_enab is never set and nothing reads the rest.
DeviceFlags == {"TTI", "TTO"}
InitEnable  == DeviceFlags
Pending     == {"ION", "NO_CIF_PENDING", "NO_ION_PENDING"}
InterruptFlags == DeviceFlags \cup {"UF"} \cup Pending

SaveField == [uf : BOOLEAN, field : Fields, df : Fields]

PDP8Processor ==
  [int_req : SUBSET InterruptFlags, pc : Address, ib : Fields, df : Fields,
   uf : BOOLEAN, ub : BOOLEAN, sf : SaveField, slot0 : Offsets]

\* What a program has when an instruction ends, and must have again when the
\* interrupt taken there returns.
Context == [pc : Address, df : Fields, uf : BOOLEAN]
ContextOf(c) == [pc |-> c.pc, df |-> c.df, uf |-> c.uf]

ASSUME ContextAssumption == NoContext \notin [of : Context, restored : BOOLEAN]

VARIABLES
  cpu,        \* PDP8Processor
  resume,     \* history: the context last interrupted; whether RMF has restored it
  released    \* history: a CAF or a deposit has undone the hold of a field change

cpuVars == <<cpu, resume, released>>

CpuTypeOK ==
  /\ cpu \in PDP8Processor
  /\ resume \in [of : Context, restored : BOOLEAN] \cup {NoContext}
  /\ released \in BOOLEAN

PowerOn(pc) ==
  [int_req |-> {"NO_CIF_PENDING", "NO_ION_PENDING"}, pc |-> pc, ib |-> 0, df |-> 0,
   uf |-> FALSE, ub |-> FALSE, sf |-> [uf |-> FALSE, field |-> 0, df |-> 0],
   slot0 |-> 0]

\* measure_initial_ips has left the program counter somewhere in its loop.
CpuInit ==
  /\ \E o \in Offsets : cpu = PowerOn([field |-> 0, offset |-> o])
  /\ resume = NoContext
  /\ released = FALSE

-----------------------------------------------------------------------------
(***************************************************************************)
(* Fetch and interrupt.                                                    *)
(***************************************************************************)
Insert(c, flags) == [c EXCEPT !.int_req = @ \cup flags]
Remove(c, flags) == [c EXCEPT !.int_req = @ \ flags]

\* The address wraps within its field.
BumpPc(c) == [c EXCEPT !.pc.offset = (@ + 1) % FieldSize]

SkipIf(condition, c) == IF condition THEN BumpPc(c) ELSE c

Requested(c) == c.int_req \cap InitEnable # {}

\* Mutant: the hold after a field change is not looked at.
ShouldInterrupt_IgnoresCif(c) == {"ION", "NO_ION_PENDING"} \subseteq c.int_req /\ Requested(c)

ShouldInterrupt(c) == Pending \subseteq c.int_req /\ Requested(c)

\* Mutant: the interrupt acknowledges the requests.
HandleInterrupt_Acknowledges(c) ==
  [c EXCEPT !.int_req = (@ \ (DeviceFlags \cup {"ION"})) \cup {"NO_CIF_PENDING", "NO_ION_PENDING"},
            !.sf = [uf |-> c.uf, field |-> c.pc.field, df |-> c.df],
            !.slot0 = c.pc.offset,
            !.pc = [field |-> 0, offset |-> 1],
            !.ib = 0, !.df = 0, !.uf = FALSE, !.ub = FALSE]

HandleInterrupt(c) ==
  [c EXCEPT !.int_req = (@ \ {"ION"}) \cup {"NO_CIF_PENDING", "NO_ION_PENDING"},
            !.sf = [uf |-> c.uf, field |-> c.pc.field, df |-> c.df],
            !.slot0 = c.pc.offset,
            !.pc = [field |-> 0, offset |-> 1],
            !.ib = 0, !.df = 0, !.uf = FALSE, !.ub = FALSE]

\* simulate_instruction up to execute_instruction.
Fetched ==
  Insert(BumpPc(IF ShouldInterrupt(cpu) THEN HandleInterrupt(cpu) ELSE cpu),
         {"NO_ION_PENDING"})

\* The history variables after the fetch.
ResumeFetched ==
  IF ShouldInterrupt(cpu) THEN [of |-> ContextOf(cpu), restored |-> FALSE] ELSE resume
ReleasedFetched == released /\ ~ShouldInterrupt(cpu)

Restoring(r) == r # NoContext /\ r.restored

\* A step that leaves the return of the last interrupt as it is.
Executes(c) ==
  /\ cpu' = c
  /\ resume' = ResumeFetched
  /\ released' = ReleasedFetched

\* A step that abandons a return in progress: from here the program is on its own.
ExecutesAside(c) ==
  /\ cpu' = c
  /\ resume' = IF Restoring(ResumeFetched) THEN NoContext ELSE ResumeFetched
  /\ released' = ReleasedFetched

-----------------------------------------------------------------------------
(***************************************************************************)
(* Memory references and operates.                                         *)
(***************************************************************************)
\* AND, TAD, ISZ, DCA, the operates and the EAE, anywhere but on location 0:
\* they may skip.
Compute == \E skip \in BOOLEAN : Executes(SkipIf(skip, Fetched))

\* DCA, ISZ or the EAE's DST on location 0 of field 0, addressed in the page zero
\* of that field or through the data field.  ISZ skips when it has stored 0, DST
\* passes its pointer.
StoreZero ==
  \E value \in Offsets, skip \in BOOLEAN :
    /\ 0 \in {Fetched.pc.field, Fetched.df}
    /\ cpu' = SkipIf(skip, [Fetched EXCEPT !.slot0 = value])
    /\ resume' = NoContext
    /\ released' = ReleasedFetched

\* Mutant: the user flag is not taken from its buffer.
Jump_KeepsUserFlag(c, offset) ==
  [Insert(c, {"NO_CIF_PENDING"}) EXCEPT
     !.pc = [field |-> c.ib, offset |-> offset]]

\* JMP commits the field and user buffers, and ends the hold.
Jump(c, offset) ==
  [Insert(c, {"NO_CIF_PENDING"}) EXCEPT
     !.pc = [field |-> c.ib, offset |-> offset],
     !.uf = c.ub]

Jumps(c) ==
  /\ cpu' = c
  /\ resume' = IF Restoring(ResumeFetched) THEN NoContext ELSE ResumeFetched
  /\ released' = FALSE

Jmp == \E offset \in Offsets : Jumps(Jump(Fetched, offset))

\* JMP I 0 from field 0, as an interrupt returns.
JmpIndirectZero ==
  /\ Fetched.pc.field = 0
  /\ Jumps(Jump(Fetched, Fetched.slot0))

\* JMS writes the return address where it jumps to; that may be location 0.
Jms ==
  \E offset \in Offsets :
    LET c == Jump(Fetched, (offset + 1) % FieldSize)
        overZero == Fetched.ib = 0 /\ offset = 0
    IN  /\ cpu' = [c EXCEPT !.slot0 = IF overZero THEN Fetched.pc.offset ELSE @]
        /\ resume' = IF overZero \/ Restoring(ResumeFetched) THEN NoContext ELSE ResumeFetched
        /\ released' = FALSE

\* HLT and OSR in user mode: a violation instead, after the skip, if any.  In
\* supervisor mode they touch nothing modelled here (the halt is SimLoop's).
HltOsr ==
  \E skip \in BOOLEAN :
    LET c == SkipIf(skip, Fetched)
    IN  Executes(IF c.uf THEN Insert(c, {"UF"}) ELSE c)

-----------------------------------------------------------------------------
(***************************************************************************)
(* IOTs.  In user mode each is a violation and does nothing else.          *)
(***************************************************************************)
\* Mutant: user mode is not looked at.
Supervisor_Always == TRUE

Supervisor == ~Fetched.uf

UserIot == ~Supervisor /\ Executes(Insert(Fetched, {"UF"}))

\* IOTs that change nothing modelled here, but may skip: SBE, SPL, CAL, SGT,
\* GTF, RDF, RIF, RIB, and the devices (execute_io of TTI and TTO is empty).
OtherIot == Supervisor /\ \E skip \in BOOLEAN : Executes(SkipIf(skip, Fetched))

Skon ==
  /\ Supervisor
  /\ Executes(Remove(SkipIf("ION" \in Fetched.int_req, Fetched), {"ION"}))

\* ION: from the instruction after the next.
Ion ==
  /\ Supervisor
  /\ Executes(Remove(Insert(Fetched, {"ION"}), {"NO_ION_PENDING"}))

Iof ==
  /\ Supervisor
  /\ Executes(Insert(Remove(Fetched, {"ION"}), {"NO_ION_PENDING"}))

Srq == Supervisor /\ Executes(SkipIf(Requested(Fetched), Fetched))

\* RTF loads the buffers from the accumulator, whatever is in it.
Rtf ==
  /\ Supervisor
  /\ \E ub \in BOOLEAN, ib \in Fields, df \in Fields :
       ExecutesAside([Remove(Insert(Fetched, {"ION"}), {"NO_CIF_PENDING"}) EXCEPT
                        !.ub = ub, !.ib = ib, !.df = df])

\* CAF replaces the whole of int_req.
Caf ==
  /\ Supervisor
  /\ cpu' = [Fetched EXCEPT !.int_req = {"NO_CIF_PENDING"}]
  /\ resume' = IF Restoring(ResumeFetched) THEN NoContext ELSE ResumeFetched
  /\ released' = (ReleasedFetched \/ "NO_CIF_PENDING" \notin Fetched.int_req)

Cdf ==
  /\ Supervisor
  /\ \E field \in Fields : ExecutesAside([Fetched EXCEPT !.df = field])

\* CIF, and CDF CIF.
Cif ==
  /\ Supervisor
  /\ \E field \in Fields, both \in BOOLEAN :
       ExecutesAside([Remove(Fetched, {"NO_CIF_PENDING"}) EXCEPT
                        !.ib = field, !.df = IF both THEN field ELSE @])

Cint == Supervisor /\ Executes(Remove(Fetched, {"UF"}))
Sint == Supervisor /\ Executes(SkipIf("UF" \in Fetched.int_req, Fetched))

\* CUF and SUF.
SetUserBuffer ==
  /\ Supervisor
  /\ \E ub \in BOOLEAN :
       ExecutesAside([Remove(Fetched, {"NO_CIF_PENDING"}) EXCEPT !.ub = ub])

Restored(c) ==
  [Remove(c, {"NO_CIF_PENDING"}) EXCEPT !.ub = c.sf.uf, !.ib = c.sf.field, !.df = c.sf.df]

Rmf ==
  /\ Supervisor
  /\ cpu' = Restored(Fetched)
  /\ resume' = IF ResumeFetched = NoContext THEN NoContext
               ELSE [ResumeFetched EXCEPT !.restored = TRUE]
  /\ released' = ReleasedFetched

-----------------------------------------------------------------------------
(***************************************************************************)
(* What the rest of the simulator does to the processor.                   *)
(***************************************************************************)
\* A device's service routine asks for an interrupt.
RaiseInterrupt(device) == cpu' = Insert(cpu, {device}) /\ UNCHANGED <<resume, released>>

\* cpu_reset leaves int_req alone.
ResetRegisters(c) ==
  [PowerOn([field |-> 0, offset |-> 0]) EXCEPT
     !.int_req = c.int_req, !.slot0 = c.slot0]

CpuReset ==
  /\ cpu' = ResetRegisters(cpu)
  /\ resume' = NoContext
  /\ released' = FALSE

\* DEPOSIT in one of the registers the CLI can see, DEPOSIT or LOAD in location 0.
Deposited(c) ==
  {[c EXCEPT !.pc = a] : a \in Address}
    \cup {[c EXCEPT !.ib = f] : f \in Fields} \cup {[c EXCEPT !.df = f] : f \in Fields}
    \cup {[c EXCEPT !.uf = b] : b \in BOOLEAN} \cup {[c EXCEPT !.ub = b] : b \in BOOLEAN}
    \cup {[c EXCEPT !.sf = s] : s \in SaveField}
    \cup {[c EXCEPT !.slot0 = o] : o \in Offsets}

Deposit ==
  /\ cpu' \in Deposited(cpu)
  /\ resume' = NoContext
  /\ released' = TRUE

Instruction ==
  \/ Compute \/ StoreZero \/ Jmp \/ JmpIndirectZero \/ Jms \/ HltOsr
  \/ UserIot \/ OtherIot \/ Skon \/ Ion \/ Iof \/ Srq \/ Rtf \/ Caf
  \/ Cdf \/ Cif \/ Cint \/ Sint \/ SetUserBuffer \/ Rmf

CpuNext ==
  \/ Instruction
  \/ \E device \in DeviceFlags : RaiseInterrupt(device)
  \/ CpuReset
  \/ Deposit

CpuSpec == CpuInit /\ [][CpuNext]_cpuVars

-----------------------------------------------------------------------------
(***************************************************************************)
(* Properties.                                                             *)
(***************************************************************************)
\* An interrupt saves the instruction field, not its buffer, and clears both:
\* it comes only when the two agree, or the jump after a CIF would go astray.
NothingLost ==
  ShouldInterrupt(cpu) /\ ~released => cpu.ib = cpu.pc.field /\ cpu.ub = cpu.uf

\* Between the RMF that restores an interrupted program and the jump back to
\* it no interrupt is taken, whatever else is done there.
ResumeIsAtomic == Restoring(resume) => ~ShouldInterrupt(cpu)

\* RMF and JMP I 0 give the interrupted program back its program counter, data
\* field and user mode, however long the interrupt was served, as long as
\* location 0 and the fields were left alone.
ResumeIsExact ==
  [][Restoring(resume) /\ JmpIndirectZero => ContextOf(cpu') = resume.of]_cpuVars

\* A program in user mode stays there until an interrupt, short of a reset, a
\* deposit or a hold undone: it has no way to change the buffer a jump commits.
UserModeSticks ==
  [][cpu.uf /\ ~cpu'.uf => ShouldInterrupt(cpu) \/ CpuReset \/ Deposit \/ released]_cpuVars

\* Devices see the interrupt-enable flag and their requests.  A request is
\* served any number of times and withdrawn by CAF alone.
Line == INSTANCE InterruptLine
  WITH Devices <- DeviceFlags, ion <- "ION" \in cpu.int_req,
       requests <- cpu.int_req \cap DeviceFlags
ImplementsLine == Line!LineSpec

-----------------------------------------------------------------------------
(***************************************************************************)
(* What the comments of the code promise and the code does not do.         *)
(***************************************************************************)
\* "Reset the CPU to its power-on state" (machine.rs, CPUTraits::cpu_reset): the
\* power-on state has interrupts off and none requested.
ResetIsPowerOn ==
  [][CpuReset => cpu'.int_req = PowerOn(cpu'.pc).int_req]_cpuVars
=============================================================================
