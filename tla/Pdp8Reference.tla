---------------------------- MODULE Pdp8Reference ----------------------------
(***************************************************************************)
(* The memory references of the PDP-8 (pdp-8, cpu.rs): how AND, TAD, ISZ,  *)
(* DCA, JMS, JMP and the EAE find their operands and targets among the     *)
(* memory fields, and what they store on the way.  The program is any      *)
(* program, so the instruction at the program counter is chosen when it is *)
(* executed, and so are the words DCA and DST store.  Interrupts and user  *)
(* mode are Pdp8Cpu's.                                                     *)
(***************************************************************************)
EXTENDS Integers, FiniteSets

CONSTANTS
  Fields,
  FieldSize,   \* words of a field, 010000 in the code; a word addresses a field
  PageSize,    \* words of a page, 0200 in the code
  AutoIndex,   \* offsets of the autoindex registers, 010 to 017 in the code
  Stored,      \* bound: words that DCA and DST store
  Used,        \* bound: offsets that may hold something else than 0
  MaxUsed,     \* bound: words that do
  NoCall

ASSUME ReferenceAssumption ==
  /\ 0 \in Fields
  /\ PageSize \in Nat \ {0} /\ FieldSize \in Nat \ {0} /\ FieldSize % PageSize = 0
  /\ AutoIndex \subseteq 0 .. FieldSize - 1 /\ Stored \subseteq 0 .. FieldSize - 1

Contents  == 0 .. FieldSize - 1
Locations == [field : Fields, offset : Contents]

ASSUME CallAssumption == NoCall \notin [entry : Locations, back : Locations]

Place(field, offset) == [field |-> field, offset |-> offset]

\* What an instruction says of its operand: its page bit, its offset, its I.
Operand == [current : BOOLEAN, offset : 0 .. PageSize - 1, indirect : BOOLEAN]

VARIABLES
  memory, pc, df, ib,
  called   \* history: where a JMS left its return address, and where from

referenceVars == <<memory, pc, df, ib, called>>

\* Mutant: the sum is not masked, it carries into the field.
NextPlace_Carries(a) ==
  Place((a.field + (a.offset + 1) \div FieldSize) % Cardinality(Fields), (a.offset + 1) % FieldSize)

\* bump_pc: the address wraps within its field.
NextPlace(a) == Place(a.field, (a.offset + 1) % FieldSize)

\* The program counter while the instruction is executed.
Fetched == NextPlace(pc)

Direct(i) ==
  Place(Fetched.field,
     (IF i.current THEN PageSize * (Fetched.offset \div PageSize) ELSE 0) + i.offset)

\* What an indirect reference goes by: an autoindex register is incremented first ...
Pointer(i) ==
  (memory[Direct(i)] + (IF Direct(i).offset \in AutoIndex THEN 1 ELSE 0)) % FieldSize

\* ... and keeps the new value.
Indexed(i) ==
  IF i.indirect /\ Direct(i).offset \in AutoIndex
  THEN [memory EXCEPT ![Direct(i)] = (@ + 1) % FieldSize] ELSE memory

\* calc_ea_memref: pointers lie in the instruction field, what they point to in
\* the data field.
EffectiveAddress(i) == IF i.indirect THEN Place(df, Pointer(i)) ELSE Direct(i)

\* calc_ea_jmpjms: targets lie in the instruction field to come.
Target(i) == Place(ib, IF i.indirect THEN Pointer(i) ELSE Direct(i).offset)

\* The return address is forgotten once its location is stored to.
Stores(mem) ==
  /\ memory' = mem
  /\ called' = IF called # NoCall /\ mem[called.entry] # memory[called.entry] THEN NoCall
               ELSE called

Advances(next) == pc' = next /\ UNCHANGED <<df, ib>>

\* AND and TAD.
Load(i) == Stores(Indexed(i)) /\ Advances(Fetched)

\* The sum is formed from what the location holds after the indexing.
Isz(i) ==
  LET sum == (Indexed(i)[EffectiveAddress(i)] + 1) % FieldSize
  IN  /\ Stores([Indexed(i) EXCEPT ![EffectiveAddress(i)] = sum])
      /\ Advances(IF sum = 0 THEN NextPlace(Fetched) ELSE Fetched)

Dca(i, value) ==
  /\ Stores([Indexed(i) EXCEPT ![EffectiveAddress(i)] = value])
  /\ Advances(Fetched)

\* Mutant: the return address is stored in the caller's field.
Jms_StoresAtHome(i) ==
  /\ memory' = [Indexed(i) EXCEPT ![Place(Fetched.field, Target(i).offset)] = Fetched.offset]
  /\ pc' = NextPlace(Target(i))
  /\ called' = [entry |-> Target(i), back |-> Fetched]
  /\ UNCHANGED <<df, ib>>

Jms(i) ==
  /\ memory' = [Indexed(i) EXCEPT ![Target(i)] = Fetched.offset]
  /\ pc' = NextPlace(Target(i))
  /\ called' = [entry |-> Target(i), back |-> Fetched]
  /\ UNCHANGED <<df, ib>>

Jmp(i) == Stores(Indexed(i)) /\ pc' = Target(i) /\ UNCHANGED <<df, ib>>

\* The EAE in mode B: the word after the instruction points into the data field,
\* and an autoindex register it points to is incremented.
EaePlace == Place(df, memory[Fetched])
EaeIndexed ==
  IF EaePlace.offset \in AutoIndex
  THEN [memory EXCEPT ![EaePlace] = (@ + 1) % FieldSize] ELSE memory

\* MUY, DVI and DAD.
EaeLoad == Stores(EaeIndexed) /\ Advances(NextPlace(Fetched))

\* DST goes by what the autoindex register now holds, and wraps in the field.
Dst(low, high) ==
  LET place == IF EaePlace.offset \in AutoIndex THEN Place(df, EaeIndexed[EaePlace]) ELSE EaePlace
  IN  /\ Stores([EaeIndexed EXCEPT ![place] = low, ![NextPlace(place)] = high])
      /\ Advances(NextPlace(Fetched))

\* Operates, IOTs but those below, and the EAE in mode A store nothing; they may
\* pass over a word.
Pass == Stores(memory) /\ (Advances(Fetched) \/ Advances(NextPlace(Fetched)))

\* CDF and CIF; RTF and RMF set both from elsewhere.
SetFields ==
  /\ pc' = Fetched
  /\ df' \in Fields /\ ib' \in Fields
  /\ UNCHANGED <<memory, called>>

ReferenceInit ==
  /\ memory = [a \in Locations |-> 0]
  /\ pc = Place(0, 0) /\ df = 0 /\ ib = 0
  /\ called = NoCall

\* Only the bounds on what is stored are not the code's.
ReferenceNext ==
  /\ \/ \E i \in Operand :
          Load(i) \/ Isz(i) \/ Jms(i) \/ Jmp(i) \/ \E value \in Stored : Dca(i, value)
     \/ EaeLoad \/ Pass \/ SetFields
     \/ \E low, high \in Stored : Dst(low, high)
  /\ LET used == {a \in Locations : memory'[a] # 0}
     IN  (\A a \in used : a.offset \in Used) /\ Cardinality(used) <= MaxUsed

-----------------------------------------------------------------------------
\* A subroutine returns to its caller: a JMP I through the location that a JMS
\* left its return address in goes to the word after the JMS, in the field that
\* CIF has asked for, whatever fields the caller and the routine are in and
\* wherever in them; one word further if that location is an autoindex register
\* (cpu.rs:284-315, 418-476).
ReturnsToCaller ==
  [][\A i \in Operand :
       called # NoCall /\ i.indirect /\ Direct(i) = called.entry /\ Jmp(i) =>
         pc' = Place(ib, IF called.entry.offset \in AutoIndex THEN NextPlace(called.back).offset
                      ELSE called.back.offset)]_referenceVars

\* A program whose fields are all its own neither stores to another field nor
\* runs into one, also at the last word of the field and with a pointer that
\* wraps (cpu.rs:222, 259-315, 1243-1294).
StaysInItsField ==
  [][pc.field = df /\ pc.field = ib =>
       /\ pc'.field = pc.field
       /\ \A a \in Locations : a.field # pc.field => memory'[a] = memory[a]]_referenceVars
=============================================================================
