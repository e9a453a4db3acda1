--------------------------- MODULE Pdp8MemoryProofs -------------------------
(***************************************************************************)
(* What fills, shows and uses the PDP-8's memory: the words the processor  *)
(* reaches, what the assembler writes, what the loaders store.             *)
(*                                                                         *)
(* Memory references are proved for a memory of any size: any number of    *)
(* fields, any page size that divides the field's, any choice of the       *)
(* places that are indexed.  ReferenceInvariant says what the two action   *)
(* properties of run Memory need of a state: the machine's registers are   *)
(* in range, and a call's return address is still where JMS left it.       *)
(* The second part proves the assembler and the disassembler to agree with *)
(* the processor on every memory reference at every address, and with each *)
(* other on every IOT.  The third proves that the loaders, whatever is on  *)
(* the tape, store words of twelve bits in the 32K memory.                 *)
(***************************************************************************)
EXTENDS Pdp8Reference, Pdp8Symbolic, Pdp8Tape, SequenceTheorems, TLAPS

\* The registers are in range.  A call is remembered or it is not.
ReferenceTypeOK ==
  /\ memory \in [Locations -> Contents]
  /\ pc \in Locations
  /\ df \in Fields /\ ib \in Fields
  /\ called \in [entry : Locations, back : Locations] \cup {NoCall}

\* As long as a call is remembered, its return address is where JMS left it.
ReturnIsKept == called # NoCall => memory[called.entry] = called.back.offset

ReferenceInvariant == ReferenceTypeOK /\ ReturnIsKept

\* Division with remainder, as the provers know it.
LEMMA RemainderFacts ==
  ASSUME NEW a \in Int, NEW b \in Nat \ {0}
  PROVE  a % b \in 0 .. b - 1 /\ a = b * (a \div b) + (a % b) /\ a \div b \in Int
  BY SMT

\* A number below the divisor is its own remainder.
LEMMA SmallRemainder ==
  ASSUME NEW b \in Nat \ {0}, NEW a \in 0 .. b - 1
  PROVE  a % b = a
  BY SMT

\* Multiples of a number are at least that number apart.
LEMMA ProductIsMonotone ==
  ASSUME NEW a \in Int, NEW b \in Int, NEW c \in Nat \ {0}, c * a < c * b
  PROVE  c * a + c <= c * b
<1>1. a < b
  BY SMT
<1>2. c * (a + 1) <= c * b
  BY <1>1, SMT
<1> QED
  BY <1>2, SMT

\* A page lies within its field.
LEMMA PageIsInField ==
  ASSUME NEW o \in Contents, NEW i \in 0 .. PageSize - 1
  PROVE  /\ PageSize * (o \div PageSize) + i \in Contents
         /\ i \in Contents
<1> DEFINE n == o \div PageSize
           q == FieldSize \div PageSize
<1>1. n \in Int /\ q \in Int /\ o \in Nat /\ PageSize \in Nat \ {0} /\ FieldSize \in Nat \ {0}
  BY ReferenceAssumption, RemainderFacts DEF Contents
<1>2. o = PageSize * n + (o % PageSize) /\ o % PageSize \in 0 .. PageSize - 1
  BY <1>1, RemainderFacts
<1>3. FieldSize = PageSize * q
  BY <1>1, ReferenceAssumption, RemainderFacts
<1>4. PageSize * n \in Int /\ PageSize * n < PageSize * q
  BY <1>1, <1>2, <1>3, SMT DEF Contents
<1>5. PageSize * n + PageSize <= FieldSize
  BY <1>1, <1>3, <1>4, ProductIsMonotone
<1>6. PageSize * n >= 0
  <2>1. n >= 0
    BY <1>1, <1>2, SMT
  <2> QED
    BY <2>1, <1>1, SMT
<1> HIDE DEF n, q
<1> QED
  BY <1>1, <1>4, <1>5, <1>6, SMT DEF Contents, n

\* An offset, indexed or not, wraps within the field.
LEMMA OffsetsWrap ==
  ASSUME NEW n \in Contents
  PROVE  n % FieldSize \in Contents /\ (n + 0) % FieldSize \in Contents
         /\ (n + 1) % FieldSize \in Contents
  BY ReferenceAssumption, RemainderFacts DEF Contents

\* Where an instruction looks and what it finds there.
LEMMA EffectiveAddresses ==
  ASSUME ReferenceTypeOK, NEW i \in Operand
  PROVE  /\ Fetched \in Locations /\ Fetched.field = pc.field
         /\ NextPlace(Fetched) \in Locations /\ NextPlace(Fetched).field = pc.field
         /\ Direct(i) \in Locations /\ Direct(i).field = pc.field
         /\ Pointer(i) \in Contents
         /\ Indexed(i) \in [Locations -> Contents]
         /\ EffectiveAddress(i) \in Locations
         /\ EffectiveAddress(i).field \in {pc.field, df}
         /\ Target(i) \in Locations /\ Target(i).field = ib
         /\ \A a \in Locations : a.field # pc.field => Indexed(i)[a] = memory[a]
<1>1. FieldSize \in Nat \ {0} /\ 0 \in Contents
  BY ReferenceAssumption, SMT DEF Contents
<1>2. ASSUME NEW a \in Locations
      PROVE  NextPlace(a) \in Locations /\ NextPlace(a).field = a.field
  <2>1. (a.offset + 1) % FieldSize \in Contents
    BY <1>2, OffsetsWrap DEF Locations
  <2> QED
    BY <2>1, <1>2 DEF NextPlace, Place, Locations
<1>3. Fetched \in Locations /\ Fetched.field = pc.field
  BY <1>2 DEF Fetched, ReferenceTypeOK
<1>4. NextPlace(Fetched) \in Locations /\ NextPlace(Fetched).field = pc.field
  BY <1>2, <1>3
<1>5. Direct(i) \in Locations /\ Direct(i).field = pc.field
  <2>1. Fetched.offset \in Contents /\ i.offset \in 0 .. PageSize - 1
    BY <1>3 DEF Locations, Operand
  <2>2. /\ PageSize * (Fetched.offset \div PageSize) + i.offset \in Contents
        /\ i.offset \in Contents /\ i.offset \in Int
    BY <2>1, PageIsInField DEF Contents
  <2>3. 0 + i.offset = i.offset
    BY <2>2, SMT
  <2> QED
    BY <1>3, <2>2, <2>3 DEF Direct, Place, Locations
<1>6. memory[Direct(i)] \in Contents
  BY <1>5 DEF ReferenceTypeOK
<1>7. Pointer(i) \in Contents
  BY <1>6, OffsetsWrap DEF Pointer
<1>8. /\ Indexed(i) \in [Locations -> Contents]
      /\ \A a \in Locations : a.field # pc.field => Indexed(i)[a] = memory[a]
  BY <1>5, <1>6, OffsetsWrap DEF Indexed, ReferenceTypeOK
<1>9. EffectiveAddress(i) \in Locations /\ EffectiveAddress(i).field \in {pc.field, df}
  BY <1>5, <1>7 DEF EffectiveAddress, ReferenceTypeOK, Place, Locations
<1>10. Target(i) \in Locations /\ Target(i).field = ib
  BY <1>5, <1>7 DEF Target, ReferenceTypeOK, Place, Locations
<1> QED
  BY <1>3, <1>4, <1>5, <1>7, <1>8, <1>9, <1>10

\* The words after the instruction are in its field.
LEMMA Successors ==
  ASSUME ReferenceTypeOK
  PROVE  /\ Fetched \in Locations /\ Fetched.field = pc.field
         /\ NextPlace(Fetched) \in Locations /\ NextPlace(Fetched).field = pc.field
<1>1. ASSUME NEW a \in Locations
      PROVE  NextPlace(a) \in Locations /\ NextPlace(a).field = a.field
  <2>1. (a.offset + 1) % FieldSize \in Contents
    BY <1>1, OffsetsWrap DEF Locations
  <2> QED
    BY <2>1, <1>1 DEF NextPlace, Place, Locations
<1> QED
  BY <1>1 DEF Fetched, ReferenceTypeOK

\* The EAE's operand lies in the data field, and so does what it changes.
LEMMA EaeAddresses ==
  ASSUME ReferenceTypeOK
  PROVE  /\ EaePlace \in Locations /\ EaePlace.field = df
         /\ EaeIndexed \in [Locations -> Contents]
         /\ \A a \in Locations : a.field # df => EaeIndexed[a] = memory[a]
<1>1. FieldSize \in Nat \ {0}
  BY ReferenceAssumption
<1>2. Fetched \in Locations
  <2>1. (pc.offset + 1) % FieldSize \in Contents
    BY OffsetsWrap DEF Locations, ReferenceTypeOK
  <2> QED
    BY <2>1 DEF Fetched, NextPlace, Place, Locations, ReferenceTypeOK
<1>3. EaePlace \in Locations /\ EaePlace.field = df
  BY <1>2 DEF EaePlace, ReferenceTypeOK, Place, Locations
<1>4. (memory[EaePlace] + 1) % FieldSize \in Contents
  BY <1>3, OffsetsWrap DEF ReferenceTypeOK
<1> QED
  BY <1>3, <1>4 DEF EaeIndexed, ReferenceTypeOK

\* A store keeps the types; one over the return address ends the call.
LEMMA StoresKeep ==
  ASSUME ReferenceInvariant, NEW mem \in [Locations -> Contents], Stores(mem)
  PROVE  /\ memory' \in [Locations -> Contents]
         /\ called' \in [entry : Locations, back : Locations] \cup {NoCall}
         /\ ReturnIsKept'
  BY CallAssumption DEF ReferenceInvariant, ReferenceTypeOK, ReturnIsKept, Stores

\* Going on at the next word keeps the registers in range.
LEMMA AdvancesKeeps ==
  ASSUME ReferenceTypeOK, NEW next \in Locations, Advances(next)
  PROVE  pc' \in Locations /\ df' \in Fields /\ ib' \in Fields
  BY DEF ReferenceTypeOK, Advances

\* An empty memory with every register at 0 satisfies the invariant.
LEMMA ReferenceInitHolds == ReferenceInit => ReferenceInvariant
<1> SUFFICES ASSUME ReferenceInit PROVE ReferenceInvariant
  OBVIOUS
<1>1. 0 \in Contents
  BY ReferenceAssumption, SMT DEF Contents
<1> QED
  BY <1>1, ReferenceAssumption DEF ReferenceInit, ReferenceInvariant, ReferenceTypeOK,
     ReturnIsKept, Place, Locations

\* What each instruction does to the memory of fields that are not its own, and
\* where it goes on.
Confined ==
  pc.field = df /\ pc.field = ib =>
    /\ pc'.field = pc.field
    /\ \A a \in Locations : a.field # pc.field => memory'[a] = memory[a]

\* ISZ writes back what it incremented, and may skip a word.
LEMMA IszKeeps ==
  ASSUME ReferenceInvariant, NEW i \in Operand, Isz(i)
  PROVE  ReferenceInvariant' /\ Confined
<1> DEFINE sum == (Indexed(i)[EffectiveAddress(i)] + 1) % FieldSize
           mem == [Indexed(i) EXCEPT ![EffectiveAddress(i)] = sum]
           next == IF sum = 0 THEN NextPlace(Fetched) ELSE Fetched
<1>1. ReferenceTypeOK
  BY DEF ReferenceInvariant
<1>2. sum \in Contents
  BY <1>1, EffectiveAddresses, OffsetsWrap
<1>3. /\ mem \in [Locations -> Contents]
      /\ pc.field = df => \A a \in Locations : a.field # pc.field => mem[a] = memory[a]
  BY <1>1, <1>2, EffectiveAddresses
<1>4. next \in Locations /\ next.field = pc.field
  BY <1>1, EffectiveAddresses
<1>5. Stores(mem) /\ Advances(next)
  BY DEF Isz
<1> HIDE DEF sum, mem, next
<1> QED
  BY <1>1, <1>3, <1>4, <1>5, StoresKeep, AdvancesKeeps
     DEF ReferenceInvariant, ReferenceTypeOK, Confined, Stores, Advances

\* DCA stores the accumulator.
LEMMA DcaKeeps ==
  ASSUME ReferenceInvariant, NEW i \in Operand, NEW value \in Stored, Dca(i, value)
  PROVE  ReferenceInvariant' /\ Confined
<1> DEFINE mem == [Indexed(i) EXCEPT ![EffectiveAddress(i)] = value]
<1>1. ReferenceTypeOK
  BY DEF ReferenceInvariant
<1>2. value \in Contents
  BY ReferenceAssumption DEF Contents
<1>3. /\ mem \in [Locations -> Contents]
      /\ pc.field = df => \A a \in Locations : a.field # pc.field => mem[a] = memory[a]
  BY <1>1, <1>2, EffectiveAddresses
<1>4. Stores(mem) /\ Advances(Fetched)
  BY DEF Dca
<1> HIDE DEF mem
<1> QED
  BY <1>1, <1>3, <1>4, EffectiveAddresses, StoresKeep, AdvancesKeeps
     DEF ReferenceInvariant, ReferenceTypeOK, Confined, Stores, Advances

\* JMS stores the return address at its target, and is then remembered.
LEMMA JmsKeeps ==
  ASSUME ReferenceInvariant, NEW i \in Operand, Jms(i)
  PROVE  ReferenceInvariant' /\ Confined
<1>1. ReferenceTypeOK
  BY DEF ReferenceInvariant
<1>2. /\ Fetched \in Locations /\ Target(i) \in Locations /\ Target(i).field = ib
      /\ Indexed(i) \in [Locations -> Contents]
      /\ \A a \in Locations : a.field # pc.field => Indexed(i)[a] = memory[a]
  BY <1>1, EffectiveAddresses
<1>3. NextPlace(Target(i)) \in Locations /\ NextPlace(Target(i)).field = ib
  <2>1. (Target(i).offset + 1) % FieldSize \in Contents
    BY <1>2, OffsetsWrap DEF Locations
  <2> QED
    BY <2>1, <1>2 DEF NextPlace, Place, Locations
<1>4. Fetched.offset \in Contents
  BY <1>2 DEF Locations
<1>5. memory' = [Indexed(i) EXCEPT ![Target(i)] = Fetched.offset]
      /\ pc' = NextPlace(Target(i))
      /\ called' = [entry |-> Target(i), back |-> Fetched]
      /\ df' = df /\ ib' = ib
  BY DEF Jms
<1>6. ReferenceTypeOK'
  BY <1>1, <1>2, <1>3, <1>4, <1>5 DEF ReferenceTypeOK
<1>7. ReturnIsKept'
  BY <1>2, <1>5 DEF ReturnIsKept
<1>8. Confined
  BY <1>2, <1>3, <1>5 DEF Confined
<1> QED
  BY <1>6, <1>7, <1>8 DEF ReferenceInvariant

\* DST stores two words in the data field.
LEMMA DstKeeps ==
  ASSUME ReferenceInvariant, NEW low \in Stored, NEW high \in Stored, Dst(low, high)
  PROVE  ReferenceInvariant' /\ Confined
<1> DEFINE place == IF EaePlace.offset \in AutoIndex THEN Place(df, EaeIndexed[EaePlace]) ELSE EaePlace
           mem == [EaeIndexed EXCEPT ![place] = low, ![NextPlace(place)] = high]
<1>1. ReferenceTypeOK
  BY DEF ReferenceInvariant
<1>2. place \in Locations /\ place.field = df
  BY <1>1, EaeAddresses DEF ReferenceTypeOK, Place, Locations
<1>3. NextPlace(place) \in Locations /\ NextPlace(place).field = df
  <2> HIDE DEF place
  <2>1. (place.offset + 1) % FieldSize \in Contents
    BY <1>2, OffsetsWrap DEF Locations
  <2> QED
    BY <2>1, <1>2 DEF NextPlace, Place, Locations
<1>4. low \in Contents /\ high \in Contents
  BY ReferenceAssumption DEF Contents
<1>5. Stores(mem) /\ Advances(NextPlace(Fetched))
  BY DEF Dst
<1>6. /\ mem \in [Locations -> Contents]
      /\ pc.field = df => \A a \in Locations : a.field # pc.field => mem[a] = memory[a]
  <2> HIDE DEF place
  <2> QED
    BY <1>1, <1>2, <1>3, <1>4, EaeAddresses
<1>7. NextPlace(Fetched) \in Locations /\ NextPlace(Fetched).field = pc.field
  BY <1>1, Successors
<1> HIDE DEF mem
<1> QED
  BY <1>1, <1>5, <1>6, <1>7, StoresKeep, AdvancesKeeps
     DEF ReferenceInvariant, ReferenceTypeOK, Confined, Stores, Advances

\* Every instruction keeps the invariant and keeps to its field.
LEMMA ReferenceStepKeeps ==
  ASSUME ReferenceInvariant, [ReferenceNext]_referenceVars
  PROVE  ReferenceInvariant' /\ (Confined \/ UNCHANGED referenceVars)
<1> USE DEF ReferenceInvariant
<1>1. ASSUME NEW i \in Operand, Load(i) PROVE ReferenceInvariant' /\ Confined
  BY <1>1, EffectiveAddresses, StoresKeep, AdvancesKeeps
     DEF Load, ReferenceTypeOK, Confined, Stores, Advances
<1>2. ASSUME NEW i \in Operand, Jmp(i) PROVE ReferenceInvariant' /\ Confined
  BY <1>2, EffectiveAddresses, StoresKeep DEF Jmp, ReferenceTypeOK, Confined, Stores
<1>3. ASSUME EaeLoad PROVE ReferenceInvariant' /\ Confined
  BY <1>3, Successors, EaeAddresses, StoresKeep, AdvancesKeeps
     DEF EaeLoad, ReferenceTypeOK, Confined, Stores, Advances
<1>4. ASSUME Pass PROVE ReferenceInvariant' /\ Confined
  <2>1. memory \in [Locations -> Contents]
    BY DEF ReferenceTypeOK
  <2> QED
    BY <1>4, <2>1, Successors, StoresKeep, AdvancesKeeps
       DEF Pass, ReferenceTypeOK, Confined, Stores, Advances
<1>5. ASSUME SetFields PROVE ReferenceInvariant' /\ Confined
  BY <1>5, Successors DEF SetFields, ReferenceTypeOK, ReturnIsKept, Confined
<1>6. CASE UNCHANGED referenceVars
  BY <1>6 DEF referenceVars, ReferenceTypeOK, ReturnIsKept
<1>7. CASE ReferenceNext
  BY <1>7, <1>1, <1>2, <1>3, <1>4, <1>5, IszKeeps, DcaKeeps, JmsKeeps, DstKeeps DEF ReferenceNext
<1> QED
  BY <1>6, <1>7

\* The memory reference instructions, in any order.
ReferenceSpec == ReferenceInit /\ [][ReferenceNext]_referenceVars

\* Every address an instruction forms is in memory, and the return address of
\* the last call stays where JMS stored it until something is stored over it.
THEOREM ReferencesAreSound == ReferenceSpec => []ReferenceInvariant
<1>1. ReferenceInvariant /\ [ReferenceNext]_referenceVars => ReferenceInvariant'
  BY ReferenceStepKeeps
<1> QED
  BY <1>1, ReferenceInitHolds, PTL DEF ReferenceSpec

\* What is found at the entry of a subroutine is the return address.
LEMMA ReturnIsRight ==
  ASSUME ReferenceInvariant, NEW i \in Operand,
         called # NoCall, i.indirect, Direct(i) = called.entry, Jmp(i)
  PROVE  pc' = Place(ib, IF called.entry.offset \in AutoIndex THEN NextPlace(called.back).offset
                         ELSE called.back.offset)
<1>1. called.back \in Locations /\ memory[called.entry] = called.back.offset
  BY DEF ReferenceInvariant, ReferenceTypeOK, ReturnIsKept
<1>2. called.back.offset \in 0 .. FieldSize - 1 /\ FieldSize \in Nat \ {0}
  BY <1>1, ReferenceAssumption DEF Locations, Contents
<1>3. (called.back.offset + 0) % FieldSize = called.back.offset
  BY <1>2, SmallRemainder, SMT
<1>4. Pointer(i) = IF called.entry.offset \in AutoIndex THEN NextPlace(called.back).offset
                   ELSE called.back.offset
  BY <1>1, <1>3 DEF Pointer, NextPlace, Place
<1> QED
  BY <1>4 DEF Jmp, Target

\* Control comes back after JMS: an indirect jump through the entry of the
\* subroutine goes to the word after the call, in whatever field it was
\* (cpu.rs, JMS and JMP).  At an indexed place it goes one word too far.
THEOREM CallsReturn == ReferenceSpec => ReturnsToCaller
<1>1. ReferenceInvariant /\ [ReferenceNext]_referenceVars =>
        [\A i \in Operand :
           called # NoCall /\ i.indirect /\ Direct(i) = called.entry /\ Jmp(i) =>
             pc' = Place(ib, IF called.entry.offset \in AutoIndex THEN NextPlace(called.back).offset
                             ELSE called.back.offset)]_referenceVars
  BY ReturnIsRight
<1> QED
  BY <1>1, ReferencesAreSound, PTL DEF ReferenceSpec, ReturnsToCaller

\* A program whose fields are all the same neither leaves its field nor changes
\* a word of another: offsets wrap within the field.
THEOREM FieldsAreKept == ReferenceSpec => StaysInItsField
<1>1. ReferenceInvariant /\ [ReferenceNext]_referenceVars =>
        [pc.field = df /\ pc.field = ib =>
           /\ pc'.field = pc.field
           /\ \A a \in Locations : a.field # pc.field => memory'[a] = memory[a]]_referenceVars
  BY ReferenceStepKeeps DEF Confined
<1> QED
  BY <1>1, ReferencesAreSound, PTL DEF ReferenceSpec, StaysInItsField
-----------------------------------------------------------------------------
(***************************************************************************)
(* The assembler and the disassembler.                                     *)
(***************************************************************************)
\* What is shown of a cell is what it holds.
SymbolicInvariant ==
  /\ word \in Nat /\ address \in Addresses /\ emode \in 0 .. 1
  /\ text # NoText => text = Disassemble(address, word, emode)

\* The bits that say how a memory reference finds its operand.
LEMMA BitFacts ==
  ASSUME NEW w \in Nat
  PROVE  /\ 7 \in Bits(w) <=> (w \div 128) % 2 = 1
         /\ 8 \in Bits(w) <=> (w \div 256) % 2 = 1
<1>1. 2^7 = 128 /\ 2^8 = 256
  BY SMT
<1> QED
  BY <1>1 DEF Bits

\* The constants' numbers.
LEMMA NumberFacts == Words \subseteq Nat /\ Addresses \subseteq Nat
<1>1. 2^12 \in Nat /\ 2^15 \in Nat
  BY SMT
<1>2. \A a \in Int : 0 .. a \subseteq Nat
  OBVIOUS
<1>3. 2^12 - 1 \in Int /\ 2^15 - 1 \in Int
  BY <1>1
<1> QED
  BY <1>2, <1>3, SymbolicAssumption, Zenon

LEMMA CellFacts == SymbolicInvariant => word \in Nat /\ address \in Nat
  BY NumberFacts DEF SymbolicInvariant

\* Bits are a number.
LEMMA NumberIsNat == ASSUME NEW b PROVE Number(b) \in Nat
<1>1. /\ 2^0 \in Nat /\ 2^1 \in Nat /\ 2^2 \in Nat /\ 2^3 \in Nat /\ 2^4 \in Nat
      /\ 2^5 \in Nat /\ 2^6 \in Nat /\ 2^7 \in Nat /\ 2^8 \in Nat /\ 2^9 \in Nat
      /\ 2^10 \in Nat /\ 2^11 \in Nat /\ 2^12 \in Nat
  BY SMT
<1> QED
  BY <1>1 DEF Number

\* An address has its field, its page and its place on the page; a word that
\* refers to memory has its opcode, its two bits and the place.
LEMMA AddressParts ==
  ASSUME NEW at \in Nat
  PROVE  \E p \in Nat, o \in Nat :
           /\ p < 32 /\ o < 128
           /\ \E f \in Nat : at = 4096 * f + 128 * p + o
           /\ at % 128 = o /\ at % 4096 = 128 * p + o /\ Page(at) = 128 * p
<1> DEFINE f == at \div 4096
           r == at % 4096
           p == r \div 128
           o == r % 128
<1>1. f \in Nat /\ r \in Nat /\ r < 4096 /\ at = 4096 * f + r /\ at % 4096 = r
  OBVIOUS
<1> HIDE DEF f, r
<1>2. p \in Nat /\ p < 32 /\ o \in Nat /\ o < 128 /\ r = 128 * p + o
  BY <1>1
<1> HIDE DEF p, o
<1>3. at % 128 = o
  BY <1>1, <1>2
<1>4. Page(at) = 128 * p
  BY <1>1, <1>2, <1>3 DEF Page
<1> QED
  BY <1>1, <1>2, <1>3, <1>4

LEMMA WordParts ==
  ASSUME NEW w \in Nat, w < 3072
  PROVE  \E op \in 0 .. 5, i \in 0 .. 1, z \in 0 .. 1, o \in Nat :
           /\ o < 128
           /\ w = 512 * op + 256 * i + 128 * z + o
           /\ w \div 512 = op /\ w % 128 = o
           /\ 8 \in Bits(w) <=> i = 1
           /\ 7 \in Bits(w) <=> z = 1
<1> DEFINE op == w \div 512
           i == (w \div 256) % 2
           z == (w \div 128) % 2
           o == w % 128
<1>1. (8 \in Bits(w) <=> i = 1) /\ (7 \in Bits(w) <=> z = 1)
  BY BitFacts
<1> HIDE DEF op, i, z, o
<1>2. op \in 0 .. 5 /\ i \in 0 .. 1 /\ z \in 0 .. 1 /\ o \in Nat /\ o < 128
  BY DEF op, i, z, o
<1>3. w = 128 * (w \div 128) + o
  BY DEF o
<1>4. w \div 128 = 2 * (w \div 256) + z
  BY DEF z
<1>5. w \div 256 = 2 * op + i
  BY DEF op, i
<1>6. w = 512 * op + 256 * i + 128 * z + o
  BY <1>2, <1>3, <1>4, <1>5
<1> QED
  BY <1>1, <1>2, <1>6 DEF op, o

\* The names of memory references are of nothing else.
LEMMA MrfNames ==
  ASSUME NEW k \in 1 .. 6
  PROVE  /\ \A e \in Npn \cup EncodeOnly : e[1] # Mrf[k]
         /\ \A n \in DOMAIN Fld : Fld[n][1][1] # Mrf[k]
         /\ \A j \in DOMAIN Mrf : Mrf[j] = Mrf[k] <=> j = k
         /\ k \in DOMAIN Mrf
<1>1. /\ Mrf[1] = "AND" /\ Mrf[2] = "TAD" /\ Mrf[3] = "ISZ"
      /\ Mrf[4] = "DCA" /\ Mrf[5] = "JMS" /\ Mrf[6] = "JMP"
  BY DEF Mrf
<1>2. Mrf[k] \in {"AND", "TAD", "ISZ", "DCA", "JMS", "JMP"}
  <2>1. k \in {1, 2, 3, 4, 5, 6}
    OBVIOUS
  <2> QED
    BY <1>1, <2>1
<1>3. \A e \in Npn : e[1] \notin {"AND", "TAD", "ISZ", "DCA", "JMS", "JMP"}
  BY DEF Npn
<1>4. \A e \in EncodeOnly : e[1] \notin {"AND", "TAD", "ISZ", "DCA", "JMS", "JMP"}
  BY DEF EncodeOnly
<1>5. \A n \in DOMAIN Fld : Fld[n][1][1] \in {"CDF", "CIF"}
  BY DEF Fld
<1>6. \A j \in DOMAIN Mrf : Mrf[j] = Mrf[k] <=> j = k
  BY DEF Mrf
<1>7. k \in DOMAIN Mrf
  BY DEF Mrf
<1> QED
  BY <1>2, <1>3, <1>4, <1>5, <1>6, <1>7

\* A memory reference that is typed goes to encode_mrf.
LEMMA MrfIsTyped ==
  ASSUME NEW at, NEW k \in 1 .. 6, NEW indirect, NEW operand, operand # NoOperand
  PROVE  Assemble(at, Text(<<Mrf[k]>>, indirect, operand)) = EncodeMrf(k - 1, at, operand, indirect)
<1> DEFINE t == Text(<<Mrf[k]>>, indirect, operand)
<1>1. t.names[1] = Mrf[k] /\ t.operand = operand /\ t.indirect = indirect
  BY DEF Text
<1> HIDE DEF t
<1>2. {e \in Npn \cup EncodeOnly : e[1] = t.names[1]} = {}
  BY <1>1, MrfNames
<1>3. {i \in DOMAIN Fld : Fld[i][1][1] = t.names[1]} = {}
  BY <1>1, MrfNames
<1>4. {i \in DOMAIN Mrf : Mrf[i] = t.names[1]} = {k}
  BY <1>1, MrfNames
<1>5. t.names[1] # "IOT"
  BY <1>1 DEF Mrf
<1>6. (CHOOSE i \in {k} : TRUE) = k
  OBVIOUS
<1>7. Assemble(at, t) = EncodeMrf((CHOOSE i \in {k} : TRUE) - 1, at, t.operand, t.indirect)
  BY <1>1, <1>2, <1>3, <1>4, <1>5 DEF Assemble
<1> QED
  BY <1>1, <1>6, <1>7 DEF t

-----------------------------------------------------------------------------
\* What is printed has a number, or none, for its operand.
LEMMA OperandFacts ==
  ASSUME SymbolicInvariant, text # NoText
  PROVE  text.operand \in Nat \cup {NoOperand}
<1>1. address \in Nat /\ word \in Nat
  BY CellFacts
<1>2. DirectAddress(address, word) \in Nat
  <2>1. Page(address) \in Nat
    BY <1>1, AddressParts
  <2>2. word % 128 \in Nat
    BY <1>1
  <2> QED
    BY <2>1, <2>2 DEF DirectAddress
<1>3. CASE word < 3072
  BY <1>2, <1>3 DEF SymbolicInvariant, Disassemble, DisassembleMrf, Text
<1>4. CASE word >= 3072 /\ word < 3584
  <2> DEFINE named == {Plain(<<e[1]>>) : e \in {x \in Npn : x[2] = word}}
                      \cup {Plain(e[1]) : e \in {x \in NpnPairs : x[2] = word}}
             field == (word \div 8) % 8
             fields == {i \in DOMAIN Fld : Fld[i][2] = word - 8 * field}
  <2>1. text = DisassembleIot(word)
    BY <1>4 DEF SymbolicInvariant, Disassemble
  <2>2. \A t \in named : t.operand = NoOperand
    BY DEF Plain, Text
  <2>3. field \in Nat /\ word % 512 \in Nat
    BY DEF SymbolicInvariant
  <2>4. CASE named # {}
    <3>1. text = CHOOSE t \in named : TRUE
      BY <2>1, <2>4 DEF DisassembleIot
    <3> HIDE DEF named
    <3> QED
      BY <2>2, <2>4, <3>1
  <2>5. CASE named = {}
    <3>1. text.operand = field \/ text.operand = word % 512
      BY <2>1, <2>5 DEF DisassembleIot, Text
    <3> QED
      BY <2>3, <3>1
  <2> QED
    BY <2>4, <2>5
<1>5. CASE word >= 3584
  BY <1>5 DEF SymbolicInvariant, Disassemble, DisassembleOperate, Plain, Text
<1> QED
  BY <1>3, <1>4, <1>5 DEF SymbolicInvariant

\* What is typed back is a word or is refused.
LEMMA TypedIsWord ==
  ASSUME SymbolicInvariant, text # NoText
  PROVE  Assemble(address, text) \in Nat \cup {Refused}
<1> DEFINE first == text.names[1]
           npn == {e \in Npn \cup EncodeOnly : e[1] = first}
           fld == {i \in DOMAIN Fld : Fld[i][1][1] = first}
           mrf == {i \in DOMAIN Mrf : Mrf[i] = first}
<1>1. \A e \in npn : e[2] \in Nat
  BY DEF Npn, EncodeOnly
<1>2. fld \subseteq {1, 2, 3} /\ \A i \in {1, 2, 3} : Fld[i][2] \in Nat
  BY DEF Fld
<1>3. mrf \subseteq 1 .. 6
  BY DEF Mrf
<1>4. \A names : AssembleOperate(names) \in Nat \cup {Refused}
  BY NumberIsNat DEF AssembleOperate
<1>5. text.operand \in Nat \cup {NoOperand} /\ address \in Nat
  BY OperandFacts, CellFacts
<1>6. \A opcode \in Nat, target \in Nat : \A indirect :
        EncodeMrf(opcode, address, target, indirect) \in Nat \cup {Refused}
  BY DEF EncodeMrf
<1>12. npn # {} \/ fld # {} => mrf = {} /\ first # "IOT"
  <2>1. /\ \A e \in Npn : e[1] # "IOT"
        /\ \A e \in EncodeOnly : e[1] # "IOT"
        /\ \A n \in DOMAIN Fld : Fld[n][1][1] # "IOT"
    BY DEF Npn, EncodeOnly, Fld
  <2>2. \A k \in mrf : npn = {} /\ fld = {}
    BY <1>3, MrfNames
  <2> QED
    BY <2>1, <2>2
<1> HIDE DEF npn, fld, mrf
<1>7. CASE npn # {}
  <2> DEFINE e == CHOOSE e \in npn : TRUE
  <2>1. e \in npn
    BY <1>7
  <2> HIDE DEF e
  <2>2. Assemble(address, text) =
          IF Len(text.names) > 1 \/ text.operand # NoOperand THEN Refused ELSE e[2]
    BY <1>7, <1>12 DEF Assemble, npn, fld, mrf, e
  <2> QED
    BY <1>1, <2>1, <2>2
<1>8. CASE npn = {} /\ fld # {}
  <2> DEFINE i == CHOOSE i \in fld : \A j \in fld : i <= j
  <2>1. \E k \in fld : \A j \in fld : k <= j
    <3>1. \A j \in fld : j = 1 \/ j = 2 \/ j = 3
      BY <1>2
    <3>2. CASE 1 \in fld
      BY <3>1, <3>2
    <3>3. CASE 1 \notin fld /\ 2 \in fld
      BY <3>1, <3>3
    <3>4. CASE 1 \notin fld /\ 2 \notin fld
      BY <1>8, <3>1, <3>4
    <3> QED
      BY <3>2, <3>3, <3>4
  <2>2. i \in fld
    BY <2>1
  <2> HIDE DEF i
  <2>3. Fld[i][2] \in Nat
    BY <1>2, <2>2
  <2>4. Assemble(address, text) = IF Len(text.names) > 1 \/ text.operand \notin 0 .. 7 THEN Refused
                                  ELSE WithField(Fld[i][2], text.operand)
    BY <1>8, <1>12 DEF Assemble, npn, fld, mrf, i
  <2> QED
    BY <2>3, <2>4 DEF WithField
<1>9. CASE npn = {} /\ fld = {} /\ mrf # {}
  <2> DEFINE i == CHOOSE i \in mrf : TRUE
  <2>1. i \in 1 .. 6
    BY <1>3, <1>9
  <2>2. Assemble(address, text) = IF text.operand = NoOperand THEN Refused
                                  ELSE EncodeMrf(i - 1, address, text.operand, text.indirect)
    <3>1. first # "IOT"
      BY <1>9 DEF mrf, Mrf
    <3> QED
      BY <1>9, <3>1 DEF Assemble, npn, fld, mrf
  <2> HIDE DEF i
  <2> QED
    BY <1>5, <1>6, <2>1, <2>2
<1>10. CASE npn = {} /\ fld = {} /\ mrf = {} /\ first = "IOT"
  BY <1>5, <1>10 DEF Assemble, npn, fld, mrf
<1>11. CASE npn = {} /\ fld = {} /\ mrf = {} /\ first # "IOT"
  <2>1. Assemble(address, text) = AssembleOperate(text.names)
    BY <1>11 DEF Assemble, npn, fld, mrf
  <2> QED
    BY <1>4, <2>1
<1> QED
  BY <1>7, <1>8, <1>9, <1>10, <1>11

\* What is shown of a cell is what it holds, in every behaviour.
THEOREM TextsAreOfTheirWords == SymbolicSpec => []SymbolicInvariant
<1>1. SymbolicInit => SymbolicInvariant
  BY NumberFacts DEF SymbolicInit, SymbolicInvariant
<1>2. SymbolicInvariant /\ [SymbolicNext]_symbolicVars => SymbolicInvariant'
  <2> SUFFICES ASSUME SymbolicInvariant, [SymbolicNext]_symbolicVars PROVE SymbolicInvariant'
    OBVIOUS
  <2>1. CASE Examine
    BY <2>1 DEF Examine, SymbolicInvariant
  <2>2. CASE TypeBack
    <3>1. word' \in Nat /\ text' = NoText /\ UNCHANGED <<address, emode>>
      BY <2>2, TypedIsWord DEF TypeBack, SymbolicInvariant
    <3> QED
      BY <3>1 DEF SymbolicInvariant
  <2>3. CASE UNCHANGED symbolicVars
    BY <2>3 DEF symbolicVars, SymbolicInvariant
  <2> QED
    BY <2>1, <2>2, <2>3 DEF SymbolicNext
<1> QED
  BY <1>1, <1>2, PTL DEF SymbolicSpec

\* A memory reference that is printed and typed back makes the processor reach
\* what was printed, at every address that is not the last of its page
\* (pdp8_asm.rs, encode_mrf; cpu.rs, calc_ea_memref).
THEOREM ReferencesComeBack == SymbolicSpec => []ReachesThePrinted
<1>1. SymbolicInvariant => ReachesThePrinted
  <2> SUFFICES ASSUME SymbolicInvariant, text # NoText, word < 3072, ~LastOfPage(address)
               PROVE  /\ Accepted
                      /\ CpuAddress(address, word) = text.operand
                      /\ CpuAddress(address, Typed) = text.operand
    BY DEF ReachesThePrinted
  <2>1. address \in Nat /\ word \in Nat /\ word < 3072
    BY CellFacts
  <2>2. PICK p \in Nat, ao \in Nat :
          /\ p < 32 /\ ao < 128
          /\ \E f \in Nat : address = 4096 * f + 128 * p + ao
          /\ address % 128 = ao /\ address % 4096 = 128 * p + ao /\ Page(address) = 128 * p
    BY <2>1, AddressParts
  <2>3. Page((address + 1) % 4096) = 128 * p
    <3>1. ao < 127
      BY <2>2 DEF LastOfPage
    <3>2. (address + 1) % 4096 = 128 * p + ao + 1
      BY <2>2, <3>1
    <3>3. (128 * p + ao + 1) % 4096 = 128 * p + ao + 1 /\ (128 * p + ao + 1) % 128 = ao + 1
      BY <2>2, <3>1
    <3> QED
      BY <3>2, <3>3 DEF Page
  <2>4. PICK op \in 0 .. 5, i \in 0 .. 1, z \in 0 .. 1, o \in Nat :
          /\ o < 128
          /\ word = 512 * op + 256 * i + 128 * z + o
          /\ word \div 512 = op /\ word % 128 = o
          /\ 8 \in Bits(word) <=> i = 1
          /\ 7 \in Bits(word) <=> z = 1
    BY <2>1, WordParts
  <2> DEFINE target == IF z = 1 THEN 128 * p + o ELSE o
  <2>5. DirectAddress(address, word) = target /\ CpuAddress(address, word) = target
    <3>1. DirectAddress(address, word) = target
      BY <2>2, <2>4 DEF DirectAddress
    <3>2. DirectAddress((address + 1) % 4096, word) = target
      BY <2>3, <2>4 DEF DirectAddress
    <3> QED
      BY <3>1, <3>2 DEF CpuAddress
  <2>6. text = Text(<<Mrf[op + 1]>>, 8 \in Bits(word), target)
    <3>1. text = DisassembleMrf(address, word)
      BY <2>1 DEF SymbolicInvariant, Disassemble
    <3> QED
      BY <2>4, <2>5, <3>1 DEF DisassembleMrf
  <2>7. text.operand = target /\ target \in Nat
    BY <2>6 DEF Text
  <2>8. Typed = EncodeMrf(op, address, target, 8 \in Bits(word))
    <3>1. op + 1 \in 1 .. 6 /\ target # NoOperand /\ (op + 1) - 1 = op
      BY <2>7 DEF NoOperand
    <3> HIDE DEF target
    <3> QED
      BY <2>6, <3>1, MrfIsTyped DEF Typed
  <2>9. /\ Typed # Refused
        /\ \E y \in 0 .. 1 : /\ Typed = 512 * op + 256 * i + 128 * y + o
                             /\ (IF y = 1 THEN 128 * p + o ELSE o) = target
    <3> DEFINE base == 512 * op + 256 * i
    <3>1. op * 512 + (IF 8 \in Bits(word) THEN 256 ELSE 0) = base
      BY <2>4
    <3>2. CASE target <= 127
      <4>1. target = o
        BY <3>2
      <4>2. Typed = base + o
        BY <2>8, <3>1, <3>2, <4>1 DEF EncodeMrf
      <4> QED
        BY <4>1, <4>2 DEF Refused
    <3>3. CASE target > 127
      <4>1. z = 1 /\ target = 128 * p + o
        BY <2>4, <3>3
      <4>2. target % 128 = o /\ Page(target) = 128 * p
        <5>1. \A q \in Nat, d \in Nat : q < 32 /\ d < 128 =>
                (128 * q + d) % 4096 = 128 * q + d /\ (128 * q + d) % 128 = d
          OBVIOUS
        <5> QED
          BY <2>2, <2>4, <4>1, <5>1 DEF Page
      <4>3. Typed = base + 128 + o
        BY <2>2, <2>8, <3>1, <3>3, <4>2 DEF EncodeMrf
      <4> QED
        BY <4>1, <4>3 DEF Refused
    <3> QED
      BY <2>7, <3>2, <3>3
  <2>10. CpuAddress(address, Typed) = target
    <3>1. PICK y \in 0 .. 1 : /\ Typed = 512 * op + 256 * i + 128 * y + o
                              /\ (IF y = 1 THEN 128 * p + o ELSE o) = target
      BY <2>9
    <3>2. Typed % 128 = o /\ (7 \in Bits(Typed) <=> y = 1)
      <4>1. Typed \in Nat /\ Typed % 128 = o /\ (Typed \div 128) % 2 = y
        BY <2>4, <3>1
      <4> QED
        BY <4>1, BitFacts
    <3> HIDE DEF target
    <3> QED
      BY <2>3, <3>1, <3>2 DEF CpuAddress, DirectAddress
  <2> QED
    BY <2>5, <2>7, <2>9, <2>10 DEF Accepted
<1> QED
  BY <1>1, TextsAreOfTheirWords, PTL
-----------------------------------------------------------------------------
(***************************************************************************)
(* IOTs.                                                                   *)
(***************************************************************************)
\* No name is of two instructions.
LEMMA IotNames ==
  /\ \A e, f \in Npn : e[1] = f[1] => e = f
  /\ \A e \in Npn, f \in EncodeOnly : e[1] # f[1]
  /\ \A e \in Npn \cup EncodeOnly : e[1] \notin {"CDF", "CIF", "IOT"}
  /\ \A k \in DOMAIN Mrf : Mrf[k] \notin {"CDF", "CIF", "IOT"}
<1>1. \A e, f \in Npn : e[1] = f[1] => e = f
  BY DEF Npn
<1>2. \A e \in Npn, f \in EncodeOnly : e[1] # f[1]
  BY DEF Npn, EncodeOnly
<1>3. \A e \in Npn \cup EncodeOnly : e[1] \notin {"CDF", "CIF", "IOT"}
  BY DEF Npn, EncodeOnly
<1>4. \A k \in DOMAIN Mrf : Mrf[k] \notin {"CDF", "CIF", "IOT"}
  BY DEF Mrf
<1> QED
  BY <1>1, <1>2, <1>3, <1>4

\* The name of an IOT is typed as its word.
LEMMA NamedIsTyped ==
  ASSUME NEW at, NEW e \in Npn
  PROVE  Assemble(at, Plain(<<e[1]>>)) = e[2]
<1> DEFINE t == Plain(<<e[1]>>)
           npn == {x \in Npn \cup EncodeOnly : x[1] = t.names[1]}
           fld == {i \in DOMAIN Fld : Fld[i][1][1] = t.names[1]}
           mrf == {i \in DOMAIN Mrf : Mrf[i] = t.names[1]}
<1>1. t.names = <<e[1]>> /\ t.operand = NoOperand
  BY DEF Plain, Text
<1>2. t.names[1] = e[1] /\ Len(t.names) = 1
  BY <1>1
<1> HIDE DEF t
<1>3. npn = {e}
  BY <1>2, IotNames
<1>4. t.names[1] # "IOT"
  BY <1>2, IotNames
<1>5. mrf = {}
  <2> SUFFICES ASSUME NEW k \in mrf PROVE FALSE
    OBVIOUS
  <2>1. k \in 1 .. 6 /\ Mrf[k] = e[1]
    BY <1>2 DEF Mrf
  <2> QED
    BY <2>1, MrfNames
<1> HIDE DEF npn, fld, mrf
<1>6. npn # {}
  BY <1>3
<1>7. Assemble(at, t) = IF Len(t.names) > 1 \/ t.operand # NoOperand THEN Refused
                        ELSE (CHOOSE x \in npn : TRUE)[2]
  BY <1>4, <1>5, <1>6 DEF Assemble, npn, fld, mrf
<1>8. (CHOOSE x \in npn : TRUE) = e
  BY <1>3
<1>9. ~(Len(t.names) > 1 \/ t.operand # NoOperand)
  BY <1>1, <1>2
<1>10. Assemble(at, t) = e[2]
  BY <1>7, <1>8, <1>9, Zenon
<1> QED
  BY <1>10 DEF t

\* Two names are refused.
LEMMA PairIsRefused ==
  ASSUME NEW at, NEW e \in NpnPairs
  PROVE  Assemble(at, Plain(e[1])) = Refused /\ Len(Plain(e[1]).names) = 2
<1> DEFINE t == Plain(e[1])
           npn == {x \in Npn \cup EncodeOnly : x[1] = t.names[1]}
           fld == {i \in DOMAIN Fld : Fld[i][1][1] = t.names[1]}
           mrf == {i \in DOMAIN Mrf : Mrf[i] = t.names[1]}
<1>1. Len(t.names) = 2 /\ t.names[1] \in {"RFC", "PCLF"}
  BY DEF Plain, Text, NpnPairs
<1> HIDE DEF t
<1>2. npn # {}
  <2>1. <<"RFC", 3084>> \in Npn /\ <<"PCLF", 3506>> \in Npn
    BY DEF Npn
  <2> QED
    BY <1>1, <2>1
<1>3. mrf = {} /\ t.names[1] # "IOT"
  BY <1>1 DEF Mrf
<1> HIDE DEF npn, fld, mrf
<1>4. Assemble(at, t) = IF Len(t.names) > 1 \/ t.operand # NoOperand THEN Refused
                        ELSE (CHOOSE x \in npn : TRUE)[2]
  BY <1>2, <1>3 DEF Assemble, npn, fld, mrf
<1>5. Len(t.names) > 1
  BY <1>1
<1> QED
  BY <1>1, <1>4, <1>5 DEF t

\* The names of the field instructions.
LEMMA FieldNames ==
  /\ Fld[1][1][1] = "CDF" /\ Len(Fld[1][1]) = 1
  /\ Fld[2][1][1] = "CIF" /\ Len(Fld[2][1]) = 1
  /\ Fld[3][1][1] = "CIF" /\ Len(Fld[3][1]) = 2
  /\ DOMAIN Fld = {1, 2, 3}
<1>1. Fld[1][1] = <<"CDF">> /\ Fld[2][1] = <<"CIF">> /\ Fld[3][1] = <<"CIF", "CDF">>
  BY DEF Fld
<1>2. DOMAIN Fld = {1, 2, 3}
  BY DEF Fld
<1> HIDE DEF Fld
<1>3. Fld[1][1][1] = "CDF" /\ Len(Fld[1][1]) = 1
  BY <1>1
<1>4. Fld[2][1][1] = "CIF" /\ Len(Fld[2][1]) = 1
  BY <1>1
<1>5. Fld[3][1][1] = "CIF" /\ Len(Fld[3][1]) = 2
  BY <1>1
<1> QED
  BY <1>2, <1>3, <1>4, <1>5

\* CDF or CIF with a field is typed as its word; both together are two names.
LEMMA FieldIsTyped ==
  ASSUME NEW at, NEW i \in 1 .. 3, NEW field \in 0 .. 7
  PROVE  LET t == Text(Fld[i][1], FALSE, field)
         IN  IF i = 3 THEN Assemble(at, t) = Refused /\ Len(t.names) = 2
             ELSE Assemble(at, t) = Fld[i][2] + 8 * field
<1> DEFINE t == Text(Fld[i][1], FALSE, field)
           npn == {x \in Npn \cup EncodeOnly : x[1] = t.names[1]}
           fld == {j \in DOMAIN Fld : Fld[j][1][1] = t.names[1]}
           mrf == {j \in DOMAIN Mrf : Mrf[j] = t.names[1]}
           c == CHOOSE j \in fld : \A k \in fld : j <= k
<1>1. t.names = Fld[i][1] /\ t.operand = field
  BY DEF Text
<1> HIDE DEF t
<1>2. /\ i = 1 => t.names[1] = "CDF" /\ Len(t.names) = 1
      /\ i = 2 => t.names[1] = "CIF" /\ Len(t.names) = 1
      /\ i = 3 => t.names[1] = "CIF" /\ Len(t.names) = 2
  BY <1>1, FieldNames, Zenon
<1>3. (i = 1 \/ i = 2 \/ i = 3) /\ t.names[1] \in {"CDF", "CIF"}
  BY <1>2
<1>4. npn = {} /\ mrf = {} /\ t.names[1] # "IOT"
  BY <1>3, IotNames
<1>5. fld = IF i = 1 THEN {1} ELSE {2, 3}
  BY <1>2, <1>3, FieldNames
<1> HIDE DEF npn, mrf, fld
<1>6. c = IF i = 1 THEN 1 ELSE 2
  BY <1>5
<1>7. fld # {}
  BY <1>5
<1> HIDE DEF c
<1>8. Assemble(at, t) = IF Len(t.names) > 1 \/ t.operand \notin 0 .. 7 THEN Refused
                        ELSE WithField(Fld[c][2], t.operand)
  BY <1>4, <1>7 DEF Assemble, npn, fld, mrf, c
<1>9. i = 3 => Len(t.names) = 2
  BY <1>2
<1>10. i # 3 => Len(t.names) = 1 /\ c = i
  BY <1>2, <1>3, <1>6
<1>11. i = 3 => Assemble(at, t) = Refused
  <2>1. i = 3 => Len(t.names) > 1
    BY <1>9
  <2> QED
    BY <1>8, <2>1, Zenon
<1>12. i # 3 => Assemble(at, t) = Fld[i][2] + 8 * field
  <2>1. t.operand \in 0 .. 7
    <3>1. t.operand = field
      BY <1>1, Zenon
    <3>2. field \in 0 .. 7
      OBVIOUS
    <3> QED
      BY <3>1, <3>2, Zenon
  <2>2. i # 3 => ~(Len(t.names) > 1)
    <3>1. ~(1 > 1)
      OBVIOUS
    <3> QED
      BY <3>1, <1>10, Zenon
  <2>3. i # 3 => ~(Len(t.names) > 1 \/ t.operand \notin 0 .. 7)
    BY <2>1, <2>2, Zenon
  <2>4. i # 3 => Assemble(at, t) = WithField(Fld[i][2], field)
    BY <1>1, <1>8, <1>10, <2>3, Zenon
  <2> QED
    BY <2>4, Zenon DEF WithField
<1> QED
  BY <1>9, <1>11, <1>12 DEF t

\* Any other is typed by its number.
IotNumbers == 0 .. 2^9 - 1
NumberedIot(operand) == 3072 + operand

LEMMA IotIsTyped ==
  ASSUME NEW at, NEW operand \in IotNumbers
  PROVE  Assemble(at, Text(<<"IOT">>, FALSE, operand)) = NumberedIot(operand)
<1> DEFINE t == Text(<<"IOT">>, FALSE, operand)
           npn == {x \in Npn \cup EncodeOnly : x[1] = t.names[1]}
           fld == {j \in DOMAIN Fld : Fld[j][1][1] = t.names[1]}
           mrf == {j \in DOMAIN Mrf : Mrf[j] = t.names[1]}
<1>1. t.names[1] = "IOT" /\ t.operand = operand
  BY DEF Text
<1> HIDE DEF t
<1>2. npn = {} /\ mrf = {}
  BY <1>1, IotNames
<1>3. fld = {}
  BY <1>1 DEF Fld
<1> HIDE DEF npn, fld, mrf
<1>4. Assemble(at, t) = IF t.operand \notin IotNumbers THEN Refused
                        ELSE NumberedIot(t.operand)
  BY <1>1, <1>2, <1>3 DEF Assemble, npn, fld, mrf, IotNumbers, NumberedIot
<1>5. Assemble(at, t) = NumberedIot(operand)
  BY <1>1, <1>4, Zenon
<1> QED
  BY <1>5 DEF t

IotWords == {w \in Nat : w >= 3072 /\ w < 3584}

\* What is printed of an IOT is typed as the IOT, or is two names and refused.
LEMMA IotTextIsTyped ==
  ASSUME NEW at, NEW w \in IotWords
  PROVE  LET t == DisassembleIot(w)
         IN  Assemble(at, t) = w \/ (Assemble(at, t) = Refused /\ Len(t.names) = 2)
<1> DEFINE named == {Plain(<<e[1]>>) : e \in {x \in Npn : x[2] = w}}
                    \cup {Plain(e[1]) : e \in {x \in NpnPairs : x[2] = w}}
           field == (w \div 8) % 8
           fields == {i \in DOMAIN Fld : Fld[i][2] = w - 8 * field}
           t == DisassembleIot(w)
           Fine(u) == Assemble(at, u) = w \/ (Assemble(at, u) = Refused /\ Len(u.names) = 2)
<1>1. t = IF named # {} THEN CHOOSE u \in named : TRUE
          ELSE IF fields # {} THEN Text(Fld[CHOOSE i \in fields : TRUE][1], FALSE, field)
          ELSE Text(<<"IOT">>, FALSE, w % 512)
  BY DEF DisassembleIot
<1>2. \A u \in named : Fine(u)
  <2>1. ASSUME NEW e \in Npn, e[2] = w PROVE Fine(Plain(<<e[1]>>))
    BY <2>1, NamedIsTyped, Zenon
  <2>2. ASSUME NEW e \in NpnPairs PROVE Fine(Plain(e[1]))
    BY PairIsRefused, Zenon
  <2> HIDE DEF Fine
  <2> QED
    BY <2>1, <2>2, Zenon
<1>3. \A i \in fields : i \in 1 .. 3 /\ Fld[i][2] + 8 * field = w
  <2>1. DOMAIN Fld = 1 .. 3 /\ \A i \in 1 .. 3 : Fld[i][2] \in Nat
    BY DEF Fld
  <2>2. field \in Nat
    BY DEF IotWords
  <2>3. w \in Nat
    BY DEF IotWords
  <2> QED
    BY <2>1, <2>2, <2>3
<1>4. field \in 0 .. 7
  BY DEF IotWords
<1>5. Fine(Text(<<"IOT">>, FALSE, w % 512))
  <2>1. w % 512 \in IotNumbers /\ NumberedIot(w % 512) = w
    BY DEF IotWords, IotNumbers, NumberedIot
  <2> DEFINE number == w % 512
  <2>2. number \in IotNumbers /\ NumberedIot(number) = w
    BY <2>1
  <2> HIDE DEF number
  <2>3. Fine(Text(<<"IOT">>, FALSE, number))
    BY <2>2, IotIsTyped, Zenon
  <2> QED
    BY <2>3 DEF number
<1> HIDE DEF field
<1>6. \A i \in fields : Fine(Text(Fld[i][1], FALSE, field))
  <2> SUFFICES ASSUME NEW i \in fields PROVE Fine(Text(Fld[i][1], FALSE, field))
    OBVIOUS
  <2> DEFINE u == Text(Fld[i][1], FALSE, field)
  <2>1. i \in 1 .. 3 /\ Fld[i][2] + 8 * field = w
    BY <1>3
  <2>2. IF i = 3 THEN Assemble(at, u) = Refused /\ Len(u.names) = 2
        ELSE Assemble(at, u) = Fld[i][2] + 8 * field
    BY <1>4, <2>1, FieldIsTyped, Zenon
  <2> HIDE DEF fields
  <2> QED
    BY <2>1, <2>2, Zenon
<1> HIDE DEF named, fields, t, Fine
<1>7. Fine(t)
  <2>1. named # {} => (CHOOSE u \in named : TRUE) \in named
    OBVIOUS
  <2>2. fields # {} => (CHOOSE i \in fields : TRUE) \in fields
    OBVIOUS
  <2> QED
    BY <1>1, <1>2, <1>5, <1>6, <2>1, <2>2, Zenon
<1> QED
  BY <1>7 DEF Fine, t

\* An IOT that is printed and typed back is the IOT, by name, by field or by
\* number, but for those printed with two names, which are refused
\* (pdp8_asm.rs:297-480).
THEOREM IotsComeBack == SymbolicSpec => []IotComesBack
<1>1. SymbolicInvariant => IotComesBack
  <2> SUFFICES ASSUME SymbolicInvariant, text # NoText, word \in IotWords
               PROVE  /\ Typed = word \/ (~Accepted /\ Len(text.names) = 2)
                      /\ RepeatsItself
    BY DEF IotComesBack, SymbolicInvariant, IotWords
  <2>2. text = Disassemble(address, word, emode)
    BY DEF SymbolicInvariant
  <2>3. Disassemble(address, word, emode) = DisassembleIot(word)
    BY DEF Disassemble, IotWords
  <2>4. Typed = word \/ (Typed = Refused /\ Len(text.names) = 2)
    BY <2>2, <2>3, IotTextIsTyped, Zenon DEF Typed
  <2>5. CASE Typed = word
    BY <2>2, <2>5, Zenon DEF RepeatsItself
  <2>6. CASE Typed = Refused /\ Len(text.names) = 2
    BY <2>6, Zenon DEF Accepted, RepeatsItself
  <2> QED
    BY <2>4, <2>5, <2>6
<1> QED
  BY <1>1, TextsAreOfTheirWords, PTL
-----------------------------------------------------------------------------
(***************************************************************************)
(* The tapes.                                                              *)
(***************************************************************************)
\* What the loader keeps between two frames.
Loader ==
  [hi : Nat, word : Nat, sum : Nat, origin : Words12, csum : Words12, rubout : BOOLEAN,
   field : FieldStarts, nextField : FieldStarts, sections : Nat]

TapeInvariant == TapeTypeOK /\ tape \in Tapes /\ loader \in Loader

\* Twelve bits and a field are an address.
LEMMA PlaceFacts ==
  /\ \A n \in Nat : n % 4096 \in Words12
  /\ \A o \in Words12 : o \in Nat /\ o < 4096
  /\ \A n \in Nat : ~(n > 4095) => n \in Words12
  /\ \A f \in FieldStarts, o \in Words12 : f + o \in Memory15
  /\ \A o \in Words12 : o \in Memory15
  /\ 0 \in Words12 /\ 0 \in FieldStarts
  /\ \A k \in 0 .. 7 : k * 4096 \in FieldStarts
<1>1. 2^12 = 4096 /\ 2^15 = 32768
  BY SMT
<1>2. \A n : n \in Words12 <=> n \in Nat /\ n < 4096
  BY <1>1 DEF Words12
<1>3. \A n : n \in Memory15 <=> n \in Nat /\ n < 32768
  BY <1>1 DEF Memory15
<1>4. \A f \in FieldStarts : f \in Nat /\ f <= 28672
  BY DEF FieldStarts
<1>5. 0 \in FieldStarts
  <2>1. 0 \in 0 .. 7 /\ 0 = 0 * 4096
    OBVIOUS
  <2> QED
    BY <2>1 DEF FieldStarts
<1>6. \A k \in 0 .. 7 : k * 4096 \in FieldStarts
  BY DEF FieldStarts
<1> QED
  BY <1>2, <1>3, <1>4, <1>5, <1>6

\* A section starts with a loader.
LEMMA FreshIsLoader ==
  ASSUME NEW n \in Nat
  PROVE  Fresh(n) \in Loader
<1>1. 0 \in Nat /\ 0 \in Words12 /\ 0 \in FieldStarts /\ FALSE \in BOOLEAN
  BY PlaceFacts
<1> QED
  BY <1>1 DEF Fresh, Loader

\* A word's frames make a number, whatever they are.
LEMMA JoinedIsNat ==
  ASSUME NEW hi \in Nat, NEW lo \in Bytes
  PROVE  Joined(hi, lo) \in Nat
<1> DEFINE i == (hi % 4) + 1
           j == (lo \div 64) + 1
           e == Either[i][j]
<1>0. lo \in Nat /\ lo < 256
  BY DEF Bytes
<1>1. i \in {1, 2, 3, 4} /\ j \in {1, 2, 3, 4}
  BY <1>0
<1> HIDE DEF i, j
<1>2. /\ Either[1] = <<0, 1, 2, 3>> /\ Either[2] = <<1, 1, 3, 3>>
      /\ Either[3] = <<2, 3, 2, 3>> /\ Either[4] = <<3, 3, 3, 3>>
  BY DEF Either
<1>3. e \in Nat
  BY <1>1, <1>2
<1>4. hi - (hi % 4) \in Nat /\ lo % 64 \in Nat
  BY <1>0
<1>5. Joined(hi, lo) = 64 * (hi - (hi % 4) + e) + (lo % 64)
  BY DEF Joined, i, j
<1> HIDE DEF e
<1> QED
  BY <1>3, <1>4, <1>5

\* A store keeps the memory one.
LEMMA StoreKeeps ==
  ASSUME NEW a \in Memory15, NEW w \in Words12, Store(a, w),
         stored \in UNION {[s -> Words12] : s \in SUBSET Memory15}
  PROVE  stored' \in UNION {[s -> Words12] : s \in SUBSET Memory15}
<1>1. PICK s \in SUBSET Memory15 : stored \in [s -> Words12]
  OBVIOUS
<1>2. stored' \in [s \cup {a} -> Words12]
  BY <1>1 DEF Store
<1>3. s \cup {a} \in SUBSET Memory15
  BY <1>1
<1> QED
  BY <1>2, <1>3

\* The frame that is read, and those that are left.
LEMMA ReadsFacts ==
  ASSUME TapeInvariant, Reads
  PROVE  /\ Frame \in Bytes /\ Frame \in Nat /\ frames' \in Seq(Bytes) /\ tape' \in Tapes
<1>1. frames \in Seq(Bytes) /\ frames # <<>>
  BY DEF TapeInvariant, TapeTypeOK, Reads
<1>2. Bytes \subseteq Nat
  BY DEF Bytes
<1>3. Head(frames) \in Bytes /\ Tail(frames) \in Seq(Bytes)
  BY <1>1, HeadTailProperties
<1> QED
  BY <1>2, <1>3 DEF Reads, Frame, TapeInvariant

LEMMA TapeStepKeeps == TapeInvariant /\ [TapeNext]_tapeVars => TapeInvariant'
<1> SUFFICES ASSUME TapeInvariant, [TapeNext]_tapeVars PROVE TapeInvariant'
  OBVIOUS
<1> USE DEF Done
<1>1. /\ loader \in Loader /\ tape \in Tapes /\ frames \in Seq(Bytes)
      /\ phase \in {"leader", "low", "high", "next"} \cup Done
      /\ stored \in UNION {[s -> Words12] : s \in SUBSET Memory15}
  BY DEF TapeInvariant, TapeTypeOK
<1>2. SUFFICES /\ loader' \in Loader
               /\ phase' \in {"leader", "low", "high", "next"} \cup Done
               /\ stored' \in UNION {[s -> Words12] : s \in SUBSET Memory15}
               /\ frames' \in Seq(Bytes) /\ tape' \in Tapes
  <2>1. loader' \in Loader => loader'.origin \in Words12 /\ loader'.csum \in Words12
          /\ loader'.rubout \in BOOLEAN /\ loader'.field \in FieldStarts
    BY DEF Loader
  <2> QED
    BY <1>2, <2>1 DEF TapeInvariant, TapeTypeOK
<1>3. ASSUME Reads PROVE Frame \in Bytes /\ Frame \in Nat /\ frames' \in Seq(Bytes) /\ tape' \in Tapes
  BY <1>3, ReadsFacts
<1>4. CASE RimLeader \/ BinLeader
  BY <1>1, <1>3, <1>4 DEF RimLeader, BinLeader, Loader
<1>5. CASE RimLow
  <2> DEFINE w == Joined(loader.hi, Frame)
  <2>1. w \in Nat
    BY <1>1, <1>3, <1>5, JoinedIsNat DEF RimLow, Loader
  <2>2. CASE w > \o7777
    <3>1. loader' = [loader EXCEPT !.origin = OriginOf(w)] /\ UNCHANGED stored /\ phase' = "high" /\ Reads
      BY <1>5, <2>2 DEF RimLow
    <3> HIDE DEF w
    <3>2. OriginOf(w) \in Words12
      BY <2>1, PlaceFacts DEF OriginOf
    <3> QED
      BY <1>1, <1>3, <3>1, <3>2 DEF Loader
  <2>3. CASE ~(w > \o7777)
    <3>1. loader' = [loader EXCEPT !.origin = NextOrigin(loader.origin)] /\ Store(loader.origin, w)
          /\ phase' = "high" /\ Reads
      BY <1>5, <2>3 DEF RimLow
    <3> HIDE DEF w
    <3>2. loader.origin \in Words12 /\ w \in Words12
      BY <1>1, <2>1, <2>3, PlaceFacts DEF Loader
    <3>3. NextOrigin(loader.origin) \in Words12
      BY <3>2, PlaceFacts DEF NextOrigin
    <3>4. stored' \in UNION {[s -> Words12] : s \in SUBSET Memory15}
      <4>1. loader.origin \in Memory15
        BY <3>2, PlaceFacts
      <4> QED
        BY <1>1, <3>1, <3>2, <4>1, StoreKeeps
    <3> QED
      BY <1>1, <1>3, <3>1, <3>3, <3>4 DEF Loader
  <2> QED
    BY <2>2, <2>3
<1>6. CASE RimHigh
  BY <1>1, <1>3, <1>6 DEF RimHigh, Loader
<1>7. CASE RimEnd \/ BinEnd
  BY <1>1, <1>7 DEF RimEnd, BinEnd, Ends
<1>8. CASE BinGetc
  <2>1. FieldOf(Frame) \in FieldStarts
    <3>1. (Frame \div 8) % 8 \in 0 .. 7
      BY <1>3, <1>8 DEF BinGetc
    <3> QED
      BY <3>1, PlaceFacts DEF FieldOf
  <2>2. loader' \in Loader
    BY <1>1, <1>8, <2>1 DEF BinGetc, Loader
  <2> QED
    BY <1>1, <1>3, <1>8, <2>2 DEF BinGetc
<1>9. CASE BinLow
  <2>1. Joined(loader.hi, Frame) \in Nat
    BY <1>1, <1>3, <1>9, JoinedIsNat DEF BinLow, Loader
  <2>2. loader.hi + Frame \in Nat
    BY <1>1, <1>3, <1>9 DEF BinLow, Loader
  <2>3. loader' = [loader EXCEPT !.word = Joined(loader.hi, Frame), !.sum = loader.hi + Frame]
    BY <1>9 DEF BinLow
  <2>4. loader' \in Loader
    BY <1>1, <2>1, <2>2, <2>3 DEF Loader
  <2> QED
    BY <1>1, <1>3, <1>9, <2>4 DEF BinLow
<1>10. CASE BinTrailer
  <2>1. Fresh(loader.sections + 1) \in Loader
    <3>1. loader.sections + 1 \in Nat
      BY <1>1 DEF Loader
    <3> QED
      BY <3>1, FreshIsLoader
  <2> QED
    BY <1>1, <1>3, <1>10, <2>1 DEF BinTrailer
<1>11. CASE BinWord
  <2> DEFINE w == loader.word
             read == [loader EXCEPT !.hi = Frame, !.csum = Summed(loader)]
  <2>1. Summed(loader) \in Words12
    <3>1. loader.csum \in Nat /\ loader.sum \in Nat
      BY <1>1, PlaceFacts DEF Loader
    <3> QED
      BY <3>1, PlaceFacts DEF Summed
  <2>2. read \in Loader /\ w \in Nat /\ loader.origin \in Words12
    <3>1. Frame \in Nat
      BY <1>3, <1>11 DEF BinWord
    <3> QED
      BY <1>1, <2>1, <3>1 DEF Loader
  <2>3. phase' = "low" /\ Reads
    BY <1>11 DEF BinWord
  <2>4. \A l \in Loader : Latched(l) \in Loader
    BY DEF Latched, Loader
  <2>5. CASE w > \o7777
    <3>1. loader' = Latched([read EXCEPT !.origin = OriginOf(w)]) /\ UNCHANGED stored
      BY <1>11, <2>5 DEF BinWord
    <3> HIDE DEF w, read
    <3>2. OriginOf(w) \in Words12
      BY <2>2, PlaceFacts DEF OriginOf
    <3>3. [read EXCEPT !.origin = OriginOf(w)] \in Loader
      BY <2>2, <3>2 DEF Loader
    <3> QED
      BY <1>1, <1>3, <2>3, <2>4, <3>1, <3>3
  <2>6. CASE ~(w > \o7777)
    <3>1. loader' = Latched([read EXCEPT !.origin = NextOrigin(loader.origin)])
          /\ Store(loader.field + loader.origin, w)
      BY <1>1, <1>11, <2>6 DEF BinWord, Loader
    <3> HIDE DEF w, read
    <3>2. NextOrigin(loader.origin) \in Words12
      BY <2>2, PlaceFacts DEF NextOrigin
    <3>3. [read EXCEPT !.origin = NextOrigin(loader.origin)] \in Loader
      BY <2>2, <3>2 DEF Loader
    <3>4. w \in Words12 /\ loader.field + loader.origin \in Memory15
      BY <1>1, <2>2, <2>6, PlaceFacts DEF Loader
    <3>5. stored' \in UNION {[s -> Words12] : s \in SUBSET Memory15}
      BY <1>1, <3>1, <3>4, StoreKeeps
    <3> QED
      BY <1>1, <1>3, <2>3, <2>4, <3>1, <3>3, <3>5
  <2> QED
    BY <2>5, <2>6
<1>12. CASE UNCHANGED tapeVars
  BY <1>1, <1>12 DEF tapeVars
<1> QED
  BY <1>4, <1>5, <1>6, <1>7, <1>8, <1>9, <1>10, <1>11, <1>12 DEF TapeNext

\* Whatever frames a tape has, sound or damaged, what it stores are words of
\* twelve bits at addresses of the memory, and the origin and the field stay
\* what they are masked to (load_rim and load_bin index the memory unchecked).
THEOREM TapesStayInMemory == TapeSpec => []TapeTypeOK
<1>1. TapeInit => TapeInvariant
  <2> SUFFICES ASSUME TapeInit PROVE TapeInvariant
    OBVIOUS
  <2>1. frames \in Seq(Bytes) /\ tape \in Tapes
    BY TapeAssumption DEF TapeInit
  <2>2. loader \in Loader
    BY FreshIsLoader DEF TapeInit
  <2>3. stored \in UNION {[s -> Words12] : s \in SUBSET Memory15}
    <3>1. stored \in [{} -> Words12] /\ {} \in SUBSET Memory15
      BY DEF TapeInit
    <3> QED
      BY <3>1
  <2>4. loader.field \in FieldStarts /\ loader.origin \in Words12
        /\ loader.csum \in Words12 /\ loader.rubout \in BOOLEAN
    BY <2>2 DEF Loader
  <2> QED
    BY <2>1, <2>2, <2>3, <2>4 DEF TapeInvariant, TapeTypeOK, TapeInit
<1>2. TapeInvariant => TapeTypeOK
  BY DEF TapeInvariant
<1> QED
  BY <1>1, <1>2, TapeStepKeeps, PTL DEF TapeSpec
=============================================================================
