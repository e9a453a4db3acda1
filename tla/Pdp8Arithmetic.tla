--------------------------- MODULE Pdp8Arithmetic ---------------------------
(***************************************************************************)
(* The arithmetic of the PDP-8 (pdp-8, cpu.rs): what AND, TAD, DCA and the *)
(* IOTs do to the accumulator, the operates, and the Extended Arithmetic   *)
(* Element.  Words have Width bits, 12 in the code, and the constants that *)
(* follow from it (24, 25, 014, 015) are written as what they follow from. *)
(* Memory is Pdp8Reference's: an operand is any word here, and so is what  *)
(* the undefined rotates read.                                             *)
(***************************************************************************)
EXTENDS Integers

CONSTANTS
  Width,       \* bits of a word
  CountMask,   \* largest step count, 037
  FieldSize,   \* values of the program counter
  Operands,    \* bound: the words that operands are taken from
  NoStore,
  BitAnd(_, _), BitOr(_, _)   \* & and |

ASSUME WidthAssumption ==
  /\ Width \in Nat \ {0} /\ Width % 2 = 0
  /\ CountMask \in 2 * Width + 2 .. 2^Width - 1
  /\ FieldSize \in Nat \ {0}
  /\ Operands \subseteq 0 .. 2^Width - 1

Word   == 2^Width
Words  == 0 .. Word - 1

\* The bits of a word together with those of another are a word; likewise with
\* the link in front.
ASSUME BitsAssumption ==
  /\ \A a, b \in Words : BitAnd(a, b) \in Words /\ BitOr(a, b) \in Words
  /\ \A a, b \in 0 .. 2 * Word - 1 : BitOr(a, b) \in 0 .. 2 * Word - 1

Sign   == Word \div 2
Double == Word * Word
Counts == 0 .. CountMask

VARIABLES
  link, acc,   \* the code keeps both in acc
  mq, eae_sc, eae_gtf,
  emode,       \* "A" or "B"
  pc,
  stored       \* history: the double word a DST has just stored

registers == <<link, acc, mq, eae_sc, eae_gtf, emode>>
arithVars == <<registers, pc, stored>>

\* Registers hold what fits them, although they are computed in wider integers.
ArithTypeOK ==
  /\ link \in 0 .. 1 /\ acc \in Words /\ mq \in Words
  /\ eae_sc \in Counts /\ eae_gtf \in BOOLEAN
  /\ emode \in {"A", "B"}
  /\ pc \in 0 .. FieldSize - 1
  /\ stored \in (Words \X Words) \cup {NoStore}

ArithInit ==
  /\ link = 0 /\ acc = 0 /\ mq = 0 /\ eae_sc = 0 /\ eae_gtf = FALSE
  /\ emode = "A" /\ pc = 0 /\ stored = NoStore

Lac == link * Word + acc
Long == acc * Word + mq

\* The program counter after an instruction that goes on past n more words.
Passes(n) == pc' = (pc + 1 + n) % FieldSize
SetLac(x) == link' = (x \div Word) % 2 /\ acc' = x % Word
SetLong(x) == acc' = (x \div Word) % Word /\ mq' = x % Word

-----------------------------------------------------------------------------
(***************************************************************************)
(* Memory references and IOTs.                                             *)
(***************************************************************************)
\* They leave the EAE alone, those but RTF and CAF.
Plain == Passes(0) /\ stored' = NoStore /\ UNCHANGED <<mq, eae_sc, emode>>

AndWord(operand) == acc' = BitAnd(acc, operand) /\ Plain /\ UNCHANGED <<link, eae_gtf>>
TadWord(operand) == SetLac(Lac + operand) /\ Plain /\ UNCHANGED eae_gtf
DcaWord == acc' = 0 /\ Plain /\ UNCHANGED <<link, eae_gtf>>

\* GTF packs L and the flag above what Pdp8Cpu has, RTF takes them back.
Gtf ==
  /\ \E rest \in 0 .. Sign \div 2 - 1 :
       acc' = link * Sign + (IF eae_gtf THEN Sign \div 2 ELSE 0) + rest
  /\ Plain /\ UNCHANGED <<link, eae_gtf>>

Rtf ==
  /\ link' = acc \div Sign /\ eae_gtf' = ((acc \div (Sign \div 2)) % 2 = 1)
  /\ Plain /\ UNCHANGED acc

Caf ==
  /\ link' = 0 /\ acc' = 0 /\ eae_gtf' = FALSE /\ emode' = "A"
  /\ Passes(0) /\ stored' = NoStore
  /\ UNCHANGED <<mq, eae_sc>>

-----------------------------------------------------------------------------
(***************************************************************************)
(* Groups 1 and 2.                                                         *)
(***************************************************************************)
Micro == {"CLA", "CLL", "CMA", "CML", "IAC"}
Rotations == {"none", "BSW", "RAL", "RTL", "RAR", "RTR"}
Conditions == {"minus", "zero", "link"}

\* The table of time pulses 1 and 2, and the increment of pulse 3.
Pulsed(ops) ==
  LET l == IF "CLL" \in ops THEN 0 ELSE link
      a == IF "CLA" \in ops THEN 0 ELSE acc
      x == (IF "CML" \in ops THEN 1 - l ELSE l) * Word + (IF "CMA" \in ops THEN Word - 1 - a ELSE a)
  IN  IF "IAC" \in ops THEN (x + 1) % (2 * Word) ELSE x

Rotated(rotation, x) ==
  LET half == 2^(Width \div 2) IN
  CASE rotation = "none" -> x
    [] rotation = "BSW" -> (x \div Word) * Word + (x % half) * half + ((x % Word) \div half)
    [] rotation = "RAL" -> BitOr((2 * x) % (2 * Word), x \div Word)
    [] rotation = "RTL" -> BitOr((4 * x) % (2 * Word), x \div Sign)
    [] rotation = "RAR" -> (x \div 2) + (x % 2) * Word
    [] rotation = "RTR" -> BitOr(x \div 4, (x * Sign) % (2 * Word))

Group1 ==
  \E ops \in SUBSET Micro, rotation \in Rotations :
    /\ ops = {} \/ rotation = "none"   \* bound: pulses 1 to 3 or pulse 4
    /\ SetLac(Rotated(rotation, Pulsed(ops)))
    /\ Passes(0)
    /\ stored' = NoStore
    /\ UNCHANGED <<mq, eae_sc, eae_gtf, emode>>

\* RAL RAR masks AC with the instruction, RTL RTR replaces AC by an address.
UndefinedRotate ==
  /\ \E x \in Operands : acc' = BitAnd(acc, x) \/ acc' = x
  /\ Passes(0)
  /\ stored' = NoStore
  /\ UNCHANGED <<link, mq, eae_sc, eae_gtf, emode>>

Holds(condition) ==
  CASE condition = "minus" -> acc >= Sign
    [] condition = "zero" -> acc = 0
    [] condition = "link" -> link = 1

\* With the sense reversed the code takes back the skip for every selected
\* condition that does NOT hold: see AndGroupSkipsOnAll.
Skips(selected, reverse) ==
  IF reverse THEN \A c \in selected : Holds(c)
  ELSE \E c \in selected : Holds(c)

\* The skip is decided before CLA.
SkipGroup(selected, reverse, cla) ==
  /\ Passes(IF Skips(selected, reverse) THEN 1 ELSE 0)
  /\ acc' = IF cla THEN 0 ELSE acc
  /\ stored' = NoStore
  /\ UNCHANGED <<link, mq, eae_sc, eae_gtf, emode>>

Group2 ==
  \E selected \in SUBSET Conditions, reverse, cla \in BOOLEAN : SkipGroup(selected, reverse, cla)

\* OSR, from any switch register, on its own; RDF, RIF and RIB bring in bits alike.
Osr ==
  \E sr \in Operands :
    /\ acc' = BitOr(acc, sr)
    /\ Passes(0)
    /\ stored' = NoStore
    /\ UNCHANGED <<link, mq, eae_sc, eae_gtf, emode>>

-----------------------------------------------------------------------------
(***************************************************************************)
(* Group 3.  One that moves or reads the step counter and then does         *)
(* something with the EAE is the two one after the other here.             *)
(***************************************************************************)
\* CLA, MQL, MQA in any combination, without the EAE.
Move ==
  \E cla, mql, mqa \in BOOLEAN :
    LET a == IF cla THEN 0 ELSE acc IN
    /\ mq' = IF mql THEN a ELSE mq
    /\ acc' = BitOr(IF mql THEN 0 ELSE a, IF mqa THEN mq ELSE 0)
    /\ Passes(0)
    /\ stored' = NoStore
    /\ UNCHANGED <<link, eae_sc, eae_gtf, emode>>

Swab ==
  /\ emode' = "B"
  /\ mq' = acc /\ acc' = 0
  /\ Passes(0)
  /\ stored' = NoStore
  /\ UNCHANGED <<link, eae_sc, eae_gtf>>

Swba ==
  /\ emode' = "A" /\ eae_gtf' = FALSE
  /\ Passes(0)
  /\ stored' = NoStore
  /\ UNCHANGED <<link, acc, mq, eae_sc>>

\* execute_eae clears the flag in mode A.
FlagKept == eae_gtf' = (eae_gtf /\ emode = "B")

\* The EAE's instructions leave the mode alone, and all but one store nothing.
Eae == stored' = NoStore /\ UNCHANGED emode

Sca ==
  /\ acc' = BitOr(acc, eae_sc)
  /\ Passes(0) /\ FlagKept /\ Eae
  /\ UNCHANGED <<link, mq, eae_sc>>

Scl(operand) ==
  /\ emode = "A"
  /\ eae_sc' = CountMask - (operand % (CountMask + 1))
  /\ Passes(1) /\ FlagKept /\ Eae
  /\ UNCHANGED <<link, acc, mq>>

Acs ==
  /\ emode = "B"
  /\ eae_sc' = acc % (CountMask + 1)
  /\ acc' = 0
  /\ Passes(0) /\ FlagKept /\ Eae
  /\ UNCHANGED <<link, mq>>

\* Mutant: what is in AC is lost.
Product_IgnoresAc(operand, a) == mq * operand

Product(operand, a) == mq * operand + a

Muy(operand) ==
  /\ SetLong(Product(operand, acc))
  /\ link' = 0
  /\ eae_sc' = Width
  /\ Passes(1) /\ FlagKept /\ Eae

\* The quotient must fit: a divisor of 0 is an overflow, too.
Dvi(operand) ==
  /\ IF acc >= operand
     THEN /\ link' = 1
          /\ mq' = (2 * mq + 1) % Word
          /\ eae_sc' = 0
          /\ UNCHANGED acc
     ELSE /\ link' = 0
          /\ mq' = Long \div operand
          /\ acc' = Long % operand
          /\ eae_sc' = Width + 1
  /\ Passes(1) /\ FlagKept /\ Eae

\* Mutant: the sign is looked for in AC, as if L did not belong to the number.
Normal_AcOnly(x, n) ==
  n = CountMask \/ x % Double = 0 \/ (x \div (Double \div 2)) % 2 # (x \div (Double \div 4)) % 2

\* The number in L, AC and MQ is doubled while L and the sign of AC agree.
Normal(x, n) == n = CountMask \/ x % Double = 0 \/ (x \div Double) % 2 # (x \div (Double \div 2)) % 2

Normalizing(x) == CHOOSE n \in Counts :
  Normal(x * 2^n, n) /\ \A k \in 0 .. n - 1 : ~Normal(x * 2^k, k)

Nmi ==
  LET x == link * Double + Long
      n == Normalizing(x)
      y == (x * 2^n) % (2 * Double)
  IN  /\ link' = y \div Double
      /\ mq' = y % Word
      /\ acc' = IF emode = "B" /\ y % Double = Double \div 2 THEN 0 ELSE (y \div Word) % Word
      /\ eae_sc' = n
      /\ Passes(0) /\ FlagKept /\ Eae

\* Shifts: by the operand plus one in mode A, by the step counter in mode B.
ShiftCount(operand) == IF emode = "A" THEN (operand % (CountMask + 1)) + 1 ELSE eae_sc

Shifted ==
  /\ eae_sc' = IF emode = "A" THEN 0 ELSE CountMask
  /\ Passes(IF emode = "A" THEN 1 ELSE 0)
  /\ Eae
  /\ UNCHANGED link

Shl(operand) ==
  LET n == ShiftCount(operand) IN
  /\ SetLong(IF n > 2 * Width + 1 THEN 0 ELSE Long * 2^n)
  /\ FlagKept
  /\ Shifted

Negative(x) == x >= Double \div 2
Signed(x) == IF Negative(x) THEN x - Double ELSE x

\* Mutant: the sign is not extended.
AsrResult_Logical(n) == Long \div 2^n

AsrResult(n) ==
  IF n > 2 * Width + 1 THEN IF Negative(Long) THEN Double - 1 ELSE 0
  ELSE (Signed(Long) \div 2^n) % Double

Asr(operand) ==
  LET n == ShiftCount(operand) IN
  /\ SetLong(AsrResult(n))
  /\ IF emode = "B" /\ n \in 1 .. 2 * Width
     THEN eae_gtf' = ((Long \div 2^(n - 1)) % 2 = 1)
     ELSE FlagKept
  /\ Shifted

Lsr(operand) ==
  LET n == ShiftCount(operand) IN
  /\ SetLong(IF n > 2 * Width THEN 0 ELSE Long \div 2^n)
  /\ IF emode = "B" /\ n > 0
     THEN eae_gtf' = ((Long \div 2^(n - 1)) % 2 = 1)
     ELSE FlagKept
  /\ Shifted

-----------------------------------------------------------------------------
(***************************************************************************)
(* Mode B.  The code does SCA before each of these.                        *)
(***************************************************************************)
Polluted == BitOr(acc, eae_sc)

Dad(low, high) ==
  /\ emode = "B"
  /\ SetLong(Polluted * Word + mq + high * Word + low)
  /\ Passes(1)
  /\ stored' = NoStore
  /\ UNCHANGED <<link, eae_sc, eae_gtf, emode>>

Dst ==
  /\ emode = "B"
  /\ stored' = <<mq, Polluted>>
  /\ acc' = Polluted
  /\ Passes(1)
  /\ UNCHANGED <<link, mq, eae_sc, eae_gtf, emode>>

Dpsz ==
  /\ emode = "B"
  /\ acc' = Polluted
  /\ Passes(IF Polluted = 0 /\ mq = 0 THEN 1 ELSE 0)
  /\ Eae
  /\ UNCHANGED <<link, mq, eae_sc, eae_gtf>>

\* DPIC and DCM in their full forms, 7573 and 7575, which swap AC and MQ first;
\* the code increments and negates what was in AC.
Dpic ==
  LET low == acc + 1 IN
  /\ emode = "B"
  /\ mq' = low % Word
  /\ SetLac(BitOr(mq, eae_sc) + low \div Word)
  /\ Passes(0) /\ Eae
  /\ UNCHANGED <<eae_sc, eae_gtf>>

Dcm ==
  LET low == (Word - acc) % Word IN
  /\ emode = "B"
  /\ mq' = low
  /\ SetLac(Word - 1 - acc + (IF low = 0 THEN 1 ELSE 0))
  /\ Passes(0) /\ Eae
  /\ UNCHANGED <<eae_sc, eae_gtf>>

\* SAM's flag.
Greater(a) == (a <= mq) # ((a >= Sign) # (mq >= Sign))

Sam ==
  /\ emode = "B"
  /\ SetLac(mq + (Word - 1 - acc) + 1)
  /\ eae_gtf' = Greater(acc)
  /\ Passes(0) /\ Eae
  /\ UNCHANGED <<mq, eae_sc>>

ArithNext ==
  \/ \E operand \in Operands : AndWord(operand) \/ TadWord(operand)
  \/ DcaWord \/ Gtf \/ Rtf \/ Caf
  \/ Group1 \/ UndefinedRotate \/ Group2 \/ Osr
  \/ Move \/ Swab \/ Swba \/ Sca \/ Acs \/ Nmi
  \/ \E operand \in Operands :
       Scl(operand) \/ Muy(operand) \/ Dvi(operand) \/ Shl(operand) \/ Asr(operand) \/ Lsr(operand)
  \/ \E low, high \in Operands : Dad(low, high)
  \/ Dst \/ Dpsz \/ Dpic \/ Dcm \/ Sam

ArithSpec == ArithInit /\ [][ArithNext]_arithVars

-----------------------------------------------------------------------------
\* A product and the accumulator never overflow the two words they go to, and
\* a division gives back the dividend or says that it cannot (cpu.rs:1045-1109).
MultiplyDivide ==
  [][\A operand \in Operands :
       /\ Muy(operand) => acc' * Word + mq' = mq * operand + acc
       /\ Dvi(operand) =>
            IF acc < operand THEN mq' * operand + acc' = Long /\ acc' < operand /\ link' = 0
            ELSE link' = 1]_arithVars

\* Arithmetic shifts divide with the sign, whatever the count, and in mode B
\* the last bit that went out is in the flag (cpu.rs:1167-1207).
AsrDivides ==
  [][\A operand \in Operands :
       LET n == ShiftCount(operand)
           new == acc' * Word + mq'
       IN  Asr(operand) =>
             /\ Signed(new) = Signed(Long) \div 2^n
             /\ emode = "B" /\ n \in 1 .. 2 * Width =>
                  eae_gtf' = (Signed(Long) \div 2^(n - 1) # 2 * Signed(new))]_arithVars

\* Normalizing loses nothing: the signed number of L, AC and MQ is doubled SC
\* times exactly, until it cannot be doubled again (cpu.rs:1111-1135).  Mode B
\* replaces the lowest number.
SignedLong(l, a, m) == a * Word + m - l * Double

NormalizeIsExact ==
  [][Nmi =>
       LET old == SignedLong(link, acc, mq)
           new == SignedLong(link', acc', mq')
       IN  \/ /\ new = old * 2^eae_sc'
              /\ old # 0 /\ new # -Double => (link' = 1) # (acc' >= Sign)
           \/ emode = "B" /\ acc' = 0 /\ mq' = 0]_arithVars

\* VIOLATED.  "AND group: skip if ALL conditions are true" (cpu.rs:808), where
\* the conditions are SPA, SNA and SZL: AC is not minus, not zero, L is not 1.
AndGroupSkipsOnAll ==
  [][\A selected \in SUBSET Conditions, cla \in BOOLEAN :
       SkipGroup(selected, TRUE, cla) =>
         Passes(IF \E c \in selected : Holds(c) THEN 0 ELSE 1)]_arithVars
=============================================================================
