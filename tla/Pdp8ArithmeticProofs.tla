----------------------- MODULE Pdp8ArithmeticProofs -----------------------
(***************************************************************************)
(* The arithmetic of the PDP-8 for words of any even width and any step    *)
(* counter that counts beyond two words.                                   *)
(***************************************************************************)
EXTENDS Pdp8Arithmetic, FiniteSetTheorems, WellFoundedInduction, TLAPS

-----------------------------------------------------------------------------
(***************************************************************************)
(* Numbers.                                                                *)
(***************************************************************************)
\* A set of natural numbers has a least one.
LEMMA LeastNatural ==
  ASSUME NEW S \in SUBSET Nat, S # {}
  PROVE  \E n \in S : \A k \in S : n <= k
<1> DEFINE R == OpToRel(<, Nat)
<1>1. PICK n \in S : \A k \in S : <<k, n>> \notin R
  <2>1. IsWellFoundedOn(R, Nat)
    BY NatLessThanWellFounded
  <2> HIDE DEF R
  <2> QED
    BY <2>1, WFMin
<1>2. \A k \in S : ~(k < n)
  BY <1>1 DEF OpToRel
<1> QED
  BY <1>2

\* A set has twice as many subsets when it gets a new member.
LEMMA SubsetsDouble ==
  ASSUME NEW S, IsFiniteSet(S), NEW x, x \notin S
  PROVE  Cardinality(SUBSET (S \cup {x})) = 2 * Cardinality(SUBSET S)
<1> DEFINE new == {s \cup {x} : s \in SUBSET S}
           f == [s \in SUBSET S |-> s \cup {x}]
<1>1. IsFiniteSet(SUBSET S) /\ Cardinality(SUBSET S) \in Nat
  BY FS_SUBSET, FS_CardinalityType
<1>2. f \in Bijection(SUBSET S, new)
  <2>1. \A s, t \in SUBSET S : s \cup {x} = t \cup {x} => s = t
    BY Zenon
  <2>2. f \in [SUBSET S -> new]
    OBVIOUS
  <2>3. \A s, t \in SUBSET S : f[s] = f[t] => s = t
    BY <2>1
  <2>4. \A u \in new : \E s \in SUBSET S : f[s] = u
    OBVIOUS
  <2> HIDE DEF f, new
  <2>5. f \in Injection(SUBSET S, new)
    BY <2>2, <2>3 DEF Injection, IsInjective
  <2>6. f \in Surjection(SUBSET S, new)
    BY <2>2, <2>4 DEF Surjection
  <2> QED
    BY <2>5, <2>6 DEF Bijection
<1>3. IsFiniteSet(new) /\ Cardinality(new) = Cardinality(SUBSET S)
  <2> HIDE DEF new, f
  <2> QED
    BY <1>1, <1>2, FS_Bijection DEF ExistsBijection
<1>4. SUBSET (S \cup {x}) = (SUBSET S) \cup new
  <2>1. ASSUME NEW t \in SUBSET (S \cup {x}) PROVE t \in (SUBSET S) \cup new
    <3>1. t \ {x} \in SUBSET S
      BY Zenon
    <3>2. CASE x \in t
      <4>1. t = (t \ {x}) \cup {x}
        BY <3>2, Zenon
      <4>2. t \in new
        BY <3>1, <4>1, Zenon
      <4> HIDE DEF new
      <4> QED
        BY <4>2
    <3>3. CASE x \notin t
      <4>1. t \in SUBSET S
        BY <3>3
      <4> QED
        BY <4>1, Zenon
    <3> QED
      BY <3>2, <3>3
  <2>2. SUBSET S \subseteq SUBSET (S \cup {x}) /\ new \subseteq SUBSET (S \cup {x})
    BY Zenon
  <2> HIDE DEF new
  <2> DEFINE all == SUBSET (S \cup {x})
             old == SUBSET S
  <2>3. (\A t \in all : t \in old \cup new) /\ old \subseteq all /\ new \subseteq all
    BY <2>1, <2>2
  <2> HIDE DEF all, old
  <2>4. all = old \cup new
    BY <2>3
  <2> QED
    BY <2>4 DEF all, old
<1>5. (SUBSET S) \cap new = {}
  <2>1. \A u \in new : x \in u
    OBVIOUS
  <2>2. \A u \in SUBSET S : x \notin u
    OBVIOUS
  <2> HIDE DEF new
  <2> DEFINE old == SUBSET S
  <2> HIDE DEF old
  <2>3. old \cap new = {}
    BY <2>1, <2>2 DEF old
  <2> QED
    BY <2>3 DEF old
<1> DEFINE old == SUBSET S
<1> HIDE DEF new, f, old
<1>6. IsFiniteSet(old) /\ IsFiniteSet(new) /\ old \cap new = {}
      /\ Cardinality(old) \in Nat /\ Cardinality(new) = Cardinality(old)
  BY <1>1, <1>3, <1>5 DEF old
<1>7. Cardinality(old \cup new) = Cardinality(old) + Cardinality(new) - Cardinality(old \cap new)
  BY <1>6, FS_Union
<1>8. Cardinality(old \cup new) = 2 * Cardinality(old)
  <2>1. Cardinality(old \cap new) = 0
    BY <1>6, FS_EmptySet, Zenon
  <2>2. Cardinality(old \cup new) = Cardinality(old) + Cardinality(old) - 0
    BY <1>6, <1>7, <2>1, Zenon
  <2> QED
    BY <1>6, <2>2
<1> QED
  BY <1>4, <1>8 DEF old

\* A power of two is the number of subsets of a set.
LEMMA PowerDoubles ==
  ASSUME NEW n \in Nat
  PROVE  2^n \in Nat \ {0} /\ 2^(n + 1) = 2 * 2^n
<1> DEFINE S == 1 .. n
           T == 1 .. n + 1
<1>1. IsFiniteSet(S) /\ Cardinality(S) = n
  BY FS_Interval
<1>2. IsFiniteSet(T) /\ Cardinality(T) = n + 1
  BY FS_Interval
<1>3. T = S \cup {n + 1} /\ n + 1 \notin S
  OBVIOUS
<1> HIDE DEF S, T
<1>4. IsFiniteSet(SUBSET S) /\ Cardinality(SUBSET S) = 2^n
  BY <1>1, FS_SUBSET
<1>5. Cardinality(SUBSET T) = 2^(n + 1)
  BY <1>2, FS_SUBSET
<1>6. Cardinality(SUBSET T) = 2 * Cardinality(SUBSET S)
  BY <1>1, <1>3, SubsetsDouble
<1>7. Cardinality(SUBSET S) \in Nat /\ Cardinality(SUBSET S) # 0
  <2>1. S \in SUBSET S
    OBVIOUS
  <2>2. SUBSET S # {}
    BY <2>1
  <2> QED
    BY <1>4, <2>2, FS_EmptySet, FS_CardinalityType
<1> QED
  BY <1>4, <1>5, <1>6, <1>7

\* Powers of two multiply by adding their exponents.
LEMMA PowersMultiply ==
  ASSUME NEW m \in Nat, NEW n \in Nat
  PROVE  2^(m + n) = 2^m * 2^n
<1> DEFINE wrong == {k \in Nat : 2^(m + k) # 2^m * 2^k}
<1>1. SUFFICES ASSUME wrong # {} PROVE FALSE
  BY n \notin wrong
<1>2. PICK k \in wrong : \A j \in wrong : k <= j
  <2>1. wrong \in SUBSET Nat
    OBVIOUS
  <2> HIDE DEF wrong
  <2> QED
    BY <1>1, <2>1, LeastNatural
<1>3. k \in Nat /\ 2^(m + k) # 2^m * 2^k
  OBVIOUS
<1>4. CASE k = 0
  <2>1. 2^0 = 1 /\ m + 0 = m /\ 2^m \in Nat
    BY PowerDoubles
  <2> QED
    BY <1>3, <1>4, <2>1
<1>5. CASE k # 0
  <2> DEFINE j == k - 1
  <2>1. j \in Nat /\ k = j + 1 /\ m + k = (m + j) + 1 /\ m + j \in Nat /\ ~(k <= j)
    BY <1>3, <1>5
  <2>2. 2^(m + j) = 2^m * 2^j
    BY <1>2, <2>1
  <2> HIDE DEF j, wrong
  <2>3. 2^k = 2 * 2^j /\ 2^(m + k) = 2 * 2^(m + j)
    BY <2>1, PowerDoubles
  <2>4. 2^m \in Nat /\ 2^j \in Nat
    BY <2>1, PowerDoubles
  <2>5. \A a, b \in Nat : 2 * (a * b) = a * (2 * b)
    BY SMT
  <2> QED
    BY <1>3, <2>2, <2>3, <2>4, <2>5
<1> QED
  BY <1>4, <1>5

\* The larger the exponent, the larger the power.
LEMMA PowersGrow ==
  ASSUME NEW m \in Nat, NEW n \in Nat, m <= n
  PROVE  2^m <= 2^n
<1> DEFINE d == n - m
<1>1. d \in Nat /\ n = m + d
  OBVIOUS
<1> HIDE DEF d
<1>2. 2^n = 2^m * 2^d
  BY <1>1, PowersMultiply
<1>3. 2^m \in Nat /\ 2^d \in Nat \ {0}
  BY <1>1, PowerDoubles
<1>4. \A a \in Nat, b \in Nat \ {0} : a <= a * b
  BY SMT
<1> QED
  BY <1>2, <1>3, <1>4

\* Division with remainder.
LEMMA RemainderFacts ==
  ASSUME NEW a \in Int, NEW b \in Nat \ {0}
  PROVE  a % b \in 0 .. b - 1 /\ a = b * (a \div b) + (a % b) /\ a \div b \in Int
  BY SMT

\* Multiples of a number are at least that number apart.
LEMMA ProductIsMonotone ==
  ASSUME NEW a \in Int, NEW b \in Int, NEW c \in Nat \ {0}, c * a < c * b
  PROVE  c * a + c <= c * b
<1>1. a < b
  BY SMT
<1>2. c * (a + 1) <= c * b
  BY <1>1, SMT
<1> QED
  BY <1>2, SMT

\* Quotient and remainder are the only ones.
LEMMA QuotientIsUnique ==
  ASSUME NEW b \in Nat \ {0}, NEW q \in Int, NEW r \in 0 .. b - 1, NEW a, a = b * q + r
  PROVE  a \div b = q /\ a % b = r
<1> DEFINE p == a \div b
           s == a % b
<1>1. a \in Int
  BY SMT
<1>2. s \in 0 .. b - 1 /\ a = b * p + s /\ p \in Int
  BY <1>1, RemainderFacts
<1> HIDE DEF p, s
<1>3. b * p \in Int /\ b * q \in Int
  BY <1>2, SMT
<1>4. ~(p < q)
  <2> SUFFICES ASSUME p < q PROVE FALSE
    OBVIOUS
  <2>1. b * p < b * q
    BY <1>2, SMT
  <2> QED
    BY <1>2, <1>3, <2>1, ProductIsMonotone
<1>5. ~(q < p)
  <2> SUFFICES ASSUME q < p PROVE FALSE
    OBVIOUS
  <2>1. b * q < b * p
    BY <1>2, SMT
  <2> QED
    BY <1>2, <1>3, <2>1, ProductIsMonotone
<1>6. p = q
  BY <1>2, <1>4, <1>5
<1> QED
  BY <1>2, <1>3, <1>6 DEF p, s

\* To take a remainder of a sum, multiples can be left out.
LEMMA MultiplesDropOut ==
  ASSUME NEW a \in Int, NEW b \in Nat \ {0}, NEW k \in Int
  PROVE  (a + b * k) \div b = (a \div b) + k /\ (a + b * k) % b = a % b
<1>1. a % b \in 0 .. b - 1 /\ a = b * (a \div b) + (a % b) /\ a \div b \in Int
  BY RemainderFacts
<1> DEFINE q == a \div b
           r == a % b
           x == a + b * k
           p == q + k
<1> HIDE DEF q, r
<1>2. r \in 0 .. b - 1 /\ p \in Int /\ x = b * p + r
  BY <1>1, SMT DEF q, r
<1> HIDE DEF x, p
<1>3. x \div b = p /\ x % b = r
  BY <1>2, QuotientIsUnique
<1> QED
  BY <1>3 DEF q, r, x, p

\* Dividing twice is dividing by the product.
LEMMA DivideTwice ==
  ASSUME NEW a \in Int, NEW b \in Nat \ {0}, NEW c \in Nat \ {0}
  PROVE  (a \div b) \div c = a \div (b * c) /\ b * c \in Nat \ {0}
<1> DEFINE q == a \div b
           r == a % b
           p == q \div c
           s == q % c
<1>1. q \in Int /\ r \in 0 .. b - 1 /\ a = b * q + r
  BY RemainderFacts
<1> HIDE DEF q, r
<1>2. p \in Int /\ s \in 0 .. c - 1 /\ q = c * p + s
  BY <1>1, RemainderFacts
<1> HIDE DEF p, s
<1>3. b * c \in Nat \ {0}
  BY SMT
<1>4. a = (b * c) * p + (b * s + r)
  BY <1>1, <1>2, SMT
<1>5. b * s + r \in 0 .. b * c - 1
  <2>1. b * (s + 1) <= b * c
    BY <1>2, SMT
  <2>2. b * s \in Nat /\ b * (s + 1) = b * s + b
    BY <1>2, SMT
  <2>3. b * c \in Nat
    BY <1>3
  <2> QED
    BY <1>1, <2>1, <2>2, <2>3
<1>6. a \div (b * c) = p
  BY <1>2, <1>3, <1>4, <1>5, QuotientIsUnique
<1> QED
  BY <1>3, <1>6 DEF p, q

-----------------------------------------------------------------------------
(***************************************************************************)
(* Words.                                                                  *)
(***************************************************************************)
\* The sizes of a word, of its half and of two words.
LEMMA SizeFacts ==
  /\ Width \in Nat \ {0} /\ Width \div 2 \in Nat \ {0}
  /\ Word \in Nat \ {0} /\ Sign \in Nat \ {0} /\ Word = 2 * Sign
  /\ Sign \div 2 \in Nat \ {0} /\ Sign = 2 * (Sign \div 2)
  /\ Double \in Nat \ {0} /\ Double \div 2 \in Nat \ {0}
  /\ Double = 2 * (Double \div 2) /\ Double \div 2 = Word * Sign
  /\ Double \div 4 \in Nat \ {0} /\ Double \div 2 = 2 * (Double \div 4)
  /\ CountMask \in Nat /\ CountMask >= 2 * Width + 2 /\ CountMask <= Word - 1
  /\ FieldSize \in Nat \ {0} /\ Operands \subseteq Words
<1>1. PICK v \in Nat : Width = v + 2
  <2>1. Width \in Nat /\ Width # 0 /\ Width # 1
    BY WidthAssumption
  <2>2. Width - 2 \in Nat /\ Width = (Width - 2) + 2
    BY <2>1
  <2> QED
    BY <2>2
<1>2. 2^v \in Nat \ {0} /\ 2^(v + 1) = 2 * 2^v /\ 2^((v + 1) + 1) = 2 * 2^(v + 1)
  BY PowerDoubles
<1>3. Word = 2 * (2 * 2^v)
  <2>1. (v + 1) + 1 = v + 2
    OBVIOUS
  <2> QED
    BY <1>1, <1>2, <2>1 DEF Word
<1> DEFINE u == 2^v
<1>4. u \in Nat \ {0} /\ Word = 2 * (2 * u)
  BY <1>2, <1>3
<1> HIDE DEF u
<1>5. Word = 4 * u
  BY <1>4
<1>6. Sign = 2 * u /\ Sign \div 2 = u
  BY <1>4, <1>5 DEF Sign
<1> DEFINE w == u * u
<1>7. w \in Nat \ {0} /\ Double = 16 * w /\ Word * Sign = 8 * w
  BY <1>4, <1>5, <1>6, SMT DEF Double
<1> HIDE DEF w
<1>8. /\ Double \in Nat \ {0} /\ Double \div 2 \in Nat \ {0}
      /\ Double = 2 * (Double \div 2) /\ Double \div 2 = Word * Sign
      /\ Double \div 4 \in Nat \ {0} /\ Double \div 2 = 2 * (Double \div 4)
  BY <1>7
<1>9. Width \in Nat \ {0} /\ Width \div 2 \in Nat \ {0}
  BY <1>1
<1>10. /\ Word \in Nat \ {0} /\ Sign \in Nat \ {0} /\ Word = 2 * Sign
       /\ Sign \div 2 \in Nat \ {0} /\ Sign = 2 * (Sign \div 2)
  BY <1>4, <1>5, <1>6
<1>11. /\ CountMask \in Nat /\ CountMask >= 2 * Width + 2 /\ CountMask <= Word - 1
       /\ FieldSize \in Nat \ {0} /\ Operands \subseteq Words
  <2>1. CountMask \in 2 * Width + 2 .. Word - 1 /\ FieldSize \in Nat \ {0} /\ Operands \subseteq Words
    BY WidthAssumption DEF Word, Words
  <2> QED
    BY <1>9, <1>10, <2>1
<1> QED
  BY <1>8, <1>9, <1>10, <1>11

\* Two words are one number.
LEMMA LongIsInRange ==
  ASSUME NEW a \in Words, NEW m \in Words
  PROVE  a * Word + m \in 0 .. Double - 1
<1>1. Word \in Nat \ {0} /\ a \in 0 .. Word - 1 /\ m \in 0 .. Word - 1
  BY SizeFacts DEF Words
<1>2. Word * (a + 1) <= Word * Word
  BY <1>1, SMT
<1>3. Word * (a + 1) = a * Word + Word /\ a * Word \in Nat
  BY <1>1, SMT
<1>4. Word * Word \in Nat
  BY <1>1, SMT
<1> QED
  BY <1>1, <1>2, <1>3, <1>4 DEF Double

\* What is set as a double word is the number up to multiples of Double.
LEMMA LongParts ==
  ASSUME NEW x \in Nat
  PROVE  /\ (x \div Word) % Word \in Words /\ x % Word \in Words
         /\ ((x \div Word) % Word) * Word + (x % Word) = x % Double
<1> DEFINE q == x \div Word
           m == x % Word
           p == q \div Word
           a == q % Word
<1>1. Word \in Nat \ {0}
  BY SizeFacts
<1>2. q \in Int /\ m \in 0 .. Word - 1 /\ x = Word * q + m
  BY <1>1, RemainderFacts
<1> HIDE DEF q, m
<1>3. p \in Int /\ a \in 0 .. Word - 1 /\ q = Word * p + a
  BY <1>1, <1>2, RemainderFacts
<1> HIDE DEF p, a
<1>4. x = Double * p + (a * Word + m)
  BY <1>1, <1>2, <1>3, SMT DEF Double
<1>5. a * Word + m \in 0 .. Double - 1
  BY <1>2, <1>3, LongIsInRange DEF Words
<1> DEFINE r == a * Word + m
<1> HIDE DEF r
<1>6. r \in 0 .. Double - 1 /\ x = Double * p + r
  BY <1>4, <1>5 DEF r
<1>7. x % Double = r
  <2>1. Double \in Nat \ {0}
    BY SizeFacts
  <2> QED
    BY <1>3, <1>6, <2>1, QuotientIsUnique
<1> QED
  BY <1>2, <1>3, <1>7 DEF r, q, m, a, Words

\* What is set as a word with the link fits.
LEMMA LacParts ==
  ASSUME NEW x \in Int
  PROVE  (x \div Word) % 2 \in 0 .. 1 /\ x % Word \in Words
<1>1. Word \in Nat \ {0} /\ x \div Word \in Int /\ x % Word \in 0 .. Word - 1
  BY SizeFacts, RemainderFacts
<1> QED
  BY <1>1 DEF Words

-----------------------------------------------------------------------------
(***************************************************************************)
(* Type correctness.                                                       *)
(***************************************************************************)
\* Counts are words, and the bitwise operators stay within them.
LEMMA CountFacts ==
  /\ Counts \subseteq Words /\ Width \in Counts /\ Width + 1 \in Counts
  /\ 0 \in Counts /\ CountMask \in Counts
  /\ \A x \in Int : x % (CountMask + 1) \in Counts /\ CountMask - (x % (CountMask + 1)) \in Counts
  BY SizeFacts DEF Counts, Words

\* Operands of & and | give words.
LEMMA BitFacts ==
  \A a, b \in Words : BitAnd(a, b) \in Words /\ BitOr(a, b) \in Words
  BY BitsAssumption

\* The program counter stays within its field.
LEMMA PassesInField ==
  ASSUME ArithTypeOK, NEW n \in Nat, Passes(n)
  PROVE  pc' \in 0 .. FieldSize - 1
<1>1. pc \in Int /\ FieldSize \in Nat \ {0} /\ pc + 1 + n \in Int
  BY SizeFacts DEF ArithTypeOK
<1>2. (pc + 1 + n) % FieldSize \in 0 .. FieldSize - 1
  BY <1>1, RemainderFacts
<1> QED
  BY <1>2 DEF Passes

\* A step that leaves everything but the accumulator, the link and the flag.
LEMMA PlainKeeps ==
  ASSUME ArithTypeOK, Plain
  PROVE  mq' \in Words /\ eae_sc' \in Counts /\ emode' \in {"A", "B"}
         /\ pc' \in 0 .. FieldSize - 1 /\ stored' = NoStore
  BY PassesInField DEF Plain, ArithTypeOK

\* What an assignment to L and AC, or to AC and MQ, leaves in them.
LEMMA SetLacKeeps ==
  ASSUME NEW x \in Int, SetLac(x)
  PROVE  link' \in 0 .. 1 /\ acc' \in Words
  BY LacParts DEF SetLac

LEMMA SetLongKeeps ==
  ASSUME NEW x \in Nat, SetLong(x)
  PROVE  acc' \in Words /\ mq' \in Words /\ acc' * Word + mq' = x % Double
  BY LongParts DEF SetLong

\* The registers as numbers.
LEMMA MachineFacts ==
  ASSUME ArithTypeOK
  PROVE  /\ link \in 0 .. 1 /\ acc \in Nat /\ mq \in Nat /\ acc < Word /\ mq < Word
         /\ eae_sc \in Nat /\ Lac \in 0 .. 2 * Word - 1 /\ Long \in 0 .. Double - 1
         /\ Long = Word * acc + mq
<1>1. acc \in 0 .. Word - 1 /\ mq \in 0 .. Word - 1 /\ eae_sc \in 0 .. CountMask /\ Word \in Nat
  BY SizeFacts DEF ArithTypeOK, Words, Counts
<1>2. link = 0 \/ link = 1
  BY DEF ArithTypeOK
<1>3. link * Word + acc \in 0 .. 2 * Word - 1
  BY <1>1, <1>2
<1>4. acc * Word = Word * acc
  BY <1>1, SMT
<1> QED
  BY <1>1, <1>2, <1>3, <1>4, LongIsInRange, SizeFacts DEF ArithTypeOK, Lac, Long

\* Registers start at zero.
LEMMA ArithInitHolds == ArithInit => ArithTypeOK
<1>1. 0 \in Words /\ 0 \in Counts /\ 0 \in 0 .. FieldSize - 1 /\ 0 \in 0 .. 1
  BY SizeFacts, CountFacts DEF Words
<1> QED
  BY <1>1, Zenon DEF ArithInit, ArithTypeOK

\* The memory references and the IOTs.
LEMMA ReferencesKeep ==
  ASSUME ArithTypeOK,
         \/ \E operand \in Operands : AndWord(operand) \/ TadWord(operand)
         \/ DcaWord \/ Gtf \/ Rtf \/ Caf
  PROVE  ArithTypeOK'
<1>1. ASSUME NEW operand \in Operands, AndWord(operand) PROVE ArithTypeOK'
  <2>1. operand \in Words
    BY SizeFacts
  <2> QED
    BY <1>1, <2>1, BitFacts, PlainKeeps DEF AndWord, ArithTypeOK
<1>2. ASSUME NEW operand \in Operands, TadWord(operand) PROVE ArithTypeOK'
  <2>1. Lac + operand \in Int
    BY SizeFacts, MachineFacts DEF Words
  <2>2. link' \in 0 .. 1 /\ acc' \in Words
    BY <1>2, <2>1, SetLacKeeps DEF TadWord
  <2> QED
    BY <1>2, <2>2, PlainKeeps DEF TadWord, ArithTypeOK
<1>3. CASE DcaWord
  BY <1>3, PlainKeeps, SizeFacts DEF DcaWord, ArithTypeOK, Words
<1>4. CASE Gtf
  <2>1. PICK rest \in 0 .. Sign \div 2 - 1 :
          acc' = link * Sign + (IF eae_gtf THEN Sign \div 2 ELSE 0) + rest
    BY <1>4 DEF Gtf
  <2>2. acc' \in Words
    <3>1. link * Sign \in {0, Sign}
      BY MachineFacts, SizeFacts
    <3> QED
      BY <2>1, <3>1, SizeFacts DEF Words
  <2> QED
    BY <1>4, <2>2, PlainKeeps DEF Gtf, ArithTypeOK
<1>5. CASE Rtf
  <2>1. acc \div Sign \in 0 .. 1
    <3>1. acc \in Nat /\ acc < 2 * Sign /\ Sign \in Nat \ {0}
      BY MachineFacts, SizeFacts
    <3>2. CASE acc < Sign
      <4>1. acc \in 0 .. Sign - 1 /\ acc = Sign * 0 + acc
        BY <3>1, <3>2
      <4> QED
        BY <3>1, <4>1, QuotientIsUnique
    <3>3. CASE acc >= Sign
      <4>1. acc - Sign \in 0 .. Sign - 1 /\ acc = Sign * 1 + (acc - Sign)
        BY <3>1, <3>3
      <4> QED
        BY <3>1, <4>1, QuotientIsUnique
    <3> QED
      BY <3>1, <3>2, <3>3
  <2> QED
    BY <1>5, <2>1, PlainKeeps DEF Rtf, ArithTypeOK
<1>6. CASE Caf
  <2>1. 0 \in Words /\ 0 \in 0 .. 1
    BY SizeFacts DEF Words
  <2>2. pc' \in 0 .. FieldSize - 1
    BY <1>6, PassesInField DEF Caf
  <2> QED
    BY <1>6, <2>1, <2>2, Zenon DEF Caf, ArithTypeOK
<1> QED
  BY <1>1, <1>2, <1>3, <1>4, <1>5, <1>6

\* The pulses and the rotates give a number.
LEMMA PulsedIsLac ==
  ASSUME ArithTypeOK, NEW ops \in SUBSET Micro
  PROVE  Pulsed(ops) \in 0 .. 2 * Word - 1
<1> DEFINE l == IF "CLL" \in ops THEN 0 ELSE link
           a == IF "CLA" \in ops THEN 0 ELSE acc
           m == IF "CML" \in ops THEN 1 - l ELSE l
           b == IF "CMA" \in ops THEN Word - 1 - a ELSE a
           x == m * Word + b
<1>1. Word \in Nat \ {0} /\ (m = 0 \/ m = 1) /\ b \in 0 .. Word - 1
  <2>1. (l = 0 \/ l = 1) /\ a \in Nat /\ a < Word /\ Word \in Nat \ {0}
    <3>1. Word \in Nat \ {0} /\ 0 < Word /\ (link = 0 \/ link = 1) /\ acc \in Nat /\ acc < Word
      BY MachineFacts, SizeFacts
    <3> QED
      BY <3>1
  <2> HIDE DEF l, a
  <2>2. m = 0 \/ m = 1
    BY <2>1
  <2>3. b \in 0 .. Word - 1
    BY <2>1
  <2> QED
    BY <2>1, <2>2, <2>3
<1> HIDE DEF m, b
<1>2. x \in 0 .. 2 * Word - 1
  BY <1>1
<1> HIDE DEF x
<1>3. (x + 1) % (2 * Word) \in 0 .. 2 * Word - 1
  BY <1>1, <1>2, RemainderFacts
<1>4. Pulsed(ops) = IF "IAC" \in ops THEN (x + 1) % (2 * Word) ELSE x
  BY DEF Pulsed, x, m, b
<1> QED
  BY <1>2, <1>3, <1>4

\* Rotations and swaps of L and AC stay numbers.
LEMMA RotatedIsNat ==
  ASSUME NEW rotation \in Rotations, NEW x \in 0 .. 2 * Word - 1
  PROVE  Rotated(rotation, x) \in Nat
<1> DEFINE half == 2^(Width \div 2)
           all == 0 .. 2 * Word - 1
<1>1. half \in Nat \ {0} /\ Word \in Nat \ {0} /\ Sign \in Nat \ {0} /\ Word = 2 * Sign
      /\ Double \div 2 = Word * Sign
  BY SizeFacts, PowerDoubles
<1> HIDE DEF half
<1>2. x \in Nat /\ x < 2 * Word
  BY <1>1
<1>3. CASE rotation = "none"
  BY <1>2, <1>3 DEF Rotated
<1>4. CASE rotation = "BSW"
  <2>1. x \div Word \in Nat /\ x % half \in Nat /\ x % Word \in Nat
    BY <1>1, <1>2, SMT
  <2>2. (x \div Word) * Word \in Nat /\ (x % half) * half \in Nat /\ (x % Word) \div half \in Nat
    BY <1>1, <2>1, SMT
  <2>3. Rotated(rotation, x) = (x \div Word) * Word + (x % half) * half + ((x % Word) \div half)
    BY <1>4 DEF Rotated, half
  <2> QED
    BY <2>2, <2>3
<1>5. CASE rotation = "RAL"
  <2>1. (2 * x) % (2 * Word) \in all /\ x \div Word \in all
    <3>1. 2 * Word \in Nat \ {0} /\ 2 * x \in Int
      BY <1>1, <1>2
    <3>2. (2 * x) % (2 * Word) \in all
      BY <3>1, RemainderFacts
    <3>3. x \div Word \in Nat /\ x \div Word <= x
      BY <1>1, <1>2, SMT
    <3> QED
      BY <1>1, <1>2, <3>2, <3>3
  <2>2. BitOr((2 * x) % (2 * Word), x \div Word) \in all
    BY <2>1, BitsAssumption
  <2> QED
    BY <1>1, <1>5, <2>2 DEF Rotated
<1>6. CASE rotation = "RTL"
  <2>1. (4 * x) % (2 * Word) \in all /\ x \div Sign \in all
    <3>1. 2 * Word \in Nat \ {0} /\ 4 * x \in Int
      BY <1>1, <1>2
    <3>2. (4 * x) % (2 * Word) \in all
      BY <3>1, RemainderFacts
    <3>3. x \div Sign \in Nat /\ x \div Sign <= x
      BY <1>1, <1>2, SMT
    <3> QED
      BY <1>1, <1>2, <3>2, <3>3
  <2>2. BitOr((4 * x) % (2 * Word), x \div Sign) \in all
    BY <2>1, BitsAssumption
  <2> QED
    BY <1>1, <1>6, <2>2 DEF Rotated
<1>7. CASE rotation = "RAR"
  <2>1. x \div 2 \in Nat /\ (x % 2 = 0 \/ x % 2 = 1)
    BY <1>2
  <2> QED
    BY <1>1, <1>7, <2>1 DEF Rotated
<1>8. CASE rotation = "RTR"
  <2>1. x \div 4 \in all /\ (x * Sign) % (2 * Word) \in all
    <3>1. 2 * Word \in Nat \ {0} /\ x * Sign \in Int
      BY <1>1, <1>2, SMT
    <3>2. (x * Sign) % (2 * Word) \in all
      BY <3>1, RemainderFacts
    <3> QED
      BY <1>1, <1>2, <3>2
  <2>2. BitOr(x \div 4, (x * Sign) % (2 * Word)) \in all
    BY <2>1, BitsAssumption
  <2> QED
    BY <1>1, <1>8, <2>2 DEF Rotated
<1> QED
  BY <1>3, <1>4, <1>5, <1>6, <1>7, <1>8 DEF Rotations

\* The operates of groups 1 and 2, and the moves of group 3.
LEMMA OperatesKeep ==
  ASSUME ArithTypeOK,
         Group1 \/ UndefinedRotate \/ Group2 \/ Osr \/ Move \/ Swab \/ Swba
  PROVE  ArithTypeOK'
<1>1. CASE Group1
  <2>1. PICK ops \in SUBSET Micro, rotation \in Rotations :
          SetLac(Rotated(rotation, Pulsed(ops)))
    BY <1>1 DEF Group1
  <2>2. Rotated(rotation, Pulsed(ops)) \in Int
    BY PulsedIsLac, RotatedIsNat
  <2>3. link' \in 0 .. 1 /\ acc' \in Words
    BY <2>1, <2>2, SetLacKeeps
  <2>4. pc' \in 0 .. FieldSize - 1
    BY <1>1, PassesInField DEF Group1
  <2> QED
    BY <1>1, <2>3, <2>4 DEF Group1, ArithTypeOK
<1>2. CASE UndefinedRotate
  <2>1. acc' \in Words
    <3>1. PICK x \in Operands : acc' = BitAnd(acc, x) \/ acc' = x
      BY <1>2 DEF UndefinedRotate
    <3>2. x \in Words /\ acc \in Words
      BY SizeFacts DEF ArithTypeOK
    <3> QED
      BY <3>1, <3>2, BitFacts
  <2>2. pc' \in 0 .. FieldSize - 1
    BY <1>2, PassesInField DEF UndefinedRotate
  <2> QED
    BY <1>2, <2>1, <2>2 DEF UndefinedRotate, ArithTypeOK
<1>3. CASE Group2
  <2>1. PICK selected \in SUBSET Conditions, reverse \in BOOLEAN, cla \in BOOLEAN :
          /\ Passes(IF Skips(selected, reverse) THEN 1 ELSE 0)
          /\ acc' = IF cla THEN 0 ELSE acc
    BY <1>3 DEF Group2, SkipGroup
  <2>2. acc' \in Words
    BY <2>1, SizeFacts DEF ArithTypeOK, Words
  <2>3. pc' \in 0 .. FieldSize - 1
    <3>1. (IF Skips(selected, reverse) THEN 1 ELSE 0) \in Nat
      OBVIOUS
    <3> QED
      BY <2>1, <3>1, PassesInField
  <2> QED
    BY <1>3, <2>2, <2>3 DEF Group2, SkipGroup, ArithTypeOK
<1>4. CASE Osr
  <2>1. acc' \in Words
    <3>1. PICK sr \in Operands : acc' = BitOr(acc, sr)
      BY <1>4 DEF Osr
    <3>2. sr \in Words /\ acc \in Words
      BY SizeFacts DEF ArithTypeOK
    <3> QED
      BY <3>1, <3>2, BitFacts
  <2>2. pc' \in 0 .. FieldSize - 1
    BY <1>4, PassesInField DEF Osr
  <2> QED
    BY <1>4, <2>1, <2>2 DEF Osr, ArithTypeOK
<1>5. CASE Move
  <2>1. PICK cla \in BOOLEAN, mql \in BOOLEAN, mqa \in BOOLEAN :
          LET a == IF cla THEN 0 ELSE acc
          IN  /\ mq' = IF mql THEN a ELSE mq
              /\ acc' = BitOr(IF mql THEN 0 ELSE a, IF mqa THEN mq ELSE 0)
    BY <1>5 DEF Move
  <2> DEFINE a == IF cla THEN 0 ELSE acc
             b == IF mql THEN 0 ELSE a
             c == IF mqa THEN mq ELSE 0
  <2>2. 0 \in Words /\ acc \in Words /\ mq \in Words
    BY SizeFacts DEF ArithTypeOK, Words
  <2>3. a \in Words /\ b \in Words /\ c \in Words
    BY <2>2
  <2>4. acc' = BitOr(b, c) /\ (mq' = a \/ mq' = mq)
    BY <2>1
  <2> HIDE DEF a, b, c
  <2>5. acc' \in Words /\ mq' \in Words
    BY <2>2, <2>3, <2>4, BitFacts
  <2>6. pc' \in 0 .. FieldSize - 1
    BY <1>5, PassesInField DEF Move
  <2> QED
    BY <1>5, <2>5, <2>6 DEF Move, ArithTypeOK
<1>6. CASE Swab
  <2>1. 0 \in Words
    BY SizeFacts DEF Words
  <2>2. pc' \in 0 .. FieldSize - 1
    BY <1>6, PassesInField DEF Swab
  <2> QED
    BY <1>6, <2>1, <2>2 DEF Swab, ArithTypeOK
<1>7. CASE Swba
  <2>1. pc' \in 0 .. FieldSize - 1
    BY <1>7, PassesInField DEF Swba
  <2> QED
    BY <1>7, <2>1 DEF Swba, ArithTypeOK
<1> QED
  BY <1>1, <1>2, <1>3, <1>4, <1>5, <1>6, <1>7

\* The flag is a flag and the mode a mode.
LEMMA FlagIsFlag ==
  ASSUME ArithTypeOK, FlagKept
  PROVE  eae_gtf' \in BOOLEAN
<1>1. (eae_gtf /\ emode = "B") \in BOOLEAN
  BY Zenon
<1> QED
  BY <1>1, Zenon DEF FlagKept

\* A number of words to pass.
LEMMA PassesOne ==
  ASSUME ArithTypeOK, Passes(0) \/ Passes(1)
  PROVE  pc' \in 0 .. FieldSize - 1
  BY PassesInField

\* The step counter, multiply and divide.
LEMMA CountersKeep ==
  ASSUME ArithTypeOK, Sca \/ Acs \/ \E operand \in Operands : Scl(operand)
  PROVE  ArithTypeOK'
<1>1. CASE Sca
  <2>1. acc' \in Words
    <3>1. acc \in Words /\ eae_sc \in Words
      BY CountFacts DEF ArithTypeOK
    <3> QED
      BY <1>1, <3>1, BitFacts DEF Sca
  <2>2. pc' \in 0 .. FieldSize - 1 /\ eae_gtf' \in BOOLEAN
    BY <1>1, PassesOne, FlagIsFlag DEF Sca
  <2> QED
    BY <1>1, <2>1, <2>2 DEF Sca, Eae, ArithTypeOK
<1>2. CASE Acs
  <2>1. 0 \in Words /\ acc \in Int
    BY SizeFacts, MachineFacts DEF Words
  <2>2. eae_sc' \in Counts
    BY <1>2, <2>1, CountFacts DEF Acs
  <2>3. pc' \in 0 .. FieldSize - 1 /\ eae_gtf' \in BOOLEAN
    BY <1>2, PassesOne, FlagIsFlag DEF Acs
  <2> QED
    BY <1>2, <2>1, <2>2, <2>3 DEF Acs, Eae, ArithTypeOK
<1>3. ASSUME NEW operand \in Operands, Scl(operand) PROVE ArithTypeOK'
  <2>1. operand \in Int
    BY SizeFacts DEF Words
  <2>2. eae_sc' \in Counts
    BY <1>3, <2>1, CountFacts DEF Scl
  <2>3. pc' \in 0 .. FieldSize - 1 /\ eae_gtf' \in BOOLEAN
    BY <1>3, PassesOne, FlagIsFlag DEF Scl
  <2> QED
    BY <1>3, <2>2, <2>3 DEF Scl, Eae, ArithTypeOK
<1> QED
  BY <1>1, <1>2, <1>3

\* What division leaves fits.
LEMMA DividesInWord ==
  ASSUME NEW a \in Nat, NEW m \in Nat, NEW d \in Words, a < d, m < Word
  PROVE  LET x == a * Word + m
         IN  /\ x \div d \in Words /\ x % d \in 0 .. d - 1
             /\ (x \div d) * d + (x % d) = x
<1> DEFINE x == a * Word + m
           q == x \div d
           r == x % d
<1>1. Word \in Nat \ {0} /\ d \in Nat \ {0} /\ d < Word
  BY SizeFacts DEF Words
<1>2. x \in Nat
  BY <1>1, SMT
<1>3. x < Word * d
  <2>1. Word * (a + 1) <= Word * d
    BY <1>1, SMT
  <2>2. x < Word * (a + 1)
    BY <1>1, SMT
  <2> QED
    BY <1>1, <1>2, <2>1, <2>2, SMT
<1> HIDE DEF x
<1>4. q \in Int /\ r \in 0 .. d - 1 /\ x = d * q + r
  <2>1. x \in Int /\ d \in Nat \ {0}
    BY <1>1, <1>2
  <2> QED
    BY <2>1, RemainderFacts, Zenon
<1> HIDE DEF q, r
<1>5. d * q = q * d
  BY <1>1, <1>4, SMT
<1>6. q \in Words
  <2>1. q >= 0
    <3> SUFFICES ASSUME q < 0 PROVE FALSE
      BY <1>4
    <3>1. d * q + d <= d * 0
      BY <1>1, <1>4, SMT
    <3>2. d * q \in Int
      BY <1>1, <1>4, SMT
    <3> QED
      BY <1>1, <1>2, <1>4, <3>1, <3>2
  <2>2. q < Word
    <3> SUFFICES ASSUME q >= Word PROVE FALSE
      BY <1>1, <1>4
    <3>1. d * Word <= d * q
      BY <1>1, <1>4, SMT
    <3>2. d * q \in Int /\ d * Word = Word * d /\ d * Word \in Int
      BY <1>1, <1>4, SMT
    <3> QED
      BY <1>1, <1>2, <1>3, <1>4, <3>1, <3>2
  <2> QED
    BY <1>1, <1>4, <2>1, <2>2 DEF Words
<1>7. q * d + r = x
  BY <1>4, <1>5
<1> QED
  BY <1>4, <1>6, <1>7 DEF q, r, x

\* Multiply and divide.
LEMMA ProductsKeep ==
  ASSUME ArithTypeOK, NEW operand \in Operands, Muy(operand) \/ Dvi(operand)
  PROVE  ArithTypeOK'
<1>1. operand \in Nat /\ operand \in Words
  BY SizeFacts DEF Words
<1>2. pc' \in 0 .. FieldSize - 1 /\ eae_gtf' \in BOOLEAN /\ stored' = NoStore /\ emode' = emode
  BY PassesOne, FlagIsFlag DEF Muy, Dvi, Eae
<1>3. acc \in Nat /\ mq \in Nat /\ acc < Word /\ mq < Word /\ Word \in Nat \ {0}
  BY MachineFacts, SizeFacts
<1>4. 0 \in 0 .. 1 /\ 1 \in 0 .. 1
  OBVIOUS
<1>5. CASE Muy(operand)
  <2>1. Product(operand, acc) \in Nat
    BY <1>1, <1>3, SMT DEF Product
  <2>2. acc' \in Words /\ mq' \in Words
    BY <1>5, <2>1, SetLongKeeps DEF Muy
  <2>3. link' \in 0 .. 1 /\ eae_sc' \in Counts
    BY <1>4, <1>5, CountFacts DEF Muy
  <2> QED
    BY <1>2, <2>2, <2>3 DEF ArithTypeOK
<1>6. CASE Dvi(operand)
  <2>1. CASE acc >= operand
    <3>1. (2 * mq + 1) % Word \in Words
      BY <1>3, RemainderFacts DEF Words
    <3>2. acc' \in Words /\ mq' \in Words /\ link' \in 0 .. 1 /\ eae_sc' \in Counts
      BY <1>4, <1>6, <2>1, <3>1, CountFacts DEF Dvi, ArithTypeOK
    <3> QED
      BY <1>2, <3>2 DEF ArithTypeOK
  <2>2. CASE ~(acc >= operand)
    <3>1. acc < operand
      BY <1>1, <1>3, <2>2
    <3>2. Long \div operand \in Words /\ Long % operand \in 0 .. operand - 1
      BY <1>1, <1>3, <3>1, DividesInWord DEF Long
    <3>3. Long % operand \in Words
      <4>1. operand \in Nat /\ operand < Word /\ Word \in Nat
        BY <1>1, <1>3 DEF Words
      <4> QED
        BY <3>2, <4>1 DEF Words
    <3>4. acc' \in Words /\ mq' \in Words /\ link' \in 0 .. 1 /\ eae_sc' \in Counts
      BY <1>4, <1>6, <2>2, <3>2, <3>3, CountFacts DEF Dvi
    <3> QED
      BY <1>2, <3>4 DEF ArithTypeOK
  <2> QED
    BY <2>1, <2>2
<1> QED
  BY <1>5, <1>6

\* Shifts.
LEMMA ShiftCountFacts ==
  ASSUME ArithTypeOK, NEW operand \in Operands
  PROVE  ShiftCount(operand) \in Nat /\ ShiftCount(operand) <= CountMask + 1
<1>1. operand \in Int /\ eae_sc \in Counts
  BY SizeFacts DEF Words, ArithTypeOK
<1>2. operand % (CountMask + 1) \in Counts
  BY <1>1, CountFacts
<1>3. \A c \in Counts : c \in Nat /\ c + 1 \in Nat /\ c <= CountMask
  BY SizeFacts DEF Counts
<1>4. CountMask \in Nat
  BY SizeFacts
<1> QED
  BY <1>1, <1>2, <1>3, <1>4 DEF ShiftCount

\* A shift sets two words; the flag is one whichever way it is set.
LEMMA ShiftedKeeps ==
  ASSUME ArithTypeOK, NEW x \in Nat, SetLong(x), Shifted, eae_gtf' \in BOOLEAN
  PROVE  ArithTypeOK'
<1>1. acc' \in Words /\ mq' \in Words
  BY SetLongKeeps
<1>2. pc' \in 0 .. FieldSize - 1
  <2>1. Passes(0) \/ Passes(1)
    BY DEF Shifted
  <2> QED
    BY <2>1, PassesOne
<1>3. eae_sc' \in Counts
  BY CountFacts DEF Shifted
<1> QED
  BY <1>1, <1>2, <1>3 DEF Shifted, Eae, ArithTypeOK

\* A double word and its number with a sign.
LEMMA SignedFacts ==
  ASSUME NEW x \in 0 .. Double - 1
  PROVE  /\ Signed(x) \in Int /\ Signed(x) >= -(Double \div 2) /\ Signed(x) < Double \div 2
         /\ \E k \in Int : Signed(x) = x + Double * k
         /\ Signed(x) < 0 <=> Negative(x)
<1>1. Double \in Nat \ {0} /\ Double = 2 * (Double \div 2) /\ Double \div 2 \in Nat \ {0}
  BY SizeFacts
<1> DEFINE h == Double \div 2
<1> HIDE DEF h
<1>2. h \in Nat \ {0} /\ Double = 2 * h /\ x \in Nat /\ x < 2 * h
  BY <1>1 DEF h
<1>3. Negative(x) <=> x >= h
  BY DEF Negative, h
<1>4. CASE x >= h
  <2>1. Signed(x) = x - Double
    BY <1>3, <1>4 DEF Signed
  <2>2. Signed(x) = x + Double * (-1)
    BY <1>2, <2>1
  <2> QED
    BY <1>2, <1>3, <1>4, <2>1, <2>2 DEF h
<1>5. CASE x < h
  <2>1. Signed(x) = x
    BY <1>2, <1>3, <1>5 DEF Signed
  <2>2. Signed(x) = x + Double * 0
    BY <1>2, <2>1
  <2> QED
    BY <1>2, <1>3, <1>5, <2>1, <2>2 DEF h
<1> QED
  BY <1>2, <1>4, <1>5

\* Shifting with the sign leaves two words.
LEMMA AsrResultIsNat ==
  ASSUME ArithTypeOK, NEW n \in Nat
  PROVE  AsrResult(n) \in 0 .. Double - 1
<1>1. Double \in Nat \ {0} /\ Long \in 0 .. Double - 1 /\ 2^n \in Nat \ {0}
  BY SizeFacts, MachineFacts, PowerDoubles
<1>2. Signed(Long) \in Int
  BY <1>1, SignedFacts
<1>3. Signed(Long) \div 2^n \in Int
  BY <1>1, <1>2, RemainderFacts
<1>4. (Signed(Long) \div 2^n) % Double \in 0 .. Double - 1
  BY <1>1, <1>3, RemainderFacts
<1>5. 0 \in 0 .. Double - 1 /\ Double - 1 \in 0 .. Double - 1
  BY <1>1
<1> QED
  BY <1>4, <1>5, Zenon DEF AsrResult

\* The shifts leave registers that hold what fits them.
LEMMA ShiftsKeep ==
  ASSUME ArithTypeOK, NEW operand \in Operands, Shl(operand) \/ Asr(operand) \/ Lsr(operand)
  PROVE  ArithTypeOK'
<1> DEFINE n == ShiftCount(operand)
<1>1. n \in Nat /\ 2^n \in Nat \ {0} /\ Long \in Nat
  BY ShiftCountFacts, MachineFacts, SizeFacts, PowerDoubles
<1>2. CASE Shl(operand)
  <2> DEFINE x == IF n > 2 * Width + 1 THEN 0 ELSE Long * 2^n
  <2>1. x \in Nat
    <3>1. Long * 2^n \in Nat
      BY <1>1, SMT
    <3> HIDE DEF n
    <3> QED
      BY <3>1
  <2>2. SetLong(x) /\ Shifted /\ eae_gtf' \in BOOLEAN
    BY <1>2, FlagIsFlag DEF Shl
  <2> HIDE DEF x
  <2> QED
    BY <2>1, <2>2, ShiftedKeeps
<1>3. CASE Asr(operand)
  <2>1. AsrResult(n) \in Nat
    BY <1>1, AsrResultIsNat
  <2>2. eae_gtf' \in BOOLEAN
    <3>1. CASE emode = "B" /\ n \in 1 .. 2 * Width
      BY <1>3, <3>1, Zenon DEF Asr
    <3>2. CASE ~(emode = "B" /\ n \in 1 .. 2 * Width)
      BY <1>3, <3>2, FlagIsFlag, Zenon DEF Asr
    <3> QED
      BY <3>1, <3>2
  <2>3. SetLong(AsrResult(n)) /\ Shifted
    BY <1>3 DEF Asr
  <2> HIDE DEF n
  <2> QED
    BY <2>1, <2>2, <2>3, ShiftedKeeps
<1>4. CASE Lsr(operand)
  <2> DEFINE x == IF n > 2 * Width THEN 0 ELSE Long \div 2^n
  <2>1. x \in Nat
    <3>1. Long \div 2^n \in Nat
      BY <1>1, SMT
    <3> HIDE DEF n
    <3> QED
      BY <3>1
  <2>2. eae_gtf' \in BOOLEAN
    <3>1. CASE emode = "B" /\ n > 0
      BY <1>4, <3>1, Zenon DEF Lsr
    <3>2. CASE ~(emode = "B" /\ n > 0)
      BY <1>4, <3>2, FlagIsFlag, Zenon DEF Lsr
    <3> QED
      BY <3>1, <3>2
  <2>3. SetLong(x) /\ Shifted
    BY <1>4 DEF Lsr
  <2> HIDE DEF x
  <2> QED
    BY <2>1, <2>2, <2>3, ShiftedKeeps
<1> QED
  BY <1>2, <1>3, <1>4

\* The count of a normalization is the first at which the number is normal.
LEMMA NormalizingFacts ==
  ASSUME NEW x \in Nat
  PROVE  LET n == Normalizing(x)
         IN  /\ n \in Counts /\ n \in Nat
             /\ Normal(x * 2^n, n) /\ \A k \in 0 .. n - 1 : ~Normal(x * 2^k, k)
<1> DEFINE S == {n \in Counts : Normal(x * 2^n, n)}
           P(n) == Normal(x * 2^n, n) /\ \A k \in 0 .. n - 1 : ~Normal(x * 2^k, k)
<1>1. CountMask \in Counts /\ \A c \in Counts : c \in Nat /\ c <= CountMask
  BY SizeFacts DEF Counts
<1>2. Normal(x * 2^CountMask, CountMask)
  BY DEF Normal
<1>3. PICK n \in S : \A k \in S : n <= k
  <2>1. S \in SUBSET Nat /\ S # {}
    BY <1>1, <1>2
  <2> HIDE DEF S
  <2> QED
    BY <2>1, LeastNatural
<1>4. n \in Counts /\ n \in Nat /\ n <= CountMask
  BY <1>1
<1>5. ASSUME NEW k \in 0 .. n - 1 PROVE ~Normal(x * 2^k, k)
  <2>1. k \in Counts /\ ~(n <= k)
    BY <1>4, SizeFacts DEF Counts
  <2> QED
    BY <1>3, <2>1
<1>6. P(n)
  BY <1>5
<1>7. \E c \in Counts : P(c)
  BY <1>4, <1>6
<1> HIDE DEF P
<1>8. Normalizing(x) = CHOOSE c \in Counts : P(c)
  BY DEF Normalizing, P
<1>9. Normalizing(x) \in Counts /\ P(Normalizing(x))
  BY <1>7, <1>8
<1> QED
  BY <1>1, <1>9 DEF P

\* The number that is normalized, and what becomes of it in 2 * Width + 1 bits.
Normalized == link * Double + Long
Doubled(x, k) == (x * 2^k) % (2 * Double)

\* Both have 2 * Width + 1 bits.
LEMMA NormalizedFacts ==
  ASSUME ArithTypeOK
  PROVE  /\ Normalized \in 0 .. 2 * Double - 1
         /\ \A k \in Nat : Doubled(Normalized, k) \in 0 .. 2 * Double - 1
<1>1. Double \in Nat \ {0} /\ 2 * Double \in Nat \ {0} /\ Long \in 0 .. Double - 1
  BY SizeFacts, MachineFacts
<1>2. link = 0 \/ link = 1
  BY MachineFacts
<1>3. Normalized \in 0 .. 2 * Double - 1
  BY <1>1, <1>2 DEF Normalized
<1>4. ASSUME NEW k \in Nat PROVE Doubled(Normalized, k) \in 0 .. 2 * Double - 1
  <2>1. Normalized \in Int /\ 2^k \in Int
    BY <1>1, <1>3, PowerDoubles
  <2> HIDE DEF Normalized
  <2>2. Normalized * 2^k \in Int
    BY <2>1, SMT
  <2> QED
    BY <1>1, <2>2, RemainderFacts DEF Doubled
<1> QED
  BY <1>3, <1>4

\* Normalizing leaves registers that hold what fits them.
LEMMA NmiKeeps ==
  ASSUME ArithTypeOK, Nmi
  PROVE  ArithTypeOK'
<1> DEFINE n == Normalizing(Normalized)
           y == Doubled(Normalized, n)
<1>1. n \in Counts /\ n \in Nat
  BY NormalizedFacts, NormalizingFacts
<1>2. y \in 0 .. 2 * Double - 1
  BY <1>1, NormalizedFacts
<1>3. /\ link' = y \div Double
      /\ mq' = y % Word
      /\ acc' = IF emode = "B" /\ y % Double = Double \div 2 THEN 0 ELSE (y \div Word) % Word
      /\ eae_sc' = n
      /\ Passes(0) /\ FlagKept /\ Eae
  BY DEF Nmi, Normalized, Doubled
<1> HIDE DEF n, y
<1>4. Double \in Nat \ {0} /\ y \in Nat /\ y < 2 * Double /\ 0 \in Words
  BY <1>2, SizeFacts DEF Words
<1>5. y \div Double \in 0 .. 1
  <2>1. CASE y < Double
    <3>1. y \in 0 .. Double - 1 /\ y = Double * 0 + y
      BY <1>4, <2>1
    <3> QED
      BY <1>4, <3>1, QuotientIsUnique
  <2>2. CASE y >= Double
    <3>1. y - Double \in 0 .. Double - 1 /\ y = Double * 1 + (y - Double)
      BY <1>4, <2>2
    <3> QED
      BY <1>4, <3>1, QuotientIsUnique
  <2> QED
    BY <1>4, <2>1, <2>2
<1>6. y % Word \in Words /\ (y \div Word) % Word \in Words
  BY <1>4, LongParts
<1>7. acc' \in Words /\ mq' \in Words /\ link' \in 0 .. 1
  BY <1>3, <1>4, <1>5, <1>6, Zenon
<1>8. pc' \in 0 .. FieldSize - 1 /\ eae_gtf' \in BOOLEAN
  BY <1>3, PassesOne, FlagIsFlag
<1> QED
  BY <1>1, <1>3, <1>7, <1>8 DEF Eae, ArithTypeOK

\* The instructions of mode B.
LEMMA ModeBKeeps ==
  ASSUME ArithTypeOK,
         \/ \E low, high \in Operands : Dad(low, high)
         \/ Dst \/ Dpsz \/ Dpic \/ Dcm \/ Sam
  PROVE  ArithTypeOK'
<1>1. acc \in Words /\ mq \in Words /\ eae_sc \in Words
  BY CountFacts DEF ArithTypeOK
<1>2. Polluted \in Words /\ BitOr(mq, eae_sc) \in Words
  BY <1>1, BitFacts DEF Polluted
<1>3. \A w \in Words : w \in Nat /\ w < Word
  BY SizeFacts DEF Words
<1>4. Word \in Nat \ {0}
  BY SizeFacts
<1>5. ASSUME NEW low \in Operands, NEW high \in Operands, Dad(low, high) PROVE ArithTypeOK'
  <2> DEFINE x == Polluted * Word + mq + high * Word + low
  <2>1. low \in Nat /\ high \in Nat /\ Polluted \in Nat /\ mq \in Nat
    BY <1>1, <1>2, <1>3, SizeFacts
  <2>2. Polluted * Word \in Nat /\ high * Word \in Nat
    BY <1>4, <2>1, SMT
  <2>3. x \in Nat
    BY <2>1, <2>2
  <2>4. SetLong(x) /\ Passes(1)
    BY <1>5 DEF Dad
  <2> HIDE DEF x
  <2>5. acc' \in Words /\ mq' \in Words /\ pc' \in 0 .. FieldSize - 1
    BY <2>3, <2>4, SetLongKeeps, PassesOne
  <2> QED
    BY <1>5, <2>5 DEF Dad, ArithTypeOK
<1>6. CASE Dst
  <2>1. pc' \in 0 .. FieldSize - 1
    BY <1>6, PassesOne DEF Dst
  <2>2. stored' \in Words \X Words
    BY <1>1, <1>2, <1>6 DEF Dst
  <2> QED
    BY <1>2, <1>6, <2>1, <2>2 DEF Dst, ArithTypeOK
<1>7. CASE Dpsz
  <2>1. (IF Polluted = 0 /\ mq = 0 THEN 1 ELSE 0) \in Nat
    OBVIOUS
  <2>2. pc' \in 0 .. FieldSize - 1
    BY <1>7, <2>1, PassesInField DEF Dpsz
  <2> QED
    BY <1>2, <1>7, <2>2 DEF Dpsz, Eae, ArithTypeOK
<1>8. CASE Dpic
  <2> DEFINE low == acc + 1
             x == BitOr(mq, eae_sc) + low \div Word
  <2>1. low \in Int
    BY <1>1, <1>3
  <2>2. mq' = low % Word /\ SetLac(x) /\ Passes(0)
    BY <1>8 DEF Dpic
  <2> HIDE DEF low
  <2>3. low % Word \in 0 .. Word - 1 /\ low \div Word \in Int
    BY <1>4, <2>1, RemainderFacts
  <2>4. low % Word \in Words
    BY <2>3 DEF Words
  <2>5. x \in Int
    BY <1>2, <1>3, <2>3
  <2> HIDE DEF x
  <2>6. acc' \in Words /\ link' \in 0 .. 1
    BY <2>2, <2>5, SetLacKeeps
  <2>7. pc' \in 0 .. FieldSize - 1
    BY <1>8, PassesOne DEF Dpic
  <2> QED
    BY <1>8, <2>2, <2>4, <2>6, <2>7 DEF Dpic, Eae, ArithTypeOK
<1>9. CASE Dcm
  <2> DEFINE low == (Word - acc) % Word
             x == Word - 1 - acc + (IF low = 0 THEN 1 ELSE 0)
  <2>1. low \in Words /\ acc \in Int
    BY <1>1, <1>3, <1>4, RemainderFacts DEF Words
  <2>2. x \in Int
    <3> HIDE DEF low
    <3> QED
      BY <1>4, <2>1
  <2>3. mq' = low /\ SetLac(x) /\ Passes(0)
    BY <1>9 DEF Dcm
  <2> HIDE DEF x
  <2>4. acc' \in Words /\ link' \in 0 .. 1 /\ mq' \in Words /\ pc' \in 0 .. FieldSize - 1
    BY <2>1, <2>2, <2>3, SetLacKeeps, PassesOne
  <2> QED
    BY <1>9, <2>4 DEF Dcm, Eae, ArithTypeOK
<1>10. CASE Sam
  <2>1. mq + (Word - 1 - acc) + 1 \in Int
    BY <1>1, <1>3, <1>4
  <2>2. acc' \in Words /\ link' \in 0 .. 1 /\ pc' \in 0 .. FieldSize - 1
    BY <1>10, <2>1, SetLacKeeps, PassesOne DEF Sam
  <2>3. eae_gtf' \in BOOLEAN
    BY <1>10, Zenon DEF Sam, Greater
  <2> QED
    BY <1>10, <2>2, <2>3 DEF Sam, Eae, ArithTypeOK
<1> QED
  BY <1>5, <1>6, <1>7, <1>8, <1>9, <1>10

\* So does every instruction.
LEMMA ArithStepKeeps == ArithTypeOK /\ [ArithNext]_arithVars => ArithTypeOK'
<1> SUFFICES ASSUME ArithTypeOK, [ArithNext]_arithVars PROVE ArithTypeOK'
  OBVIOUS
<1>1. CASE \/ \E operand \in Operands : AndWord(operand) \/ TadWord(operand)
           \/ DcaWord \/ Gtf \/ Rtf \/ Caf
  BY <1>1, ReferencesKeep
<1>2. CASE Group1 \/ UndefinedRotate \/ Group2 \/ Osr \/ Move \/ Swab \/ Swba
  BY <1>2, OperatesKeep
<1>3. CASE Sca \/ Acs \/ \E operand \in Operands : Scl(operand)
  BY <1>3, CountersKeep
<1>4. ASSUME NEW operand \in Operands, Muy(operand) \/ Dvi(operand) PROVE ArithTypeOK'
  BY <1>4, ProductsKeep
<1>5. ASSUME NEW operand \in Operands, Shl(operand) \/ Asr(operand) \/ Lsr(operand)
      PROVE  ArithTypeOK'
  BY <1>5, ShiftsKeep
<1>6. CASE Nmi
  BY <1>6, NmiKeeps
<1>7. CASE \/ \E low, high \in Operands : Dad(low, high)
           \/ Dst \/ Dpsz \/ Dpic \/ Dcm \/ Sam
  BY <1>7, ModeBKeeps
<1>8. CASE UNCHANGED arithVars
  BY <1>8 DEF arithVars, registers, ArithTypeOK
<1> QED
  BY <1>1, <1>2, <1>3, <1>4, <1>5, <1>6, <1>7, <1>8 DEF ArithNext

\* Every register holds what fits it, whatever program runs on whatever
\* operands (cpu.rs masks what it computes in wider integers).
THEOREM ArithTypesAreKept == ArithSpec => []ArithTypeOK
<1> QED
  BY ArithInitHolds, ArithStepKeeps, PTL DEF ArithSpec

-----------------------------------------------------------------------------
(***************************************************************************)
(* What the EAE computes.                                                  *)
(***************************************************************************)
\* A product of two words and a third word make two words.
LEMMA ProductFits ==
  ASSUME ArithTypeOK, NEW operand \in Operands
  PROVE  Product(operand, acc) \in 0 .. Double - 1
<1>1. /\ operand \in Nat /\ operand < Word /\ Word \in Nat \ {0}
      /\ acc \in Nat /\ acc < Word /\ mq \in Nat /\ mq < Word
  BY SizeFacts, MachineFacts DEF Words
<1>2. mq * operand <= Word * operand - operand
  <2>1. (Word - mq) * operand >= operand
    BY <1>1, SMT
  <2>2. (Word - mq) * operand = Word * operand - mq * operand
    BY <1>1, SMT
  <2>3. Word * operand \in Int /\ mq * operand \in Int
    BY <1>1, SMT
  <2> QED
    BY <1>1, <2>1, <2>2, <2>3
<1>3. Word * (operand + 1) <= Word * Word
  BY <1>1, SMT
<1>4. Word * (operand + 1) = Word * operand + Word
  BY <1>1, SMT
<1>5. Word * operand \in Nat /\ mq * operand \in Nat /\ Double \in Nat /\ Double = Word * Word
  BY <1>1, SMT DEF Double
<1>6. operand = 0 => Word * operand = 0 /\ mq * operand = 0
  BY <1>1, SMT
<1>7. mq * operand + acc < Double
  BY <1>1, <1>2, <1>3, <1>4, <1>5, <1>6
<1> QED
  BY <1>1, <1>5, <1>7 DEF Product

\* A product is there in full, with what AC held added.
LEMMA MuyIsExact ==
  ASSUME ArithTypeOK, NEW operand \in Operands, Muy(operand)
  PROVE  acc' * Word + mq' = mq * operand + acc
<1> DEFINE x == Product(operand, acc)
<1>1. x \in 0 .. Double - 1 /\ SetLong(x)
  BY ProductFits DEF Muy
<1>2. x = mq * operand + acc
  BY DEF Product
<1> HIDE DEF x
<1>3. x \in Nat /\ x = Double * 0 + x /\ Double \in Nat \ {0}
  BY <1>1, SizeFacts
<1>4. x % Double = x
  BY <1>1, <1>3, QuotientIsUnique
<1> QED
  BY <1>1, <1>2, <1>3, <1>4, SetLongKeeps

\* A division that starts gives the dividend back.
LEMMA DviIsExact ==
  ASSUME ArithTypeOK, NEW operand \in Operands, Dvi(operand)
  PROVE  IF acc < operand THEN mq' * operand + acc' = Long /\ acc' < operand /\ link' = 0
         ELSE link' = 1
<1>1. operand \in Words /\ operand \in Nat /\ acc \in Nat /\ mq \in Nat /\ mq < Word
  BY SizeFacts, MachineFacts DEF Words
<1>2. CASE acc < operand
  <2>1. ~(acc >= operand)
    BY <1>1, <1>2
  <2>2. link' = 0 /\ mq' = Long \div operand /\ acc' = Long % operand
    BY <2>1 DEF Dvi
  <2>3. Long % operand \in 0 .. operand - 1 /\ (Long \div operand) * operand + (Long % operand) = Long
    BY <1>1, <1>2, DividesInWord DEF Long
  <2>4. Long % operand < operand
    BY <1>1, <2>3
  <2> QED
    BY <1>2, <2>2, <2>3, <2>4, Zenon
<1>3. CASE ~(acc < operand)
  <2>1. acc >= operand
    BY <1>1, <1>3
  <2> QED
    BY <1>3, <2>1 DEF Dvi
<1> QED
  BY <1>2, <1>3

\* A product and the accumulator never overflow the two words they go to, and
\* a division gives back the dividend or says that it cannot, for every
\* operand (eae_muy and eae_dvi in cpu.rs).
THEOREM MultiplyDivideHolds == ArithSpec => MultiplyDivide
<1> DEFINE Exact(operand) ==
             /\ Muy(operand) => acc' * Word + mq' = mq * operand + acc
             /\ Dvi(operand) =>
                  IF acc < operand THEN mq' * operand + acc' = Long /\ acc' < operand /\ link' = 0
                  ELSE link' = 1
<1>1. ASSUME ArithTypeOK, NEW operand \in Operands PROVE Exact(operand)
  BY <1>1, MuyIsExact, DviIsExact
<1> HIDE DEF Exact
<1>2. ArithTypeOK /\ [ArithNext]_arithVars => [\A operand \in Operands : Exact(operand)]_arithVars
  BY <1>1
<1>3. ArithSpec => [][\A operand \in Operands : Exact(operand)]_arithVars
  BY <1>2, ArithTypesAreKept, PTL DEF ArithSpec
<1> QED
  BY <1>3 DEF MultiplyDivide, Exact

\* Two words hold the numbers below this power of two.
LEMMA DoubleIsPower ==
  Double = 2^(2 * Width)
<1>1. Width \in Nat /\ 2 * Width = Width + Width
  BY SizeFacts
<1> QED
  BY <1>1, PowersMultiply DEF Double, Word

\* A number that fits with its sign is the one that its double word stands for.
LEMMA SignedOfRemainder ==
  ASSUME NEW t \in Int, t >= -(Double \div 2), t < Double \div 2
  PROVE  Signed(t % Double) = t
<1> DEFINE h == Double \div 2
<1>1. h \in Nat \ {0} /\ Double = 2 * h /\ Double \in Nat \ {0}
  BY SizeFacts
<1>2. t >= -h /\ t < h
  OBVIOUS
<1>3. \A x : Signed(x) = IF x >= h THEN x - Double ELSE x
  BY DEF Signed, Negative
<1> HIDE DEF h
<1>4. CASE t >= 0
  <2>1. t \in 0 .. Double - 1 /\ t = Double * 0 + t
    BY <1>1, <1>2, <1>4
  <2>2. t % Double = t
    BY <1>1, <2>1, QuotientIsUnique
  <2>3. ~(t >= h)
    BY <1>1, <1>2
  <2> QED
    BY <1>3, <2>2, <2>3
<1>5. CASE t < 0
  <2> DEFINE r == t + Double
             q == -1
  <2>1. r \in 0 .. Double - 1 /\ t = Double * q + r /\ q \in Int
    BY <1>1, <1>2, <1>5
  <2>2. r >= h /\ r - Double = t
    BY <1>1, <1>2
  <2> HIDE DEF r, q
  <2>3. t % Double = r
    BY <1>1, <2>1, QuotientIsUnique
  <2> QED
    BY <1>3, <2>2, <2>3
<1> QED
  BY <1>4, <1>5

\* Dividing brings a number nearer to zero, or to -1 when it is negative, and
\* it gets there when the divisor is larger.
LEMMA QuotientShrinks ==
  ASSUME NEW h \in Nat \ {0}, NEW s \in Int, s >= -h, s < h, NEW p \in Nat \ {0}
  PROVE  /\ s \div p \in Int /\ s \div p >= -h /\ s \div p < h
         /\ p >= h => s \div p = IF s < 0 THEN -1 ELSE 0
<1> DEFINE q == s \div p
           r == s % p
<1>1. q \in Int /\ r \in 0 .. p - 1 /\ s = p * q + r
  BY RemainderFacts
<1> HIDE DEF q, r
<1>2. p * q \in Int /\ p * h \in Int
  BY <1>1, SMT
<1>3. q < 0 => p * q <= -p
  BY <1>1, SMT
<1>4. q >= 0 => p * q >= 0
  BY <1>1, SMT
<1>5. s < 0 <=> q < 0
  BY <1>1, <1>2, <1>3, <1>4
<1>6. q >= -h
  <2> SUFFICES ASSUME q <= -h - 1 PROVE FALSE
    BY <1>1
  <2>1. p * (-h - 1 - q) >= 0
    BY <1>1, SMT
  <2>2. p * (-h - 1 - q) = -(p * h) - p - p * q
    BY <1>1, SMT
  <2>3. p * h >= h
    BY SMT
  <2> QED
    BY <1>1, <1>2, <2>1, <2>2, <2>3
<1>7. q < h
  <2> SUFFICES ASSUME q >= h PROVE FALSE
    BY <1>1
  <2>1. p * q >= q
    BY <1>1, SMT
  <2> QED
    BY <1>1, <1>2, <2>1
<1>8. ASSUME p >= h PROVE q = IF s < 0 THEN -1 ELSE 0
  <2>1. q > -2
    <3> SUFFICES ASSUME q <= -2 PROVE FALSE
      BY <1>1
    <3>1. p * (-2 - q) >= 0 /\ p * (-2 - q) = -(2 * p) - p * q
      BY <1>1, SMT
    <3> QED
      BY <1>1, <1>2, <1>8, <3>1
  <2>2. q < 1
    <3> SUFFICES ASSUME q >= 1 PROVE FALSE
      BY <1>1
    <3>1. p * q >= p
      BY <1>1, SMT
    <3> QED
      BY <1>1, <1>2, <1>8, <3>1
  <2> QED
    BY <1>1, <1>5, <2>1, <2>2
<1> QED
  BY <1>1, <1>6, <1>7, <1>8 DEF q

\* What a shift leaves is the quotient, whether the shift is cut short or not.
LEMMA AsrResultIsQuotient ==
  ASSUME ArithTypeOK, NEW n \in Nat
  PROVE  Signed(AsrResult(n)) = Signed(Long) \div 2^n
<1> DEFINE h == Double \div 2
           s == Signed(Long)
           p == 2^n
<1>1. h \in Nat \ {0} /\ Double = 2 * h /\ Double \in Nat \ {0} /\ p \in Nat \ {0}
  BY SizeFacts, PowerDoubles
<1>2. s \in Int /\ s >= -h /\ s < h /\ (s < 0 <=> Negative(Long))
  BY MachineFacts, SignedFacts
<1>3. \A x : Signed(x) = IF x >= h THEN x - Double ELSE x
  BY DEF Signed, Negative
<1>4. AsrResult(n) = IF n > 2 * Width + 1 THEN IF Negative(Long) THEN Double - 1 ELSE 0
                     ELSE (s \div p) % Double
  BY DEF AsrResult
<1>5. n > 2 * Width + 1 => p >= h
  <2> SUFFICES ASSUME n > 2 * Width + 1 PROVE p >= h
    OBVIOUS
  <2>1. 2 * Width \in Nat /\ 2 * Width <= n
    BY SizeFacts
  <2>2. 2^(2 * Width) <= p
    BY <2>1, PowersGrow
  <2> HIDE DEF h, p
  <2> QED
    BY <1>1, <2>2, DoubleIsPower
<1>6. \A t \in Int : t >= -h /\ t < h => Signed(t % Double) = t
  BY SignedOfRemainder
<1> HIDE DEF h, s, p
<1>7. /\ s \div p \in Int /\ s \div p >= -h /\ s \div p < h
      /\ p >= h => s \div p = IF s < 0 THEN -1 ELSE 0
  BY <1>1, <1>2, QuotientShrinks
<1>8. CASE n > 2 * Width + 1 /\ Negative(Long)
  <2>1. AsrResult(n) = Double - 1
    BY <1>4, <1>8
  <2>2. s \div p = -1
    BY <1>2, <1>5, <1>7, <1>8
  <2>3. Signed(Double - 1) = -1
    BY <1>1, <1>3
  <2> QED
    BY <2>1, <2>2, <2>3 DEF s, p
<1>9. CASE n > 2 * Width + 1 /\ ~Negative(Long)
  <2>1. AsrResult(n) = 0
    BY <1>4, <1>9
  <2>2. s \div p = 0
    BY <1>2, <1>5, <1>7, <1>9
  <2>3. Signed(0) = 0
    BY <1>1, <1>3
  <2> QED
    BY <2>1, <2>2, <2>3 DEF s, p
<1>10. CASE ~(n > 2 * Width + 1)
  <2>1. AsrResult(n) = (s \div p) % Double
    BY <1>4, <1>10
  <2>2. Signed((s \div p) % Double) = s \div p
    BY <1>6, <1>7
  <2> QED
    BY <2>1, <2>2 DEF s, p
<1> QED
  BY <1>8, <1>9, <1>10

\* A number has the bits of another that differs from it by a multiple of
\* larger powers of two.
LEMMA ParityAgrees ==
  ASSUME NEW x \in Int, NEW s \in Int, NEW q \in Nat \ {0}, NEW m \in Nat, NEW k \in Int,
         s = x + (2 * q * m) * k
  PROVE  (s \div q) % 2 = (x \div q) % 2
<1> DEFINE j == m * k
           i == 2 * j
<1>1. j \in Int /\ i \in Int /\ s = x + q * i
  BY SMT
<1>2. i = 2 * j
  OBVIOUS
<1> HIDE DEF j, i
<1>3. s \div q = (x \div q) + i /\ x \div q \in Int
  <2>1. (x + q * i) \div q = (x \div q) + i
    BY <1>1, MultiplesDropOut
  <2>2. x \div q \in Int
    BY RemainderFacts
  <2> QED
    BY <1>1, <2>1, <2>2, Zenon
<1> DEFINE y == x \div q
<1>4. y \in Int /\ s \div q = y + 2 * j
  BY <1>2, <1>3
<1> HIDE DEF y
<1>5. (y + 2 * j) % 2 = y % 2
  BY <1>1, <1>4, MultiplesDropOut
<1> QED
  BY <1>4, <1>5 DEF y

\* The last bit out is what is lost of the quotient.
LEMMA LastBitOut ==
  ASSUME ArithTypeOK, NEW n \in 1 .. 2 * Width
  PROVE  ((Long \div 2^(n - 1)) % 2 = 1)
           <=> (Signed(Long) \div 2^(n - 1) # 2 * (Signed(Long) \div 2^n))
<1> DEFINE e == n - 1
           f == 2 * Width - n
           s == Signed(Long)
           q == 2^e
           m == 2^f
<1>1. e \in Nat /\ f \in Nat /\ n = e + 1 /\ 2 * Width = n + f /\ n \in Nat
  BY SizeFacts
<1> HIDE DEF e, f
<1>2. q \in Nat \ {0} /\ m \in Nat \ {0} /\ 2^n = 2 * q
  BY <1>1, PowerDoubles
<1>3. Double = 2 * q * m
  BY <1>1, <1>2, DoubleIsPower, PowersMultiply
<1>4. s \in Int /\ Long \in Int
  BY MachineFacts, SignedFacts
<1>5. PICK k \in Int : s = Long + Double * k
  BY MachineFacts, SignedFacts
<1> DEFINE x == Long
           p == 2^n
<1>6. p = q * 2
  BY <1>2
<1> HIDE DEF s, q, m, x, p
<1>7. s = x + (2 * q * m) * k
  BY <1>3, <1>5 DEF x
<1>8. (s \div q) % 2 = (x \div q) % 2
  BY <1>2, <1>4, <1>7, ParityAgrees DEF x
<1>9. (s \div q) \div 2 = s \div p
  BY <1>2, <1>4, <1>6, DivideTwice
<1> DEFINE t == s \div q
<1>10. t \in Int
  BY <1>2, <1>4, RemainderFacts
<1>11. t \div 2 = s \div p /\ t % 2 = (x \div q) % 2
  BY <1>8, <1>9
<1> HIDE DEF t
<1>12. t = 2 * (t \div 2) + (t % 2) /\ t % 2 \in 0 .. 1 /\ t \div 2 \in Int
  BY <1>10
<1>13. t % 2 = 1 <=> t # 2 * (t \div 2)
  BY <1>10, <1>12
<1>14. (x \div q) % 2 = 1 <=> s \div q # 2 * (s \div p)
  BY <1>11, <1>13 DEF t
<1> QED
  BY <1>14 DEF x, q, p, e, s

\* What an arithmetic shift leaves in AC, MQ and the flag.
LEMMA AsrIsExact ==
  ASSUME ArithTypeOK, NEW operand \in Operands, Asr(operand)
  PROVE  LET n == ShiftCount(operand)
             new == acc' * Word + mq'
         IN  /\ Signed(new) = Signed(Long) \div 2^n
             /\ emode = "B" /\ n \in 1 .. 2 * Width =>
                  eae_gtf' = (Signed(Long) \div 2^(n - 1) # 2 * Signed(new))
<1> DEFINE n == ShiftCount(operand)
           new == acc' * Word + mq'
           x == AsrResult(n)
<1>1. n \in Nat
  BY ShiftCountFacts
<1>2. x \in 0 .. Double - 1 /\ SetLong(x)
  BY <1>1, AsrResultIsNat DEF Asr
<1>3. emode = "B" /\ n \in 1 .. 2 * Width => eae_gtf' = ((Long \div 2^(n - 1)) % 2 = 1)
  BY DEF Asr
<1> HIDE DEF n
<1>4. Signed(x) = Signed(Long) \div 2^n
  BY <1>1, AsrResultIsQuotient
<1> HIDE DEF x
<1>5. x \in Nat /\ x = Double * 0 + x /\ Double \in Nat \ {0}
  BY <1>2, SizeFacts
<1>6. new = x
  <2>1. x % Double = x
    BY <1>2, <1>5, QuotientIsUnique
  <2> QED
    BY <1>2, <1>5, <2>1, SetLongKeeps
<1> HIDE DEF new
<1>7. ASSUME emode = "B", n \in 1 .. 2 * Width
      PROVE  eae_gtf' = (Signed(Long) \div 2^(n - 1) # 2 * Signed(new))
  <2>1. ((Long \div 2^(n - 1)) % 2 = 1) <=> (Signed(Long) \div 2^(n - 1) # 2 * (Signed(Long) \div 2^n))
    BY <1>7, LastBitOut
  <2>2. ((Long \div 2^(n - 1)) % 2 = 1) = (Signed(Long) \div 2^(n - 1) # 2 * (Signed(Long) \div 2^n))
    BY <2>1, Zenon
  <2> QED
    BY <1>3, <1>4, <1>6, <1>7, <2>2, Zenon
<1>8. Signed(new) = Signed(Long) \div 2^n
  BY <1>4, <1>6
<1> QED
  BY <1>7, <1>8 DEF n, new

\* Arithmetic shifts divide with the sign, whatever the count, even one at
\* which the code does not shift but fills, and in mode B the last bit that
\* went out is in the flag (eae_asr in cpu.rs).
THEOREM AsrDividesHolds == ArithSpec => AsrDivides
<1> DEFINE Exact(operand) ==
             LET n == ShiftCount(operand)
                 new == acc' * Word + mq'
             IN  Asr(operand) =>
                   /\ Signed(new) = Signed(Long) \div 2^n
                   /\ emode = "B" /\ n \in 1 .. 2 * Width =>
                        eae_gtf' = (Signed(Long) \div 2^(n - 1) # 2 * Signed(new))
<1>1. ASSUME ArithTypeOK, NEW operand \in Operands PROVE Exact(operand)
  BY <1>1, AsrIsExact
<1> HIDE DEF Exact
<1>2. ArithTypeOK /\ [ArithNext]_arithVars => [\A operand \in Operands : Exact(operand)]_arithVars
  BY <1>1
<1>3. ArithSpec => [][\A operand \in Operands : Exact(operand)]_arithVars
  BY <1>2, ArithTypesAreKept, PTL DEF ArithSpec
<1> QED
  BY <1>3 DEF AsrDivides, Exact

\* A remainder has itself as a remainder.
LEMMA SmallRemainder ==
  ASSUME NEW b \in Nat \ {0}, NEW r \in 0 .. b - 1
  PROVE  r % b = r
  BY SMT

\* The number that 2 * Width + 1 bits stand for when the first is the sign.
Value(z) == IF z >= Double THEN z - 2 * Double ELSE z

\* The bits above the first two words, and the two first bits.
LEMMA QuarterFacts ==
  ASSUME NEW z \in 0 .. 2 * Double - 1
  PROVE  /\ z \div Double = IF z >= Double THEN 1 ELSE 0
         /\ z % Double = IF z >= Double THEN z - Double ELSE z
         /\ (z \div Double) % 2 # (z \div (Double \div 2)) % 2
              <=> z >= Double \div 2 /\ z < 3 * (Double \div 2)
<1> DEFINE h == Double \div 2
<1>1. h \in Nat \ {0} /\ Double = 2 * h /\ Double \in Nat \ {0}
  BY SizeFacts
<1> HIDE DEF h
<1>2. z \in Nat /\ z < 4 * h
  BY <1>1
<1>3. ASSUME NEW b \in Nat \ {0}, NEW c \in Int, z >= b * c, z < b * c + b
      PROVE  z \div b = c /\ z % b = z - b * c
  <2> DEFINE r == z - b * c
  <2>1. b * c \in Int
    BY <1>3, SMT
  <2>2. r \in 0 .. b - 1 /\ z = b * c + r
    BY <1>2, <1>3, <2>1
  <2> HIDE DEF r
  <2>3. z \div b = c /\ z % b = r
    BY <1>3, <2>2, QuotientIsUnique
  <2> QED
    BY <2>3 DEF r
<1>4. h * 0 = 0 /\ h * 1 = h /\ h * 2 = 2 * h /\ h * 3 = 3 * h
  BY <1>1
<1>5. Double * 0 = 0 /\ Double * 1 = Double
  BY <1>1
<1>6. CASE z < h
  <2>1. z \div Double = 0 /\ z % Double = z - Double * 0 /\ z \div h = 0
    BY <1>1, <1>2, <1>3, <1>4, <1>5, <1>6
  <2> QED
    BY <1>1, <1>2, <1>5, <1>6, <2>1 DEF h
<1>7. CASE z >= h /\ z < 2 * h
  <2>1. z \div Double = 0 /\ z % Double = z - Double * 0 /\ z \div h = 1
    BY <1>1, <1>2, <1>3, <1>4, <1>5, <1>7
  <2> QED
    BY <1>1, <1>2, <1>5, <1>7, <2>1 DEF h
<1>8. CASE z >= 2 * h /\ z < 3 * h
  <2>1. z \div Double = 1 /\ z % Double = z - Double * 1 /\ z \div h = 2
    BY <1>1, <1>2, <1>3, <1>4, <1>5, <1>8
  <2> QED
    BY <1>1, <1>2, <1>5, <1>8, <2>1 DEF h
<1>9. CASE z >= 3 * h
  <2>1. z \div Double = 1 /\ z % Double = z - Double * 1 /\ z \div h = 3
    BY <1>1, <1>2, <1>3, <1>4, <1>5, <1>9
  <2> QED
    BY <1>1, <1>2, <1>5, <1>9, <2>1 DEF h
<1> QED
  BY <1>1, <1>2, <1>6, <1>7, <1>8, <1>9

\* Whether a number is normal depends on its first 2 * Width + 1 bits.
LEMMA NormalFacts ==
  ASSUME NEW x \in Nat, NEW k
  PROVE  LET z == x % (2 * Double)
         IN  Normal(x, k) <=> \/ k = CountMask
                              \/ z % Double = 0
                              \/ z >= Double \div 2 /\ z < 3 * (Double \div 2)
<1> DEFINE d == Double
           h == Double \div 2
           b == 2 * Double
           z == x % b
           q == x \div b
<1>1. /\ h \in Nat \ {0} /\ d = 2 * h /\ d \in Nat \ {0}
      /\ b \in Nat \ {0} /\ b = 2 * d
  BY SizeFacts
<1> HIDE DEF d, h, b
<1>2. z \in 0 .. b - 1 /\ x = b * q + z /\ q \in Int
  <2>1. b \in Nat \ {0} /\ x \in Int
    BY <1>1
  <2> QED
    BY <2>1, RemainderFacts, Zenon
<1> HIDE DEF z, q
<1> DEFINE q2 == 2 * q
           q4 == 4 * q
<1>3. q2 \in Int /\ q4 \in Int /\ x = z + d * q2 /\ x = z + h * q4 /\ z \in Int
  BY <1>1, <1>2, SMT
<1>4. q2 = 2 * q /\ q4 = 2 * q2
  BY <1>2
<1> HIDE DEF q2, q4
<1>5. x % d = z % d /\ x \div d = (z \div d) + q2
  <2>1. (z + d * q2) % d = z % d /\ (z + d * q2) \div d = (z \div d) + q2
    BY <1>1, <1>3, MultiplesDropOut
  <2> QED
    BY <1>3, <2>1, Zenon
<1>6. x \div h = (z \div h) + q4
  <2>1. (z + h * q4) \div h = (z \div h) + q4
    BY <1>1, <1>3, MultiplesDropOut
  <2> QED
    BY <1>3, <2>1, Zenon
<1>7. (x \div d) % 2 = (z \div d) % 2
  <2>1. z \div d \in Int
    BY <1>1, <1>3, RemainderFacts
  <2> DEFINE y == z \div d
  <2> HIDE DEF y
  <2>2. (y + 2 * q) % 2 = y % 2
    BY <1>2, <2>1, MultiplesDropOut DEF y
  <2> QED
    BY <1>4, <1>5, <2>2 DEF y
<1>8. (x \div h) % 2 = (z \div h) % 2
  <2>1. z \div h \in Int
    BY <1>1, <1>3, RemainderFacts
  <2> DEFINE y == z \div h
  <2> HIDE DEF y
  <2>2. (y + 2 * q2) % 2 = y % 2
    BY <1>3, <2>1, MultiplesDropOut DEF y
  <2> QED
    BY <1>4, <1>6, <2>2 DEF y
<1>9. (z \div d) % 2 # (z \div h) % 2 <=> z >= h /\ z < 3 * h
  <2>1. z \in 0 .. 2 * Double - 1
    BY <1>1, <1>2 DEF d
  <2> QED
    BY <2>1, QuarterFacts DEF d, h
<1>10. Normal(x, k) <=> k = CountMask \/ x % d = 0 \/ (x \div d) % 2 # (x \div h) % 2
  BY DEF Normal, d, h
<1>11. Normal(x, k) <=> k = CountMask \/ z % d = 0 \/ (z >= h /\ z < 3 * h)
  BY <1>5, <1>7, <1>8, <1>9, <1>10, Zenon
<1> QED
  BY <1>11 DEF z, b, d, h

\* A number that is not normal yet is doubled without loss.
LEMMA DoublesExactly ==
  ASSUME NEW x \in Nat, NEW k \in Nat, ~Normal(x * 2^k, k)
  PROVE  Value(Doubled(x, k + 1)) = 2 * Value(Doubled(x, k))
<1> DEFINE d == Double
           h == Double \div 2
           b == 2 * Double
           p == 2^k
           y == x * p
           z == y % b
           q == y \div b
<1>1. /\ h \in Nat \ {0} /\ d = 2 * h /\ d \in Nat \ {0} /\ b \in Nat \ {0} /\ b = 2 * d
      /\ p \in Nat /\ 2^(k + 1) = 2 * p
  BY SizeFacts, PowerDoubles
<1>2. \A a : Value(a) = IF a >= d THEN a - b ELSE a
  BY DEF Value
<1> HIDE DEF d, h, b, p
<1>3. y \in Nat /\ x * (2 * p) = 2 * y
  BY <1>1, SMT
<1>4. Doubled(x, k) = z /\ Doubled(x, k + 1) = (2 * y) % b
  BY <1>1, <1>3 DEF Doubled, b, p
<1>5. ~(z >= h /\ z < 3 * h)
  <2>1. ~Normal(y, k)
    BY DEF p
  <2> HIDE DEF y
  <2> QED
    BY <1>3, <2>1, NormalFacts DEF d, h, b
<1> HIDE DEF y
<1>6. z \in 0 .. b - 1 /\ y = b * q + z /\ q \in Int
  <2>1. b \in Nat \ {0} /\ y \in Int
    BY <1>1, <1>3
  <2> QED
    BY <2>1, RemainderFacts, Zenon
<1> HIDE DEF z, q
<1>7. CASE z < h
  <2> DEFINE r == 2 * z
             c == 2 * q
  <2>1. 2 * y = b * c + r /\ c \in Int
    BY <1>1, <1>3, <1>6, SMT
  <2>2. r \in 0 .. b - 1 /\ r < d /\ z < d
    BY <1>1, <1>6, <1>7
  <2>3. r = 2 * z
    OBVIOUS
  <2> HIDE DEF r, c
  <2>4. (2 * y) % b = r
    <3>1. b \in Nat \ {0}
      BY <1>1
    <3> QED
      BY <2>1, <2>2, <3>1, QuotientIsUnique, Zenon
  <2>5. Value(r) = r /\ Value(z) = z
    BY <1>1, <1>2, <1>6, <2>2
  <2> QED
    BY <1>4, <2>3, <2>4, <2>5
<1>8. CASE z >= 3 * h
  <2> DEFINE r == 2 * z - b
             c == 2 * q + 1
  <2>1. 2 * y = b * c + r /\ c \in Int
    BY <1>1, <1>3, <1>6, SMT
  <2>2. r \in 0 .. b - 1 /\ r >= d /\ z >= d
    BY <1>1, <1>6, <1>8
  <2>3. r - b = 2 * (z - b)
    BY <1>1, <1>6
  <2> HIDE DEF r, c
  <2>4. (2 * y) % b = r
    <3>1. b \in Nat \ {0}
      BY <1>1
    <3> QED
      BY <2>1, <2>2, <3>1, QuotientIsUnique, Zenon
  <2>5. Value(r) = r - b /\ Value(z) = z - b
    BY <1>1, <1>2, <1>6, <2>2
  <2> QED
    BY <1>4, <2>3, <2>4, <2>5
<1> QED
  BY <1>1, <1>5, <1>6, <1>7, <1>8

\* So it is after any number of doublings none of which started from a normal
\* number: the first one that went wrong would have.
LEMMA DoublingsAreExact ==
  ASSUME NEW x \in 0 .. 2 * Double - 1, NEW n \in Nat,
         \A k \in 0 .. n - 1 : ~Normal(x * 2^k, k)
  PROVE  Value(Doubled(x, n)) = Value(x) * 2^n
<1> DEFINE b == 2 * Double
           wrong == {k \in 0 .. n : Value(Doubled(x, k)) # Value(x) * 2^k}
<1>1. SUFFICES ASSUME wrong # {} PROVE FALSE
  BY n \in 0 .. n
<1>2. PICK k \in wrong : \A j \in wrong : k <= j
  <2>1. wrong \in SUBSET Nat
    OBVIOUS
  <2> HIDE DEF wrong
  <2> QED
    BY <1>1, <2>1, LeastNatural
<1>3. k \in 0 .. n /\ Value(Doubled(x, k)) # Value(x) * 2^k
  OBVIOUS
<1>4. Double \in Nat \ {0} /\ b \in Nat \ {0} /\ x \in Nat /\ x \in 0 .. b - 1
  BY SizeFacts
<1>5. Value(x) \in Int
  BY <1>4 DEF Value
<1>6. CASE k = 0
  <2> HIDE DEF b
  <2>1. 2^0 = 1 /\ x * 1 = x
    BY <1>4
  <2>2. x % b = x
    <3>1. b \in Nat \ {0} /\ x \in 0 .. b - 1
      BY <1>4
    <3> QED
      BY <3>1, SmallRemainder
  <2>3. Doubled(x, k) = x
    BY <1>6, <2>1, <2>2 DEF Doubled, b
  <2>4. Value(x) * 2^k = Value(x)
    BY <1>5, <1>6, <2>1
  <2> QED
    BY <1>3, <2>3, <2>4
<1>7. CASE k # 0
  <2> DEFINE j == k - 1
  <2>1. j \in Nat /\ j \in 0 .. n - 1 /\ j \in 0 .. n /\ k = j + 1 /\ ~(k <= j)
    BY <1>3, <1>7
  <2>2. Value(Doubled(x, j)) = Value(x) * 2^j
    BY <1>2, <2>1
  <2> HIDE DEF j, wrong
  <2>3. Value(Doubled(x, k)) = 2 * Value(Doubled(x, j))
    BY <1>4, <2>1, DoublesExactly
  <2>4. 2^k = 2 * 2^j /\ 2^j \in Nat
    BY <2>1, PowerDoubles
  <2>5. \A c, d \in Int : 2 * (c * d) = c * (2 * d)
    BY SMT
  <2> QED
    BY <1>3, <1>5, <2>2, <2>3, <2>4, <2>5
<1> QED
  BY <1>6, <1>7

\* A minus binds tighter than a plus.
LEMMA SignedLongIsDifference ==
  ASSUME NEW l \in Int, NEW a \in Int, NEW m \in Int
  PROVE  SignedLong(l, a, m) = (a * Word + m) - l * Double
<1> DEFINE high == a * Word
           sign == l * Double
<1>1. high \in Int /\ sign \in Int
  BY SizeFacts, SMT
<1>2. SignedLong(l, a, m) = high + (m - sign)
  BY DEF SignedLong
<1> HIDE DEF high, sign
<1>3. high + (m - sign) = (high + m) - sign
  BY <1>1
<1> QED
  BY <1>2, <1>3 DEF high, sign

\* What NMI starts from and what it leaves, as signed numbers.
LEMMA ValueIsSignedLong ==
  ASSUME NEW z \in 0 .. 2 * Double - 1, NEW m, m = z % Double, NEW l, l = z \div Double
  PROVE  m - l * Double = Value(z)
<1>1. Double \in Nat \ {0}
  BY SizeFacts
<1>2. CASE z >= Double
  <2>1. l = 1 /\ m = z - Double /\ Value(z) = z - 2 * Double
    BY <1>2, QuarterFacts DEF Value
  <2> QED
    BY <1>1, <2>1
<1>3. CASE ~(z >= Double)
  <2>1. l = 0 /\ m = z /\ Value(z) = z
    BY <1>3, QuarterFacts DEF Value
  <2> QED
    BY <1>1, <2>1
<1> QED
  BY <1>2, <1>3

\* The number that is normalized is the signed one of L, AC and MQ.
LEMMA NormalizedIsSigned ==
  ASSUME ArithTypeOK
  PROVE  SignedLong(link, acc, mq) = Value(Normalized)
<1>1. Double \in Nat \ {0} /\ Long \in 0 .. Double - 1 /\ (link = 0 \/ link = 1)
  BY SizeFacts, MachineFacts
<1>2. SignedLong(link, acc, mq) = Long - link * Double
  <2>1. link \in Int /\ acc \in Int /\ mq \in Int
    BY MachineFacts
  <2> QED
    BY <2>1, SignedLongIsDifference DEF Long
<1>3. CASE link = 0
  <2>1. Normalized = Long
    BY <1>1, <1>3 DEF Normalized
  <2> QED
    BY <1>1, <1>2, <1>3, <2>1 DEF Value
<1>4. CASE link = 1
  <2>1. Normalized = Double + Long
    BY <1>1, <1>4 DEF Normalized
  <2> QED
    BY <1>1, <1>2, <1>4, <2>1 DEF Value
<1> QED
  BY <1>1, <1>3, <1>4

\* A number is too large to be doubled as often as the step counter counts.
LEMMA CountIsNotReached ==
  ASSUME NEW v \in Int, v # 0, NEW w \in Int, w >= -Double, w < Double, NEW n \in Nat, w = v * 2^n
  PROVE  n # CountMask
<1> SUFFICES ASSUME n = CountMask PROVE FALSE
  OBVIOUS
<1> DEFINE p == 2^n
           d == Double
<1>1. 2 * Width + 1 \in Nat /\ 2 * Width + 1 <= n /\ 2 * Width \in Nat
  BY SizeFacts
<1>2. d \in Nat \ {0} /\ p \in Nat /\ w = v * p /\ w >= -d /\ w < d
  BY SizeFacts, PowerDoubles
<1>3. 2^(2 * Width + 1) = 2 * Double
  BY <1>1, DoubleIsPower, PowerDoubles
<1>4. 2^(2 * Width + 1) <= p
  BY <1>1, PowersGrow
<1>5. 2 * d <= p
  BY <1>3, <1>4
<1> HIDE DEF p, d
<1>6. v >= 1 => v * p >= p
  BY <1>2, SMT
<1>7. v <= -1 => v * p <= -p
  BY <1>2, SMT
<1>8. v * p \in Int
  BY <1>2, SMT
<1> QED
  BY <1>2, <1>5, <1>6, <1>7, <1>8

\* The first bit of a double word is the first of its first word.
LEMMA HighWordHasSign ==
  ASSUME NEW a \in Words, NEW m \in Words
  PROVE  a >= Sign <=> a * Word + m >= Double \div 2
<1>1. /\ Word \in Nat \ {0} /\ Sign \in Nat \ {0} /\ Double \div 2 = Word * Sign
      /\ a \in Nat /\ m \in Nat /\ m < Word
  BY SizeFacts DEF Words
<1>2. a >= Sign => Word * a >= Word * Sign
  BY <1>1, SMT
<1>3. a < Sign => Word * a + Word <= Word * Sign
  <2> SUFFICES ASSUME a < Sign PROVE Word * a + Word <= Word * Sign
    OBVIOUS
  <2>1. Word * (a + 1) <= Word * Sign
    BY <1>1, SMT
  <2> QED
    BY <1>1, <2>1, SMT
<1>4. a * Word = Word * a /\ Word * a \in Nat /\ Word * Sign \in Nat
  BY <1>1, SMT
<1> QED
  BY <1>1, <1>2, <1>3, <1>4

\* A multiple leaves no remainder.
LEMMA MultiplesHaveNoRemainder ==
  ASSUME NEW b \in Nat \ {0}, NEW c \in Int
  PROVE  (b * c) % b = 0
<1> DEFINE r == 0
           a == b * c + r
<1>1. r \in 0 .. b - 1 /\ a = b * c + r /\ a = b * c
  BY SMT
<1> HIDE DEF r, a
<1>2. a % b = r
  BY <1>1, QuotientIsUnique
<1> QED
  BY <1>1, <1>2 DEF r

\* The lowest number, or half of it, has an empty second word.
LEMMA LowestHasNoLowWord ==
  ASSUME NEW y \in 0 .. 2 * Double - 1, y % Double = Double \div 2
  PROVE  y % Word = 0
<1> DEFINE q == y \div Double
           c == q * Word + Sign
<1>1. Word \in Nat \ {0} /\ Sign \in Nat /\ Double \in Nat \ {0} /\ Double \div 2 = Word * Sign
  BY SizeFacts
<1>2. q \in Int /\ y = Double * q + (y % Double)
  BY <1>1, RemainderFacts
<1> HIDE DEF q
<1>3. y = Double * q + Word * Sign
  BY <1>1, <1>2
<1>4. c \in Int /\ y = Word * c
  BY <1>1, <1>2, <1>3, SMT DEF Double
<1> HIDE DEF c
<1>5. (Word * c) % Word = 0
  BY <1>1, <1>4, MultiplesHaveNoRemainder
<1> QED
  BY <1>4, <1>5

\* What a normalization leaves in L, AC, MQ and the step counter.
LEMMA NmiIsExact ==
  ASSUME ArithTypeOK, Nmi
  PROVE  LET old == SignedLong(link, acc, mq)
             new == SignedLong(link', acc', mq')
         IN  \/ /\ new = old * 2^eae_sc'
                /\ old # 0 /\ new # -Double => (link' = 1) # (acc' >= Sign)
             \/ emode = "B" /\ acc' = 0 /\ mq' = 0
<1> DEFINE n == Normalizing(Normalized)
           y == Doubled(Normalized, n)
           old == SignedLong(link, acc, mq)
           new == SignedLong(link', acc', mq')
           h == Double \div 2
<1>1. /\ n \in Nat /\ Normal(Normalized * 2^n, n)
      /\ \A k \in 0 .. n - 1 : ~Normal(Normalized * 2^k, k)
  BY NormalizedFacts, NormalizingFacts
<1>2. y \in 0 .. 2 * Double - 1 /\ Normalized \in 0 .. 2 * Double - 1
  BY <1>1, NormalizedFacts
<1>3. /\ link' = y \div Double
      /\ mq' = y % Word
      /\ acc' = IF emode = "B" /\ y % Double = h THEN 0 ELSE (y \div Word) % Word
      /\ eae_sc' = n
  BY DEF Nmi, Normalized, Doubled
<1>4. Value(y) = old * 2^n
  BY <1>1, <1>2, NormalizedIsSigned, DoublingsAreExact
<1>5. n = CountMask \/ y % Double = 0 \/ (y >= h /\ y < 3 * h)
  <2> DEFINE x == Normalized * 2^n
  <2>1. x \in Nat
    <3>1. 2^n \in Nat /\ Normalized \in Nat
      BY <1>1, <1>2, SizeFacts, PowerDoubles
    <3> QED
      BY <3>1, SMT
  <2>2. Normal(x, n) /\ y = x % (2 * Double)
    BY <1>1 DEF Doubled
  <2> HIDE DEF x
  <2> QED
    BY <2>1, <2>2, NormalFacts
<1> HIDE DEF n, y
<1>6. /\ Double \in Nat \ {0} /\ h \in Nat \ {0} /\ Double = 2 * h
      /\ y \in Nat /\ y < 2 * Double /\ 2^n \in Nat \ {0}
  BY <1>1, <1>2, SizeFacts, PowerDoubles
<1>7. CASE emode = "B" /\ y % Double = h
  <2>1. y % Word = 0
    BY <1>2, <1>7, LowestHasNoLowWord
  <2> QED
    BY <1>3, <1>7, <2>1
<1>8. CASE ~(emode = "B" /\ y % Double = h)
  <2>1. acc' = (y \div Word) % Word
    BY <1>3, <1>8, Zenon
  <2>2. acc' \in Words /\ mq' \in Words /\ acc' * Word + mq' = y % Double
    BY <1>3, <1>6, <2>1, LongParts
  <2>3. new = Value(y)
    <3> DEFINE m == acc' * Word + mq'
    <3>1. new = m - link' * Double
      <4>1. link' \in Int /\ acc' \in Int /\ mq' \in Int
        <5>1. link' \in Int
          BY <1>2, <1>3, QuarterFacts
        <5>2. acc' \in Int /\ mq' \in Int
          BY <2>2, SizeFacts DEF Words
        <5> QED
          BY <5>1, <5>2
      <4> QED
        BY <4>1, SignedLongIsDifference
    <3>2. m = y % Double
      BY <2>2
    <3> HIDE DEF m, new
    <3> QED
      BY <1>2, <1>3, <3>1, <3>2, ValueIsSignedLong
  <2>4. acc' >= Sign <=> y % Double >= h
    BY <2>2, HighWordHasSign
  <2>5. ASSUME old # 0, new # -Double PROVE (link' = 1) # (acc' >= Sign)
    <3>1. old \in Int
      BY <1>2, <1>6, NormalizedIsSigned DEF Value
    <3>2. Value(y) \in Int /\ Value(y) >= -Double /\ Value(y) < Double
      BY <1>6 DEF Value
    <3>3. n # CountMask
      <4> HIDE DEF old
      <4> QED
        BY <1>1, <1>4, <2>5, <3>1, <3>2, CountIsNotReached
    <3>4. y % Double # 0
      <4>1. Value(y) # 0
        <5> HIDE DEF old
        <5> DEFINE p == 2^n
        <5>1. p \in Nat \ {0} /\ Value(y) = old * p
          BY <1>4, <1>6
        <5> HIDE DEF p
        <5>2. old * p # 0
          BY <2>5, <3>1, <5>1, SMT
        <5> QED
          BY <5>1, <5>2
      <4>2. y # 0 /\ y # Double
        BY <1>6, <2>3, <2>5, <4>1 DEF Value
      <4> QED
        BY <1>2, <1>6, <4>2, QuarterFacts
    <3>5. y >= h /\ y < 3 * h
      BY <1>5, <3>3, <3>4
    <3>6. CASE y >= Double
      <4>1. link' = 1 /\ y % Double = y - Double
        BY <1>2, <1>3, <3>6, QuarterFacts
      <4>2. ~(y % Double >= h)
        BY <1>6, <3>5, <4>1
      <4> QED
        BY <2>4, <4>1, <4>2, Zenon
    <3>7. CASE ~(y >= Double)
      <4>1. link' = 0 /\ y % Double = y
        BY <1>2, <1>3, <3>7, QuarterFacts
      <4>2. y % Double >= h /\ link' # 1
        BY <3>5, <4>1
      <4> QED
        BY <2>4, <4>2, Zenon
    <3> QED
      BY <3>6, <3>7
  <2>6. new = old * 2^eae_sc'
    BY <1>3, <1>4, <2>3
  <2> QED
    BY <2>5, <2>6
<1> QED
  BY <1>7, <1>8

\* Normalizing loses nothing: the signed number of L, AC and MQ is doubled SC
\* times exactly until it cannot be doubled again, and the step counter never
\* runs out first (eae_nmi in cpu.rs).  Mode B replaces the lowest number.
THEOREM NormalizeHolds == ArithSpec => NormalizeIsExact
<1> DEFINE Exact ==
             Nmi =>
               LET old == SignedLong(link, acc, mq)
                   new == SignedLong(link', acc', mq')
               IN  \/ /\ new = old * 2^eae_sc'
                      /\ old # 0 /\ new # -Double => (link' = 1) # (acc' >= Sign)
                   \/ emode = "B" /\ acc' = 0 /\ mq' = 0
<1>1. ASSUME ArithTypeOK PROVE Exact
  BY <1>1, NmiIsExact
<1> HIDE DEF Exact
<1>2. ArithTypeOK /\ [ArithNext]_arithVars => [Exact]_arithVars
  BY <1>1
<1>3. ArithSpec => [][Exact]_arithVars
  BY <1>2, ArithTypesAreKept, PTL DEF ArithSpec
<1> QED
  BY <1>3 DEF NormalizeIsExact, Exact
=============================================================================
