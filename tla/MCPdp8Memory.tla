---------------------------- MODULE MCPdp8Memory ----------------------------
(* What fills, shows and uses the memory: tapes for the loaders, every word for *)
(* the assembler, every program for the memory references.  The three share no  *)
(* variable; a behaviour is of one of them.                                     *)
EXTENDS Pdp8Symbolic, Pdp8Tape, Pdp8Reference

VARIABLE part

AllWords == 0..\o7777

Repeat(n, f) == [i \in 1..n |-> f]
Pair(w) == <<w \div 64, w % 64>>
Total(s) == FoldLeft(LAMBDA sum, f : sum + f, 0, s)
Flat(ss) == FoldLeft(LAMBDA s, t : s \o t, <<>>, ss)
At(start, i) == (start + i - 1) % \o10000
WordsAt(start, ws) == [a \in {At(start, i) : i \in DOMAIN ws} |->
                         ws[CHOOSE i \in DOMAIN ws : At(start, i) = a]]

OriginFrames(a) == Pair(\o10000 + a)
RimFrames(start, ws) ==
  Flat([i \in DOMAIN ws |-> OriginFrames(At(start, i)) \o Pair(ws[i])])
RimTapes ==
  {[format |-> "RIM", loadAll |-> FALSE, leader |-> l, trailer |-> t, damage |-> 0,
    frames |-> Repeat(z, 0) \o Repeat(l, Code) \o RimFrames(start, ws) \o Repeat(t, Code),
    image |-> WordsAt(start, ws)] :
     z \in 0..1, l \in 0..3, t \in 0..2, start \in {0, \o7777},
     ws \in {<<0>>, <<\o7777, \o42>>, <<\o200, 0, \o5200>>}}

(* A section: its words, the field set before it, and what is punched before    *)
(* the last word: nothing, another field, or a rubout over a spoilt frame.      *)
Sections == [start : {0, \o77}, words : {<<\o7402>>, <<\o17, \o6000>>},
             field : {0, 2}, before : {"nothing", "field", "rubout"}]
Between(b) == CASE b = "nothing" -> <<>>
                [] b = "field"   -> <<\o310>>
                [] b = "rubout"  -> <<Rubout, 5, Rubout>>
Data(s) == OriginFrames(s.start) \o Flat([i \in DOMAIN s.words |-> Pair(s.words[i])])
Punched(s) ==
  LET d == Data(s)
      n == Len(d) - 2
  IN  <<\o300 + 8 * s.field>> \o SubSeq(d, 1, n) \o Between(s.before)
        \o SubSeq(d, n + 1, n + 2) \o Pair(Total(d) % \o10000) \o <<Code>>
ImageOf(s) ==
  LET n == Len(s.words)
      last == IF s.before = "field" THEN 1 ELSE s.field
      addr(i) == (IF i = n THEN last ELSE s.field) * \o10000 + s.start + i - 1
  IN  [a \in {addr(i) : i \in 1..n} |->
         s.words[CHOOSE i \in 1..n : addr(i) = a]]

BinTape(l, ss, all, bad, as) ==
  LET sound == Repeat(l, Code) \o Flat([i \in DOMAIN ss |-> Punched(ss[i])])
  IN  [format |-> "BIN", loadAll |-> all, leader |-> l, trailer |-> 1, damage |-> bad,
       frames |-> IF bad = 0 THEN sound ELSE [sound EXCEPT ![bad] = as],
       image |-> IF all /\ Len(ss) > 1 THEN ImageOf(ss[1]) @@ ImageOf(ss[2])
                 ELSE ImageOf(ss[1])]
(* The second section is punched elsewhere.                                     *)
Second == {[s EXCEPT !.start = @ + \o1000] : s \in Sections}
SoundTapes == {BinTape(l, <<s>>, all, 0, 0) : l \in 0..1, s \in Sections, all \in BOOLEAN}
  \cup {BinTape(1, <<s, t>>, all, 0, 0) : s \in Sections, t \in Second, all \in BOOLEAN}
DataFrames(t) == {i \in DOMAIN t.frames : t.frames[i] < Code /\ t.frames[i] # 5}
Misread(s) == LET t == BinTape(1, <<s>>, FALSE, 0, 0)
              IN  {BinTape(1, <<s>>, FALSE, i, (t.frames[i] + d) % Code) :
                     i \in DataFrames(t), d \in {1, 8, 64, 127}}
AllTapes == RimTapes \cup SoundTapes \cup UNION {Misread(s) : s \in Sections}
-----------------------------------------------------------------------------
NoTape == CHOOSE t \in Tapes : TRUE
NoLoad == /\ tape = NoTape /\ frames = NoTape.frames /\ phase = "leader"
          /\ loader = Fresh(1) /\ stored = [a \in {} |-> 0]
NoCell == word = 0 /\ address = 0 /\ emode = 0 /\ text = NoText
MemoryInit ==
  /\ ReferenceInit
  /\ \/ part = "loader" /\ TapeInit /\ NoCell
     \/ part = "symbolic" /\ SymbolicInit /\ NoLoad
     \/ part = "reference" /\ NoCell /\ NoLoad
MemoryNext ==
  /\ UNCHANGED part
  /\ \/ part = "loader" /\ TapeNext /\ UNCHANGED <<symbolicVars, referenceVars>>
     \/ part = "symbolic" /\ SymbolicNext /\ UNCHANGED <<tapeVars, referenceVars>>
     \/ part = "reference" /\ ReferenceNext /\ UNCHANGED <<symbolicVars, tapeVars>>
MemorySpec == MemoryInit /\ [][MemoryNext]_<<part, tapeVars, symbolicVars, referenceVars>>
=============================================================================
