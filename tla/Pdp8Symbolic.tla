---------------------------- MODULE Pdp8Symbolic ----------------------------
(* The PDP-8 disassembler and assembler (pdp8_asm.rs) on one memory cell, and  *)
(* the address the processor computes for the same word (cpu.rs,               *)
(* calc_ea_memref).  A word is a number; its bits are a set, so that the       *)
(* masks of the code are set operations.  A text is its mnemonics, its I and   *)
(* its octal operand, without the spelling.                                    *)
EXTENDS Integers, FiniteSets, SequencesExt

CONSTANTS Words,        \* the words a cell may hold
          Addresses     \* the addresses it may have
ASSUME SymbolicAssumption == Words \subseteq 0 .. 2^12 - 1 /\ Addresses \subseteq 0 .. 2^15 - 1

VARIABLES word, address, emode, text
symbolicVars == <<word, address, emode, text>>

Bits(n) == {i \in 0..12 : (n \div 2^i) % 2 = 1}
Number(b) ==
  LET Bit(i) == IF i \in b THEN 2^i ELSE 0
  IN  Bit(0) + Bit(1) + Bit(2) + Bit(3) + Bit(4) + Bit(5) + Bit(6) + Bit(7)
        + Bit(8) + Bit(9) + Bit(10) + Bit(11) + Bit(12)
Page(a) == (a % \o10000) - (a % \o200)

(* The opcode table, in its order: for each class the mnemonics and values.    *)
Npn ==
  { <<"SKON", \o6000>>, <<"ION", \o6001>>, <<"IOF", \o6002>>, <<"SRQ", \o6003>>,
    <<"GTF", \o6004>>, <<"RTF", \o6005>>, <<"SGT", \o6006>>, <<"CAF", \o6007>>,
    <<"RPE", \o6010>>, <<"RSF", \o6011>>, <<"RRB", \o6012>>, <<"RFC", \o6014>>,
    <<"PCE", \o6020>>, <<"PSF", \o6021>>, <<"PCF", \o6022>>, <<"PPC", \o6024>>,
    <<"PLS", \o6026>>, <<"KCF", \o6030>>, <<"KSF", \o6031>>, <<"KCC", \o6032>>,
    <<"KRS", \o6034>>, <<"KIE", \o6035>>, <<"KRB", \o6036>>, <<"TLF", \o6040>>,
    <<"TSF", \o6041>>, <<"TCF", \o6042>>, <<"TPC", \o6044>>, <<"SPI", \o6045>>,
    <<"TLS", \o6046>>, <<"CINT", \o6204>>, <<"RDF", \o6214>>, <<"RIF", \o6224>>,
    <<"RIB", \o6234>>, <<"RMF", \o6244>>, <<"SINT", \o6254>>, <<"CUF", \o6264>>,
    <<"SUF", \o6274>>, <<"DSKP", \o6741>>, <<"DCLR", \o6742>>, <<"DLAG", \o6743>>,
    <<"DLCA", \o6744>>, <<"DRST", \o6745>>, <<"DLDC", \o6746>>, <<"DMAN", \o6747>>,
    <<"LCD", \o6751>>, <<"XDR", \o6752>>, <<"STR", \o6753>>, <<"SER", \o6754>>,
    <<"SDN", \o6755>>, <<"INTR", \o6756>>, <<"INIT", \o6757>>, <<"PSKF", \o6661>>,
    <<"PCLF", \o6662>>, <<"PSKE", \o6663>>, <<"PSTB", \o6664>>, <<"PSIE", \o6665>>,
    <<"PCIE", \o6667>>, <<"ETDS", \o6360>>, <<"ESKP", \o6361>>, <<"ECTF", \o6362>>,
    <<"ECDF", \o6363>>, <<"ERTB", \o6364>>, <<"ESME", \o6365>>, <<"ERIOT", \o6366>>,
    <<"ETEN", \o6367>> }
NpnPairs == { <<<<"RFC", "RRB">>, \o6016>>, <<<<"PCLF", "PSTB">>, \o6666>> }
EncodeOnly == { <<"STL", \o7120>>, <<"GLK", \o7204>>, <<"STA", \o7240>>,
                <<"LAS", \o7604>>, <<"CIA", \o7041>> }
Fld == << <<<<"CDF">>, \o6201>>, <<<<"CIF">>, \o6202>>, <<<<"CIF", "CDF">>, \o6203>> >>
Mrf == <<"AND", "TAD", "ISZ", "DCA", "JMS", "JMP">>
Op1 == << <<"NOP", \o7000>>, <<"CLA", \o7200>>, <<"CLL", \o7100>>, <<"CMA", \o7040>>,
          <<"CML", \o7020>>, <<"RTR", \o7012>>, <<"RAR", \o7010>>, <<"RTL", \o7006>>,
          <<"IAC", \o7001>>, <<"BSW", \o7002>>, <<"RAL", \o7004>> >>
Op2 == << <<"NOP2", \o7400>>, <<"CLA", \o7600>>, <<"SNA", \o7450>>, <<"SMA", \o7500>>,
          <<"SZA", \o7440>>, <<"SNL", \o7420>>, <<"SKP", \o7410>>, <<"SZL", \o7430>>,
          <<"SPA", \o7510>>, <<"OAS", \o7404>>, <<"HLT", \o7402>> >>
Op3 == << <<"NOP3", \o7401>>, <<"CLA", \o7601>>, <<"MQA", \o7501>>, <<"MQL", \o7421>>,
          <<"SCA", \o7441>>, <<"SCL", \o7403>>, <<"MUY", \o7405>>, <<"DVI", \o7407>>,
          <<"ASR", \o7415>>, <<"LSR", \o7417>>, <<"SHL", \o7413>>, <<"NMI", \o7411>>,
          <<"DAD", \o7443>>, <<"DST", \o7445>>, <<"DPSZ", \o7451>>, <<"DPIC", \o7453>>,
          <<"DCM", \o7455>>, <<"SAM", \o7457>>, <<"SCA SCL", \o17403>>,
          <<"SCA MUY", \o17405>>, <<"SCA DVI", \o17407>>, <<"SCA NMI", \o17411>>,
          <<"SCA SHL", \o17413>>, <<"SCA ASR", \o17415>>, <<"SCA LSR", \o17417>> >>

Text(names, indirect, operand) ==
  [names |-> names, indirect |-> indirect, operand |-> operand]
NoOperand == -1
Plain(names) == Text(names, FALSE, NoOperand)
NoText == Plain(<<>>)
-----------------------------------------------------------------------------
(* disassemble *)

(* Every entry of the group whose own bits are all among the bits not yet      *)
(* matched is printed, and its bits are taken.                                 *)
Masks == [Op1 |-> \o7400, Op2 |-> \o7411, Op3 |-> \o7401]
GroupOf_SkipsFirst(b) == IF 8 \in b THEN "Op2" ELSE IF 0 \in b THEN "Op3" ELSE "Op1"
GroupOf(b) == IF 0 \in b THEN "Op3" ELSE IF 8 \in b THEN "Op2" ELSE "Op1"
Table == [Op1 |-> Op1, Op2 |-> Op2, Op3 |-> Op3]
Taken(b, e) == b \ e
Printed(b, group) ==
  LET mask == Bits(Masks[group])
      Step(done, e) ==
        LET v == Bits(e[2])
        IN  IF /\ v \cap mask = b \cap mask
               /\ v \cap done.rest # {}
               /\ v \cap done.rest = v \ mask
            THEN [rest |-> Taken(done.rest, v), names |-> Append(done.names, e[1])]
            ELSE done
  IN  FoldLeft(Step, [rest |-> b \ mask, names |-> <<>>], Table[group]).names

DisassembleOperate(w, mode) ==
  LET b == Bits(w + mode * 2^12)
      group == GroupOf(b)
      names == Printed(b, group)
  IN  Plain(IF names = <<>> THEN <<Table[group][1][1]>> ELSE names)

DirectAddress(at, w) ==
  (IF 7 \in Bits(w) THEN Page(at) ELSE 0) + (w % \o200)

DisassembleMrf(at, w) ==
  Text(<<Mrf[w \div \o1000 + 1]>>, 8 \in Bits(w), DirectAddress(at, w))

DisassembleIot(w) ==
  LET named == {Plain(<<e[1]>>) : e \in {x \in Npn : x[2] = w}}
               \cup {Plain(e[1]) : e \in {x \in NpnPairs : x[2] = w}}
      field == (w \div 8) % 8
      fields == {i \in DOMAIN Fld : Fld[i][2] = w - 8 * field}
  IN  IF named # {} THEN CHOOSE t \in named : TRUE
      ELSE IF fields # {}
        THEN Text(Fld[CHOOSE i \in fields : TRUE][1], FALSE, field)
        ELSE Text(<<"IOT">>, FALSE, w % \o1000)

Disassemble(at, w, mode) ==
  CASE w < \o6000 -> DisassembleMrf(at, w)
    [] w >= \o6000 /\ w < \o7000 -> DisassembleIot(w)
    [] w >= \o7000 -> DisassembleOperate(w, mode)
-----------------------------------------------------------------------------
(* assemble: the word, or Refused.                                             *)
Refused == -1

EncodeMrf_PageZero(opcode, at, target, indirect) ==
  opcode * \o1000 + (IF indirect THEN \o400 ELSE 0) + (target % \o200)
(* encode_mrf: page zero first, then the page of the instruction itself.       *)
EncodeMrf(opcode, at, target, indirect) ==
  LET base == opcode * \o1000 + (IF indirect THEN \o400 ELSE 0)
  IN  CASE target <= \o177 -> base + target
        [] target > \o177 /\ Page(target) = Page(at) -> base + \o200 + (target % \o200)
        [] OTHER -> Refused

Values(group, name) == {Table[group][i][2] : i \in {j \in DOMAIN Table[group] :
                                                     Table[group][j][1] = name}}
Groups == DOMAIN Table
(* The group is that of the micro-operations other than CLA; each may occur    *)
(* once, and the word is their union.                                          *)
AssembleOperate(names) ==
  LET others == {names[i] : i \in DOMAIN names} \ {"CLA"}
      groups == {g \in Groups : \E n \in others : Values(g, n) # {}}
      group == IF groups = {} THEN "Op1" ELSE CHOOSE g \in groups : TRUE
      Add(b, n) == IF \/ b = {Refused}
                      \/ Bits(CHOOSE v \in Values(group, n) : TRUE) \subseteq b
                   THEN {Refused}
                   ELSE b \cup Bits(CHOOSE v \in Values(group, n) : TRUE)
      bits == FoldLeft(Add, {}, names)
  IN  IF \/ Cardinality(groups) > 1
         \/ \E n \in others : \A g \in Groups : Values(g, n) = {}
         \/ bits = {Refused}
      THEN Refused ELSE Number(bits)

WithField(value, field) == value + 8 * field

Assemble(at, t) ==
  LET first == t.names[1]
      npn == {e \in Npn \cup EncodeOnly : e[1] = first}
      fld == {i \in DOMAIN Fld : Fld[i][1][1] = first}
      mrf == {i \in DOMAIN Mrf : Mrf[i] = first}
  IN  CASE npn # {} ->
             IF Len(t.names) > 1 \/ t.operand # NoOperand THEN Refused
             ELSE (CHOOSE e \in npn : TRUE)[2]
        [] npn = {} /\ fld # {} ->
             IF Len(t.names) > 1 \/ t.operand \notin 0..7 THEN Refused
             ELSE WithField(Fld[CHOOSE i \in fld : \A j \in fld : i <= j][2], t.operand)
        [] mrf # {} ->
             IF t.operand = NoOperand THEN Refused
             ELSE EncodeMrf((CHOOSE i \in mrf : TRUE) - 1, at, t.operand, t.indirect)
        [] first = "IOT" ->
             IF t.operand \notin 0 .. 2^9 - 1 THEN Refused ELSE \o6000 + t.operand
        [] OTHER -> AssembleOperate(t.names)
-----------------------------------------------------------------------------
(* The cell as the operator sees it: what it holds is printed, and what is     *)
(* printed is typed back.                                                      *)
SymbolicInit ==
  /\ word \in Words /\ address \in Addresses /\ emode \in 0..1
  /\ text = NoText

Examine ==
  /\ text' = Disassemble(address, word, emode)
  /\ UNCHANGED <<word, address, emode>>

TypeBack ==
  /\ text # NoText
  /\ word' = IF Assemble(address, text) = Refused THEN word ELSE Assemble(address, text)
  /\ text' = NoText
  /\ UNCHANGED <<address, emode>>

SymbolicNext == Examine \/ TypeBack
SymbolicSpec == SymbolicInit /\ [][SymbolicNext]_symbolicVars
-----------------------------------------------------------------------------
(* The processor has advanced the PC when it forms the address.                *)
CpuAddress(at, w) == DirectAddress((at + 1) % \o10000, w)
LastOfPage(at) == at % \o200 = \o177
SymbolicTypeOK ==
  /\ word \in 0..\o7777 /\ address \in Addresses /\ emode \in 0..1
  /\ \/ text = NoText
     \/ text.operand \in -1..\o7777 /\ text.names # <<>>

Typed == Assemble(address, text)
Accepted == text # NoText /\ Typed # Refused

(* A memory reference that is typed back makes the processor reach the         *)
(* location it reached before, and the location that was printed, unless the   *)
(* instruction is the last of its page.                                        *)
ReachesThePrinted ==
  (text # NoText /\ word < \o6000 /\ ~LastOfPage(address)) =>
    /\ Accepted
    /\ CpuAddress(address, word) = text.operand
    /\ CpuAddress(address, Typed) = text.operand

(* An operate instruction that is typed back can lose micro-operations, and    *)
(* never gains one.  A group-1 word with IAC is read as group 3 and is lost    *)
(* altogether.                                                                 *)
WithIac(w) == Bits(w) \cap {0, 8} = {0}
NothingInvented ==
  (text # NoText /\ word >= \o7000 /\ ~WithIac(word)) =>
    Accepted /\ Bits(Typed) \subseteq Bits(word)

(* What is not lost comes back bit for bit: every operate word of groups 1 and  *)
(* 3 and the group-2 words that do not reverse the sense of their skips, unless *)
(* CLA is all they print.                                                       *)
Reverses(w) == Bits(w) \cap {0, 3, 8} = {3, 8}
Lossy(w) == WithIac(w) \/ Reverses(w) \/ text = Plain(<<"CLA">>)
LosslessComesBack == (text # NoText /\ word >= \o7000 /\ ~Lossy(word)) => Typed = word

(* Looking again after typing back what was shown shows the same thing:        *)
(* whatever the tables lose between a word and its text is lost once.          *)
RepeatsItself == Accepted => Disassemble(address, Typed, emode) = text

(* An IOT comes back bit for bit, but for those printed with two names, which  *)
(* are refused.                                                                *)
IotComesBack ==
  (text # NoText /\ word >= \o6000 /\ word < \o7000) =>
    /\ Typed = word \/ (~Accepted /\ Len(text.names) = 2)
    /\ RepeatsItself

(* What EXAMINE prints of an operate instruction or an IOT can be typed back,  *)
(* in these senses (pdp8_asm.rs:297-480).                                      *)
ComesBack == NothingInvented /\ LosslessComesBack /\ IotComesBack /\ RepeatsItself

(* VIOLATED.  The printed address is the one the instruction refers to:        *)
(* pdp8_asm.rs takes the page from the instruction's own address, as its       *)
(* header says; cpu.rs takes it from the PC, already one further.              *)
PrintedIsAddressed ==
  (text # NoText /\ word < \o6000) => CpuAddress(address, word) = text.operand
=============================================================================
