------------------------------ MODULE Pdp8Tape ------------------------------
(* The paper-tape loaders of the PDP-8 (loaders.rs), one frame at a time: RIM,  *)
(* address/content pairs with no check, and BIN, sections with a checksum,      *)
(* field settings and rubouts.  A frame is a byte; the memory is the words the  *)
(* load has stored, the others being what they were.                            *)
EXTENDS Integers, SequencesExt

(* A tape: its frames, the -a switch it is loaded with, the words that were    *)
(* punched (by address, what the load is to store), the lengths of its leader  *)
(* and its trailer, and the frame that is misread (0: none).                   *)
CONSTANT Tapes
Bytes == 0..255
ASSUME TapeAssumption ==
       \A t \in Tapes :
         /\ t.format \in {"RIM", "BIN"} /\ t.loadAll \in BOOLEAN
         /\ t.frames \in Seq(Bytes) /\ t.damage \in 0..Len(t.frames)
         /\ t.leader \in Nat /\ t.trailer \in Nat

VARIABLES tape,      \* what was put in the reader
          frames,    \* what is left to read
          phase,     \* what the loader reads next
          loader,    \* its local variables
          stored     \* the words stored so far, by address
tapeVars == <<tape, frames, phase, loader, stored>>

Code == \o200           \* leader and trailer
Rubout == \o377
(* Rust writes octal 0o200: the RIM loader's `0200` is two hundred.             *)
RimTrailer == 200

(* A section starts with everything cleared; load_bin counts from 1.            *)
Fresh(sections) ==
  [hi |-> 0, word |-> 0, sum |-> 0, origin |-> 0, field |-> 0, nextField |-> 0,
   csum |-> 0, rubout |-> FALSE, sections |-> sections]

TapeInit ==
  /\ tape \in Tapes
  /\ frames = tape.frames
  /\ phase = "leader" /\ loader = Fresh(1) /\ stored = [a \in {} |-> 0]

Store(address, word) ==
  stored' = [a \in DOMAIN stored \cup {address} |-> IF a = address THEN word ELSE stored[a]]
Frame == Head(frames)
Reads == frames # <<>> /\ frames' = Tail(frames) /\ UNCHANGED tape
Done == {"loaded", "truncated", "checksum"}
Ends(how) == phase' = how /\ UNCHANGED <<tape, frames, loader, stored>>
OriginOf(w) == w % \o10000
NextOrigin(a) == (a + 1) % \o10000
(* (hi << 6) | lo, with a low byte that may be wider than six bits.             *)
Either == << <<0, 1, 2, 3>>, <<1, 1, 3, 3>>, <<2, 3, 2, 3>>, <<3, 3, 3, 3>> >>
Joined(hi, lo) == 64 * (hi - (hi % 4) + Either[(hi % 4) + 1][(lo \div 64) + 1]) + (lo % 64)
-----------------------------------------------------------------------------
(* load_rim *)
Rim == tape.format = "RIM"

RimLeader ==
  /\ Rim /\ phase = "leader" /\ Reads
  /\ LET data == Frame # 0 /\ Frame < RimTrailer
     IN  /\ phase' = IF data THEN "low" ELSE "leader"
         /\ loader' = IF data THEN [loader EXCEPT !.hi = Frame] ELSE loader
  /\ UNCHANGED stored

RimLow ==
  /\ Rim /\ phase = "low" /\ Reads
  /\ LET w == Joined(loader.hi, Frame)
     IN  IF w > \o7777
         THEN loader' = [loader EXCEPT !.origin = OriginOf(w)] /\ UNCHANGED stored
         ELSE /\ Store(loader.origin, w)
              /\ loader' = [loader EXCEPT !.origin = NextOrigin(@)]
  /\ phase' = "high"

RimHigh ==
  /\ Rim /\ phase = "high" /\ Reads
  /\ loader' = [loader EXCEPT !.hi = Frame]
  /\ phase' = IF Frame >= RimTrailer THEN "loaded" ELSE "low"
  /\ UNCHANGED stored

(* The end of the tape is an error, but for the next high byte.                 *)
RimEnd ==
  /\ Rim /\ phase \notin Done /\ frames = <<>>
  /\ Ends(IF phase = "high" THEN "loaded" ELSE "truncated")
-----------------------------------------------------------------------------
(* load_bin *)
Bin == tape.format = "BIN"

(* sim_bin_getc: what lies between two rubouts is skipped, and a frame with     *)
(* channel 8 is the field of what follows.                                      *)
FieldOf_Unshifted(f) == (f \div 8) % 8
FieldOf(f) == ((f \div 8) % 8) * \o10000
Swallowed == loader.rubout \/ Frame > Code
BinGetc ==
  /\ Bin /\ phase \notin Done /\ Reads /\ Swallowed
  /\ loader' = IF Frame = Rubout THEN [loader EXCEPT !.rubout = ~@]
               ELSE IF loader.rubout THEN loader
               ELSE [loader EXCEPT !.nextField = FieldOf(Frame)]
  /\ UNCHANGED <<phase, stored>>

BinLeader ==
  /\ Bin /\ phase = "leader" /\ Reads /\ ~Swallowed
  /\ LET data == Frame \notin {0, Code}
     IN  /\ phase' = IF data THEN "low" ELSE "leader"
         /\ loader' = IF data THEN [loader EXCEPT !.hi = Frame] ELSE loader
  /\ UNCHANGED stored

BinLow ==
  /\ Bin /\ phase = "low" /\ Reads /\ ~Swallowed
  /\ loader' = [loader EXCEPT !.word = Joined(loader.hi, Frame),
                              !.sum = loader.hi + Frame]
  /\ phase' = "next"
  /\ UNCHANGED stored

(* The frame after a word tells whether the word was the checksum.              *)
Summed(l) == (l.csum + l.sum) % \o10000
ChecksumHolds_Always(l) == TRUE
ChecksumHolds(l) == (l.csum - l.word) % \o10000 = 0
BinTrailer ==
  /\ Bin /\ phase = "next" /\ Reads /\ ~Swallowed /\ Frame = Code
  /\ IF ~ChecksumHolds(loader)
     THEN phase' = "checksum" /\ UNCHANGED loader
     ELSE /\ phase' = IF tape.loadAll THEN "leader" ELSE "loaded"
          /\ loader' = Fresh(loader.sections + 1)
  /\ UNCHANGED stored

(* A word is an origin or is stored; a field setting read meanwhile holds from  *)
(* the next word on.                                                            *)
Latched(l) == [l EXCEPT !.field = l.nextField]
BinWord ==
  /\ Bin /\ phase = "next" /\ Reads /\ ~Swallowed /\ Frame # Code
  /\ LET w == loader.word
         read == [loader EXCEPT !.hi = Frame, !.csum = Summed(loader)]
     IN  IF w > \o7777
         THEN /\ loader' = Latched([read EXCEPT !.origin = OriginOf(w)])
              /\ UNCHANGED stored
         ELSE /\ loader' = Latched([read EXCEPT !.origin = NextOrigin(@)])
              /\ Store(loader.field + loader.origin, w)
  /\ phase' = "low"

BinEnd ==
  /\ Bin /\ phase \notin Done /\ frames = <<>>
  /\ Ends(IF phase = "leader" /\ loader.sections > 0 THEN "loaded" ELSE "truncated")

TapeNext ==
  \/ RimLeader \/ RimLow \/ RimHigh \/ RimEnd
  \/ BinGetc \/ BinLeader \/ BinLow \/ BinTrailer \/ BinWord \/ BinEnd
TapeSpec == TapeInit /\ [][TapeNext]_tapeVars
-----------------------------------------------------------------------------
(* Whatever is on the tape, what is stored is a word of twelve bits at an       *)
(* address of the 32K memory, which the code indexes without a check.           *)
Words12 == 0 .. 2^12 - 1
Memory15 == 0 .. 2^15 - 1
FieldStarts == {f * \o10000 : f \in 0..7}
TapeTypeOK ==
  /\ frames \in Seq(Bytes)
  /\ phase \in {"leader", "low", "high", "next"} \cup Done
  /\ loader.origin \in Words12 /\ loader.field \in FieldStarts
  /\ loader.csum \in Words12 /\ loader.rubout \in BOOLEAN
  /\ stored \in UNION {[s -> Words12] : s \in SUBSET Memory15}

OnlyWhatWasPunched ==
  \A a \in DOMAIN stored : a \in DOMAIN tape.image /\ stored[a] = tape.image[a]
LoadsImage ==
  /\ OnlyWhatWasPunched
  /\ phase \in Done => phase = "loaded" /\ stored = tape.image

(* A BIN tape that is read as it was punched stores its words and no others, in *)
(* the fields it names, whatever rubouts and field settings lie between them,   *)
(* and never too few: all sections with -a, the first one without.              *)
WholeBinLoads == (Bin /\ tape.damage = 0) => LoadsImage

(* A BIN load that succeeds has stored what was punched even if one data frame  *)
(* was misread as another: the checksum sees it, or the tape ends too early,    *)
(* or, as with channel 7 of the checksum itself, no word depends on it.  What   *)
(* a failed load has stored stays.                                              *)
SuccessMeansIntact == (Bin /\ phase = "loaded") => stored = tape.image

(* A RIM tape loads its image when leader and trailer have an even number of    *)
(* frames: the loader takes them for words that set the origin.                 *)
Paired == tape.leader % 2 = 0 /\ tape.trailer % 2 = 0
PairedRimLoads == (Rim /\ Paired) => LoadsImage

(* Both loaders, on the tapes that they can read (loaders.rs:14-165).           *)
TapesLoad == WholeBinLoads /\ PairedRimLoads

(* VIOLATED.  loaders.rs:15: the leader is skipped and the trailer ends the     *)
(* tape; with `0200` in decimal, neither is recognised.                         *)
RimSkipsTheLeader == Rim => LoadsImage
=============================================================================
