-------------------------- MODULE IsomBoxesProofs --------------------------
(***************************************************************************)
(* Theorems about IsomBoxes for every value of its constants: whatever     *)
(* boxes a file has, in which order and of which sizes, no box is accepted *)
(* with another one inside of it that ends behind it, the list has every   *)
(* track once, and the defaults of a trex reach its track and the          *)
(* fragments of that.                                                      *)
(***************************************************************************)
EXTENDS IsomBoxes, SequenceTheorems, FiniteSetTheorems, TLAPS

-----------------------------------------------------------------------------
(* The inductive invariant *)

FrameTypes == Types \union {"root"}
Frames ==
  [type : FrameTypes, offset : Nat, size : Nat, returned : BOOLEAN, over : BOOLEAN,
   entries : Int, exceeded : BOOLEAN]

(* How deep a box lies whose handler is called.  All others are skipped.   *)
Level ==
  [root |-> 1, moov |-> 2, moof |-> 2, mdat |-> 2,
   trak |-> 3, mvex |-> 3, traf |-> 3, tkhd |-> 4, mdia |-> 4, trex |-> 4, tfhd |-> 4,
   hdlr |-> 5, mdhd |-> 5, minf |-> 5, stbl |-> 6, stsd |-> 7, table |-> 7,
   mp4a |-> 8, Opus |-> 8, text |-> 8, esds |-> 9, ES |-> 10, config |-> 11, info |-> 12]
Skipped == {"other", "tag"}
TrakArea ==
  {"trak", "tkhd", "mdia", "hdlr", "mdhd", "minf", "stbl", "stsd", "table",
   "mp4a", "Opus", "text", "esds", "ES", "config", "info"}

(* Every box lies at its level, in boxes that are still being read.        *)
ShapeOK(s) ==
  /\ s \in Seq(Frames)
  /\ s # <<>> => s[1].type = "root" /\ ~s[1].returned
  /\ \A i \in DOMAIN s : i < Len(s) => ~s[i].returned /\ s[i].type \notin Skipped
  /\ \A i \in DOMAIN s : s[i].type \notin Skipped => i = Level[s[i].type]
  /\ \A i \in DOMAIN s : s[i].type \in TrakArea => s[3].type = "trak"
  /\ \A i \in DOMAIN s : s[i].type = "tfhd" => s[3].type = "traf"

(* The end of a box is behind its start.                                   *)
Plain(box) == box.size = 0 \/ box.offset + box.size < Word

Passed(box, o) == box.size # 0 /\ o > box.offset + box.size

(* Where a box has one inside of it that ends behind it, that one is still *)
(* being read or the reader is behind the outer one already.  The latter's *)
(* end is not below its start, for that had stopped it from being entered. *)
NestedOK(s, o) ==
  /\ o \in Nat /\ o < Word
  /\ \A i \in DOMAIN s : /\ s[i].size < Word /\ s[i].offset < Word
                         /\ s[i].type = "root" => s[i].size = 0
  /\ \A i \in DOMAIN s : i < Len(s) => Plain(s[i])
  /\ \A i \in DOMAIN s : i < Len(s) /\ s[i].exceeded /\ s[i].type # "stsd" => Exceeds(s[i + 1], s[i])
  /\ s # <<>> => Plain(s[Len(s)]) \/ s[Len(s)].offset <= o
  /\ s # <<>> /\ s[Len(s)].type # "stsd" /\ s[Len(s)].exceeded => Passed(s[Len(s)], o)

(* A sample description that is not for audio is not read.                 *)
EntriesOK(s, audio) ==
  \A i \in DOMAIN s : i < Len(s) /\ s[i].type = "stsd" /\ ~audio => s[i + 1].returned /\ ~s[i + 1].exceeded

StackInv ==
  /\ style \in DOMAIN Styles
  /\ pc \in {"idle", "walk", "done"} /\ (pc = "walk" <=> stack # <<>>)
  /\ found_moov \in BOOLEAN /\ found_mdat \in BOOLEAN
  /\ ShapeOK(stack) /\ NestedOK(stack, offset) /\ EntriesOK(stack, Audio)

InTrak(s) == Len(s) >= 3 /\ s[3].type = "trak" /\ ~s[3].returned
InTraf(s) == Len(s) >= 3 /\ s[3].type = "traf"

Handlers == UNION {s.handlers : s \in Range(Styles)}
CodecNames == {"none", "AAC", "MP3", "OPUS"}
TrackRecords ==
  [id : Ids \union {0}, type : Handlers \union {"none"}, codec : CodecNames, default : Nat]

(* The list has every track once, with the defaults of the last trex, and  *)
(* a trex has made a track.                                                *)
ListOK ==
  /\ tracks \in Seq(Objects) /\ heap \in [DOMAIN heap -> TrackRecords]
  /\ Range(tracks) = DOMAIN heap
  /\ \A i, j \in DOMAIN tracks : heap[tracks[i]].id = heap[tracks[j]].id => i = j
  /\ trexes \in [Ids -> Nat]
  /\ \A o \in DOMAIN heap :
       heap[o].default = IF heap[o].id = 0 THEN 0 ELSE trexes[heap[o].id]
  /\ \A id \in Ids : (\A o \in DOMAIN heap : heap[o].id # id) => trexes[id] = 0

(* A track has no id only until the tkhd of its trak has been read, and is *)
(* the last of the list till then.                                         *)
TrakOK ==
  /\ InTrak(stack) =>
       /\ track \in DOMAIN heap
       /\ (heap[track].id = 0 <=> "tkhd" \notin found)
       /\ "tkhd" \notin found => tracks # <<>> /\ track = tracks[Len(tracks)]
  /\ pc # "done" => \A o \in DOMAIN heap : heap[o].id = 0 => InTrak(stack) /\ o = track

TrafOK ==
  traf.id # 0 /\ WithId(tracks, traf.id) # {} =>
    /\ ~traf.own => traf.default = trexes[traf.id]
    /\ traf.index + 1 \in DOMAIN tracks
    /\ heap[tracks[traf.index + 1]].id = traf.id

MovieInv ==
  /\ ListOK
  /\ TrakOK
  /\ InTraf(stack) => TrafOK

BoxesInv == StackInv /\ MovieInv

-----------------------------------------------------------------------------
(* Numbers and sequences *)

(* Of the intervals from zero to the elements of the set one has no other  *)
(* inside of it.                                                           *)
LEMMA Smallest ==
  ASSUME NEW S, S \subseteq Nat, S # {}
  PROVE  Min(S) \in S /\ \A y \in S : Min(S) <= y
<1> DEFINE R == StrictSubsetOrdering(Nat)  F == FiniteSubsetsOf(Nat)  T == {0..x : x \in S}
<1>1. IsWellFoundedOn(R, F)
  BY FS_StrictSubsetOrderingWellFounded
<1>2. \A x \in S : 0..x \in F
  BY FS_Interval DEF FiniteSubsetsOf
<1>3. T \subseteq F /\ T # {}
  BY <1>2
<1>4. \A x, y \in S : y < x => <<0..y, 0..x>> \in R
  <2> SUFFICES ASSUME NEW x \in S, NEW y \in S, y < x PROVE <<0..y, 0..x>> \in R
    OBVIOUS
  <2>1. x \in Nat /\ y \in Nat
    OBVIOUS
  <2>2. 0..y \subseteq 0..x /\ x \in 0..x /\ x \notin 0..y
    BY <2>1
  <2> QED BY <2>1, <2>2 DEF StrictSubsetOrdering
<1> HIDE DEF R, F
<1>5. \E t \in T : \A u \in T : ~(<<u, t>> \in R)
  BY <1>1, <1>3, WFMin
<1>6. PICK x \in S : \A y \in S : ~(<<0..y, 0..x>> \in R)
  BY <1>5
<1>7. \A y \in S : x <= y
  <2> SUFFICES ASSUME NEW y \in S PROVE x <= y
    OBVIOUS
  <2>1. x \in Nat /\ y \in Nat
    OBVIOUS
  <2>2. ~(y < x)
    BY <1>4, <1>6
  <2> QED BY <2>1, <2>2
<1> QED BY <1>7 DEF Min

(* What a sum modulo Word can be. *)
LEMMA Wrapped ==
  ASSUME NEW a \in Nat, NEW b \in Nat, b < Word
  PROVE  /\ (a + b) % Word \in Nat /\ (a + b) % Word < Word
         /\ a + b < Word => (a + b) % Word = a + b
         /\ a < Word /\ a + b >= Word => (a + b) % Word < a
<1>0. Word \in Nat \ {0}
  BY LengthAssumption
<1>1. (a + b) % Word \in Nat /\ (a + b) % Word < Word
  BY <1>0
<1>2. a + b < Word => (a + b) % Word = a + b
  BY <1>0
<1>3. ASSUME a < Word, a + b >= Word PROVE (a + b) % Word < a
  <2>1. a + b - Word \in Nat /\ a + b - Word < Word
    BY <1>0, <1>3
  <2>2. (a + b) % Word = a + b - Word
    BY <1>0, <2>1
  <2>3. a + b - Word < a
    BY <1>0
  <2> QED BY <2>2, <2>3
<1> QED BY <1>1, <1>2, <1>3

LEMMA StackLength ==
  ASSUME NEW s \in Seq(Frames)
  PROVE  /\ Len(s) \in Nat /\ DOMAIN s = 1..Len(s) /\ (s = <<>> <=> Len(s) = 0)
         /\ \A i \in 1..Len(s) : s[i] \in Frames
BY EmptySeq, LenProperties, ElementOfSeq

(* t is s with box on top of the top of s, of which p is what becomes.     *)
PushedOn(s, t, p, box) ==
  /\ t \in Seq(Frames) /\ Len(t) = Len(s) + 1
  /\ \A i \in 1..Len(s) - 1 : t[i] = s[i]
  /\ t[Len(s)] = p /\ t[Len(s) + 1] = box

(* t is s without the boxes above the place k, where p is now. *)
CutAt(s, t, k, p) ==
  /\ t \in Seq(Frames) /\ Len(t) = k
  /\ \A i \in 1..k - 1 : t[i] = s[i]
  /\ t[k] = p

LEMMA PushSeq ==
  ASSUME NEW s \in Seq(Frames), s # <<>>, NEW p \in Frames, NEW box \in Frames
  PROVE  PushedOn(s, SubSeq(s, 1, Len(s) - 1) \o <<p, box>>, p, box)
<1> DEFINE n == Len(s)  b == SubSeq(s, 1, n - 1)  e == <<p, box>>
<1>1. n \in Nat \ {0} /\ \A i \in 1..n - 1 : s[i] \in Frames
  BY StackLength
<1> HIDE DEF n
<1>2. b \in Seq(Frames) /\ Len(b) = n - 1 /\ \A i \in 1..n - 1 : b[i] = s[i]
  BY <1>1, SubSeqProperties
<1>3. e \in Seq(Frames) /\ Len(e) = 2 /\ e[1] = p /\ e[2] = box
  OBVIOUS
<1> HIDE DEF b, e
<1>4. /\ b \o e \in Seq(Frames) /\ Len(b \o e) = n + 1
      /\ \A i \in 1..n + 1 : (b \o e)[i] = IF i <= Len(b) THEN b[i] ELSE e[i - Len(b)]
  <2>1. /\ b \o e \in Seq(Frames) /\ Len(b \o e) = Len(b) + Len(e)
        /\ \A i \in 1..Len(b) + Len(e) : (b \o e)[i] = IF i <= Len(b) THEN b[i] ELSE e[i - Len(b)]
    <3>1. b \in Seq(Frames) /\ e \in Seq(Frames)
      BY <1>2, <1>3
    <3> QED BY <3>1, ConcatProperties
  <2>2. Len(b) + Len(e) = n + 1
    BY <1>1, <1>2, <1>3
  <2> QED BY <2>1, <2>2
<1>5. (b \o e)[n] = p /\ (b \o e)[n + 1] = box
  BY <1>1, <1>2, <1>3, <1>4
<1>6. \A i \in 1..n - 1 : (b \o e)[i] = s[i]
  BY <1>1, <1>2, <1>4
<1> QED BY <1>4, <1>5, <1>6 DEF PushedOn, b, e, n

LEMMA CutSeq ==
  ASSUME NEW s \in Seq(Frames), NEW k \in 1..Len(s), NEW p \in Frames
  PROVE  CutAt(s, Append(SubSeq(s, 1, k - 1), p), k, p)
<1> DEFINE b == SubSeq(s, 1, k - 1)
<1>1. Len(s) \in Nat /\ k \in Nat \ {0} /\ \A i \in 1..k - 1 : s[i] \in Frames
  BY StackLength
<1>2. b \in Seq(Frames) /\ Len(b) = k - 1 /\ \A i \in 1..k - 1 : b[i] = s[i]
  BY <1>1, SubSeqProperties
<1> HIDE DEF b
<1>3. /\ Append(b, p) \in Seq(Frames) /\ Len(Append(b, p)) = k /\ Append(b, p)[k] = p
      /\ \A i \in 1..k - 1 : Append(b, p)[i] = b[i]
  BY <1>1, <1>2, AppendProperties
<1> QED BY <1>2, <1>3 DEF CutAt, b

LEMMA PopSeq ==
  ASSUME NEW s \in Seq(Frames), Len(s) > 1, NEW p \in Frames
  PROVE  CutAt(s, Front(SubSeq(s, 1, Len(s) - 1)) \o <<p>>, Len(s) - 1, p)
<1> DEFINE n == Len(s)  b == SubSeq(s, 1, n - 1)  c == SubSeq(b, 1, n - 2)
<1>1. n \in Nat /\ n > 1 /\ \A i \in 1..n - 1 : s[i] \in Frames
  BY StackLength
<1>2. b \in Seq(Frames) /\ Len(b) = n - 1 /\ \A i \in 1..n - 1 : b[i] = s[i]
  BY <1>1, SubSeqProperties
<1> HIDE DEF b, n
<1>3. \A i \in 1..n - 2 : b[i] \in Frames /\ b[i] = s[i]
  BY <1>1, <1>2
<1>4. c \in Seq(Frames) /\ Len(c) = n - 2 /\ \A i \in 1..n - 2 : c[i] = b[i]
  BY <1>1, <1>3, SubSeqProperties
<1> HIDE DEF c
<1>5. <<p>> \in Seq(Frames) /\ Len(<<p>>) = 1 /\ <<p>>[1] = p
  OBVIOUS
<1>6. /\ c \o <<p>> \in Seq(Frames) /\ Len(c \o <<p>>) = n - 1
      /\ \A i \in 1..n - 1 : (c \o <<p>>)[i] = IF i <= n - 2 THEN c[i] ELSE <<p>>[i - (n - 2)]
  BY <1>1, <1>4, <1>5, ConcatProperties
<1>7. (c \o <<p>>)[n - 1] = p
  BY <1>1, <1>5, <1>6
<1>8. \A i \in 1..n - 1 - 1 : (c \o <<p>>)[i] = s[i]
  BY <1>1, <1>3, <1>4, <1>6
<1>9. Front(b) = c
  <2>1. Len(b) - 1 = n - 2
    BY <1>1, <1>2
  <2> QED BY <2>1 DEF Front, c
<1> QED BY <1>6, <1>7, <1>8, <1>9 DEF CutAt, b, n

(* The changes of a frame.                                                 *)
Alike(p, f) == p \in Frames /\ p.type = f.type /\ p.offset = f.offset /\ p.size = f.size

LEMMA FrameReturned ==
  ASSUME NEW f \in Frames, NEW b \in BOOLEAN
  PROVE  LET p == [f EXCEPT !.returned = b]
         IN  Alike(p, f) /\ p.exceeded = f.exceeded /\ p.returned = b
BY DEF Frames, Alike

LEMMA FrameOver ==
  ASSUME NEW f \in Frames, NEW b \in BOOLEAN
  PROVE  LET p == [f EXCEPT !.over = b]
         IN  Alike(p, f) /\ p.exceeded = f.exceeded /\ p.returned = f.returned
BY DEF Frames, Alike

-----------------------------------------------------------------------------
(* The invariant of the stack when a box is put on it *)

(* The boxes that may lie in one of type p, when it is looked into.        *)
Fits(p, c) ==
  \/ c \in Skipped
  \/ c \in DOMAIN PlaceOf /\ p = PlaceOf[c]
  \/ c \in Entries /\ p = "stsd"
  \/ c \in DOMAIN DescriptorOf /\ p = DescriptorOf[c]

LEMMA FitsBelow ==
  ASSUME NEW p, NEW c, Fits(p, c), c \notin Skipped
  PROVE  /\ p \notin Skipped /\ c # "root"
         /\ Level[p] \in Nat /\ Level[c] = Level[p] + 1
         /\ c \in TrakArea => (c = "trak" /\ Level[c] = 3) \/ p \in TrakArea
         /\ c = "tfhd" => p = "traf"
<1>1. CASE c \in DOMAIN PlaceOf /\ p = PlaceOf[c]
  BY <1>1 DEF PlaceOf, Level, TrakArea, Skipped
<1>2. CASE c \in Entries /\ p = "stsd"
  BY <1>2 DEF Entries, Level, TrakArea, Skipped
<1>3. CASE c \in DOMAIN DescriptorOf /\ p = DescriptorOf[c]
  BY <1>3 DEF DescriptorOf, Level, TrakArea, Skipped
<1> QED BY <1>1, <1>2, <1>3 DEF Fits

LEMMA LevelOfArea ==
  /\ \A c \in TrakArea : Level[c] \in Nat /\ Level[c] >= 3 /\ c \notin Skipped
  /\ Level["tfhd"] = 4 /\ Level["traf"] = 3 /\ Level["trak"] = 3 /\ Level["stsd"] = 7
  /\ Level["root"] = 1 /\ Level["moov"] = 2 /\ Level["mdia"] = 4
BY DEF TrakArea, Level, Skipped

(* What a level says of the third box. *)
LEMMA ShapeAt ==
  ASSUME NEW s, ShapeOK(s), NEW i \in DOMAIN s
  PROVE  /\ s[i] \in Frames /\ i \in 1..Len(s) /\ Len(s) \in Nat
         /\ s[i].type \notin Skipped => i = Level[s[i].type]
         /\ s[i].type \in TrakArea => i >= 3 /\ Len(s) >= 3 /\ s[3].type = "trak"
         /\ s[i].type = "tfhd" => i = 4 /\ Len(s) >= 4 /\ s[3].type = "traf"
         /\ s[i].type = "traf" => i = 3
         /\ s[i].type = "trak" => i = 3
         /\ s[i].type = "stsd" => i = 7
<1>1. s \in Seq(Frames)
  BY DEF ShapeOK
<1>2. s[i] \in Frames /\ i \in 1..Len(s) /\ Len(s) \in Nat
  BY <1>1, StackLength
<1>3. s[i].type \notin Skipped => i = Level[s[i].type]
  BY DEF ShapeOK
<1>4. s[i].type \in TrakArea => i >= 3 /\ s[3].type = "trak"
  BY <1>3, LevelOfArea DEF ShapeOK
<1>5. s[i].type = "tfhd" => i = 4 /\ s[3].type = "traf"
  BY <1>3, LevelOfArea DEF ShapeOK, Skipped
<1>6. /\ s[i].type = "traf" => i = 3
      /\ s[i].type = "trak" => i = 3
      /\ s[i].type = "stsd" => i = 7
  BY <1>3, LevelOfArea DEF Skipped
<1> QED BY <1>2, <1>3, <1>4, <1>5, <1>6

LEMMA PushShape ==
  ASSUME NEW s, ShapeOK(s), s # <<>>, NEW p, NEW box \in Frames, NEW t, PushedOn(s, t, p, box),
         Alike(p, s[Len(s)]), p.returned = s[Len(s)].returned, ~s[Len(s)].returned,
         s[Len(s)].type \notin Skipped, Fits(s[Len(s)].type, box.type)
  PROVE  ShapeOK(t)
<1> DEFINE n == Len(s)
<1>1. n \in Nat \ {0} /\ DOMAIN s = 1..n /\ n \in DOMAIN s
  BY StackLength DEF ShapeOK
<1>2. t \in Seq(Frames) /\ Len(t) = n + 1 /\ DOMAIN t = 1..n + 1
  BY StackLength DEF PushedOn
<1>3. \A i \in 1..n : i = n \/ (i \in 1..n - 1 /\ i < n)
  <2> HIDE DEF n
  <2> QED BY <1>1
<1>4. t[n + 1] = box
  BY DEF PushedOn
<1>5. \A i \in 1..n : /\ ~s[i].returned /\ s[i].type \notin Skipped
                     /\ t[i].type = s[i].type /\ ~t[i].returned
  <2> SUFFICES ASSUME NEW i \in 1..n
               PROVE  /\ ~s[i].returned /\ s[i].type \notin Skipped
                      /\ t[i].type = s[i].type /\ ~t[i].returned
    OBVIOUS
  <2>1. CASE i = n
    BY <2>1 DEF PushedOn, Alike
  <2>2. CASE i \in 1..n - 1 /\ i < n
    <3>1. i \in DOMAIN s /\ i < Len(s)
      BY <1>1, <2>2
    <3>2. ~s[i].returned /\ s[i].type \notin Skipped
      BY <3>1 DEF ShapeOK
    <3>3. t[i] = s[i]
      BY <2>2 DEF PushedOn
    <3> QED BY <3>2, <3>3
  <2> QED BY <1>3, <2>1, <2>2
<1> HIDE DEF n
<1>6. \A i \in DOMAIN t : i \in 1..n \/ i = n + 1
  BY <1>1, <1>2
<1>7. \A i \in DOMAIN t : i < Len(t) => i \in 1..n
  BY <1>1, <1>2
<1>8. \A i \in DOMAIN t : i < Len(t) => ~t[i].returned /\ t[i].type \notin Skipped
  BY <1>5, <1>7
<1>9. \A i \in 1..n : i = Level[s[i].type]
  BY <1>1, <1>5 DEF ShapeOK
<1>10. s[n].type = s[Len(s)].type
  BY DEF n
<1>11. box.type \notin Skipped => n + 1 = Level[box.type]
  <2>1. n = Level[s[n].type]
    BY <1>1, <1>9
  <2> QED BY <1>10, <2>1, FitsBelow
<1>12. \A i \in DOMAIN t : t[i].type \notin Skipped => i = Level[t[i].type]
  BY <1>4, <1>5, <1>6, <1>9, <1>11
<1>13. \A i \in 1..n : s[i].type \in TrakArea => n >= 3 /\ s[3].type = "trak"
  BY <1>1, ShapeAt DEF n
<1>14. \A i \in 1..n : s[i].type \in {"tfhd", "traf"} => n >= 3 /\ s[3].type = "traf"
  <2> SUFFICES ASSUME NEW i \in 1..n, s[i].type \in {"tfhd", "traf"}
               PROVE  n >= 3 /\ s[3].type = "traf"
    OBVIOUS
  <2>1. CASE s[i].type = "tfhd"
    <3>1. Len(s) >= 4 /\ s[3].type = "traf" /\ Len(s) \in Nat
      BY <1>1, <2>1, ShapeAt
    <3> QED BY <3>1 DEF n
  <2>2. CASE s[i].type = "traf"
    <3>1. i = 3
      BY <1>1, <2>2, ShapeAt
    <3> QED BY <1>1, <2>2, <3>1
  <2> QED BY <2>1, <2>2
<1>15. n >= 3 => t[3].type = s[3].type
  BY <1>1, <1>5
<1>16. \A i \in DOMAIN t : t[i].type \in TrakArea => t[3].type = "trak"
  <2> SUFFICES ASSUME NEW i \in DOMAIN t, t[i].type \in TrakArea PROVE t[3].type = "trak"
    OBVIOUS
  <2>1. CASE i \in 1..n
    BY <2>1, <1>5, <1>13, <1>15
  <2>2. CASE i = n + 1
    <3>1. box.type \in TrakArea /\ box.type \notin Skipped
      BY <2>2, <1>4, LevelOfArea
    <3>2. CASE box.type = "trak" /\ Level[box.type] = 3
      <4>1. n + 1 = 3
        BY <3>1, <3>2, <1>11
      <4> QED BY <3>2, <4>1, <1>4
    <3>3. CASE s[n].type \in TrakArea
      BY <3>3, <1>1, <1>13, <1>15
    <3> QED BY <3>1, <3>2, <3>3, <1>10, FitsBelow
  <2> QED BY <2>1, <2>2, <1>6
<1>17. \A i \in DOMAIN t : t[i].type = "tfhd" => t[3].type = "traf"
  <2> SUFFICES ASSUME NEW i \in DOMAIN t, t[i].type = "tfhd" PROVE t[3].type = "traf"
    OBVIOUS
  <2>1. CASE i \in 1..n
    BY <2>1, <1>5, <1>14, <1>15
  <2>2. CASE i = n + 1
    <3>1. box.type = "tfhd" /\ box.type \notin Skipped
      BY <2>2, <1>4 DEF Skipped
    <3>2. s[n].type = "traf"
      BY <3>1, <1>10, FitsBelow
    <3> QED BY <3>2, <1>1, <1>14, <1>15
  <2> QED BY <2>1, <2>2, <1>6
<1>18. t[1].type = "root" /\ ~t[1].returned
  <2>1. 1 \in 1..n
    BY <1>1
  <2>2. s[1].type = "root"
    BY DEF ShapeOK
  <2> QED BY <2>1, <2>2, <1>5
<1> QED BY <1>2, <1>8, <1>12, <1>16, <1>17, <1>18 DEF ShapeOK

(* There is room for more than nothing in a box.                           *)
Room(box, o) == box.size = 0 \/ End(box) > o

LEMMA RoomIsPlain ==
  ASSUME NEW f \in Frames, f.size < Word, NEW o \in Nat, o < Word, Room(f, o),
         Plain(f) \/ f.offset <= o
  PROVE  Plain(f) /\ ~Passed(f, o)
<1>1. f.offset \in Nat /\ f.size \in Nat
  BY DEF Frames
<1>2. CASE f.size = 0
  BY <1>2 DEF Plain, Passed
<1>3. CASE f.size # 0
  <2>1. (f.offset + f.size) % Word > o
    BY <1>3 DEF Room, End
  <2>2. (f.offset + f.size) % Word \in Nat
    BY <1>1, Wrapped
  <2>3. f.offset + f.size < Word
    <3>1. SUFFICES ASSUME f.offset + f.size >= Word, f.offset <= o PROVE FALSE
      BY <1>1, <1>3, LengthAssumption DEF Plain
    <3>2. f.offset < Word
      BY <1>1, <3>1, LengthAssumption
    <3>3. (f.offset + f.size) % Word < f.offset
      BY <1>1, <3>1, <3>2, Wrapped
    <3> QED BY <1>1, <2>1, <2>2, <3>1, <3>3
  <2>4. (f.offset + f.size) % Word = f.offset + f.size
    BY <1>1, <2>3, Wrapped
  <2> QED BY <1>1, <2>1, <2>3, <2>4 DEF Plain, Passed
<1> QED BY <1>2, <1>3

LEMMA PushNested ==
  ASSUME NEW s \in Seq(Frames), s # <<>>, NEW o, NestedOK(s, o), Room(s[Len(s)], o),
         NEW p, NEW box \in Frames, NEW t, PushedOn(s, t, p, box),
         Alike(p, s[Len(s)]), p.exceeded => s[Len(s)].exceeded \/ Exceeds(box, s[Len(s)]),
         box.size < Word, box.type # "root", ~box.exceeded,
         NEW q \in Nat, box.offset <= q, q < Word
  PROVE  NestedOK(t, q)
<1> DEFINE n == Len(s)  f == s[n]
<1>1. n \in Nat \ {0} /\ DOMAIN s = 1..n /\ n \in DOMAIN s /\ f \in Frames
  BY StackLength
<1>2. Len(t) = n + 1 /\ DOMAIN t = 1..n + 1 /\ t[n + 1] = box /\ t[n] = p /\ Len(t) \in Nat
  BY <1>1, StackLength DEF PushedOn
<1>3. \A i \in 1..n - 1 : t[i] = s[i]
  BY DEF PushedOn
<1>4. p.type = f.type /\ p.offset = f.offset /\ p.size = f.size
  BY DEF Alike
<1>5. f.size < Word /\ f.offset < Word /\ (f.type = "root" => f.size = 0)
  BY <1>1 DEF NestedOK
<1>6. Plain(f) /\ ~Passed(f, o)
  <2>1. Plain(f) \/ f.offset <= o
    BY DEF NestedOK
  <2>2. o \in Nat /\ o < Word
    BY DEF NestedOK
  <2> QED BY <1>1, <1>5, <2>1, <2>2, RoomIsPlain
<1>7. p.exceeded /\ p.type # "stsd" => Exceeds(box, p)
  <2>1. f.type # "stsd" => ~f.exceeded
    BY <1>6 DEF NestedOK
  <2> QED BY <1>4, <2>1 DEF Exceeds
<1>8. Plain(p)
  BY <1>4, <1>6 DEF Plain
<1> HIDE DEF n, f
<1>9. \A i \in DOMAIN t : i \in 1..n - 1 \/ i = n \/ i = n + 1
  BY <1>1, <1>2
<1>10. \A i \in 1..n - 1 : i \in DOMAIN s /\ i < Len(s)
  BY <1>1 DEF n
<1>11. \A i \in DOMAIN t : /\ t[i].size < Word /\ t[i].offset < Word
                           /\ t[i].type = "root" => t[i].size = 0
  <2>1. box.offset \in Nat /\ box.offset < Word
    BY LengthAssumption DEF Frames
  <2> QED BY <2>1, <1>2, <1>3, <1>4, <1>5, <1>9, <1>10 DEF NestedOK
<1>12. \A i \in DOMAIN t : i < Len(t) => Plain(t[i])
  <2>1. \A i \in DOMAIN t : i < Len(t) => i \in 1..n - 1 \/ i = n
    BY <1>1, <1>2
  <2> QED BY <2>1, <1>2, <1>3, <1>8, <1>10 DEF NestedOK
<1>13. ASSUME NEW i \in DOMAIN t, i < Len(t), t[i].exceeded, t[i].type # "stsd"
       PROVE  Exceeds(t[i + 1], t[i])
  <2>1. CASE i = n
    BY <2>1, <1>2, <1>7, <1>13
  <2>2. CASE i \in 1..n - 1
    <3>1. t[i] = s[i] /\ Exceeds(s[i + 1], s[i])
      BY <2>2, <1>3, <1>10, <1>13 DEF NestedOK
    <3>2. CASE i = n - 1
      <4>1. i + 1 = n
        BY <3>2, <1>1
      <4>2. s[i + 1] = f /\ t[i + 1] = p
        BY <4>1, <1>2 DEF f
      <4> QED BY <3>1, <4>2, <1>4 DEF Exceeds
    <3>3. CASE i # n - 1
      <4>1. i + 1 \in 1..n - 1
        BY <2>2, <3>3, <1>1
      <4> QED BY <3>1, <4>1, <1>3
    <3> QED BY <3>2, <3>3
  <2>3. i # n + 1
    BY <1>1, <1>2, <1>13
  <2> QED BY <2>1, <2>2, <2>3, <1>9
<1>14. t # <<>> /\ t[Len(t)] = box
  BY <1>1, <1>2, StackLength DEF PushedOn
<1> QED BY <1>11, <1>12, <1>13, <1>14 DEF NestedOK

LEMMA PushEntries ==
  ASSUME NEW s \in Seq(Frames), s # <<>>, NEW audio, EntriesOK(s, audio),
         NEW p, NEW box, NEW t, PushedOn(s, t, p, box),
         Alike(p, s[Len(s)]), ~s[Len(s)].returned, ~box.exceeded,
         s[Len(s)].type = "stsd" /\ ~audio => box.returned
  PROVE  EntriesOK(t, audio)
<1> SUFFICES ASSUME NEW i \in DOMAIN t, i < Len(t), t[i].type = "stsd", ~audio
             PROVE  t[i + 1].returned /\ ~t[i + 1].exceeded
  BY DEF EntriesOK
<1> DEFINE n == Len(s)
<1>1. n \in Nat \ {0} /\ DOMAIN s = 1..n
  BY StackLength
<1>2. Len(t) = n + 1 /\ DOMAIN t = 1..n + 1 /\ t[n + 1] = box /\ t[n] = p
  BY StackLength DEF PushedOn
<1>3. \A j \in 1..n - 1 : t[j] = s[j]
  BY DEF PushedOn
<1>4. CASE i = n
  BY <1>2, <1>4 DEF Alike
<1>5. CASE i # n
  <2>1. i \in 1..n - 1 /\ i < Len(s) /\ i \in DOMAIN s
    BY <1>1, <1>2, <1>5
  <2>2. s[i + 1].returned /\ ~s[i + 1].exceeded
    BY <2>1, <1>3 DEF EntriesOK
  <2>3. CASE i + 1 = n
    BY <2>2, <2>3
  <2>4. CASE i + 1 # n
    <3>1. i + 1 \in 1..n - 1
      BY <2>1, <2>4, <1>1
    <3> QED BY <2>2, <3>1, <1>3
  <2> QED BY <2>3, <2>4
<1> QED BY <1>4, <1>5

-----------------------------------------------------------------------------
(* The invariant of the stack when boxes are taken from it *)

LEMMA CutFacts ==
  ASSUME NEW s \in Seq(Frames), NEW k \in 1..Len(s), NEW p, NEW t, CutAt(s, t, k, p), Alike(p, s[k])
  PROVE  /\ Len(t) = k /\ DOMAIN t = 1..k /\ k \in Nat \ {0} /\ t # <<>> /\ t \in Seq(Frames)
         /\ Len(s) \in Nat /\ DOMAIN s = 1..Len(s) /\ k \in DOMAIN s
         /\ \A i \in 1..k : i \in DOMAIN s /\ (i = k \/ (i \in 1..k - 1 /\ i < k /\ i < Len(s)))
         /\ \A i \in 1..k : t[i].type = s[i].type
         /\ \A i \in 1..k - 1 : t[i] = s[i]
         /\ t[k] = p
<1>1. k \in Nat \ {0} /\ Len(s) \in Nat /\ DOMAIN s = 1..Len(s) /\ k \in DOMAIN s
  BY StackLength
<1>2. t \in Seq(Frames) /\ Len(t) = k /\ DOMAIN t = 1..k /\ t # <<>>
  BY <1>1, StackLength DEF CutAt
<1>3. \A i \in 1..k : i \in DOMAIN s /\ (i = k \/ (i \in 1..k - 1 /\ i < k /\ i < Len(s)))
  BY <1>1
<1>4. \A i \in 1..k - 1 : t[i] = s[i]
  BY DEF CutAt
<1>5. t[k] = p
  BY DEF CutAt
<1>6. \A i \in 1..k : t[i].type = s[i].type
  BY <1>3, <1>4, <1>5 DEF Alike
<1> QED BY <1>1, <1>2, <1>3, <1>4, <1>5, <1>6

LEMMA CutShape ==
  ASSUME NEW s, ShapeOK(s), NEW k \in 1..Len(s), NEW p, NEW t, CutAt(s, t, k, p), Alike(p, s[k]),
         k = 1 => ~p.returned
  PROVE  ShapeOK(t)
<1>1. /\ Len(t) = k /\ DOMAIN t = 1..k /\ k \in Nat \ {0} /\ t \in Seq(Frames)
      /\ Len(s) \in Nat /\ DOMAIN s = 1..Len(s) /\ k \in DOMAIN s
      /\ \A i \in 1..k : i \in DOMAIN s /\ (i = k \/ (i \in 1..k - 1 /\ i < k /\ i < Len(s)))
      /\ \A i \in 1..k : t[i].type = s[i].type
      /\ \A i \in 1..k - 1 : t[i] = s[i]
  BY CutFacts DEF ShapeOK
<1>2. \A i \in DOMAIN t : i < Len(t) => ~t[i].returned /\ t[i].type \notin Skipped
  <2> SUFFICES ASSUME NEW i \in DOMAIN t, i < Len(t)
               PROVE  ~t[i].returned /\ t[i].type \notin Skipped
    OBVIOUS
  <2>1. i \in DOMAIN s /\ i < Len(s) /\ t[i] = s[i]
    BY <1>1
  <2> QED BY <2>1 DEF ShapeOK
<1>3. \A i \in DOMAIN t : t[i].type \notin Skipped => i = Level[t[i].type]
  BY <1>1 DEF ShapeOK
<1>4. k >= 3 => t[3].type = s[3].type
  BY <1>1
<1>5. \A i \in DOMAIN t : t[i].type \in TrakArea => t[3].type = "trak"
  <2> SUFFICES ASSUME NEW i \in DOMAIN t, t[i].type \in TrakArea PROVE t[3].type = "trak"
    OBVIOUS
  <2>1. i >= 3 /\ s[3].type = "trak" /\ i <= k
    BY <1>1, ShapeAt
  <2> QED BY <2>1, <1>1, <1>4
<1>6. \A i \in DOMAIN t : t[i].type = "tfhd" => t[3].type = "traf"
  <2> SUFFICES ASSUME NEW i \in DOMAIN t, t[i].type = "tfhd" PROVE t[3].type = "traf"
    OBVIOUS
  <2>1. i = 4 /\ s[3].type = "traf" /\ i <= k
    BY <1>1, ShapeAt
  <2> QED BY <2>1, <1>1, <1>4
<1>7. t[1].type = "root" /\ ~t[1].returned
  <2>1. 1 \in 1..k /\ 1 \in DOMAIN s
    BY <1>1
  <2>2. s[1].type = "root" /\ ~s[1].returned
    <3>1. s # <<>>
      BY <1>1, EmptySeq
    <3> QED BY <3>1 DEF ShapeOK
  <2>3. t[1].type = "root"
    BY <2>1, <2>2, <1>1
  <2>4. ~t[1].returned
    <3>1. CASE k = 1
      BY <3>1 DEF CutAt
    <3>2. CASE k # 1
      <4>1. 1 \in 1..k - 1
        BY <3>2, <1>1
      <4> QED BY <4>1, <2>2, <1>1
    <3> QED BY <3>1, <3>2
  <2> QED BY <2>3, <2>4
<1> QED BY <1>1, <1>2, <1>3, <1>5, <1>6, <1>7 DEF ShapeOK

(* Where the reader is (q, it was at o) when the box at k is on top again: *)
(* inside of it, unless it is to be refused.                               *)
LeftAt(s, k, o, q) ==
  \/ k = Len(s) /\ q = o
  \/ k < Len(s) /\ (s[k].type # "stsd" /\ s[k].exceeded => Passed(s[k], q))

LEMMA CutNested ==
  ASSUME NEW s \in Seq(Frames), NEW o, NestedOK(s, o), NEW k \in 1..Len(s), NEW p, NEW t,
         CutAt(s, t, k, p), Alike(p, s[k]), p.exceeded = s[k].exceeded, NEW q \in Nat,
         q < Word, LeftAt(s, k, o, q)
  PROVE  NestedOK(t, q)
<1>1. /\ Len(t) = k /\ DOMAIN t = 1..k /\ k \in Nat \ {0} /\ t # <<>>
      /\ Len(s) \in Nat /\ DOMAIN s = 1..Len(s) /\ k \in DOMAIN s
      /\ \A i \in 1..k : i \in DOMAIN s /\ (i = k \/ (i \in 1..k - 1 /\ i < k /\ i < Len(s)))
      /\ \A i \in 1..k - 1 : t[i] = s[i]
      /\ t[k] = p
  BY CutFacts
<1>2. p.type = s[k].type /\ p.offset = s[k].offset /\ p.size = s[k].size
  BY DEF Alike
<1>3. \A i \in DOMAIN t : /\ t[i].size < Word /\ t[i].offset < Word
                          /\ t[i].type = "root" => t[i].size = 0
  BY <1>1, <1>2 DEF NestedOK
<1>4. \A i \in DOMAIN t : i < Len(t) => i \in 1..k - 1 /\ i \in DOMAIN s /\ i < Len(s)
  BY <1>1
<1>5. \A i \in DOMAIN t : i < Len(t) => Plain(t[i])
  BY <1>1, <1>4 DEF NestedOK
<1>6. ASSUME NEW i \in DOMAIN t, i < Len(t), t[i].exceeded, t[i].type # "stsd"
      PROVE  Exceeds(t[i + 1], t[i])
  <2>1. t[i] = s[i] /\ Exceeds(s[i + 1], s[i])
    BY <1>1, <1>4, <1>6 DEF NestedOK
  <2>2. CASE i + 1 = k
    BY <2>1, <2>2, <1>1, <1>2 DEF Exceeds
  <2>3. CASE i + 1 # k
    <3>1. i + 1 \in 1..k - 1
      BY <2>3, <1>1, <1>6
    <3> QED BY <2>1, <3>1, <1>1
  <2> QED BY <2>2, <2>3
<1>7. t[Len(t)] = p
  BY <1>1
<1>8. /\ Plain(p) \/ p.offset <= q
      /\ p.type # "stsd" /\ p.exceeded => Passed(p, q)
  <2>1. CASE k = Len(s) /\ q = o
    <3>1. s # <<>> /\ s[Len(s)] = s[k]
      BY <2>1, <1>1
    <3> QED BY <2>1, <3>1, <1>2 DEF NestedOK, Plain, Passed
  <2>2. CASE k < Len(s) /\ (s[k].type # "stsd" /\ s[k].exceeded => Passed(s[k], q))
    <3>1. Plain(s[k])
      BY <2>2, <1>1 DEF NestedOK
    <3> QED BY <2>2, <3>1, <1>2 DEF Plain, Passed
  <2> QED BY <2>1, <2>2 DEF LeftAt
<1> QED BY <1>1, <1>3, <1>5, <1>6, <1>7, <1>8 DEF NestedOK

LEMMA CutEntries ==
  ASSUME NEW s \in Seq(Frames), NEW audio, EntriesOK(s, audio), NEW k \in 1..Len(s), NEW p, NEW t,
         CutAt(s, t, k, p), Alike(p, s[k]), p.exceeded = s[k].exceeded,
         p.returned \/ p.returned = s[k].returned
  PROVE  EntriesOK(t, audio)
<1> SUFFICES ASSUME NEW i \in DOMAIN t, i < Len(t), t[i].type = "stsd", ~audio
             PROVE  t[i + 1].returned /\ ~t[i + 1].exceeded
  BY DEF EntriesOK
<1>1. /\ Len(t) = k /\ DOMAIN t = 1..k /\ k \in Nat \ {0}
      /\ \A j \in 1..k : j \in DOMAIN s /\ (j = k \/ (j \in 1..k - 1 /\ j < k /\ j < Len(s)))
      /\ \A j \in 1..k - 1 : t[j] = s[j]
      /\ t[k] = p
  BY CutFacts
<1>2. i \in 1..k - 1 /\ i \in DOMAIN s /\ i < Len(s) /\ t[i] = s[i]
  BY <1>1
<1>3. s[i + 1].returned /\ ~s[i + 1].exceeded
  BY <1>2 DEF EntriesOK
<1>4. CASE i + 1 = k
  BY <1>1, <1>3, <1>4
<1>5. CASE i + 1 # k
  <2>1. i + 1 \in 1..k - 1
    BY <1>1, <1>2, <1>5
  <2> QED BY <2>1, <1>1, <1>3
<1> QED BY <1>4, <1>5

-----------------------------------------------------------------------------
(* The calls *)

(* A box is put on the stack: when the reader is in front of it (offset)   *)
(* or in it (offset').                                                     *)
PutOn(box, ret) ==
  /\ pc = "walk" /\ ~Top.returned /\ Top.type \notin Skipped
  /\ Room(Top, offset)
  /\ box \in Frames /\ box.size < Word /\ ~box.exceeded /\ Fits(Top.type, box.type)
  /\ offset' \in Nat /\ box.offset <= offset' /\ offset' < Word
  /\ ret \in BOOLEAN /\ (Top.type = "stsd" /\ ~Audio => ret)
  /\ stack' = Pushed(box, ret) /\ Continue

LEMMA TopFacts ==
  ASSUME StackInv, pc = "walk"
  PROVE  /\ stack \in Seq(Frames) /\ stack # <<>> /\ Len(stack) \in Nat \ {0}
         /\ DOMAIN stack = 1..Len(stack) /\ Len(stack) \in DOMAIN stack
         /\ Top = stack[Len(stack)] /\ Top \in Frames
         /\ Top.offset \in Nat /\ Top.size \in Nat /\ Top.size < Word
<1>1. stack \in Seq(Frames) /\ stack # <<>>
  BY DEF StackInv, ShapeOK
<1>2. /\ Len(stack) \in Nat \ {0} /\ DOMAIN stack = 1..Len(stack) /\ Len(stack) \in DOMAIN stack
      /\ Top = stack[Len(stack)] /\ Top \in Frames
  BY <1>1, StackLength DEF Top
<1>3. Top.size < Word
  BY <1>2 DEF StackInv, NestedOK
<1> QED BY <1>1, <1>2, <1>3 DEF Frames

LEMMA PutOnStack ==
  ASSUME StackInv, NEW box, NEW ret, PutOn(box, ret)
  PROVE  \E p \in Frames, b \in Frames :
           /\ PushedOn(stack, stack', p, b)
           /\ Alike(p, Top) /\ p.returned = Top.returned
           /\ p.exceeded = (Top.exceeded \/ Exceeds(box, Top))
           /\ Alike(b, box) /\ b.returned = ret /\ b.exceeded = box.exceeded
<1>1. stack \in Seq(Frames) /\ stack # <<>> /\ Top = stack[Len(stack)] /\ Top \in Frames
  BY TopFacts DEF PutOn
<1> DEFINE x == Top.exceeded \/ Exceeds(box, Top)
           n == IF Top.type = "stsd" THEN Top.entries - 1 ELSE 1
           p == [Top EXCEPT !.exceeded = x, !.entries = n]
           b == [box EXCEPT !.returned = ret]
<1>2. x \in BOOLEAN
  BY <1>1 DEF Exceeds
<1>3. n \in Int
  BY <1>1 DEF Frames
<1>4. box \in Frames /\ ret \in BOOLEAN
  BY DEF PutOn
<1>5. stack' = SubSeq(stack, 1, Len(stack) - 1) \o <<p, b>>
  BY DEF PutOn, Pushed, Below
<1> HIDE DEF x, n
<1>6. Alike(p, Top) /\ p.exceeded = x /\ p.returned = Top.returned
  <2>1. Top \in Frames
    BY <1>1
  <2> QED BY <1>2, <1>3, <2>1 DEF Frames, Alike
<1>7. Alike(b, box) /\ b.exceeded = box.exceeded /\ b.returned = ret
  BY <1>4, FrameReturned
<1> HIDE DEF p, b
<1>8. PushedOn(stack, stack', p, b)
  BY <1>1, <1>5, <1>6, <1>7, PushSeq DEF Alike
<1> QED BY <1>6, <1>7, <1>8 DEF x, Alike

(* Only the handler of a track is asked for by the entries of a stsd.      *)
LEMMA AudioKept ==
  ASSUME NEW s, ShapeOK(s), Len(s) <= 7, NEW audio
  PROVE  EntriesOK(s, audio)
<1> SUFFICES ASSUME NEW i \in DOMAIN s, i < Len(s), s[i].type = "stsd" PROVE FALSE
  BY DEF EntriesOK
<1>1. i = 7 /\ Len(s) \in Nat
  BY ShapeAt
<1> QED BY <1>1

LEMMA PutOnKeeps ==
  ASSUME StackInv, NEW box, NEW ret, PutOn(box, ret),
         found_moov' \in BOOLEAN, found_mdat' \in BOOLEAN,
         (Audio' <=> Audio) \/ Len(stack) <= 6
  PROVE  /\ StackInv'
         /\ Len(stack') = Len(stack) + 1
<1>1. PICK p \in Frames, b \in Frames :
           /\ PushedOn(stack, stack', p, b)
           /\ Alike(p, Top) /\ p.returned = Top.returned
           /\ p.exceeded = (Top.exceeded \/ Exceeds(box, Top))
           /\ Alike(b, box) /\ b.returned = ret /\ b.exceeded = box.exceeded
  BY PutOnStack
<1>2. /\ stack \in Seq(Frames) /\ stack # <<>> /\ Len(stack) \in Nat
      /\ Top = stack[Len(stack)]
  BY TopFacts DEF PutOn
<1>3. b.type = box.type /\ b.offset = box.offset /\ b.size = box.size
  BY <1>1 DEF Alike
<1>4. ShapeOK(stack')
  <2>1. ShapeOK(stack)
    BY DEF StackInv
  <2>2. ~Top.returned /\ Top.type \notin Skipped /\ Fits(Top.type, b.type)
    BY <1>3 DEF PutOn
  <2> QED BY <1>1, <1>2, <2>1, <2>2, PushShape
<1>5. NestedOK(stack', offset')
  <2>1. NestedOK(stack, offset)
    BY DEF StackInv
  <2>2. b.type # "root" /\ ~b.exceeded /\ b.size < Word
    <3>1. b.type \in Skipped => b.type # "root"
      BY DEF Skipped
    <3>2. Fits(Top.type, b.type) /\ ~box.exceeded /\ box.size < Word
      BY <1>3 DEF PutOn
    <3> QED BY <3>1, <3>2, <1>1, <1>3, FitsBelow
  <2>3. Room(stack[Len(stack)], offset) /\ offset' \in Nat /\ b.offset <= offset' /\ offset' < Word
    BY <1>2, <1>3 DEF PutOn
  <2>4. p.exceeded => stack[Len(stack)].exceeded \/ Exceeds(b, stack[Len(stack)])
    BY <1>1, <1>2, <1>3 DEF Exceeds
  <2> QED BY <1>1, <1>2, <2>1, <2>2, <2>3, <2>4, PushNested
<1>6. Len(stack') = Len(stack) + 1
  BY <1>1 DEF PushedOn
<1>7. EntriesOK(stack', Audio')
  <2>1. CASE Audio' <=> Audio
    <3>1. EntriesOK(stack, Audio)
      BY DEF StackInv
    <3>2. ~Top.returned /\ ~b.exceeded /\ (Top.type = "stsd" /\ ~Audio => b.returned)
      BY <1>1 DEF PutOn
    <3>3. EntriesOK(stack', Audio)
      BY <1>1, <1>2, <3>1, <3>2, PushEntries
    <3> QED BY <2>1, <3>3 DEF EntriesOK
  <2>2. CASE Len(stack) <= 6
    <3>1. Len(stack') <= 7
      BY <2>2, <1>2, <1>6
    <3> QED BY <3>1, <1>4, AudioKept
  <2> QED BY <2>1, <2>2
<1>8. stack' # <<>> /\ pc' = "walk" /\ style' = style
  <2>1. stack' # <<>>
    BY <1>1, <1>2, StackLength DEF PushedOn
  <2> QED BY <2>1 DEF PutOn, Continue
<1> QED BY <1>4, <1>5, <1>6, <1>7, <1>8 DEF StackInv

LEMMA CutKeeps ==
  ASSUME StackInv, pc = "walk", pc' = "walk", style' = style,
         found_moov' \in BOOLEAN, found_mdat' \in BOOLEAN, Audio' <=> Audio,
         NEW k \in 1..Len(stack), NEW p \in Frames, CutAt(stack, stack', k, p),
         Alike(p, stack[k]), p.exceeded = stack[k].exceeded,
         p.returned \/ p.returned = stack[k].returned, k = 1 => ~p.returned,
         offset' \in Nat, offset' < Word, LeftAt(stack, k, offset, offset')
  PROVE  StackInv'
<1>1. /\ ShapeOK(stack) /\ NestedOK(stack, offset) /\ EntriesOK(stack, Audio)
      /\ stack \in Seq(Frames)
  BY DEF StackInv, ShapeOK
<1>2. ShapeOK(stack')
  BY <1>1, CutShape
<1>3. NestedOK(stack', offset')
  BY <1>1, CutNested
<1>4. EntriesOK(stack', Audio')
  <2>1. EntriesOK(stack', Audio)
    BY <1>1, CutEntries
  <2> QED BY <2>1 DEF EntriesOK
<1>5. stack' # <<>>
  BY <1>1, CutFacts
<1> QED BY <1>2, <1>3, <1>4, <1>5 DEF StackInv

LEMMA FinishKeeps ==
  ASSUME StackInv, NEW e, Finish(e), offset' \in Nat, offset' < Word,
         found_moov' \in BOOLEAN, found_mdat' \in BOOLEAN
  PROVE  StackInv' /\ pc' = "done" /\ result' = e /\ ~InTrak(stack') /\ ~InTraf(stack')
<1>1. stack' = <<>> /\ pc' = "done" /\ style' = style /\ result' = e
  BY DEF Finish
<1>2. DOMAIN stack' = {} /\ Len(stack') = 0 /\ stack' \in Seq(Frames)
  BY <1>1
<1>3. ShapeOK(stack') /\ NestedOK(stack', offset') /\ EntriesOK(stack', Audio')
  BY <1>1, <1>2 DEF ShapeOK, NestedOK, EntriesOK
<1> QED BY <1>1, <1>2, <1>3 DEF StackInv, InTrak, InTraf

(* The handler of the box on top returns. *)
LEMMA ReturnKeeps ==
  ASSUME StackInv, pc = "walk", Return, UNCHANGED offset, Top.type # "root",
         found_moov' \in BOOLEAN, found_mdat' \in BOOLEAN, Audio' <=> Audio
  PROVE  /\ StackInv' /\ Continue
         /\ \E p \in Frames : CutAt(stack, stack', Len(stack), p) /\ Alike(p, Top) /\ p.returned
<1> DEFINE p == [Top EXCEPT !.returned = TRUE]
<1>1. /\ stack \in Seq(Frames) /\ stack # <<>> /\ Len(stack) \in Nat \ {0} /\ Len(stack) \in 1..Len(stack)
      /\ Top = stack[Len(stack)] /\ Top \in Frames
  BY TopFacts
<1>2. Alike(p, Top) /\ p.exceeded = Top.exceeded /\ p.returned = TRUE
  BY <1>1, FrameReturned
<1>3. stack' = Append(SubSeq(stack, 1, Len(stack) - 1), p) /\ Continue
  BY DEF Return, Below
<1> HIDE DEF p
<1>4. p \in Frames /\ CutAt(stack, stack', Len(stack), p)
  BY <1>1, <1>2, <1>3, CutSeq DEF Alike
<1>5. LeftAt(stack, Len(stack), offset, offset') /\ offset' \in Nat /\ offset' < Word
  BY DEF LeftAt, StackInv, NestedOK
<1>6. Len(stack) # 1
  BY <1>1 DEF StackInv, ShapeOK
<1>7. pc' = "walk" /\ style' = style
  BY <1>3 DEF Continue
<1>8. StackInv'
  BY <1>1, <1>2, <1>4, <1>5, <1>6, <1>7, CutKeeps
<1> QED BY <1>2, <1>3, <1>4, <1>8

(* An error has come to the handler of the sample descriptions, at level 7.*)
BackInStsd(s, t) ==
  /\ Len(s) > 7 /\ s[7].type = "stsd"
  /\ \E p \in Frames : /\ CutAt(s, t, 7, p)
                       /\ Alike(p, s[7]) /\ p.exceeded = s[7].exceeded /\ p.returned

(* The boxes under the place m + 1, of which no stsd is on top.            *)
LowerPart(s, boxes) ==
  /\ Len(boxes) <= Len(s) /\ \A i \in 1..Len(boxes) : boxes[i] = s[i]
  /\ Len(boxes) = Len(s) => s[Len(s)].type # "stsd"

LEMMA LowerStsd ==
  ASSUME NEW s, ShapeOK(s), NEW boxes \in Seq(Frames), LowerPart(s, boxes),
         NEW j \in 1..Len(boxes), boxes[j].type = "stsd"
  PROVE  j = 7 /\ Len(s) > 7 /\ s[7].type = "stsd" /\ boxes[7] = s[7] /\ s[7] \in Frames
<1>1. Len(s) \in Nat /\ DOMAIN s = 1..Len(s) /\ Len(boxes) \in Nat /\ Len(boxes) <= Len(s)
  BY StackLength DEF ShapeOK, LowerPart
<1>2. j \in DOMAIN s /\ j \in Nat /\ j <= Len(boxes)
  BY <1>1
<1>3. boxes[j] = s[j]
  BY DEF LowerPart
<1>4. s[j].type = "stsd"
  BY <1>3
<1>5. j = 7 /\ s[j] \in Frames
  BY <1>2, <1>4, ShapeAt
<1>6. j # Len(s)
  <2>1. SUFFICES ASSUME j = Len(s) PROVE FALSE
    OBVIOUS
  <2>2. Len(boxes) = Len(s)
    BY <2>1, <1>1, <1>2
  <2> QED BY <2>1, <2>2, <1>4 DEF LowerPart
<1> QED BY <1>1, <1>2, <1>3, <1>4, <1>5, <1>6

LEMMA ThrownFrom ==
  ASSUME NEW s, ShapeOK(s), NEW boxes \in Seq(Frames), LowerPart(s, boxes), Throw(boxes)
  PROVE  Finish(FAILED) \/ (Continue /\ BackInStsd(s, stack'))
<1> DEFINE J == {j \in DOMAIN boxes : Swallows(boxes[j])}
<1>0. DOMAIN boxes = 1..Len(boxes) /\ Len(boxes) \in Nat
  BY LenProperties
<1>1. CASE J = {}
  <2>1. ~\E i \in DOMAIN boxes : Swallows(boxes[i])
    BY <1>1
  <2> QED BY <2>1 DEF Throw
<1>2. CASE J # {}
  <2>1. \A j \in J : j = 7
    BY <1>0, LowerStsd DEF Swallows
  <2>2. 7 \in J
    BY <1>2, <2>1
  <2>3. 7 \in 1..Len(boxes) /\ boxes[7].type = "stsd"
    BY <1>0, <2>2 DEF Swallows
  <2>4. Len(s) > 7 /\ s[7].type = "stsd" /\ boxes[7] = s[7] /\ s[7] \in Frames
    BY <2>3, LowerStsd
  <2>5. J = {7}
    BY <2>1, <2>2
  <2>6. Min(J) = 7
    BY <2>5 DEF Min
  <2> DEFINE p == [boxes[7] EXCEPT !.returned = TRUE]
  <2>7. stack' = Append(SubSeq(boxes, 1, 7 - 1), p) /\ Continue
    <3>1. \E i \in DOMAIN boxes : Swallows(boxes[i])
      BY <2>2
    <3> QED BY <2>6, <3>1 DEF Throw
  <2>8. Alike(p, s[7]) /\ p.exceeded = s[7].exceeded /\ p.returned = TRUE
    BY <2>4, FrameReturned
  <2> HIDE DEF p, J
  <2>9. p \in Frames
    BY <2>8 DEF Alike
  <2>10. CutAt(boxes, stack', 7, p)
    BY <2>3, <2>7, <2>9, CutSeq
  <2>11. CutAt(s, stack', 7, p)
    <3>1. \A i \in 1..7 - 1 : boxes[i] = s[i]
      BY <1>0, <2>3 DEF LowerPart
    <3> QED BY <2>10, <3>1 DEF CutAt
  <2> QED BY <2>4, <2>7, <2>8, <2>9, <2>11 DEF BackInStsd
<1> QED BY <1>1, <1>2

LEMMA Thrown ==
  ASSUME StackInv, pc = "walk", (Top.type # "stsd" /\ Raise) \/ Throw(Below)
  PROVE  Finish(FAILED) \/ (Continue /\ BackInStsd(stack, stack'))
<1>1. /\ stack \in Seq(Frames) /\ Len(stack) \in Nat \ {0}
      /\ Top = stack[Len(stack)] /\ \A i \in 1..Len(stack) : stack[i] \in Frames
  BY TopFacts, StackLength
<1>2. ShapeOK(stack)
  BY DEF StackInv
<1>3. CASE Top.type # "stsd" /\ Raise
  <2>1. Throw(stack) /\ LowerPart(stack, stack)
    BY <1>1, <1>3 DEF Raise, LowerPart
  <2> QED BY <2>1, <1>1, <1>2, ThrownFrom
<1>4. CASE Throw(Below)
  <2> DEFINE n == Len(stack)  b == SubSeq(stack, 1, n - 1)
  <2>1. n \in Nat \ {0} /\ \A i \in 1..n - 1 : stack[i] \in Frames
    BY <1>1
  <2>2. Throw(b)
    BY <1>4 DEF Below
  <2> HIDE DEF n
  <2>3. b \in Seq(Frames) /\ Len(b) = n - 1 /\ \A i \in 1..n - 1 : b[i] = stack[i]
    BY <2>1, SubSeqProperties
  <2> HIDE DEF b
  <2>4. Len(b) <= n /\ Len(b) # n
    BY <2>1, <2>3
  <2>5. LowerPart(stack, b)
    BY <2>3, <2>4 DEF LowerPart, n
  <2> QED BY <2>2, <2>3, <2>5, <1>2, ThrownFrom
<1> QED BY <1>3, <1>4

LEMMA ThrowKeeps ==
  ASSUME StackInv, pc = "walk", (Top.type # "stsd" /\ Raise) \/ Throw(Below), offset' \in Nat, offset' < Word,
         found_moov' \in BOOLEAN, found_mdat' \in BOOLEAN, Audio' <=> Audio
  PROVE  StackInv'
<1>1. CASE Finish(FAILED)
  BY <1>1, FinishKeeps
<1>2. CASE Continue /\ BackInStsd(stack, stack')
  <2>1. PICK p \in Frames : /\ CutAt(stack, stack', 7, p)
                            /\ Alike(p, stack[7]) /\ p.exceeded = stack[7].exceeded /\ p.returned
    BY <1>2 DEF BackInStsd
  <2>2. 7 \in 1..Len(stack) /\ Len(stack) > 7 /\ stack[7].type = "stsd"
    BY <1>2, TopFacts DEF BackInStsd
  <2>3. LeftAt(stack, 7, offset, offset')
    BY <2>2 DEF LeftAt
  <2>4. pc' = "walk" /\ style' = style
    BY <1>2 DEF Continue
  <2> QED BY <2>1, <2>2, <2>3, <2>4, CutKeeps
<1> QED BY <1>1, <1>2, Thrown

(* skip_box(), or the end of the boxes inside of the parent: the box on    *)
(* top is done with.                                                       *)
Popped(k) == \E p \in Frames : CutAt(stack, stack', k, p) /\ Alike(p, stack[k]) /\ p.returned = stack[k].returned

LEMMA PopKeeps ==
  ASSUME StackInv, pc = "walk", Len(stack) > 1, NEW over \in BOOLEAN,
         stack' = Front(Below) \o <<[Parent EXCEPT !.over = over]>>, Continue,
         offset' \in Nat, offset' < Word, LeftAt(stack, Len(stack) - 1, offset, offset'),
         found_moov' \in BOOLEAN, found_mdat' \in BOOLEAN, Audio' <=> Audio
  PROVE  StackInv' /\ Popped(Len(stack) - 1)
<1> DEFINE k == Len(stack) - 1  p == [Parent EXCEPT !.over = over]
<1>1. /\ stack \in Seq(Frames) /\ Len(stack) \in Nat
      /\ \A i \in 1..Len(stack) : stack[i] \in Frames
  BY TopFacts, StackLength
<1>2. k \in 1..Len(stack) /\ Parent = stack[k] /\ stack[k] \in Frames
  BY <1>1 DEF Parent
<1>3. Alike(p, stack[k]) /\ p.exceeded = stack[k].exceeded /\ p.returned = stack[k].returned
  BY <1>2, FrameOver
<1>4. p \in Frames
  BY <1>3 DEF Alike
<1>5. stack' = Front(SubSeq(stack, 1, Len(stack) - 1)) \o <<p>>
  BY DEF Below
<1> HIDE DEF p
<1>6. CutAt(stack, stack', k, p)
  BY <1>1, <1>4, <1>5, PopSeq
<1>7. k = 1 => ~p.returned
  BY <1>1, <1>3, EmptySeq DEF StackInv, ShapeOK
<1>8. pc' = "walk" /\ style' = style
  BY DEF Continue
<1>9. LeftAt(stack, k, offset, offset')
  OBVIOUS
<1> HIDE DEF k
<1>10. StackInv'
  BY <1>2, <1>3, <1>4, <1>6, <1>7, <1>8, <1>9, CutKeeps
<1>11. Popped(k)
  BY <1>3, <1>4, <1>6 DEF Popped
<1> QED BY <1>10, <1>11 DEF k

(* The reader is not in front of the end of a box that is accepted.        *)
LEMMA EndsAhead ==
  ASSUME NEW f \in Frames, f.size < Word, f.size # 0, NEW o \in Nat, o < Word, Has(f, 0),
         o = offset, Plain(f) \/ f.offset <= o
  PROVE  End(f) = f.offset + f.size /\ End(f) >= o
<1>1. f.offset \in Nat /\ f.size \in Nat /\ Word \in Nat \ {0}
  BY LengthAssumption DEF Frames
<1>2. End(f) >= o
  <2>1. (0 + offset) % Word = o
    BY <1>1
  <2> QED BY <2>1 DEF Has
<1>3. f.offset + f.size < Word
  <2>1. SUFFICES ASSUME f.offset + f.size >= Word, f.offset <= o PROVE FALSE
    BY <1>1, LengthAssumption DEF Plain
  <2>2. f.offset < Word
    BY <1>1, <2>1
  <2>3. (f.offset + f.size) % Word < f.offset /\ (f.offset + f.size) % Word \in Nat
    BY <1>1, <2>1, <2>2, Wrapped
  <2> QED BY <1>1, <1>2, <2>1, <2>3 DEF End
<1>4. (f.offset + f.size) % Word = f.offset + f.size
  BY <1>1, <1>3, Wrapped
<1> QED BY <1>2, <1>4 DEF End

(* When a box is done with, the one around it has the reader behind its    *)
(* own end if the former's end is behind it.                               *)
LEMMA DoneWith ==
  ASSUME StackInv, AfterBox, (StopsHere /\ UNCHANGED offset) \/ (Top.size # 0 /\ offset' = End(Top))
                             \/ (Top.size = 0 /\ offset' = Top.offset)
  PROVE  /\ pc = "walk" /\ Len(stack) > 1
         /\ offset' \in Nat /\ offset' < Word /\ LeftAt(stack, Len(stack) - 1, offset, offset')
<1>1. pc = "walk" /\ Top.returned
  BY DEF AfterBox, Behind, Walking
<1>2. /\ stack \in Seq(Frames) /\ stack # <<>> /\ Len(stack) \in Nat \ {0}
      /\ DOMAIN stack = 1..Len(stack) /\ Top = stack[Len(stack)] /\ Top \in Frames
      /\ Top.offset \in Nat /\ Top.size \in Nat /\ Top.size < Word
  BY <1>1, TopFacts
<1>3. Len(stack) > 1
  <2>1. Len(stack) # 1
    BY <1>1, <1>2 DEF StackInv, ShapeOK
  <2> QED BY <1>2, <2>1
<1>4. /\ offset \in Nat /\ offset < Word /\ Top.offset < Word
      /\ Plain(Top) \/ Top.offset <= offset
  BY <1>2 DEF StackInv, NestedOK
<1> DEFINE k == Len(stack) - 1
<1>5. k \in DOMAIN stack /\ k < Len(stack) /\ k + 1 = Len(stack) /\ Parent = stack[k]
  BY <1>2, <1>3 DEF Parent
<1>6. offset' \in Nat /\ offset' < Word
  <2>1. (Top.offset + Top.size) % Word \in Nat /\ (Top.offset + Top.size) % Word < Word
    BY <1>2, Wrapped
  <2> QED BY <2>1, <1>2, <1>4 DEF End
<1>7. ASSUME Parent.type # "stsd", Parent.exceeded PROVE Passed(Parent, offset')
  <2>1. Exceeds(Top, Parent)
    BY <1>2, <1>5, <1>7 DEF StackInv, NestedOK
  <2>2. Parent.size # 0 /\ Top.size # 0 /\ Top.offset + Top.size > Parent.offset + Parent.size
    BY <2>1 DEF Exceeds
  <2>3. Parent.type # "root"
    BY <1>5, <2>2 DEF StackInv, NestedOK
  <2>4. offset' = End(Top)
    BY <2>2, <2>3 DEF StopsHere, Found
  <2>5. Has(Top, 0)
    BY <1>7 DEF AfterBox, Checked
  <2>6. End(Top) = Top.offset + Top.size
    BY <1>2, <1>4, <2>2, <2>5, EndsAhead
  <2> QED BY <2>2, <2>4, <2>6 DEF Passed
<1>8. LeftAt(stack, k, offset, offset')
  <2>1. stack[k].type # "stsd" /\ stack[k].exceeded => Passed(stack[k], offset')
    BY <1>5, <1>7
  <2> HIDE DEF k
  <2> QED BY <2>1, <1>5 DEF LeftAt
<1> QED BY <1>1, <1>3, <1>6, <1>8

-----------------------------------------------------------------------------
(* The invariant of the tracks *)

LEMMA ListFacts ==
  ASSUME ListOK
  PROVE  /\ Len(tracks) \in Nat /\ DOMAIN tracks = 1..Len(tracks)
         /\ \A i \in 1..Len(tracks) : tracks[i] \in DOMAIN heap /\ tracks[i] \in Objects
         /\ \A o \in DOMAIN heap : o \in Objects /\ heap[o] \in TrackRecords
         /\ \A o \in DOMAIN heap : \E i \in 1..Len(tracks) : tracks[i] = o
         /\ \A i, j \in 1..Len(tracks) : heap[tracks[i]].id = heap[tracks[j]].id => i = j
         /\ \A o, x \in DOMAIN heap : heap[o].id = heap[x].id => o = x
<1>1. Len(tracks) \in Nat /\ DOMAIN tracks = 1..Len(tracks) /\ \A i \in 1..Len(tracks) : tracks[i] \in Objects
  BY LenProperties, ElementOfSeq DEF ListOK
<1>2. \A i \in 1..Len(tracks) : tracks[i] \in DOMAIN heap
  BY <1>1 DEF ListOK, Range
<1>3. \A o \in DOMAIN heap : \E i \in 1..Len(tracks) : tracks[i] = o
  BY <1>1 DEF ListOK, Range
<1>4. \A o \in DOMAIN heap : o \in Objects /\ heap[o] \in TrackRecords
  BY <1>1, <1>3 DEF ListOK
<1>5. \A i, j \in 1..Len(tracks) : heap[tracks[i]].id = heap[tracks[j]].id => i = j
  BY <1>1 DEF ListOK
<1>6. \A o, x \in DOMAIN heap : heap[o].id = heap[x].id => o = x
  BY <1>3, <1>5
<1> QED BY <1>1, <1>2, <1>3, <1>4, <1>5, <1>6

(* No track comes, goes, or gets another id or other defaults.             *)
SameTracks ==
  /\ heap' \in [DOMAIN heap -> TrackRecords]
  /\ \A o \in DOMAIN heap : heap'[o].id = heap[o].id /\ heap'[o].default = heap[o].default
  /\ tracks' = tracks /\ track' = track /\ trexes' = trexes
  /\ ("tkhd" \in found' <=> "tkhd" \in found)

(* A trak or a traf is left, not entered, and a trak not without its tkhd. *)
Stays ==
  /\ InTrak(stack') => InTrak(stack)
  /\ InTraf(stack') => InTraf(stack)
  /\ pc' # "done" => pc # "done" /\ (InTrak(stack) => (InTrak(stack') \/ "tkhd" \in found))

LEMMA SameMovie ==
  ASSUME ListOK, UNCHANGED movie
  PROVE  SameTracks
BY DEF ListOK, SameTracks, movie

LEMMA SameList ==
  ASSUME ListOK, SameTracks
  PROVE  ListOK'
<1>1. DOMAIN heap' = DOMAIN heap /\ heap' \in [DOMAIN heap' -> TrackRecords]
  BY DEF SameTracks
<1>2. tracks' = tracks /\ trexes' = trexes
  BY DEF SameTracks
<1>3. tracks' \in Seq(Objects) /\ Range(tracks') = DOMAIN heap' /\ trexes' \in [Ids -> Nat]
  BY <1>1, <1>2 DEF ListOK
<1>4. \A o \in DOMAIN heap : heap'[o].id = heap[o].id /\ heap'[o].default = heap[o].default
  BY DEF SameTracks
<1>5. \A i, j \in DOMAIN tracks' : heap'[tracks'[i]].id = heap'[tracks'[j]].id => i = j
  BY <1>2, <1>4, ListFacts
<1>6. \A o \in DOMAIN heap' :
        heap'[o].default = IF heap'[o].id = 0 THEN 0 ELSE trexes'[heap'[o].id]
  BY <1>1, <1>2, <1>4 DEF ListOK
<1>7. \A id \in Ids : (\A o \in DOMAIN heap' : heap'[o].id # id) => trexes'[id] = 0
  <2> SUFFICES ASSUME NEW id \in Ids, \A o \in DOMAIN heap' : heap'[o].id # id PROVE trexes'[id] = 0
    OBVIOUS
  <2>1. \A o \in DOMAIN heap : heap[o].id # id
    BY <1>1, <1>4
  <2> QED BY <2>1, <1>2 DEF ListOK
<1> QED BY <1>1, <1>3, <1>5, <1>6, <1>7 DEF ListOK

LEMMA SameTrak ==
  ASSUME ListOK, SameTracks, TrakOK, Stays
  PROVE  TrakOK'
<1>1. DOMAIN heap' = DOMAIN heap /\ tracks' = tracks /\ track' = track
  BY DEF SameTracks
<1>2. \A o \in DOMAIN heap : heap'[o].id = heap[o].id
  BY DEF SameTracks
<1>3. "tkhd" \in found' <=> "tkhd" \in found
  BY DEF SameTracks
<1>4. ASSUME InTrak(stack')
      PROVE  /\ track' \in DOMAIN heap'
             /\ (heap'[track'].id = 0 <=> "tkhd" \notin found')
             /\ "tkhd" \notin found' => tracks' # <<>> /\ track' = tracks'[Len(tracks')]
  <2>1. InTrak(stack)
    BY <1>4 DEF Stays
  <2>2. track \in DOMAIN heap
    BY <2>1 DEF TrakOK
  <2>3. heap[track].id = 0 <=> "tkhd" \notin found
    BY <2>1 DEF TrakOK
  <2>4. "tkhd" \notin found => tracks # <<>> /\ track = tracks[Len(tracks)]
    BY <2>1 DEF TrakOK
  <2> QED BY <2>2, <2>3, <2>4, <1>1, <1>2, <1>3
<1>5. ASSUME pc' # "done", NEW o \in DOMAIN heap', heap'[o].id = 0
      PROVE  InTrak(stack') /\ o = track'
  <2>1. pc # "done" /\ (InTrak(stack) => (InTrak(stack') \/ "tkhd" \in found))
    BY <1>5 DEF Stays
  <2>2. o \in DOMAIN heap /\ heap[o].id = 0
    BY <1>1, <1>2, <1>5
  <2>3. InTrak(stack) /\ o = track
    BY <2>1, <2>2 DEF TrakOK
  <2>4. "tkhd" \notin found
    BY <2>2, <2>3 DEF TrakOK
  <2> QED BY <2>1, <2>3, <2>4, <1>1
<1> QED BY <1>4, <1>5 DEF TrakOK

LEMMA SameTraf ==
  ASSUME ListOK, SameTracks, TrafOK, traf' = traf
  PROVE  TrafOK'
<1> SUFFICES ASSUME traf'.id # 0, WithId(tracks, traf.id)' # {}
             PROVE  /\ ~traf'.own => traf'.default = trexes'[traf'.id]
                    /\ traf'.index + 1 \in DOMAIN tracks'
                    /\ heap'[tracks'[traf'.index + 1]].id = traf'.id
  BY DEF TrafOK
<1>1. DOMAIN heap' = DOMAIN heap /\ tracks' = tracks /\ trexes' = trexes
  BY DEF SameTracks
<1>2. \A o \in DOMAIN heap : heap'[o].id = heap[o].id
  BY DEF SameTracks
<1>3. WithId(tracks, traf.id)' = WithId(tracks, traf.id)
  BY <1>1, <1>2, ListFacts DEF WithId
<1>4. traf.id # 0 /\ WithId(tracks, traf.id) # {}
  BY <1>3
<1>5. /\ ~traf.own => traf.default = trexes[traf.id]
      /\ traf.index + 1 \in DOMAIN tracks
      /\ heap[tracks[traf.index + 1]].id = traf.id
  BY <1>4 DEF TrafOK
<1>6. tracks[traf.index + 1] \in DOMAIN heap
  BY <1>5, ListFacts
<1> QED BY <1>1, <1>2, <1>5, <1>6

LEMMA SameTracksKeep ==
  ASSUME MovieInv, SameTracks, traf' = traf, Stays
  PROVE  MovieInv'
<1>1. ListOK /\ TrakOK
  BY DEF MovieInv
<1>2. ListOK' /\ TrakOK'
  BY <1>1, SameList, SameTrak
<1>3. InTraf(stack)' => TrafOK'
  <2>1. InTraf(stack)' <=> InTraf(stack')
    BY DEF InTraf
  <2>2. InTraf(stack') => InTraf(stack)
    BY DEF Stays
  <2>3. InTraf(stack) => TrafOK
    BY DEF MovieInv
  <2> QED BY <2>1, <2>2, <2>3, <1>1, SameTraf
<1> QED BY <1>2, <1>3 DEF MovieInv

-----------------------------------------------------------------------------
(* The steps that lead back *)

(* What BoxesAreNested says of a step. *)
NestedStep ==
  Len(stack') < Len(stack) /\ result' = "OK" /\ (stack' = <<>> \/ ~Last(stack').returned)
    => Top.type = "stsd" \/ ~Top.exceeded

Calm == UNCHANGED <<movie, flags>>

LEMMA CalmFacts ==
  ASSUME BoxesInv, Calm
  PROVE  /\ SameTracks /\ traf' = traf /\ (Audio' <=> Audio)
         /\ found_moov' \in BOOLEAN /\ found_mdat' \in BOOLEAN
<1>1. UNCHANGED movie /\ SameTracks
  BY SameMovie DEF Calm, BoxesInv, MovieInv
<1>2. Audio' <=> Audio
  BY DEF Calm, movie, Audio
<1>3. traf' = traf /\ found_moov' \in BOOLEAN /\ found_mdat' \in BOOLEAN
  BY DEF Calm, flags, BoxesInv, StackInv
<1> QED BY <1>1, <1>2, <1>3

LEMMA CutThird ==
  ASSUME NEW s \in Seq(Frames), NEW k \in 1..Len(s), NEW p, NEW t, CutAt(s, t, k, p), Alike(p, s[k])
  PROVE  /\ InTraf(t) => InTraf(s)
         /\ k > 3 => (InTrak(t) <=> InTrak(s))
         /\ k = 3 => Len(s) >= 3 /\ (InTrak(t) <=> (s[3].type = "trak" /\ ~p.returned))
         /\ k < 3 => ~InTrak(t)
<1>1. /\ Len(t) = k /\ k \in Nat \ {0} /\ Len(s) \in Nat /\ k <= Len(s)
      /\ \A i \in 1..k : t[i].type = s[i].type
      /\ \A i \in 1..k - 1 : t[i] = s[i]
      /\ t[k] = p
  BY CutFacts
<1>2. InTraf(t) => InTraf(s)
  BY <1>1 DEF InTraf
<1>3. ASSUME k > 3 PROVE InTrak(t) <=> InTrak(s)
  <2>1. t[3] = s[3] /\ Len(s) >= 3 /\ Len(t) >= 3
    BY <1>1, <1>3
  <2> QED BY <2>1 DEF InTrak
<1>4. ASSUME k = 3 PROVE Len(s) >= 3 /\ (InTrak(t) <=> (s[3].type = "trak" /\ ~p.returned))
  <2>1. t[3] = p /\ p.type = s[3].type /\ Len(t) >= 3 /\ Len(s) >= 3
    BY <1>1, <1>4 DEF Alike
  <2> QED BY <2>1 DEF InTrak
<1>5. k < 3 => ~InTrak(t)
  BY <1>1 DEF InTrak
<1> QED BY <1>2, <1>3, <1>4, <1>5

LEMMA BackReturn ==
  ASSUME BoxesInv, pc = "walk", Return, UNCHANGED offset, Calm,
         Top.type # "root", Top.type = "trak" => "tkhd" \in found
  PROVE  BoxesInv' /\ NestedStep
<1>1. /\ SameTracks /\ traf' = traf /\ (Audio' <=> Audio)
      /\ found_moov' \in BOOLEAN /\ found_mdat' \in BOOLEAN
  BY CalmFacts
<1>2. StackInv /\ MovieInv
  BY DEF BoxesInv
<1>3. /\ stack \in Seq(Frames) /\ Len(stack) \in Nat \ {0} /\ Len(stack) \in 1..Len(stack)
      /\ Top = stack[Len(stack)]
  BY <1>2, TopFacts
<1>4. StackInv' /\ Continue
  BY <1>1, <1>2, ReturnKeeps
<1>5. PICK p \in Frames : CutAt(stack, stack', Len(stack), p) /\ Alike(p, Top) /\ p.returned
  BY <1>1, <1>2, ReturnKeeps
<1>6. /\ InTraf(stack') => InTraf(stack)
      /\ Len(stack) > 3 => (InTrak(stack') <=> InTrak(stack))
      /\ Len(stack) = 3 => (InTrak(stack') <=> (stack[3].type = "trak" /\ ~p.returned))
      /\ Len(stack) < 3 => ~InTrak(stack')
  BY <1>3, <1>5, CutThird
<1>7. Stays
  <2>0. Len(stack) > 3 \/ Len(stack) = 3 \/ Len(stack) < 3
    <3> DEFINE n == Len(stack)
    <3>1. n \in Nat
      BY <1>3
    <3> HIDE DEF n
    <3>2. n > 3 \/ n = 3 \/ n < 3
      BY <3>1
    <3> QED BY <3>2 DEF n
  <2>1. InTrak(stack') => InTrak(stack)
    <3>1. Len(stack) = 3 => ~InTrak(stack')
      BY <1>5, <1>6
    <3> QED BY <3>1, <2>0, <1>6
  <2>2. InTrak(stack) => InTrak(stack') \/ "tkhd" \in found
    <3>1. CASE Len(stack) > 3
      BY <3>1, <1>6
    <3>2. CASE Len(stack) = 3
      BY <3>2, <1>3 DEF InTrak
    <3>3. CASE Len(stack) < 3
      BY <3>3, <1>3 DEF InTrak
    <3> QED BY <3>1, <3>2, <3>3, <2>0
  <2>3. InTraf(stack') => InTraf(stack)
    BY <1>6
  <2> QED BY <2>1, <2>2, <2>3 DEF Stays
<1>8. MovieInv'
  BY <1>1, <1>2, <1>7, SameTracksKeep
<1>9. NestedStep
  BY <1>3, <1>5 DEF NestedStep, CutAt
<1> QED BY <1>4, <1>8, <1>9 DEF BoxesInv

LEMMA BackThrow ==
  ASSUME BoxesInv, pc = "walk", Calm, offset' \in Nat, offset' < Word,
         (Top.type # "stsd" /\ Raise) \/ Throw(Below)
  PROVE  BoxesInv' /\ NestedStep
<1>1. /\ SameTracks /\ traf' = traf /\ (Audio' <=> Audio)
      /\ found_moov' \in BOOLEAN /\ found_mdat' \in BOOLEAN
  BY CalmFacts
<1>2. StackInv /\ MovieInv
  BY DEF BoxesInv
<1>3. StackInv'
  BY <1>1, <1>2, ThrowKeeps
<1>4. Stays /\ NestedStep
  <2>1. CASE Finish(FAILED)
    <3>1. pc' = "done" /\ result' = FAILED /\ ~InTrak(stack') /\ ~InTraf(stack')
      BY <2>1, <1>1, <1>2, FinishKeeps
    <3> QED BY <3>1 DEF Stays, NestedStep, FAILED
  <2>2. CASE Continue /\ BackInStsd(stack, stack')
    <3>1. PICK p \in Frames : /\ CutAt(stack, stack', 7, p)
                              /\ Alike(p, stack[7]) /\ p.exceeded = stack[7].exceeded /\ p.returned
      BY <2>2 DEF BackInStsd
    <3>2. 7 \in 1..Len(stack) /\ stack \in Seq(Frames)
      BY <2>2, <1>2, TopFacts DEF BackInStsd
    <3>3. (InTraf(stack') => InTraf(stack)) /\ (InTrak(stack') <=> InTrak(stack))
      BY <3>1, <3>2, CutThird
    <3>4. Stays
      BY <3>3, <2>2 DEF Stays, Continue
    <3>5. stack' # <<>> /\ Last(stack') = p
      BY <3>1, <3>2, CutFacts DEF Last
    <3> QED BY <3>1, <3>4, <3>5 DEF NestedStep
  <2> QED BY <2>1, <2>2, <1>2, Thrown
<1>5. MovieInv'
  BY <1>1, <1>2, <1>4, SameTracksKeep
<1> QED BY <1>3, <1>4, <1>5 DEF BoxesInv

LEMMA BackEnd ==
  ASSUME BoxesInv, pc = "walk", Calm, offset' \in Nat, offset' < Word, AtRoot, Finish("OK")
  PROVE  BoxesInv' /\ NestedStep
<1>1. /\ SameTracks /\ traf' = traf
      /\ found_moov' \in BOOLEAN /\ found_mdat' \in BOOLEAN
  BY CalmFacts
<1>2. StackInv /\ MovieInv
  BY DEF BoxesInv
<1>3. StackInv' /\ pc' = "done" /\ ~InTrak(stack') /\ ~InTraf(stack')
  BY <1>1, <1>2, FinishKeeps
<1>4. Stays
  BY <1>3 DEF Stays
<1>5. MovieInv'
  BY <1>1, <1>2, <1>4, SameTracksKeep
<1>6. NestedStep
  <2>1. stack # <<>> /\ Top = stack[1] /\ 1 \in DOMAIN stack /\ Len(stack) = 1
    BY <1>2, TopFacts DEF AtRoot
  <2>2. Top.type = "root" /\ Top.size = 0
    BY <2>1, <1>2 DEF StackInv, ShapeOK, NestedOK
  <2>3. Top.type # "stsd" /\ Top.exceeded => Passed(Top, offset)
    BY <2>1, <1>2 DEF StackInv, NestedOK
  <2> QED BY <2>2, <2>3 DEF NestedStep, Passed
<1> QED BY <1>3, <1>5, <1>6 DEF BoxesInv

(* The reader is in the box that is accepted: no box inside of it has led  *)
(* it behind its end.                                                      *)
LEMMA AcceptedIsNested ==
  ASSUME StackInv, AfterBox
  PROVE  Top.type = "stsd" \/ ~Top.exceeded
<1>1. pc = "walk" /\ Top.returned
  BY DEF AfterBox, Behind, Walking
<1>2. /\ stack \in Seq(Frames) /\ stack # <<>> /\ Len(stack) \in Nat \ {0}
      /\ DOMAIN stack = 1..Len(stack) /\ Top = stack[Len(stack)] /\ Top \in Frames
      /\ Top.offset \in Nat /\ Top.size \in Nat /\ Top.size < Word
  BY <1>1, TopFacts
<1>3. /\ offset \in Nat /\ offset < Word
      /\ Plain(Top) \/ Top.offset <= offset
      /\ Top.type # "stsd" /\ Top.exceeded => Passed(Top, offset)
  BY <1>2 DEF StackInv, NestedOK
<1>4. CASE Checked
  <2>1. Has(Top, 0)
    BY <1>4 DEF AfterBox
  <2>2. Top.size # 0 => End(Top) = Top.offset + Top.size /\ End(Top) >= offset
    BY <2>1, <1>2, <1>3, EndsAhead
  <2>3. ~Passed(Top, offset)
    BY <2>2, <1>2, <1>3 DEF Passed
  <2> QED BY <2>3, <1>3
<1>5. CASE ~Checked
  <2>1. Parent.type = "stsd" /\ ~Audio
    BY <1>5 DEF Checked
  <2> DEFINE k == Len(stack) - 1
  <2>2. Len(stack) # 1
    BY <1>1, <1>2 DEF StackInv, ShapeOK
  <2>3. k \in DOMAIN stack /\ k < Len(stack) /\ k + 1 = Len(stack) /\ Parent = stack[k]
    BY <2>2, <1>2 DEF Parent
  <2>4. ~stack[k + 1].exceeded
    BY <2>1, <2>3 DEF StackInv, EntriesOK
  <2> QED BY <2>3, <2>4, <1>2
<1> QED BY <1>4, <1>5

LEMMA BackPop ==
  ASSUME BoxesInv, Calm, AfterBox,
         (StopsHere /\ UNCHANGED offset) \/ (Top.size # 0 /\ offset' = End(Top))
            \/ (Top.size = 0 /\ offset' = Top.offset),
         NEW over \in BOOLEAN, stack' = Front(Below) \o <<[Parent EXCEPT !.over = over]>>, Continue
  PROVE  BoxesInv' /\ NestedStep
<1>1. /\ SameTracks /\ traf' = traf /\ (Audio' <=> Audio)
      /\ found_moov' \in BOOLEAN /\ found_mdat' \in BOOLEAN
  BY CalmFacts
<1>2. StackInv /\ MovieInv
  BY DEF BoxesInv
<1>3. /\ pc = "walk" /\ Len(stack) > 1
      /\ offset' \in Nat /\ offset' < Word /\ LeftAt(stack, Len(stack) - 1, offset, offset')
  BY <1>2, DoneWith
<1>4. StackInv' /\ Popped(Len(stack) - 1)
  BY <1>1, <1>2, <1>3, PopKeeps
<1> DEFINE k == Len(stack) - 1
<1>5. PICK p \in Frames : CutAt(stack, stack', k, p) /\ Alike(p, stack[k]) /\ p.returned = stack[k].returned
  BY <1>4 DEF Popped
<1>6. /\ stack \in Seq(Frames) /\ Len(stack) \in Nat /\ Top = stack[Len(stack)]
      /\ k \in 1..Len(stack) /\ k + 1 = Len(stack) /\ Top.returned
  BY <1>2, <1>3, TopFacts DEF AfterBox, Behind
<1> HIDE DEF k
<1>7. /\ InTraf(stack') => InTraf(stack)
      /\ k > 3 => (InTrak(stack') <=> InTrak(stack))
      /\ k = 3 => Len(stack) >= 3 /\ (InTrak(stack') <=> (stack[3].type = "trak" /\ ~p.returned))
      /\ k < 3 => ~InTrak(stack')
  BY <1>5, <1>6, CutThird
<1>8. InTrak(stack') <=> InTrak(stack)
  <2>1. CASE k > 3
    BY <2>1, <1>7
  <2>2. CASE k = 3
    BY <2>2, <1>5, <1>7 DEF InTrak
  <2>3. CASE k < 3
    <3>1. InTrak(stack) => Len(stack) = 3
      BY <2>3, <1>6 DEF InTrak
    <3> QED BY <3>1, <2>3, <1>6, <1>7 DEF InTrak
  <2> QED BY <2>1, <2>2, <2>3, <1>6
<1>9. Stays
  BY <1>3, <1>7, <1>8 DEF Stays
<1>10. MovieInv'
  BY <1>1, <1>2, <1>9, SameTracksKeep
<1>11. NestedStep
  BY <1>2, AcceptedIsNested DEF NestedStep
<1> QED BY <1>4, <1>10, <1>11 DEF BoxesInv

-----------------------------------------------------------------------------
(* The steps that put a box on the stack *)

LEMMA FileFacts ==
  ASSUME style \in DOMAIN Styles
  PROVE  /\ File.length \in Nat /\ File.length < Word
         /\ \A type \in Types : \A size \in File[type] : size \in Nat /\ size < Word
         /\ \A id \in File.ids : id \in Ids /\ id \in Nat \ {0}
         /\ \A handler \in File.handlers : handler \in Handlers
         /\ \A default \in File.defaults : default \in Nat
         /\ \A count \in File.entries : count \in Nat
<1>1. File \in Range(Styles)
  BY DEF File, Range
<1> DEFINE f == File
<1> HIDE DEF f
<1>2. f \in Range(Styles)
  BY <1>1 DEF f
<1>3. f.length \in Nat /\ f.length < Word /\ Word \in Nat
  BY <1>2, LengthAssumption
<1>4. \A type \in Types : f[type] \subseteq 0..Word - 1
  BY <1>2, StylesAssumption
<1>5. \A type \in Types : \A size \in f[type] : size \in Nat /\ size < Word
  BY <1>3, <1>4
<1>6. /\ f.ids \subseteq Nat \ {0}
      /\ f.defaults \subseteq Nat /\ f.entries \subseteq Nat
  BY <1>2, StylesAssumption
<1>7. \A id \in f.ids : id \in Ids
  BY <1>2 DEF Ids
<1>8. \A handler \in f.handlers : handler \in Handlers
  BY <1>2 DEF Handlers
<1> QED BY <1>8, <1>3, <1>5, <1>6, <1>7 DEF f

LEMMA Lengths ==
  /\ Word \in Nat /\ HEADER \in Nat \ {0} /\ TAG \in Nat \ {0} /\ BODY \in Nat
  /\ \A large : HeaderLength(large) \in Nat /\ HeaderLength(large) >= HEADER
<1>1. HEADER \in Nat \ {0} /\ TAG \in Nat \ {0} /\ BODY \in Nat
  BY LengthAssumption
<1>2. Word \in Nat
  BY LengthAssumption
<1>3. 2 * HEADER \in Nat /\ 2 * HEADER >= HEADER
  BY <1>1
<1>4. \A large : HeaderLength(large) \in Nat /\ HeaderLength(large) >= HEADER
  BY <1>1, <1>3 DEF HeaderLength
<1> QED BY <1>1, <1>2, <1>4

LEMMA PutDepth ==
  ASSUME StackInv, pc = "walk", Top.type \notin Skipped
  PROVE  Len(stack) = Level[Top.type]
<1>1. Len(stack) \in DOMAIN stack /\ Top = stack[Len(stack)]
  BY TopFacts
<1> QED BY <1>1 DEF StackInv, ShapeOK

LEMMA RoomFor ==
  ASSUME NEW f \in Frames, NEW n \in Nat \ {0}, Has(f, n), offset \in Nat, offset + n < Word
  PROVE  Room(f, offset)
<1>1. (n + offset) % Word = n + offset
  <2>1. n + offset \in Nat /\ n + offset < Word /\ Word \in Nat
    BY Lengths
  <2> QED BY <2>1
<1>2. f.size = 0 \/ End(f) >= n + offset
  BY <1>1 DEF Has
<1>3. CASE f.size = 0
  BY <1>3 DEF Room
<1>4. CASE f.size # 0 /\ End(f) >= n + offset
  <2>1. End(f) > offset
    <3> DEFINE e == End(f)
    <3>1. e >= n + offset
      BY <1>4
    <3>2. e \in Int
      <4>1. f.offset \in Nat /\ f.size \in Nat
        BY DEF Frames
      <4>2. Word \in Nat \ {0}
        BY Lengths
      <4> QED BY <4>1, <4>2 DEF End
    <3> HIDE DEF e
    <3>3. e > offset
      BY <3>1, <3>2
    <3> QED BY <3>3 DEF e
  <2> QED BY <2>1 DEF Room
<1> QED BY <1>2, <1>3, <1>4

(* A box that starts at the reader. *)
LEMMA BoxFacts ==
  ASSUME StackInv, pc = "walk", NEW type \in Types, NEW size, size \in File[type]
  PROVE  LET f == Box(type, size)
         IN  f \in Frames /\ f.type = type /\ f.offset = offset /\ f.size < Word /\ f.exceeded = FALSE
<1> DEFINE n == IF size = 0 /\ ~AtRoot THEN Left(Top, offset) ELSE size
<1>1. size \in Nat /\ size < Word /\ offset \in Nat /\ Word \in Nat
  BY FileFacts, Lengths DEF StackInv, NestedOK
<1>2. Left(Top, offset) \in Nat /\ Left(Top, offset) < Word
  <2>1. Top.offset + Top.size - offset \in Int /\ Word \in Nat \ {0}
    BY <1>1, TopFacts
  <2>2. (Top.offset + Top.size - offset) % Word \in Nat /\ (Top.offset + Top.size - offset) % Word < Word
    <3> DEFINE x == Top.offset + Top.size - offset
    <3>1. x \in Int
      BY <2>1
    <3> HIDE DEF x
    <3>2. x % Word \in Nat /\ x % Word < Word
      BY <2>1, <3>1
    <3> QED BY <3>2 DEF x
  <2> QED BY <2>1, <2>2 DEF Left
<1>3. n \in Nat /\ n < Word
  BY <1>1, <1>2
<1> HIDE DEF n
<1>4. LET f == Frame(type, offset, n)
      IN  f \in Frames /\ f.type = type /\ f.offset = offset /\ f.size = n /\ f.exceeded = FALSE
  <2>1. type \in FrameTypes
    BY DEF FrameTypes
  <2> QED BY <2>1, <1>1, <1>3 DEF Frame, Frames
<1>5. Box(type, size) = Frame(type, offset, n)
  BY DEF Box, n
<1> QED BY <1>3, <1>4, <1>5

LEMMA ContainersOnly ==
  ASSUME Reading(Containers)
  PROVE  pc = "walk" /\ ~Top.returned /\ Top.type \notin Skipped /\ Top.type # "stsd"
BY DEF Reading, Walking, Containers, Skipped

(* The header of a box has been read. *)
LEMMA HeaderPuts ==
  ASSUME StackInv, NEW type \in Types, NEW size, NEW large, HeaderValid(type, size, large),
         Fits(Top.type, type), NEW box \in Frames, box.type = type, box.offset = offset,
         box.size < Word, box.exceeded = FALSE, NEW ret \in BOOLEAN,
         offset' \in Nat, offset' >= offset, offset' <= File.length,
         stack' = Pushed(box, ret), Continue
  PROVE  PutOn(box, ret)
<1>1. Reading(Containers) /\ Has(Top, HEADER) /\ offset + HeaderLength(large) <= File.length
  BY DEF HeaderValid, Header, MayHead
<1>2. pc = "walk" /\ ~Top.returned /\ Top.type \notin Skipped /\ Top.type # "stsd"
  BY <1>1, ContainersOnly
<1>3. Top \in Frames /\ offset \in Nat
  BY <1>2, TopFacts DEF StackInv, NestedOK
<1>4. File.length \in Nat /\ File.length < Word /\ Word \in Nat
  BY FileFacts, Lengths DEF StackInv
<1>5. offset + HEADER < Word
  <2>1. HeaderLength(large) \in Nat /\ HeaderLength(large) >= HEADER /\ HEADER \in Nat
    BY Lengths
  <2> QED BY <1>1, <1>3, <1>4, <2>1
<1>6. Room(Top, offset)
  BY <1>1, <1>3, <1>5, Lengths, RoomFor
<1>7. box.offset <= offset' /\ offset' < Word
  BY <1>3, <1>4
<1> QED BY <1>2, <1>6, <1>7 DEF PutOn

LEMMA AfterHeader ==
  ASSUME StackInv, pc = "walk", NEW large, NEW length \in Nat,
         offset' = offset + HeaderLength(large) + length
  PROVE  offset' \in Nat /\ offset' >= offset
<1>1. offset \in Nat /\ HeaderLength(large) \in Nat
  BY Lengths DEF StackInv, NestedOK
<1> QED BY <1>1

LEMMA HandledPuts ==
  ASSUME StackInv, NEW type \in Types, NEW size, NEW large, NEW length \in Nat,
         Handled(type, size, large, length), Fits(Top.type, type)
  PROVE  /\ PutOn(Box(type, size), TRUE) /\ Box(type, size).type = type
         /\ pc = "walk" /\ Top.type \in Containers /\ Continue
<1>1. HeaderValid(type, size, large) /\ stack' = Pushed(Box(type, size), TRUE) /\ Continue
  BY DEF Handled
<1>2. offset' = offset + HeaderLength(large) + length /\ offset' <= File.length
  BY DEF Handled
<1>3. Reading(Containers) /\ size \in File[type]
  BY <1>1 DEF HeaderValid, Header, MayHead
<1>4. pc = "walk" /\ Top.type \in Containers
  BY <1>3 DEF Reading, Walking
<1>5. offset' \in Nat /\ offset' >= offset
  BY <1>2, <1>4, AfterHeader
<1> DEFINE box == Box(type, size)
<1>6. box \in Frames /\ box.type = type /\ box.offset = offset /\ box.size < Word /\ box.exceeded = FALSE
  BY <1>3, <1>4, BoxFacts
<1>7. stack' = Pushed(box, TRUE)
  BY <1>1
<1> HIDE DEF box
<1>8. PutOn(box, TRUE)
  BY <1>1, <1>2, <1>5, <1>6, <1>7, HeaderPuts
<1> QED BY <1>1, <1>4, <1>6, <1>8 DEF box

LEMMA EnteredPuts ==
  ASSUME StackInv, NEW type \in Types, NEW size, NEW large, Entered(type, size, large)
  PROVE  /\ PutOn(Box(type, size), FALSE) /\ Box(type, size).type = type
         /\ pc = "walk" /\ type \in DOMAIN PlaceOf /\ Top.type = PlaceOf[type] /\ Continue
<1>1. HeaderValid(type, size, large) /\ stack' = Pushed(Box(type, size), FALSE) /\ Continue
  BY DEF Entered
<1>2. offset' = offset + HeaderLength(large) /\ InPlace(type)
  BY DEF Entered
<1>3. Reading(Containers) /\ size \in File[type] /\ offset + HeaderLength(large) <= File.length
  BY <1>1 DEF HeaderValid, Header, MayHead
<1>4. pc = "walk" /\ type \in DOMAIN PlaceOf /\ Top.type = PlaceOf[type]
  BY <1>2, <1>3 DEF Reading, Walking, InPlace
<1>5. offset' \in Nat /\ offset' >= offset /\ offset' <= File.length
  <2>1. offset \in Nat /\ HeaderLength(large) \in Nat
    BY Lengths DEF StackInv, NestedOK
  <2> QED BY <2>1, <1>2, <1>3
<1> DEFINE box == Box(type, size)
<1>6. box \in Frames /\ box.type = type /\ box.offset = offset /\ box.size < Word /\ box.exceeded = FALSE
  BY <1>3, <1>4, BoxFacts
<1>7. stack' = Pushed(box, FALSE)
  BY <1>1
<1>8. Fits(Top.type, type)
  BY <1>4 DEF Fits
<1> HIDE DEF box
<1>9. PutOn(box, FALSE)
  BY <1>1, <1>5, <1>6, <1>7, <1>8, HeaderPuts
<1> QED BY <1>1, <1>4, <1>6, <1>9 DEF box

LEMMA FrameEntries ==
  ASSUME NEW f \in Frames, NEW n \in Int
  PROVE  LET g == [f EXCEPT !.entries = n]
         IN  /\ g \in Frames /\ g.type = f.type /\ g.offset = f.offset /\ g.size = f.size
             /\ g.exceeded = f.exceeded
BY DEF Frames

(* The handlers of stsd and esds read before they look at boxes. *)
LEMMA StsdPuts ==
  ASSUME StackInv, NEW size, NEW large, NEW count, ReadStsd(size, large, count), count \in Nat
  PROVE  /\ PutOn([Box("stsd", size) EXCEPT !.entries = count], FALSE)
         /\ [Box("stsd", size) EXCEPT !.entries = count].type = "stsd"
         /\ pc = "walk" /\ Top.type = "stbl"
<1>1. /\ HeaderValid("stsd", size, large) /\ InPlace("stsd")
      /\ stack' = Pushed([Box("stsd", size) EXCEPT !.entries = count], FALSE) /\ Continue
      /\ offset' = offset + HeaderLength(large) + BODY /\ offset' <= File.length
  BY DEF ReadStsd
<1>2. Reading(Containers) /\ size \in File.stsd
  BY <1>1 DEF HeaderValid, Header, MayHead
<1>3. pc = "walk" /\ Top.type = "stbl" /\ "stsd" \in Types
  BY <1>1, <1>2 DEF Reading, Walking, InPlace, PlaceOf, Types
<1>4. offset' \in Nat /\ offset' >= offset
  BY <1>1, <1>3, AfterHeader, Lengths
<1> DEFINE box == Box("stsd", size)  full == [box EXCEPT !.entries = count]
<1>5. box \in Frames /\ box.type = "stsd" /\ box.offset = offset /\ box.size < Word /\ box.exceeded = FALSE
  BY <1>2, <1>3, BoxFacts
<1>6. stack' = Pushed(full, FALSE)
  BY <1>1
<1> HIDE DEF box
<1>7. /\ full \in Frames /\ full.type = box.type /\ full.offset = box.offset /\ full.size = box.size
      /\ full.exceeded = box.exceeded
  <2>1. count \in Int
    OBVIOUS
  <2> QED BY <2>1, <1>5, FrameEntries
<1> HIDE DEF full
<1>8. Fits(Top.type, "stsd")
  BY <1>3 DEF Fits, PlaceOf
<1>9. PutOn(full, FALSE)
  <2>1. full.type = "stsd" /\ full.offset = offset /\ full.size < Word /\ full.exceeded = FALSE
    BY <1>5, <1>7
  <2> QED BY <2>1, <1>1, <1>3, <1>4, <1>6, <1>7, <1>8, HeaderPuts
<1> QED BY <1>3, <1>5, <1>7, <1>9 DEF full, box

LEMMA EsdsPuts ==
  ASSUME StackInv, NEW size, NEW large, ReadEsds(size, large)
  PROVE  /\ PutOn(Box("esds", size), FALSE) /\ Box("esds", size).type = "esds"
         /\ pc = "walk" /\ Top.type = "mp4a"
<1>1. /\ HeaderValid("esds", size, large) /\ InPlace("esds")
      /\ stack' = Pushed(Box("esds", size), FALSE) /\ Continue
      /\ offset' = offset + HeaderLength(large) + BODY /\ offset' <= File.length
  BY DEF ReadEsds
<1>2. Reading(Containers) /\ size \in File.esds
  BY <1>1 DEF HeaderValid, Header, MayHead
<1>3. pc = "walk" /\ Top.type = "mp4a" /\ "esds" \in Types
  BY <1>1, <1>2 DEF Reading, Walking, InPlace, PlaceOf, Types
<1>4. offset' \in Nat /\ offset' >= offset
  BY <1>1, <1>3, AfterHeader, Lengths
<1> DEFINE box == Box("esds", size)
<1>5. box \in Frames /\ box.type = "esds" /\ box.offset = offset /\ box.size < Word /\ box.exceeded = FALSE
  BY <1>2, <1>3, BoxFacts
<1>6. stack' = Pushed(box, FALSE)
  BY <1>1
<1>7. Fits(Top.type, "esds")
  BY <1>3 DEF Fits, PlaceOf
<1> HIDE DEF box
<1>8. PutOn(box, FALSE)
  BY <1>1, <1>3, <1>4, <1>5, <1>6, <1>7, HeaderPuts
<1> QED BY <1>3, <1>5, <1>8 DEF box

LEMMA EntryPuts ==
  ASSUME StackInv, NEW type \in Entries, NEW size, Entry(type, size)
  PROVE  /\ PutOn(Frame(type, offset, size), ~Audio \/ type # "mp4a")
         /\ Frame(type, offset, size).type = type
         /\ pc = "walk" /\ Top.type = "stsd"
<1>1. /\ MoreEntries /\ size \in File[type] /\ offset' <= File.length
      /\ offset' = offset + HEADER + (IF Audio THEN BODY ELSE 0)
      /\ stack' = Pushed(Frame(type, offset, size), ~Audio \/ type # "mp4a") /\ Continue
  BY DEF Entry
<1>2. pc = "walk" /\ Top.type = "stsd" /\ ~Top.returned /\ Has(Top, HEADER)
  BY <1>1 DEF MoreEntries, Reading, Walking
<1>3. Top \in Frames /\ offset \in Nat /\ HEADER \in Nat \ {0} /\ BODY \in Nat
  BY <1>2, TopFacts, Lengths DEF StackInv, NestedOK
<1>4. /\ type \in Types /\ type \in FrameTypes
      /\ File.length \in Nat /\ File.length < Word /\ Word \in Nat
  BY FileFacts, Lengths DEF StackInv, Types, FrameTypes
<1>5. size \in Nat /\ size < Word
  BY <1>1, <1>4, FileFacts DEF StackInv
<1>6. offset' \in Nat /\ offset' >= offset + HEADER /\ offset' < Word /\ offset + HEADER < Word
  BY <1>1, <1>3, <1>4
<1>7. Room(Top, offset)
  BY <1>2, <1>3, <1>6, RoomFor
<1> DEFINE box == Frame(type, offset, size)  ret == ~Audio \/ type # "mp4a"
<1>8. box \in Frames /\ box.type = type /\ box.offset = offset /\ box.size = size /\ box.exceeded = FALSE
  BY <1>3, <1>4, <1>5 DEF Frame, Frames
<1>9. stack' = Pushed(box, ret) /\ ret \in BOOLEAN /\ (~Audio => ret)
  BY <1>1
<1> HIDE DEF box, ret
<1>10. Fits(Top.type, box.type) /\ Top.type \notin Skipped
  BY <1>2, <1>8 DEF Fits, Skipped
<1>11. box.offset <= offset'
  BY <1>3, <1>6, <1>8
<1>12. PutOn(box, ret)
  BY <1>1, <1>2, <1>5, <1>6, <1>7, <1>8, <1>9, <1>10, <1>11 DEF PutOn
<1> QED BY <1>2, <1>8, <1>12 DEF box, ret

LEMMA DescribedPuts ==
  ASSUME StackInv, NEW type \in Types, NEW size, NEW length \in Nat, NEW ret \in BOOLEAN,
         Described(type, size, length, ret), Fits(Top.type, type)
  PROVE  /\ PutOn(Frame(type, Contents, size), ret)
         /\ Frame(type, Contents, size).type = type
         /\ pc = "walk" /\ Top.type \in {"esds", "ES", "config"}
<1>1. /\ MayTag /\ size \in File[type] /\ offset' <= File.length
      /\ offset' = offset + TAG + length
      /\ stack' = Pushed(Frame(type, Contents, size), ret) /\ Continue
  BY DEF Described
<1>2. pc = "walk" /\ Top.type \in {"esds", "ES", "config"} /\ ~Top.returned /\ Has(Top, TAG)
  BY <1>1 DEF MayTag, InDescriptor, Reading, Walking
<1>3. Top \in Frames /\ offset \in Nat /\ TAG \in Nat \ {0}
  BY <1>2, TopFacts, Lengths DEF StackInv, NestedOK
<1>4. /\ type \in FrameTypes
      /\ File.length \in Nat /\ File.length < Word /\ Word \in Nat
  BY FileFacts, Lengths DEF StackInv, FrameTypes
<1>5. size \in Nat /\ size < Word
  BY <1>1, FileFacts DEF StackInv
<1>6. /\ offset' \in Nat /\ offset' >= offset + TAG /\ offset' < Word /\ offset + TAG < Word
      /\ Contents \in Nat /\ Contents <= offset'
  BY <1>1, <1>3, <1>4 DEF Contents
<1>7. Room(Top, offset)
  BY <1>2, <1>3, <1>6, RoomFor
<1> DEFINE box == Frame(type, Contents, size)
<1>8. box \in Frames /\ box.type = type /\ box.offset = Contents /\ box.size = size /\ box.exceeded = FALSE
  BY <1>4, <1>5, <1>6 DEF Frame, Frames
<1>9. stack' = Pushed(box, ret)
  BY <1>1
<1> HIDE DEF box
<1>10. Fits(Top.type, box.type) /\ Top.type \notin Skipped /\ Top.type # "stsd"
  BY <1>2, <1>8 DEF Skipped
<1>11. box.offset <= offset'
  BY <1>6, <1>8
<1>12. PutOn(box, ret)
  BY <1>1, <1>2, <1>5, <1>6, <1>7, <1>8, <1>9, <1>10, <1>11 DEF PutOn
<1> QED BY <1>2, <1>8, <1>12 DEF box

-----------------------------------------------------------------------------
(* The steps that read a box *)

LEMMA PutThird ==
  ASSUME StackInv, NEW box, NEW ret, PutOn(box, ret)
  PROVE  /\ Len(stack) \in Nat \ {0} /\ Len(stack') = Len(stack) + 1
         /\ Len(stack) >= 3 => (InTrak(stack') <=> InTrak(stack)) /\ (InTraf(stack') <=> InTraf(stack))
         /\ Len(stack) < 3 => ~InTrak(stack) /\ ~InTraf(stack)
         /\ Len(stack) = 2 => /\ (InTrak(stack') <=> (box.type = "trak" /\ ~ret))
                              /\ (InTraf(stack') <=> box.type = "traf")
         /\ Len(stack) < 2 => ~InTrak(stack') /\ ~InTraf(stack')
         /\ pc = "walk" /\ pc' = "walk" /\ style' = style
<1>1. PICK p \in Frames, b \in Frames :
           /\ PushedOn(stack, stack', p, b)
           /\ Alike(p, Top) /\ p.returned = Top.returned
           /\ p.exceeded = (Top.exceeded \/ Exceeds(box, Top))
           /\ Alike(b, box) /\ b.returned = ret /\ b.exceeded = box.exceeded
  BY PutOnStack
<1>2. pc = "walk" /\ pc' = "walk" /\ style' = style
  BY DEF PutOn, Continue
<1> DEFINE n == Len(stack)
<1>3. n \in Nat \ {0} /\ Top = stack[n]
  BY <1>2, TopFacts
<1> HIDE DEF n
<1>4. /\ Len(stack') = n + 1 /\ stack'[n] = p /\ stack'[n + 1] = b
      /\ \A i \in 1..n - 1 : stack'[i] = stack[i]
  BY <1>1 DEF PushedOn, n
<1>5. p.type = stack[n].type /\ p.returned = stack[n].returned /\ b.type = box.type /\ b.returned = ret
  BY <1>1, <1>3 DEF Alike
<1>6. ASSUME n >= 3
      PROVE  (InTrak(stack') <=> InTrak(stack)) /\ (InTraf(stack') <=> InTraf(stack))
  <2>1. stack'[3].type = stack[3].type /\ stack'[3].returned = stack[3].returned
    <3>1. CASE n = 3
      BY <3>1, <1>4, <1>5
    <3>2. CASE n # 3
      <4>1. 3 \in 1..n - 1
        BY <3>2, <1>3, <1>6
      <4> QED BY <4>1, <1>4
    <3> QED BY <3>1, <3>2
  <2>2. Len(stack') >= 3 /\ Len(stack) >= 3
    BY <1>3, <1>4, <1>6 DEF n
  <2> QED BY <2>1, <2>2 DEF InTrak, InTraf
<1>7. ASSUME n = 2
      PROVE  /\ (InTrak(stack') <=> (box.type = "trak" /\ ~ret))
             /\ (InTraf(stack') <=> box.type = "traf")
  <2>1. Len(stack') >= 3 /\ stack'[3] = b
    BY <1>4, <1>7
  <2> QED BY <2>1, <1>5 DEF InTrak, InTraf
<1>8. ASSUME n < 3 PROVE ~InTrak(stack) /\ ~InTraf(stack)
  <2>1. ~(Len(stack) >= 3)
    BY <1>3, <1>8 DEF n
  <2> QED BY <2>1 DEF InTrak, InTraf
<1>9. ASSUME n < 2 PROVE ~InTrak(stack') /\ ~InTraf(stack')
  <2>1. ~(Len(stack') >= 3)
    BY <1>3, <1>4, <1>9
  <2> QED BY <2>1 DEF InTrak, InTraf
<1> QED BY <1>2, <1>3, <1>4, <1>6, <1>7, <1>8, <1>9 DEF n

LEMMA ThreeCases ==
  ASSUME NEW n \in Nat \ {0}
  PROVE  n >= 3 \/ (n = 2 /\ n < 3) \/ (n < 2 /\ n < 3)
OBVIOUS

LEMMA PutNested ==
  ASSUME StackInv, NEW box, NEW ret, PutOn(box, ret)
  PROVE  NestedStep
<1> DEFINE n == Len(stack)  m == Len(stack')
<1>1. n \in Nat /\ m = n + 1
  BY PutThird
<1> HIDE DEF n, m
<1>2. ~(m < n)
  BY <1>1
<1> QED BY <1>2 DEF NestedStep, n, m

(* A box is read that changes no track, or only something else of it. *)
LEMMA QuietPush ==
  ASSUME BoxesInv, NEW box, NEW ret, PutOn(box, ret), SameTracks, traf' = traf,
         found_moov' \in BOOLEAN, found_mdat' \in BOOLEAN,
         (Audio' <=> Audio) \/ Len(stack) <= 6,
         box.type \notin {"trak", "traf"}
  PROVE  BoxesInv' /\ NestedStep
<1>1. StackInv /\ MovieInv
  BY DEF BoxesInv
<1>2. StackInv'
  BY <1>1, PutOnKeeps
<1>3. /\ Len(stack) \in Nat \ {0} /\ pc = "walk" /\ pc' = "walk"
      /\ Len(stack) >= 3 => (InTrak(stack') <=> InTrak(stack)) /\ (InTraf(stack') <=> InTraf(stack))
      /\ Len(stack) < 3 => ~InTrak(stack) /\ ~InTraf(stack)
      /\ Len(stack) = 2 => /\ (InTrak(stack') <=> (box.type = "trak" /\ ~ret))
                           /\ (InTraf(stack') <=> box.type = "traf")
      /\ Len(stack) < 2 => ~InTrak(stack') /\ ~InTraf(stack')
  BY <1>1, PutThird
<1>4. (InTrak(stack') <=> InTrak(stack)) /\ (InTraf(stack') <=> InTraf(stack))
  <2>1. Len(stack) >= 3 \/ (Len(stack) = 2 /\ Len(stack) < 3) \/ (Len(stack) < 2 /\ Len(stack) < 3)
    BY <1>3, ThreeCases
  <2> QED BY <2>1, <1>3
<1>5. Stays
  BY <1>3, <1>4 DEF Stays
<1>6. MovieInv'
  BY <1>1, <1>5, SameTracksKeep
<1>7. NestedStep
  BY <1>1, PutNested
<1> QED BY <1>2, <1>6, <1>7 DEF BoxesInv

(* Where the third box is, when the one on top is in a track's. *)
LEMMA InsideTrak ==
  ASSUME StackInv, pc = "walk", ~Top.returned, Top.type \in TrakArea
  PROVE  InTrak(stack) /\ Len(stack) = Level[Top.type] /\ ~InTraf(stack)
<1>1. /\ Len(stack) \in DOMAIN stack /\ Top = stack[Len(stack)] /\ ShapeOK(stack)
      /\ DOMAIN stack = 1..Len(stack) /\ Len(stack) \in Nat
  BY TopFacts DEF StackInv
<1>2. Len(stack) >= 3 /\ stack[3].type = "trak"
  BY <1>1, ShapeAt
<1>3. ~stack[3].returned
  <2>1. CASE Len(stack) = 3
    BY <2>1, <1>1
  <2>2. CASE Len(stack) # 3
    <3>1. 3 \in DOMAIN stack /\ 3 < Len(stack)
      BY <2>2, <1>1, <1>2
    <3> QED BY <3>1, <1>1 DEF ShapeOK
  <2> QED BY <2>1, <2>2
<1>4. Top.type \notin Skipped
  BY LevelOfArea
<1>5. Len(stack) = Level[Top.type]
  BY <1>4, PutDepth
<1> QED BY <1>2, <1>3, <1>5 DEF InTrak, InTraf

LEMMA StepSkipUnknown ==
  ASSUME BoxesInv, NEW size, NEW large, SkipUnknown(size, large)
  PROVE  BoxesInv' /\ NestedStep
<1>1. Handled("other", size, large, 0) /\ Calm
  BY DEF SkipUnknown, Calm
<1>2. "other" \in Types /\ Fits(Top.type, "other") /\ StackInv
  BY DEF Types, Fits, Skipped, BoxesInv
<1>3. PutOn(Box("other", size), TRUE) /\ Box("other", size).type = "other"
  BY <1>1, <1>2, HandledPuts
<1>4. /\ SameTracks /\ traf' = traf /\ (Audio' <=> Audio)
      /\ found_moov' \in BOOLEAN /\ found_mdat' \in BOOLEAN
  BY <1>1, CalmFacts
<1>5. Box("other", size).type \notin {"trak", "traf"}
  BY <1>3
<1> QED BY <1>3, <1>4, <1>5, QuietPush

LEMMA StepEnterBox ==
  ASSUME BoxesInv, NEW type, NEW size, NEW large, EnterBox(type, size, large)
  PROVE  BoxesInv' /\ NestedStep
<1>1. type \in {"mvex", "mdia", "minf", "stbl"} /\ Entered(type, size, large) /\ Calm
  BY DEF EnterBox, Calm
<1>2. type \in Types /\ StackInv /\ type \notin {"trak", "traf"}
  BY <1>1 DEF Types, PlaceOf, BoxesInv
<1>3. PutOn(Box(type, size), FALSE) /\ Box(type, size).type = type
  BY <1>1, <1>2, EnteredPuts
<1>4. /\ SameTracks /\ traf' = traf /\ (Audio' <=> Audio)
      /\ found_moov' \in BOOLEAN /\ found_mdat' \in BOOLEAN
  BY <1>1, CalmFacts
<1>5. Box(type, size).type \notin {"trak", "traf"}
  BY <1>2, <1>3
<1> QED BY <1>3, <1>4, <1>5, QuietPush

LEMMA StepReadMdat ==
  ASSUME BoxesInv, NEW size, NEW large, ReadMdat(size, large)
  PROVE  BoxesInv' /\ NestedStep
<1>1. /\ Handled("mdat", size, large, 0) /\ InPlace("mdat")
      /\ found_mdat' = TRUE /\ UNCHANGED <<movie, traf, found_moov>>
  BY DEF ReadMdat
<1>2. "mdat" \in Types /\ Fits(Top.type, "mdat") /\ StackInv /\ ListOK
  BY <1>1 DEF Types, PlaceOf, Fits, InPlace, BoxesInv, MovieInv
<1>3. PutOn(Box("mdat", size), TRUE) /\ Box("mdat", size).type = "mdat"
  BY <1>1, <1>2, HandledPuts
<1>4. SameTracks
  BY <1>1, <1>2, SameMovie
<1>5. Audio' <=> Audio
  BY <1>1 DEF Audio, movie
<1>6. traf' = traf /\ found_moov' \in BOOLEAN /\ found_mdat' \in BOOLEAN
  BY <1>1, <1>2 DEF StackInv
<1>7. Box("mdat", size).type \notin {"trak", "traf"}
  BY <1>3
<1> QED BY <1>3, <1>4, <1>5, <1>6, <1>7, QuietPush

LEMMA StepReadEsds ==
  ASSUME BoxesInv, NEW size, NEW large, ReadEsds(size, large)
  PROVE  BoxesInv' /\ NestedStep
<1>1. Calm
  BY DEF ReadEsds, Calm
<1>2. PutOn(Box("esds", size), FALSE) /\ Box("esds", size).type = "esds"
  BY EsdsPuts DEF BoxesInv
<1>3. /\ SameTracks /\ traf' = traf /\ (Audio' <=> Audio)
      /\ found_moov' \in BOOLEAN /\ found_mdat' \in BOOLEAN
  BY <1>1, CalmFacts
<1>4. Box("esds", size).type \notin {"trak", "traf"}
  BY <1>2
<1> QED BY <1>2, <1>3, <1>4, QuietPush

LEMMA StepSkipTag ==
  ASSUME BoxesInv, NEW size, SkipTag(size)
  PROVE  BoxesInv' /\ NestedStep
<1>1. Described("tag", size, 0, TRUE) /\ UNCHANGED <<heap, found>>
  BY DEF SkipTag
<1>2. Calm
  BY <1>1 DEF Described, Calm, movie, flags
<1>3. "tag" \in Types /\ Fits(Top.type, "tag")
  BY DEF Types, Fits, Skipped
<1> DEFINE box == Frame("tag", Contents, size)
<1>4. PutOn(box, TRUE) /\ box.type = "tag"
  BY <1>1, <1>3, DescribedPuts DEF BoxesInv
<1> HIDE DEF box
<1>5. /\ SameTracks /\ traf' = traf /\ (Audio' <=> Audio)
      /\ found_moov' \in BOOLEAN /\ found_mdat' \in BOOLEAN
  BY <1>2, CalmFacts
<1>6. box.type \notin {"trak", "traf"}
  BY <1>4
<1> QED BY <1>4, <1>5, <1>6, QuietPush

LEMMA StepReadEs ==
  ASSUME BoxesInv, NEW size, ReadEs(size)
  PROVE  BoxesInv' /\ NestedStep
<1>0. Described("ES", size, BODY, FALSE)
  BY DEF ReadEs
<1>1. Belongs("ES") /\ UNCHANGED <<heap, found>>
  BY DEF ReadEs
<1>2. Calm
  BY <1>0, <1>1 DEF Described, Calm, movie, flags
<1>3. "ES" \in Types /\ Fits(Top.type, "ES")
  BY <1>1 DEF Types, Fits, DescriptorOf, Belongs
<1> DEFINE box == Frame("ES", Contents, size)
<1>4. PutOn(box, FALSE) /\ box.type = "ES"
  BY <1>0, <1>3, DescribedPuts, Lengths DEF BoxesInv
<1> HIDE DEF box
<1>5. /\ SameTracks /\ traf' = traf /\ (Audio' <=> Audio)
      /\ found_moov' \in BOOLEAN /\ found_mdat' \in BOOLEAN
  BY <1>2, CalmFacts
<1>6. box.type \notin {"trak", "traf"}
  BY <1>4
<1> QED BY <1>4, <1>5, <1>6, QuietPush

(* One more box has been found. *)
LEMMA FoundFacts ==
  ASSUME BoxesInv, NEW type, type # "tkhd", found' = found \union {type},
         UNCHANGED <<tracks, heap, track, trexes, flags>>
  PROVE  /\ SameTracks /\ traf' = traf /\ (Audio' <=> Audio)
         /\ found_moov' \in BOOLEAN /\ found_mdat' \in BOOLEAN
<1>1. "tkhd" \in found' <=> "tkhd" \in found
  OBVIOUS
<1>2. SameTracks
  BY <1>1 DEF SameTracks, BoxesInv, MovieInv, ListOK
<1>3. Audio' <=> Audio
  BY DEF Audio
<1>4. traf' = traf /\ found_moov' \in BOOLEAN /\ found_mdat' \in BOOLEAN
  BY DEF flags, BoxesInv, StackInv
<1> QED BY <1>2, <1>3, <1>4

LEMMA StepReadMdhd ==
  ASSUME BoxesInv, NEW size, NEW large, ReadMdhd(size, large)
  PROVE  BoxesInv' /\ NestedStep
<1>1. /\ Handled("mdhd", size, large, BODY) /\ InPlace("mdhd")
      /\ found' = found \cup {"mdhd"} /\ UNCHANGED <<tracks, heap, track, trexes, flags>>
  BY DEF ReadMdhd
<1>2. "mdhd" \in Types /\ Fits(Top.type, "mdhd") /\ StackInv /\ BODY \in Nat
  BY <1>1, Lengths DEF Types, PlaceOf, Fits, InPlace, BoxesInv
<1>3. PutOn(Box("mdhd", size), TRUE) /\ Box("mdhd", size).type = "mdhd"
  BY <1>1, <1>2, HandledPuts
<1>4. /\ SameTracks /\ traf' = traf /\ (Audio' <=> Audio)
      /\ found_moov' \in BOOLEAN /\ found_mdat' \in BOOLEAN
  BY <1>1, FoundFacts
<1>5. Box("mdhd", size).type \notin {"trak", "traf"}
  BY <1>3
<1> QED BY <1>3, <1>4, <1>5, QuietPush

LEMMA StepReadTable ==
  ASSUME BoxesInv, NEW size, NEW large, NEW length \in {BODY, 2 * BODY}, ReadTable(size, large, length)
  PROVE  BoxesInv' /\ NestedStep
<1> DEFINE n == IF "table" \in found THEN 0 ELSE length
<1>1. /\ Handled("table", size, large, n) /\ InPlace("table")
      /\ found' = found \cup {"table"} /\ UNCHANGED <<tracks, heap, track, trexes, flags>>
  BY DEF ReadTable
<1>2. n \in Nat
  <2>1. BODY \in Nat
    BY Lengths
  <2>2. length \in Nat
    BY <2>1
  <2> QED BY <2>2
<1> HIDE DEF n
<1>3. "table" \in Types /\ Fits(Top.type, "table") /\ StackInv
  BY <1>1 DEF Types, PlaceOf, Fits, InPlace, BoxesInv
<1>4. PutOn(Box("table", size), TRUE) /\ Box("table", size).type = "table"
  BY <1>1, <1>2, <1>3, HandledPuts
<1>5. /\ SameTracks /\ traf' = traf /\ (Audio' <=> Audio)
      /\ found_moov' \in BOOLEAN /\ found_mdat' \in BOOLEAN
  BY <1>1, FoundFacts
<1>6. Box("table", size).type \notin {"trak", "traf"}
  BY <1>4
<1> QED BY <1>4, <1>5, <1>6, QuietPush

LEMMA StepReadStsd ==
  ASSUME BoxesInv, NEW size, NEW large, NEW count, count \in File.entries, ReadStsd(size, large, count)
  PROVE  BoxesInv' /\ NestedStep
<1>1. /\ found' = found \cup {"stsd"} /\ UNCHANGED <<tracks, heap, track, trexes, flags>>
  BY DEF ReadStsd
<1>2. count \in Nat /\ StackInv
  BY FileFacts DEF BoxesInv, StackInv
<1> DEFINE box == [Box("stsd", size) EXCEPT !.entries = count]
<1>3. PutOn(box, FALSE) /\ box.type = "stsd"
  BY <1>2, StsdPuts
<1> HIDE DEF box
<1>4. /\ SameTracks /\ traf' = traf /\ (Audio' <=> Audio)
      /\ found_moov' \in BOOLEAN /\ found_mdat' \in BOOLEAN
  BY <1>1, FoundFacts
<1>5. box.type \notin {"trak", "traf"}
  BY <1>3
<1> QED BY <1>3, <1>4, <1>5, QuietPush

LEMMA StepReadInfo ==
  ASSUME BoxesInv, NEW size, ReadInfo(size)
  PROVE  BoxesInv' /\ NestedStep
<1> DEFINE n == IF "codec" \in found THEN 0 ELSE size
<1>1. /\ Described("info", size, n, TRUE) /\ Belongs("info")
      /\ found' = found \cup {"codec"} /\ UNCHANGED heap
  BY DEF ReadInfo
<1>2. UNCHANGED <<tracks, heap, track, trexes, flags>> /\ size \in File.info
  BY <1>1 DEF Described
<1>3. "info" \in Types /\ Fits(Top.type, "info")
  BY <1>1 DEF Types, Fits, DescriptorOf, Belongs
<1>4. n \in Nat
  <2>1. size \in Nat
    BY <1>2, <1>3, FileFacts DEF BoxesInv, StackInv
  <2> QED BY <2>1
<1> HIDE DEF n
<1> DEFINE box == Frame("info", Contents, size)
<1>5. PutOn(box, TRUE) /\ box.type = "info"
  BY <1>1, <1>3, <1>4, DescribedPuts DEF BoxesInv
<1> HIDE DEF box
<1>6. /\ SameTracks /\ traf' = traf /\ (Audio' <=> Audio)
      /\ found_moov' \in BOOLEAN /\ found_mdat' \in BOOLEAN
  BY <1>1, <1>2, FoundFacts
<1>7. box.type \notin {"trak", "traf"}
  BY <1>5
<1> QED BY <1>5, <1>6, <1>7, QuietPush

(* The track that is being read is given a type or a codec. *)
LEMMA HeapUpdate ==
  ASSUME ListOK, track \in DOMAIN heap, NEW r \in TrackRecords,
         r.id = heap[track].id, r.default = heap[track].default,
         heap' = [heap EXCEPT ![track] = r],
         UNCHANGED <<tracks, track, trexes>>, "tkhd" \in found' <=> "tkhd" \in found
  PROVE  SameTracks /\ heap'[track'] = r
<1>1. heap \in [DOMAIN heap -> TrackRecords]
  BY DEF ListOK
<1>2. heap' \in [DOMAIN heap -> TrackRecords] /\ heap'[track] = r
  BY <1>1
<1>3. \A o \in DOMAIN heap : heap'[o].id = heap[o].id /\ heap'[o].default = heap[o].default
  <2> SUFFICES ASSUME NEW o \in DOMAIN heap
               PROVE  heap'[o].id = heap[o].id /\ heap'[o].default = heap[o].default
    OBVIOUS
  <2>1. heap'[o] = IF o = track THEN r ELSE heap[o]
    BY <1>1
  <2> QED BY <2>1
<1> QED BY <1>2, <1>3 DEF SameTracks

CodecOnly(codec) == SetCodec(codec) \/ UNCHANGED heap

LEMMA CodecUpdate ==
  ASSUME BoxesInv, pc = "walk", ~Top.returned, Top.type \in TrakArea, NEW codec \in CodecNames,
         CodecOnly(codec),
         UNCHANGED <<tracks, track, found, trexes, flags>>
  PROVE  /\ SameTracks /\ traf' = traf /\ (Audio' <=> Audio)
         /\ found_moov' \in BOOLEAN /\ found_mdat' \in BOOLEAN
<1>1. InTrak(stack) /\ ListOK /\ TrakOK
  BY InsideTrak DEF BoxesInv, MovieInv
<1>2. track \in DOMAIN heap
  BY <1>1 DEF TrakOK
<1>3. heap[track] \in TrackRecords
  BY <1>1, <1>2, ListFacts
<1>4. traf' = traf /\ found_moov' \in BOOLEAN /\ found_mdat' \in BOOLEAN
  BY DEF flags, BoxesInv, StackInv
<1>5. CASE SetCodec(codec)
  <2> DEFINE r == [heap[track] EXCEPT !.codec = codec]
  <2>1. /\ r \in TrackRecords /\ r.id = heap[track].id /\ r.default = heap[track].default
        /\ r.type = heap[track].type
    BY <1>3 DEF TrackRecords
  <2>2. heap' = [heap EXCEPT ![track] = r]
    BY <1>5 DEF SetCodec
  <2> HIDE DEF r
  <2>3. SameTracks /\ heap'[track'] = r
    BY <1>1, <1>2, <2>1, <2>2, HeapUpdate
  <2>4. Audio' <=> Audio
    BY <2>1, <2>3 DEF Audio
  <2> QED BY <2>3, <2>4, <1>4
<1>6. CASE UNCHANGED heap
  <2>1. SameTracks
    BY <1>1, <1>6 DEF SameTracks, ListOK
  <2>2. Audio' <=> Audio
    BY <1>6 DEF Audio
  <2> QED BY <2>1, <2>2, <1>4
<1> QED BY <1>5, <1>6 DEF CodecOnly

LEMMA StepEntry ==
  ASSUME BoxesInv, NEW type \in Entries, NEW size, Entry(type, size)
  PROVE  BoxesInv' /\ NestedStep
<1>1. CodecOnly("OPUS")
  BY DEF Entry, CodecOnly
<1>0. UNCHANGED <<tracks, track, found, trexes, flags>>
  BY DEF Entry
<1> DEFINE box == Frame(type, offset, size)  ret == ~Audio \/ type # "mp4a"
<1>2. PutOn(box, ret) /\ box.type = type /\ pc = "walk" /\ Top.type = "stsd"
  BY EntryPuts DEF BoxesInv
<1> HIDE DEF box, ret
<1>3. ~Top.returned /\ Top.type \in TrakArea
  BY <1>2 DEF PutOn, TrakArea
<1>4. /\ SameTracks /\ traf' = traf /\ (Audio' <=> Audio)
      /\ found_moov' \in BOOLEAN /\ found_mdat' \in BOOLEAN
  BY <1>0, <1>1, <1>2, <1>3, CodecUpdate DEF CodecNames
<1>5. box.type \notin {"trak", "traf"}
  BY <1>2 DEF Entries
<1> QED BY <1>2, <1>4, <1>5, QuietPush

LEMMA StepReadConfig ==
  ASSUME BoxesInv, NEW size, NEW codec \in {"none", "AAC", "MP3"}, ReadConfig(size, codec)
  PROVE  BoxesInv' /\ NestedStep
<1> DEFINE ret == codec = "MP3" \/ (codec = "none" /\ heap[track].codec = "none")
           box == Frame("config", Contents, size)
<1>1. Belongs("config") /\ Described("config", size, BODY, ret)
  BY DEF ReadConfig
<1>2. CodecOnly(codec) /\ UNCHANGED found
  BY DEF ReadConfig, CodecOnly
<1>3. ret \in BOOLEAN
  OBVIOUS
<1> HIDE DEF ret
<1>4. UNCHANGED <<tracks, track, found, trexes, flags>>
  BY <1>1, <1>2 DEF Described
<1>5. "config" \in Types /\ Fits(Top.type, "config")
  BY <1>1 DEF Types, Fits, DescriptorOf, Belongs
<1>6. PutOn(box, ret) /\ box.type = "config" /\ pc = "walk" /\ Top.type \in {"esds", "ES", "config"}
  BY <1>1, <1>3, <1>5, DescribedPuts, Lengths DEF BoxesInv
<1> HIDE DEF box
<1>7. ~Top.returned /\ Top.type \in TrakArea
  BY <1>6 DEF PutOn, TrakArea
<1>8. /\ SameTracks /\ traf' = traf /\ (Audio' <=> Audio)
      /\ found_moov' \in BOOLEAN /\ found_mdat' \in BOOLEAN
  <2>1. codec \in CodecNames
    BY DEF CodecNames
  <2> QED BY <2>1, <1>2, <1>4, <1>6, <1>7, CodecUpdate
<1>9. box.type \notin {"trak", "traf"}
  BY <1>6
<1> QED BY <1>6, <1>8, <1>9, QuietPush

LEMMA StepReadHdlr ==
  ASSUME BoxesInv, NEW size, NEW large, NEW handler, handler \in File.handlers, ReadHdlr(size, large, handler)
  PROVE  BoxesInv' /\ NestedStep
<1>1. /\ InPlace("hdlr") /\ Handled("hdlr", size, large, BODY)
      /\ found' = found \cup {"hdlr"}
      /\ heap' = [heap EXCEPT ![track].type = handler]
      /\ UNCHANGED <<tracks, track, trexes, flags>>
  BY DEF ReadHdlr
<1>2. "hdlr" \in Types /\ Fits(Top.type, "hdlr") /\ Top.type = "mdia"
  BY <1>1 DEF Types, PlaceOf, Fits, InPlace
<1>3. StackInv /\ ListOK /\ TrakOK /\ BODY \in Nat
  BY Lengths DEF BoxesInv, MovieInv
<1>4. PutOn(Box("hdlr", size), TRUE) /\ Box("hdlr", size).type = "hdlr" /\ pc = "walk"
  BY <1>1, <1>2, <1>3, HandledPuts
<1>5. ~Top.returned /\ Top.type \in TrakArea
  BY <1>2, <1>4 DEF PutOn, TrakArea
<1>6. InTrak(stack) /\ Len(stack) <= 6
  <2>1. InTrak(stack) /\ Len(stack) = Level["mdia"]
    BY <1>2, <1>3, <1>4, <1>5, InsideTrak
  <2> QED BY <2>1, LevelOfArea
<1>7. track \in DOMAIN heap
  BY <1>3, <1>6 DEF TrakOK
<1>8. heap[track] \in TrackRecords
  BY <1>3, <1>7, ListFacts
<1> DEFINE r == [heap[track] EXCEPT !.type = handler]
<1>9. r \in TrackRecords /\ r.id = heap[track].id /\ r.default = heap[track].default
  <2>1. handler \in Handlers
    BY <1>3, FileFacts DEF StackInv
  <2> QED BY <2>1, <1>8 DEF TrackRecords
<1>10. heap' = [heap EXCEPT ![track] = r]
  BY <1>1
<1> HIDE DEF r
<1>11. "tkhd" \in found' <=> "tkhd" \in found
  BY <1>1
<1>12. SameTracks
  BY <1>1, <1>3, <1>7, <1>9, <1>10, <1>11, HeapUpdate
<1>13. traf' = traf /\ found_moov' \in BOOLEAN /\ found_mdat' \in BOOLEAN
  BY <1>1, <1>3 DEF StackInv, flags
<1>14. Box("hdlr", size).type \notin {"trak", "traf"}
  BY <1>4
<1> QED BY <1>4, <1>6, <1>12, <1>13, <1>14, QuietPush

LEMMA FirstLevels ==
  ASSUME StackInv, pc = "walk"
  PROVE  /\ Top.type = "root" => Len(stack) = 1
         /\ Top.type \in {"moov", "moof"} => Len(stack) = 2
         /\ Top.type \in {"trak", "mvex", "traf"} => Len(stack) = 3
<1>1. /\ Level["root"] = 1 /\ Level["moov"] = 2 /\ Level["moof"] = 2
      /\ Level["trak"] = 3 /\ Level["mvex"] = 3 /\ Level["traf"] = 3
  BY DEF Level
<1>2. Top.type \in {"root", "moov", "moof", "trak", "mvex", "traf"} => Top.type \notin Skipped
  BY DEF Skipped
<1> QED BY <1>1, <1>2, PutDepth

LEMMA IdsArePositive == Ids \subseteq Nat \ {0}
<1> SUFFICES ASSUME NEW id \in Ids PROVE id \in Nat \ {0}
  OBVIOUS
<1>1. PICK s \in Range(Styles) : id \in s.ids
  BY DEF Ids
<1> QED BY <1>1, StylesAssumption

LEMMA StepReadMoof ==
  ASSUME BoxesInv, NEW size, NEW large, ReadMoof(size, large)
  PROVE  BoxesInv' /\ NestedStep
<1>1. StackInv /\ MovieInv /\ ListOK /\ TrakOK /\ "moof" \in Types
  BY DEF BoxesInv, MovieInv, Types, PlaceOf
<1>2. UNCHANGED <<movie, found_moov, found_mdat>>
  BY DEF ReadMoof
<1>3. PICK ret \in BOOLEAN :
        PutOn(Box("moof", size), ret) /\ pc = "walk" /\ Top.type = "root"
  <2>1. CASE size = 0
    <3>1. InPlace("moof") /\ Handled("moof", size, large, 0)
      BY <2>1 DEF ReadMoof
    <3>2. Fits(Top.type, "moof") /\ Top.type = "root"
      BY <3>1 DEF InPlace, Fits, PlaceOf
    <3>3. PutOn(Box("moof", size), TRUE) /\ pc = "walk"
      BY <3>1, <3>2, <1>1, HandledPuts
    <3> QED BY <3>2, <3>3
  <2>2. CASE size # 0
    <3>1. Entered("moof", size, large)
      BY <2>2 DEF ReadMoof
    <3>2. PutOn(Box("moof", size), FALSE) /\ pc = "walk" /\ Top.type = PlaceOf["moof"]
      BY <3>1, <1>1, EnteredPuts
    <3> QED BY <3>2 DEF PlaceOf
  <2> QED BY <2>1, <2>2
<1> DEFINE box == Box("moof", size)
<1> HIDE DEF box
<1>4. PutOn(box, ret)
  BY <1>3 DEF box
<1>5. Len(stack) = 1
  BY <1>1, <1>3, FirstLevels
<1>6. pc' = "walk" /\ ~InTrak(stack) /\ ~InTrak(stack') /\ ~InTraf(stack') /\ ~InTraf(stack)
  BY <1>1, <1>4, <1>5, PutThird
<1>7. SameTracks
  BY <1>1, <1>2, SameMovie
<1>8. Stays
  BY <1>3, <1>6 DEF Stays
<1>9. MovieInv'
  <2>1. ListOK' /\ TrakOK'
    BY <1>1, <1>7, <1>8, SameList, SameTrak
  <2>2. ~InTraf(stack)'
    BY <1>6 DEF InTraf
  <2> QED BY <2>1, <2>2 DEF MovieInv
<1>10. StackInv'
  <2>1. found_moov' \in BOOLEAN /\ found_mdat' \in BOOLEAN /\ Len(stack) <= 6
    BY <1>1, <1>2, <1>5 DEF StackInv
  <2> QED BY <2>1, <1>1, <1>4, PutOnKeeps
<1>11. NestedStep
  BY <1>1, <1>4, PutNested
<1> QED BY <1>9, <1>10, <1>11 DEF BoxesInv

LEMMA EmptyList ==
  ASSUME tracks' = <<>>, heap' = <<>>, trexes' = [id \in Ids |-> 0]
  PROVE  ListOK' /\ DOMAIN heap' = {}
<1>1. DOMAIN heap' = {} /\ DOMAIN tracks' = {}
  OBVIOUS
<1>2. tracks' \in Seq(Objects) /\ heap' \in [DOMAIN heap' -> TrackRecords]
  OBVIOUS
<1>3. Range(tracks') = DOMAIN heap'
  BY <1>1 DEF Range
<1>4. trexes' \in [Ids -> Nat]
  OBVIOUS
<1> QED BY <1>1, <1>2, <1>3, <1>4 DEF ListOK

LEMMA StepReadMoov ==
  ASSUME BoxesInv, NEW size, NEW large, ReadMoov(size, large)
  PROVE  BoxesInv' /\ NestedStep
<1>1. StackInv /\ "moov" \in Types
  BY DEF BoxesInv, Types, PlaceOf
<1>2. /\ Entered("moov", size, large) /\ found_moov' = TRUE
      /\ tracks' = <<>> /\ heap' = <<>> /\ trexes' = [id \in Ids |-> 0]
      /\ UNCHANGED <<track, found, traf, found_mdat>>
  BY DEF ReadMoov
<1> DEFINE box == Box("moov", size)  ret == FALSE
<1>3. PutOn(box, ret) /\ pc = "walk" /\ Top.type = "root"
  BY <1>1, <1>2, EnteredPuts DEF PlaceOf
<1> HIDE DEF box, ret
<1>4. Len(stack) = 1
  BY <1>1, <1>3, FirstLevels
<1>5. pc' = "walk" /\ ~InTrak(stack') /\ ~InTraf(stack')
  BY <1>1, <1>3, <1>4, PutThird
<1>6. ListOK' /\ DOMAIN heap' = {}
  BY <1>2, EmptyList
<1>7. TrakOK'
  BY <1>5, <1>6 DEF TrakOK
<1>8. MovieInv'
  <2>1. ~InTraf(stack)'
    BY <1>5 DEF InTraf
  <2> QED BY <2>1, <1>6, <1>7 DEF MovieInv
<1>9. StackInv'
  <2>1. found_moov' \in BOOLEAN /\ found_mdat' \in BOOLEAN /\ Len(stack) <= 6
    BY <1>1, <1>2, <1>4 DEF StackInv
  <2> QED BY <2>1, <1>1, <1>3, PutOnKeeps
<1>10. NestedStep
  BY <1>1, <1>3, PutNested
<1> QED BY <1>8, <1>9, <1>10 DEF BoxesInv

(* A track is put at the end of the list. *)
LEMMA ListGrows ==
  ASSUME ListOK, NEW o \in Objects, o \notin DOMAIN heap, NEW r \in TrackRecords,
         \A x \in DOMAIN heap : heap[x].id # r.id,
         heap' = With(heap, o, r), tracks' = Append(tracks, o),
         trexes' \in [Ids -> Nat],
         \A id \in Ids : id # r.id => trexes'[id] = trexes[id],
         r.default = IF r.id = 0 THEN 0 ELSE trexes'[r.id]
  PROVE  /\ ListOK' /\ DOMAIN heap' = DOMAIN heap \union {o} /\ heap'[o] = r
         /\ \A x \in DOMAIN heap : heap'[x] = heap[x]
         /\ tracks' # <<>> /\ tracks'[Len(tracks')] = o
<1>1. /\ DOMAIN heap' = DOMAIN heap \union {o} /\ heap'[o] = r
      /\ \A x \in DOMAIN heap : heap'[x] = heap[x]
  BY DEF With
<1>2. heap' \in [DOMAIN heap' -> TrackRecords]
  <2>1. heap' = [x \in DOMAIN heap \union {o} |-> IF x = o THEN r ELSE heap[x]]
    BY DEF With
  <2>2. \A x \in DOMAIN heap \union {o} : (IF x = o THEN r ELSE heap[x]) \in TrackRecords
    BY ListFacts
  <2> QED BY <2>1, <2>2
<1> DEFINE n == Len(tracks)
<1>3. n \in Nat /\ tracks \in Seq(Objects) /\ \A i \in 1..n : tracks[i] \in DOMAIN heap
  BY ListFacts DEF ListOK
<1> HIDE DEF n
<1>4. /\ tracks' \in Seq(Objects) /\ Len(tracks') = n + 1 /\ tracks'[n + 1] = o
      /\ \A i \in 1..n : tracks'[i] = tracks[i]
  BY <1>3, AppendProperties DEF n
<1>5. DOMAIN tracks' = 1..n + 1
  BY <1>4, LenProperties
<1>6. \A i \in 1..n + 1 : i \in 1..n \/ i = n + 1
  BY <1>3
<1>7. Range(tracks') = DOMAIN heap'
  <2>1. \A x \in DOMAIN heap' : \E i \in DOMAIN tracks' : tracks'[i] = x
    <3> SUFFICES ASSUME NEW x \in DOMAIN heap' PROVE \E i \in DOMAIN tracks' : tracks'[i] = x
      OBVIOUS
    <3>1. CASE x = o
      <4>1. n + 1 \in DOMAIN tracks'
        BY <1>3, <1>5
      <4> QED BY <3>1, <4>1, <1>4
    <3>2. CASE x \in DOMAIN heap
      <4>1. PICK i \in 1..n : tracks[i] = x
        BY <3>2, ListFacts DEF n
      <4>2. i \in DOMAIN tracks'
        BY <1>3, <1>5
      <4> QED BY <4>1, <4>2, <1>4
    <3> QED BY <3>1, <3>2, <1>1
  <2>2. \A i \in DOMAIN tracks' : tracks'[i] \in DOMAIN heap'
    BY <1>1, <1>3, <1>4, <1>5, <1>6
  <2>3. \A x : x \in Range(tracks') <=> \E i \in DOMAIN tracks' : tracks'[i] = x
    BY DEF Range
  <2>4. \A x : x \in Range(tracks') <=> x \in DOMAIN heap'
    BY <2>1, <2>2, <2>3
  <2> QED BY <2>4
<1>8. \A i, j \in DOMAIN tracks' : heap'[tracks'[i]].id = heap'[tracks'[j]].id => i = j
  <2> SUFFICES ASSUME NEW i \in 1..n + 1, NEW j \in 1..n + 1,
                      heap'[tracks'[i]].id = heap'[tracks'[j]].id
               PROVE  i = j
    BY <1>5
  <2>1. \A k \in 1..n : heap'[tracks'[k]].id = heap[tracks[k]].id /\ heap[tracks[k]].id # r.id
    BY <1>1, <1>3, <1>4
  <2>2. heap'[tracks'[n + 1]].id = r.id
    BY <1>1, <1>4
  <2>3. CASE i \in 1..n /\ j \in 1..n
    BY <2>1, <2>3, ListFacts DEF n
  <2>4. CASE i = n + 1 /\ j = n + 1
    BY <2>4
  <2>5. CASE i \in 1..n /\ j = n + 1
    BY <2>1, <2>2, <2>5
  <2>6. CASE i = n + 1 /\ j \in 1..n
    BY <2>1, <2>2, <2>6
  <2> QED BY <2>3, <2>4, <2>5, <2>6, <1>6
<1>9. \A x \in DOMAIN heap' : heap'[x].default = IF heap'[x].id = 0 THEN 0 ELSE trexes'[heap'[x].id]
  <2> SUFFICES ASSUME NEW x \in DOMAIN heap'
               PROVE  heap'[x].default = IF heap'[x].id = 0 THEN 0 ELSE trexes'[heap'[x].id]
    OBVIOUS
  <2>1. CASE x = o
    BY <2>1, <1>1
  <2>2. CASE x \in DOMAIN heap
    <3>1. heap[x].default = IF heap[x].id = 0 THEN 0 ELSE trexes[heap[x].id]
      BY <2>2 DEF ListOK
    <3>2. heap[x].id \in Ids \union {0} /\ heap[x].id # r.id
      BY <2>2, ListFacts DEF TrackRecords
    <3>3. heap[x].id # 0 => trexes'[heap[x].id] = trexes[heap[x].id]
      BY <3>2
    <3> QED BY <2>2, <3>1, <3>3, <1>1
  <2> QED BY <2>1, <2>2, <1>1
<1>10. \A id \in Ids : (\A x \in DOMAIN heap' : heap'[x].id # id) => trexes'[id] = 0
  <2> SUFFICES ASSUME NEW id \in Ids, \A x \in DOMAIN heap' : heap'[x].id # id PROVE trexes'[id] = 0
    OBVIOUS
  <2>1. id # r.id
    BY <1>1
  <2>2. \A x \in DOMAIN heap : heap[x].id # id
    BY <1>1
  <2> QED BY <2>1, <2>2 DEF ListOK
<1>11. tracks' # <<>> /\ tracks'[Len(tracks')] = o
  <2>1. Len(tracks') # 0
    BY <1>3, <1>4
  <2> QED BY <2>1, <1>4
<1> QED BY <1>1, <1>2, <1>4, <1>7, <1>8, <1>9, <1>10, <1>11 DEF ListOK

LEMMA FreeIsFree ==
  ASSUME Objects \ DOMAIN heap # {}
  PROVE  Free \in Objects /\ Free \notin DOMAIN heap
<1>1. Objects \ DOMAIN heap \subseteq Nat
  BY ObjectsAssumption
<1>2. Min(Objects \ DOMAIN heap) \in Objects \ DOMAIN heap
  BY <1>1, Smallest
<1> QED BY <1>2 DEF Free

LEMMA StepReadTrak ==
  ASSUME BoxesInv, NEW size, NEW large, ReadTrak(size, large)
  PROVE  BoxesInv' /\ NestedStep
<1>1. StackInv /\ ListOK /\ TrakOK /\ "trak" \in Types
  BY DEF BoxesInv, MovieInv, Types, PlaceOf
<1>2. /\ Entered("trak", size, large) /\ Objects \ DOMAIN heap # {}
      /\ track' = Free /\ heap' = With(heap, Free, NewTrack(0, 0)) /\ tracks' = Append(tracks, Free)
      /\ found' = {} /\ UNCHANGED <<trexes, flags>>
  BY DEF ReadTrak
<1> DEFINE box == Box("trak", size)  ret == FALSE  o == Free  r == NewTrack(0, 0)
<1>3. PutOn(box, ret) /\ box.type = "trak" /\ pc = "walk" /\ Top.type = "moov"
  BY <1>1, <1>2, EnteredPuts DEF PlaceOf
<1>4. ~ret
  OBVIOUS
<1>5. o \in Objects /\ o \notin DOMAIN heap
  BY <1>2, FreeIsFree
<1>6. r \in TrackRecords /\ r.id = 0 /\ r.default = 0
  BY DEF NewTrack, TrackRecords, CodecNames
<1>7. track' = o /\ heap' = With(heap, o, r) /\ tracks' = Append(tracks, o)
  BY <1>2
<1> HIDE DEF box, ret, o, r
<1>8. Len(stack) = 2
  BY <1>1, <1>3, FirstLevels
<1>9. pc' = "walk" /\ ~InTrak(stack) /\ InTrak(stack') /\ ~InTraf(stack')
  <2>1. ~InTrak(stack) /\ InTrak(stack')
    BY <1>1, <1>3, <1>4, <1>8, PutThird
  <2>2. InTraf(stack') <=> box.type = "traf"
    BY <1>1, <1>3, <1>8, PutThird
  <2>3. pc' = "walk"
    BY <1>1, <1>3, PutThird
  <2> QED BY <2>1, <2>2, <2>3, <1>3
<1>10. \A x \in DOMAIN heap : heap[x].id # r.id
  BY <1>1, <1>3, <1>6, <1>9 DEF TrakOK
<1>11. /\ ListOK' /\ DOMAIN heap' = DOMAIN heap \union {o} /\ heap'[o] = r
       /\ \A x \in DOMAIN heap : heap'[x] = heap[x]
       /\ tracks' # <<>> /\ tracks'[Len(tracks')] = o
  <2>1. trexes' \in [Ids -> Nat] /\ \A id \in Ids : id # r.id => trexes'[id] = trexes[id]
    BY <1>1, <1>2 DEF ListOK
  <2>2. r.default = IF r.id = 0 THEN 0 ELSE trexes'[r.id]
    BY <1>6
  <2> QED BY <2>1, <2>2, <1>1, <1>5, <1>6, <1>7, <1>10, ListGrows
<1>12. TrakOK'
  <2>1. track' \in DOMAIN heap' /\ heap'[track'].id = 0 /\ "tkhd" \notin found'
    BY <1>2, <1>6, <1>7, <1>11
  <2>2. tracks' # <<>> /\ track' = tracks'[Len(tracks')]
    BY <1>7, <1>11
  <2>3. \A x \in DOMAIN heap' : heap'[x].id = 0 => x = track'
    BY <1>6, <1>7, <1>10, <1>11
  <2>4. InTrak(stack)'
    BY <1>9 DEF InTrak
  <2> QED BY <2>1, <2>2, <2>3, <2>4 DEF TrakOK
<1>13. MovieInv'
  <2>1. ~InTraf(stack)'
    BY <1>9 DEF InTraf
  <2> QED BY <2>1, <1>11, <1>12 DEF MovieInv
<1>14. StackInv'
  <2>1. found_moov' \in BOOLEAN /\ found_mdat' \in BOOLEAN /\ Len(stack) <= 6
    BY <1>1, <1>2, <1>8 DEF StackInv, flags
  <2> QED BY <2>1, <1>1, <1>3, PutOnKeeps
<1>15. NestedStep
  BY <1>1, <1>3, PutNested
<1> QED BY <1>13, <1>14, <1>15 DEF BoxesInv

LEMMA StepReadTraf ==
  ASSUME BoxesInv, NEW size, NEW large, ReadTraf(size, large)
  PROVE  BoxesInv' /\ NestedStep
<1>1. StackInv /\ ListOK /\ TrakOK /\ "traf" \in Types
  BY DEF BoxesInv, MovieInv, Types, PlaceOf
<1>2. /\ Entered("traf", size, large) /\ traf' = NoTraf /\ found' = {}
      /\ UNCHANGED <<tracks, heap, track, trexes, found_moov, found_mdat>>
  BY DEF ReadTraf
<1> DEFINE box == Box("traf", size)  ret == FALSE
<1>3. PutOn(box, ret) /\ box.type = "traf" /\ pc = "walk" /\ Top.type = "moof"
  BY <1>1, <1>2, EnteredPuts DEF PlaceOf
<1> HIDE DEF box, ret
<1>4. Len(stack) = 2
  BY <1>1, <1>3, FirstLevels
<1>5. pc' = "walk" /\ ~InTrak(stack) /\ ~InTrak(stack')
  <2>1. InTrak(stack') => box.type = "trak"
    BY <1>1, <1>3, <1>4, PutThird
  <2>2. pc' = "walk" /\ ~InTrak(stack)
    BY <1>1, <1>3, <1>4, PutThird
  <2> QED BY <2>1, <2>2, <1>3
<1>6. ListOK'
  BY <1>1, <1>2 DEF ListOK
<1>7. TrakOK'
  <2>1. \A o \in DOMAIN heap : heap[o].id # 0
    BY <1>1, <1>3, <1>5 DEF TrakOK
  <2>2. ~InTrak(stack)'
    BY <1>5 DEF InTrak
  <2> QED BY <2>1, <2>2, <1>2 DEF TrakOK
<1>8. TrafOK'
  BY <1>2 DEF TrafOK, NoTraf
<1>9. StackInv'
  <2>1. found_moov' \in BOOLEAN /\ found_mdat' \in BOOLEAN /\ Len(stack) <= 6
    BY <1>1, <1>2, <1>4 DEF StackInv
  <2> QED BY <2>1, <1>1, <1>3, PutOnKeeps
<1>10. NestedStep
  BY <1>1, <1>3, PutNested
<1> QED BY <1>6, <1>7, <1>8, <1>9, <1>10 DEF BoxesInv, MovieInv

(* The first of the tracks with an id in a list. *)
LEMMA FirstWithId ==
  ASSUME NEW s, NEW n \in Nat, DOMAIN s = 1..n, NEW id, WithId(s, id) # {}
  PROVE  LET i == Min(WithId(s, id)) IN i \in 1..n /\ heap[s[i]].id = id
<1> DEFINE S == WithId(s, id)
<1>1. S \subseteq 1..n
  BY DEF WithId
<1>2. S \subseteq Nat
  BY <1>1
<1>3. \A i \in S : heap[s[i]].id = id
  BY DEF WithId
<1>4. S # {}
  OBVIOUS
<1> HIDE DEF S
<1>5. Min(S) \in S
  BY <1>2, <1>4, Smallest
<1> QED BY <1>1, <1>3, <1>5 DEF S

LEMMA StepReadTfhd ==
  ASSUME BoxesInv, NEW size, NEW large, NEW id, id \in File.ids, NEW own \in {0, 1},
         ReadTfhd(size, large, id, own)
  PROVE  BoxesInv' /\ NestedStep
<1> DEFINE n == IF "tfhd" \in found THEN 0 ELSE BODY
           known == WithId(tracks, id)
           new == [id |-> id, own |-> own # 0,
                   index |-> IF known = {} THEN 0 ELSE Min(known) - 1,
                   default |-> IF own # 0 \/ known = {} THEN own
                               ELSE heap[tracks[Min(known)]].default]
<1>1. StackInv /\ MovieInv /\ ListOK /\ TrakOK /\ "tfhd" \in Types /\ n \in Nat
  BY Lengths DEF BoxesInv, MovieInv, Types, PlaceOf
<1>2. /\ InPlace("tfhd") /\ Handled("tfhd", size, large, n)
      /\ found' = found \cup {"tfhd"}
      /\ traf' = (IF "tfhd" \in found THEN traf ELSE new)
      /\ UNCHANGED <<tracks, heap, track, trexes, found_moov, found_mdat>>
  BY DEF ReadTfhd
<1>3. Fits(Top.type, "tfhd") /\ Top.type = "traf"
  BY <1>2 DEF InPlace, Fits, PlaceOf
<1> HIDE DEF n, new
<1> DEFINE box == Box("tfhd", size)  ret == TRUE
<1>4. PutOn(box, ret) /\ pc = "walk"
  BY <1>1, <1>2, <1>3, HandledPuts
<1> HIDE DEF box, ret
<1>5. Len(stack) = 3
  BY <1>1, <1>3, <1>4, FirstLevels
<1>6. pc' = "walk" /\ (InTrak(stack') <=> InTrak(stack)) /\ (InTraf(stack') <=> InTraf(stack))
  BY <1>1, <1>4, <1>5, PutThird
<1>7. InTraf(stack)
  BY <1>1, <1>3, <1>4, <1>5, TopFacts DEF InTraf
<1>8. SameTracks
  <2>1. "tkhd" \in found' <=> "tkhd" \in found
    BY <1>2
  <2> QED BY <2>1, <1>1, <1>2 DEF SameTracks, ListOK
<1>9. ListOK' /\ TrakOK'
  <2>1. Stays
    BY <1>4, <1>6 DEF Stays
  <2> QED BY <2>1, <1>1, <1>8, SameList, SameTrak
<1>10. TrafOK'
  <2>1. CASE "tfhd" \in found
    <3>1. traf' = traf /\ TrafOK
      BY <2>1, <1>1, <1>2, <1>7 DEF MovieInv
    <3> QED BY <3>1, <1>1, <1>8, SameTraf
  <2>2. CASE "tfhd" \notin found
    <3>1. traf' = new
      BY <2>2, <1>2
    <3>2. new.id = id
      BY DEF new
    <3>3. WithId(tracks, traf.id)' = known
      BY <3>1, <3>2, <1>2 DEF WithId
    <3>4. ASSUME known # {}
          PROVE  /\ ~new.own => new.default = trexes[id]
                 /\ new.index + 1 \in DOMAIN tracks
                 /\ heap[tracks[new.index + 1]].id = id
      <4> DEFINE i == Min(known)
      <4>1. i \in 1..Len(tracks) /\ heap[tracks[i]].id = id
        BY <3>4, <1>1, ListFacts, FirstWithId
      <4>2. tracks[i] \in DOMAIN heap /\ DOMAIN tracks = 1..Len(tracks) /\ Len(tracks) \in Nat
        BY <4>1, <1>1, ListFacts
      <4>3. id # 0
        BY <1>1, FileFacts DEF StackInv
      <4>4. heap[tracks[i]].default = trexes[id]
        BY <4>1, <4>2, <4>3, <1>1 DEF ListOK
      <4>5. new.index = i - 1 /\ (own = 0 => new.default = heap[tracks[i]].default)
        BY <3>4 DEF new
      <4>6. ~new.own => own = 0
        BY DEF new
      <4> HIDE DEF i
      <4>7. new.index + 1 = i
        BY <4>1, <4>2, <4>5
      <4> QED BY <4>1, <4>2, <4>4, <4>5, <4>6, <4>7
    <3> QED BY <3>1, <3>2, <3>3, <3>4, <1>2 DEF TrafOK
  <2> QED BY <2>1, <2>2
<1>11. StackInv'
  <2>1. found_moov' \in BOOLEAN /\ found_mdat' \in BOOLEAN /\ Len(stack) <= 6
    BY <1>1, <1>2, <1>5 DEF StackInv
  <2> QED BY <2>1, <1>1, <1>4, PutOnKeeps
<1>12. NestedStep
  BY <1>1, <1>4, PutNested
<1> QED BY <1>9, <1>10, <1>11, <1>12 DEF BoxesInv, MovieInv

(* A trex changes the defaults of the one track that has its id. *)
LEMMA DefaultChanges ==
  ASSUME ListOK, NEW x \in DOMAIN heap, NEW id \in Ids, heap[x].id = id, NEW default \in Nat,
         heap' = [heap EXCEPT ![x].default = default], tracks' = tracks,
         trexes' = [trexes EXCEPT ![id] = default]
  PROVE  /\ ListOK' /\ DOMAIN heap' = DOMAIN heap
         /\ \A o \in DOMAIN heap : heap'[o].id = heap[o].id
<1>1. heap \in [DOMAIN heap -> TrackRecords] /\ trexes \in [Ids -> Nat] /\ heap[x] \in TrackRecords
  BY ListFacts DEF ListOK
<1> DEFINE r == [heap[x] EXCEPT !.default = default]
<1>2. r \in TrackRecords /\ r.id = id /\ r.default = default
  BY <1>1 DEF TrackRecords
<1>3. heap' = [heap EXCEPT ![x] = r]
  OBVIOUS
<1> HIDE DEF r
<1>4. /\ DOMAIN heap' = DOMAIN heap /\ heap' \in [DOMAIN heap' -> TrackRecords] /\ heap'[x] = r
      /\ \A o \in DOMAIN heap : o # x => heap'[o] = heap[o]
  BY <1>1, <1>2, <1>3
<1>5. \A o \in DOMAIN heap : heap'[o].id = heap[o].id
  BY <1>2, <1>4
<1>6. trexes' \in [Ids -> Nat] /\ trexes'[id] = default /\ \A y \in Ids : y # id => trexes'[y] = trexes[y]
  BY <1>1
<1>7. tracks' \in Seq(Objects) /\ Range(tracks') = DOMAIN heap'
  BY <1>4 DEF ListOK
<1>8. \A i, j \in DOMAIN tracks' : heap'[tracks'[i]].id = heap'[tracks'[j]].id => i = j
  BY <1>5, ListFacts
<1>9. \A o \in DOMAIN heap' : heap'[o].default = IF heap'[o].id = 0 THEN 0 ELSE trexes'[heap'[o].id]
  <2> SUFFICES ASSUME NEW o \in DOMAIN heap
               PROVE  heap'[o].default = IF heap'[o].id = 0 THEN 0 ELSE trexes'[heap'[o].id]
    BY <1>4
  <2>1. CASE o = x
    <3>1. id # 0
      BY IdsArePositive
    <3> QED BY <2>1, <3>1, <1>2, <1>4, <1>6
  <2>2. CASE o # x
    <3>1. heap[o].default = IF heap[o].id = 0 THEN 0 ELSE trexes[heap[o].id]
      BY DEF ListOK
    <3>2. heap[o].id # id /\ heap[o].id \in Ids \union {0}
      BY <2>2, ListFacts DEF TrackRecords
    <3>3. heap[o].id # 0 => trexes'[heap[o].id] = trexes[heap[o].id]
      BY <3>2, <1>6
    <3> QED BY <2>2, <3>1, <3>3, <1>4
  <2> QED BY <2>1, <2>2
<1>10. \A y \in Ids : (\A o \in DOMAIN heap' : heap'[o].id # y) => trexes'[y] = 0
  <2> SUFFICES ASSUME NEW y \in Ids, \A o \in DOMAIN heap' : heap'[o].id # y PROVE trexes'[y] = 0
    OBVIOUS
  <2>1. \A o \in DOMAIN heap : heap[o].id # y
    BY <1>4, <1>5
  <2>2. y # id
    BY <2>1
  <2> QED BY <2>1, <2>2, <1>6 DEF ListOK
<1> QED BY <1>4, <1>5, <1>6, <1>7, <1>8, <1>9, <1>10 DEF ListOK

LEMMA StepReadTrex ==
  ASSUME BoxesInv, NEW size, NEW large, NEW id, id \in File.ids, NEW default, default \in File.defaults,
         ReadTrex(size, large, id, default)
  PROVE  BoxesInv' /\ NestedStep
<1>1. StackInv /\ ListOK /\ TrakOK /\ "trex" \in Types /\ BODY \in Nat
  BY Lengths DEF BoxesInv, MovieInv, Types, PlaceOf
<1>2. /\ InPlace("trex") /\ Handled("trex", size, large, BODY)
      /\ trexes' = [trexes EXCEPT ![id] = default]
      /\ UNCHANGED <<track, found, flags>>
  BY DEF ReadTrex
<1>3. id \in Ids /\ id # 0 /\ default \in Nat
  BY <1>1, FileFacts DEF StackInv
<1>4. Fits(Top.type, "trex") /\ Top.type = "mvex"
  BY <1>2 DEF InPlace, Fits, PlaceOf
<1> DEFINE box == Box("trex", size)  ret == TRUE
<1>5. PutOn(box, ret) /\ pc = "walk"
  BY <1>1, <1>2, <1>4, HandledPuts
<1> HIDE DEF box, ret
<1>6. Len(stack) = 3
  BY <1>1, <1>4, <1>5, FirstLevels
<1>7. pc' = "walk" /\ (InTrak(stack') <=> InTrak(stack)) /\ (InTraf(stack') <=> InTraf(stack))
  BY <1>1, <1>5, <1>6, PutThird
<1>8. ~InTrak(stack) /\ ~InTraf(stack)
  BY <1>1, <1>4, <1>5, <1>6, TopFacts DEF InTrak, InTraf
<1>9. \A o \in DOMAIN heap : heap[o].id # 0
  BY <1>1, <1>5, <1>8 DEF TrakOK
<1>10. ListOK' /\ \A o \in DOMAIN heap' : heap'[o].id # 0
  <2>1. CASE TrexTarget(id) # {}
    <3> DEFINE i == Min(TrexTarget(id))  x == tracks[i]
    <3>1. heap' = [heap EXCEPT ![x].default = default] /\ tracks' = tracks
      BY <2>1 DEF ReadTrex
    <3>2. i \in 1..Len(tracks) /\ heap[x].id = id
      BY <2>1, <1>1, ListFacts, FirstWithId DEF TrexTarget
    <3>3. x \in DOMAIN heap
      BY <3>2, <1>1, ListFacts
    <3> HIDE DEF x
    <3>4. /\ ListOK' /\ DOMAIN heap' = DOMAIN heap
          /\ \A o \in DOMAIN heap : heap'[o].id = heap[o].id
      BY <3>1, <3>2, <3>3, <1>1, <1>2, <1>3, DefaultChanges
    <3> QED BY <3>4, <1>9
  <2>2. CASE TrexTarget(id) = {}
    <3> DEFINE o == Free  r == NewTrack(id, default)
    <3>1. Objects \ DOMAIN heap # {} /\ heap' = With(heap, o, r) /\ tracks' = Append(tracks, o)
      BY <2>2 DEF ReadTrex
    <3>2. o \in Objects /\ o \notin DOMAIN heap
      BY <3>1, FreeIsFree
    <3>3. r \in TrackRecords /\ r.id = id /\ r.default = default
      BY <1>3 DEF NewTrack, TrackRecords, CodecNames
    <3>4. \A x \in DOMAIN heap : heap[x].id # id
      <4> SUFFICES ASSUME NEW x \in DOMAIN heap, heap[x].id = id PROVE FALSE
        OBVIOUS
      <4>1. PICK i \in 1..Len(tracks) : tracks[i] = x
        BY <1>1, ListFacts
      <4>2. i \in TrexTarget(id)
        BY <4>1, <1>1, ListFacts DEF TrexTarget, WithId
      <4> QED BY <4>2, <2>2
    <3> HIDE DEF o, r
    <3>5. trexes \in [Ids -> Nat]
      BY <1>1 DEF ListOK
    <3>6. /\ trexes' \in [Ids -> Nat] /\ trexes'[id] = default
          /\ \A y \in Ids : y # id => trexes'[y] = trexes[y]
      BY <3>5, <1>2, <1>3
    <3>7. r.default = IF r.id = 0 THEN 0 ELSE trexes'[r.id]
      BY <3>3, <3>6, <1>3
    <3>8. /\ ListOK' /\ DOMAIN heap' = DOMAIN heap \union {o} /\ heap'[o] = r
          /\ \A x \in DOMAIN heap : heap'[x] = heap[x]
      BY <3>1, <3>2, <3>3, <3>4, <3>6, <3>7, <1>1, ListGrows
    <3> QED BY <3>3, <3>8, <1>3, <1>9
  <2> QED BY <2>1, <2>2
<1>11. TrakOK'
  <2>1. ~InTrak(stack)'
    BY <1>7, <1>8 DEF InTrak
  <2> QED BY <2>1, <1>10 DEF TrakOK
<1>12. MovieInv'
  <2>1. ~InTraf(stack)'
    BY <1>7, <1>8 DEF InTraf
  <2> QED BY <2>1, <1>10, <1>11 DEF MovieInv
<1>13. StackInv'
  <2>1. found_moov' \in BOOLEAN /\ found_mdat' \in BOOLEAN /\ Len(stack) <= 6
    BY <1>1, <1>2, <1>6 DEF StackInv, flags
  <2> QED BY <2>1, <1>1, <1>5, PutOnKeeps
<1>14. NestedStep
  BY <1>1, <1>5, PutNested
<1> QED BY <1>12, <1>13, <1>14 DEF BoxesInv

(* The track of a trak gets an id that no other track has. *)
LEMMA IdGiven ==
  ASSUME ListOK, NEW x \in DOMAIN heap, heap[x].id = 0, NEW id \in Ids,
         \A o \in DOMAIN heap : heap[o].id # id,
         heap' = [heap EXCEPT ![x].id = id], tracks' = tracks, trexes' = trexes
  PROVE  /\ ListOK' /\ DOMAIN heap' = DOMAIN heap /\ heap'[x].id = id
         /\ \A o \in DOMAIN heap : o # x => heap'[o] = heap[o]
<1>1. heap \in [DOMAIN heap -> TrackRecords] /\ heap[x] \in TrackRecords
  BY ListFacts DEF ListOK
<1> DEFINE r == [heap[x] EXCEPT !.id = id]
<1>2. r \in TrackRecords /\ r.id = id /\ r.default = heap[x].default
  BY <1>1 DEF TrackRecords
<1>3. heap' = [heap EXCEPT ![x] = r]
  OBVIOUS
<1> HIDE DEF r
<1>4. /\ DOMAIN heap' = DOMAIN heap /\ heap' \in [DOMAIN heap' -> TrackRecords] /\ heap'[x] = r
      /\ \A o \in DOMAIN heap : o # x => heap'[o] = heap[o]
  BY <1>1, <1>2, <1>3
<1>5. tracks' \in Seq(Objects) /\ Range(tracks') = DOMAIN heap' /\ trexes' \in [Ids -> Nat]
  BY <1>4 DEF ListOK
<1>6. \A o, y \in DOMAIN heap : heap'[o].id = heap'[y].id => o = y
  <2> SUFFICES ASSUME NEW o \in DOMAIN heap, NEW y \in DOMAIN heap, heap'[o].id = heap'[y].id
               PROVE  o = y
    OBVIOUS
  <2>1. CASE o # x /\ y # x
    BY <2>1, <1>4, ListFacts
  <2>2. CASE o = x \/ y = x
    BY <2>2, <1>2, <1>4
  <2> QED BY <2>1, <2>2
<1>7. \A i, j \in DOMAIN tracks' : heap'[tracks'[i]].id = heap'[tracks'[j]].id => i = j
  <2> SUFFICES ASSUME NEW i \in 1..Len(tracks), NEW j \in 1..Len(tracks),
                      heap'[tracks[i]].id = heap'[tracks[j]].id
               PROVE  i = j
    BY ListFacts
  <2>1. tracks[i] = tracks[j]
    BY <1>6, ListFacts
  <2> QED BY <2>1, ListFacts
<1>8. \A o \in DOMAIN heap' : heap'[o].default = IF heap'[o].id = 0 THEN 0 ELSE trexes'[heap'[o].id]
  <2> SUFFICES ASSUME NEW o \in DOMAIN heap
               PROVE  heap'[o].default = IF heap'[o].id = 0 THEN 0 ELSE trexes'[heap'[o].id]
    BY <1>4
  <2>1. CASE o = x
    <3>1. heap[x].default = 0 /\ trexes[id] = 0
      BY DEF ListOK
    <3> QED BY <2>1, <3>1, <1>2, <1>4
  <2>2. CASE o # x
    BY <2>2, <1>4 DEF ListOK
  <2> QED BY <2>1, <2>2
<1>9. \A y \in Ids : (\A o \in DOMAIN heap' : heap'[o].id # y) => trexes'[y] = 0
  <2> SUFFICES ASSUME NEW y \in Ids, \A o \in DOMAIN heap' : heap'[o].id # y PROVE trexes'[y] = 0
    OBVIOUS
  <2>1. y # 0
    BY IdsArePositive
  <2>2. \A o \in DOMAIN heap : heap[o].id # y
    BY <2>1, <1>4
  <2> QED BY <2>2 DEF ListOK
<1> QED BY <1>2, <1>4, <1>5, <1>7, <1>8, <1>9 DEF ListOK

(* The last track takes the defaults of another one, of the same id, and   *)
(* its place.                                                              *)
HeapMerged(x, y, id) ==
  /\ DOMAIN heap' = DOMAIN heap \ {y} /\ heap' \in [DOMAIN heap' -> TrackRecords]
  /\ heap'[x].id = id /\ heap'[x].default = heap[y].default
  /\ \A o \in DOMAIN heap' : o # x => heap'[o] = heap[o]

MergedHeap(x, y, id) ==
  heap' = Without([heap EXCEPT ![x].id = id, ![x].default = heap[y].default], y)

ListMerged(n, i, x) ==
  /\ tracks' \in Seq(Objects) /\ Len(tracks') = n - 1 /\ DOMAIN tracks' = 1..n - 1
  /\ \A j \in 1..n - 1 : tracks'[j] = IF j = i THEN x ELSE tracks[j]

LEMMA HeapMerges ==
  ASSUME NEW x \in DOMAIN heap, NEW y \in DOMAIN heap, x # y, NEW id \in Ids,
         heap \in [DOMAIN heap -> TrackRecords],
         MergedHeap(x, y, id)
  PROVE  HeapMerged(x, y, id)
<1> DEFINE r == [heap[x] EXCEPT !.id = id, !.default = heap[y].default]
           h == [heap EXCEPT ![x] = r]
<1>1. heap[x] \in TrackRecords /\ heap[y] \in TrackRecords
  OBVIOUS
<1>2. r \in TrackRecords /\ r.id = id /\ r.default = heap[y].default
  BY <1>1 DEF TrackRecords
<1>3. heap' = Without(h, y)
  <2>1. [heap EXCEPT ![x].id = id, ![x].default = heap[y].default] = h
    BY <1>1 DEF TrackRecords
  <2> QED BY <2>1 DEF MergedHeap
<1> HIDE DEF r
<1>4. /\ h \in [DOMAIN heap -> TrackRecords] /\ DOMAIN h = DOMAIN heap /\ h[x] = r
      /\ \A o \in DOMAIN heap : o # x => h[o] = heap[o]
  BY <1>2
<1> HIDE DEF h
<1>5. heap' = [o \in DOMAIN h \ {y} |-> h[o]]
  BY <1>3 DEF Without, Restrict
<1>6. /\ DOMAIN heap' = DOMAIN heap \ {y} /\ heap' \in [DOMAIN heap' -> TrackRecords]
      /\ heap'[x] = r
      /\ \A o \in DOMAIN heap' : o # x => heap'[o] = heap[o]
  BY <1>4, <1>5
<1> QED BY <1>2, <1>6 DEF HeapMerged

LEMMA ListMerges ==
  ASSUME tracks \in Seq(Objects), NEW n \in Nat \ {0}, n = Len(tracks), NEW i \in 1..n - 1,
         NEW x \in Objects, tracks' = [Front(tracks) EXCEPT ![i] = x]
  PROVE  ListMerged(n, i, x)
<1> DEFINE f == SubSeq(tracks, 1, n - 1)  g == [f EXCEPT ![i] = x]
<1>1. Front(tracks) = f
  BY DEF Front
<1>2. \A j \in 1..n - 1 : tracks[j] \in Objects
  BY LenProperties, ElementOfSeq
<1>3. f \in Seq(Objects) /\ Len(f) = n - 1 /\ \A j \in 1..n - 1 : f[j] = tracks[j]
  BY <1>2, SubSeqProperties
<1>4. tracks' = g
  BY <1>1
<1> HIDE DEF f
<1>5. i \in 1..Len(f)
  BY <1>3
<1>6. g \in Seq(Objects) /\ Len(g) = Len(f) /\ \A j \in 1..Len(f) : g[j] = IF j = i THEN x ELSE f[j]
  BY <1>3, <1>5, ExceptSeq
<1> HIDE DEF g
<1>7. DOMAIN g = 1..Len(g)
  BY <1>6, LenProperties
<1> QED BY <1>3, <1>4, <1>6, <1>7 DEF ListMerged

LEMMA Merges ==
  ASSUME ListOK, NEW n, n = Len(tracks), n # 0, NEW x, x = tracks[n], heap[x].id = 0,
         NEW i \in 1..n - 1, NEW y, y = tracks[i], NEW id \in Ids, heap[y].id = id,
         HeapMerged(x, y, id), ListMerged(n, i, x), trexes' = trexes
  PROVE  ListOK' /\ x # y /\ x \in DOMAIN heap
<1>1. /\ n \in Nat \ {0} /\ n \in 1..n /\ DOMAIN tracks = 1..n /\ tracks \in Seq(Objects)
      /\ \A j \in 1..n : tracks[j] \in DOMAIN heap /\ tracks[j] \in Objects
      /\ heap \in [DOMAIN heap -> TrackRecords]
  BY ListFacts DEF ListOK
<1>2. i \in 1..n /\ i # n /\ \A j \in 1..n - 1 : j \in 1..n /\ j # n
  BY <1>1
<1>3. x \in DOMAIN heap /\ y \in DOMAIN heap /\ id # 0 /\ x # y
  BY <1>1, <1>2, IdsArePositive
<1>9. /\ DOMAIN heap' = DOMAIN heap \ {y} /\ heap' \in [DOMAIN heap' -> TrackRecords]
      /\ heap'[x].id = id /\ heap'[x].default = heap[y].default
      /\ \A o \in DOMAIN heap' : o # x => heap'[o] = heap[o]
  BY DEF HeapMerged
<1>13. /\ tracks' \in Seq(Objects) /\ Len(tracks') = n - 1 /\ DOMAIN tracks' = 1..n - 1
       /\ \A j \in 1..n - 1 : tracks'[j] = IF j = i THEN x ELSE tracks[j]
  BY DEF ListMerged
<1>14. \A j \in 1..n - 1 : j # i => tracks[j] # x /\ tracks[j] # y
  <2> SUFFICES ASSUME NEW j \in 1..n - 1, j # i PROVE tracks[j] # x /\ tracks[j] # y
    OBVIOUS
  <2>1. \A k \in 1..n : heap[tracks[j]].id = heap[tracks[k]].id => j = k
    BY <1>2, ListFacts
  <2> QED BY <2>1, <1>1, <1>2
<1>15. \A j \in 1..n - 1 : tracks'[j] \in DOMAIN heap' /\ heap'[tracks'[j]].id = heap[tracks[j]].id
  <2> SUFFICES ASSUME NEW j \in 1..n - 1
               PROVE  tracks'[j] \in DOMAIN heap' /\ heap'[tracks'[j]].id = heap[tracks[j]].id
    OBVIOUS
  <2>1. CASE j = i
    <3>1. tracks'[j] = x
      BY <2>1, <1>13
    <3> QED BY <2>1, <3>1, <1>3, <1>9
  <2>2. CASE j # i
    <3>1. tracks'[j] = tracks[j] /\ tracks[j] # x /\ tracks[j] # y /\ tracks[j] \in DOMAIN heap
      BY <2>2, <1>1, <1>2, <1>13, <1>14
    <3> QED BY <3>1, <1>9
  <2> QED BY <2>1, <2>2
<1>16. \A o \in DOMAIN heap' : \E j \in 1..n - 1 : tracks'[j] = o
  <2> SUFFICES ASSUME NEW o \in DOMAIN heap' PROVE \E j \in 1..n - 1 : tracks'[j] = o
    OBVIOUS
  <2>1. CASE o = x
    BY <2>1, <1>13
  <2>2. CASE o # x
    <3>1. o \in DOMAIN heap /\ o # y
      BY <1>9
    <3>2. PICK j \in 1..n : tracks[j] = o
      BY <3>1, ListFacts
    <3>3. j # n /\ j # i
      BY <2>2, <3>1, <3>2
    <3>4. j \in 1..n - 1
      BY <3>2, <3>3, <1>1
    <3>5. tracks'[j] = o
      BY <3>2, <3>3, <3>4, <1>13
    <3> QED BY <3>4, <3>5
  <2> QED BY <2>1, <2>2
<1>17. Range(tracks') = DOMAIN heap'
  <2>1. \A o : o \in Range(tracks') <=> \E j \in DOMAIN tracks' : tracks'[j] = o
    BY DEF Range
  <2>2. \A o \in DOMAIN heap' : o \in Range(tracks')
    BY <2>1, <1>13, <1>16
  <2>3. \A o \in Range(tracks') : o \in DOMAIN heap'
    BY <2>1, <1>13, <1>15
  <2> QED BY <2>2, <2>3
<1>18. \A j, k \in DOMAIN tracks' : heap'[tracks'[j]].id = heap'[tracks'[k]].id => j = k
  <2> SUFFICES ASSUME NEW j \in 1..n - 1, NEW k \in 1..n - 1,
                      heap'[tracks'[j]].id = heap'[tracks'[k]].id
               PROVE  j = k
    BY <1>13
  <2>1. heap[tracks[j]].id = heap[tracks[k]].id /\ j \in 1..Len(tracks) /\ k \in 1..Len(tracks)
    BY <1>2, <1>15
  <2> QED BY <2>1, ListFacts
<1>19. \A o \in DOMAIN heap' : heap'[o].default = IF heap'[o].id = 0 THEN 0 ELSE trexes'[heap'[o].id]
  <2> SUFFICES ASSUME NEW o \in DOMAIN heap'
               PROVE  heap'[o].default = IF heap'[o].id = 0 THEN 0 ELSE trexes'[heap'[o].id]
    OBVIOUS
  <2>1. CASE o = x
    <3>1. heap[y].default = trexes[id]
      BY <1>3 DEF ListOK
    <3> QED BY <2>1, <3>1, <1>3, <1>9
  <2>2. CASE o # x
    <3>1. o \in DOMAIN heap /\ heap'[o] = heap[o]
      BY <2>2, <1>9
    <3> QED BY <3>1 DEF ListOK
  <2> QED BY <2>1, <2>2
<1>20. \A z \in Ids : (\A o \in DOMAIN heap' : heap'[o].id # z) => trexes'[z] = 0
  <2> SUFFICES ASSUME NEW z \in Ids, \A o \in DOMAIN heap' : heap'[o].id # z PROVE trexes'[z] = 0
    OBVIOUS
  <2>1. z # 0 /\ z # id
    <3>1. heap'[x].id # z
      BY <1>3, <1>9
    <3> QED BY <3>1, <1>9, IdsArePositive
  <2>2. \A o \in DOMAIN heap : heap[o].id # z
    BY <2>1, <1>9
  <2> QED BY <2>2 DEF ListOK
<1>21. trexes' \in [Ids -> Nat]
  BY DEF ListOK
<1> QED BY <1>3, <1>9, <1>13, <1>17, <1>18, <1>19, <1>20, <1>21 DEF ListOK

LEMMA StepReadTkhd ==
  ASSUME BoxesInv, NEW size, NEW large, NEW id, id \in File.ids, ReadTkhd(size, large, id)
  PROVE  BoxesInv' /\ NestedStep
<1>1. StackInv /\ ListOK /\ TrakOK /\ "tkhd" \in Types /\ BODY \in Nat
  BY Lengths DEF BoxesInv, MovieInv, Types, PlaceOf
<1>2. /\ InPlace("tkhd") /\ Handled("tkhd", size, large, BODY) /\ "tkhd" \notin found
      /\ found' = found \cup {"tkhd"}
      /\ UNCHANGED <<track, trexes, flags>>
  BY DEF ReadTkhd, Twice, Required
<1>3. id \in Ids /\ id # 0
  BY <1>1, FileFacts DEF StackInv
<1>4. Fits(Top.type, "tkhd") /\ Top.type = "trak"
  BY <1>2 DEF InPlace, Fits, PlaceOf
<1> DEFINE box == Box("tkhd", size)  ret == TRUE
<1>5. PutOn(box, ret) /\ pc = "walk"
  BY <1>1, <1>2, <1>4, HandledPuts
<1> HIDE DEF box, ret
<1>6. Len(stack) = 3
  BY <1>1, <1>4, <1>5, FirstLevels
<1>7. pc' = "walk" /\ (InTrak(stack') <=> InTrak(stack)) /\ (InTraf(stack') <=> InTraf(stack))
  BY <1>1, <1>5, <1>6, PutThird
<1>8. InTrak(stack) /\ ~InTraf(stack)
  <2>1. ~Top.returned
    BY <1>5 DEF PutOn
  <2> QED BY <2>1, <1>1, <1>4, <1>5, <1>6, TopFacts DEF InTrak, InTraf
<1> DEFINE n == Len(tracks)
<1>9. /\ track \in DOMAIN heap /\ heap[track].id = 0 /\ tracks # <<>> /\ track = tracks[n]
      /\ \A o \in DOMAIN heap : heap[o].id = 0 => o = track
  BY <1>1, <1>2, <1>5, <1>8 DEF TrakOK
<1>10. n \in Nat \ {0} /\ tracks \in Seq(Objects) /\ DOMAIN tracks = 1..n /\ track \in Objects
  BY <1>1, <1>9, ListFacts, EmptySeq DEF ListOK
<1> DEFINE f == SubSeq(tracks, 1, n - 1)
<1>11. Front(tracks) = f
  BY DEF Front
<1>12. DOMAIN f = 1..n - 1 /\ n - 1 \in Nat /\ \A j \in 1..n - 1 : f[j] = tracks[j] /\ j \in 1..n
  <2>1. \A j \in 1..n - 1 : tracks[j] \in Objects
    BY <1>1, <1>10, ListFacts
  <2>2. f \in Seq(Objects) /\ Len(f) = n - 1 /\ \A j \in 1..n - 1 : f[j] = tracks[j]
    BY <2>1, <1>10, SubSeqProperties
  <2> QED BY <2>2, <1>10, LenProperties
<1> HIDE DEF f
<1>13. ListOK' /\ track \in DOMAIN heap' /\ heap'[track].id = id
       /\ \A o \in DOMAIN heap' : heap'[o].id # 0
  <2>1. CASE WithId(f, id) # {}
    <3> DEFINE i == Min(WithId(f, id))  y == tracks[i]
    <3>1. i \in 1..n - 1 /\ heap[f[i]].id = id
      BY <2>1, <1>12, FirstWithId
    <3>2. heap[y].id = id /\ y \in DOMAIN heap /\ y # track
      BY <3>1, <1>1, <1>3, <1>9, <1>12, ListFacts
    <3>3. Merged(id)
      BY <2>1, <1>11 DEF ReadTkhd
    <3>4. MergedHeap(track, y, id) /\ tracks' = [Front(tracks) EXCEPT ![i] = track]
      BY <3>3, <1>11 DEF Merged, MergedHeap
    <3> HIDE DEF i, y
    <3>5. HeapMerged(track, y, id)
      <4>1. heap \in [DOMAIN heap -> TrackRecords]
        BY <1>1 DEF ListOK
      <4>2. track \in DOMAIN heap /\ y \in DOMAIN heap /\ track # y /\ id \in Ids
        BY <3>2, <1>3, <1>9
      <4>3. MergedHeap(track, y, id)
        BY <3>4
      <4> QED BY <4>1, <4>2, <4>3, HeapMerges
    <3>6. ListMerged(n, i, track)
      <4>1. tracks' = [Front(tracks) EXCEPT ![i] = track]
        BY <3>4
      <4>2. tracks \in Seq(Objects) /\ n \in Nat \ {0} /\ i \in 1..n - 1 /\ track \in Objects
        BY <3>1, <1>10
      <4> QED BY <4>1, <4>2, ListMerges
    <3>7. ListOK'
      BY <3>1, <3>2, <3>5, <3>6, <1>1, <1>2, <1>3, <1>9, <1>10, Merges DEF y
    <3> QED BY <3>2, <3>5, <3>7, <1>3, <1>9 DEF HeapMerged
  <2>2. CASE WithId(f, id) = {}
    <3>1. heap' = [heap EXCEPT ![track].id = id] /\ tracks' = tracks
      BY <2>2, <1>11 DEF ReadTkhd
    <3>2. \A o \in DOMAIN heap : heap[o].id # id
      <4> SUFFICES ASSUME NEW o \in DOMAIN heap, heap[o].id = id PROVE FALSE
        OBVIOUS
      <4>1. PICK j \in 1..n : tracks[j] = o
        BY <1>1, ListFacts
      <4>2. j # n
        BY <4>1, <1>3, <1>9
      <4>3. j \in 1..n - 1
        BY <4>1, <4>2, <1>10
      <4>4. j \in WithId(f, id)
        BY <4>1, <4>3, <1>12 DEF WithId
      <4> QED BY <4>4, <2>2
    <3>3. /\ ListOK' /\ DOMAIN heap' = DOMAIN heap /\ heap'[track].id = id
          /\ \A o \in DOMAIN heap : o # track => heap'[o] = heap[o]
      BY <3>1, <3>2, <1>1, <1>2, <1>3, <1>9, IdGiven
    <3> QED BY <3>3, <1>3, <1>9
  <2> QED BY <2>1, <2>2
<1>14. TrakOK'
  <2>1. track' = track /\ "tkhd" \in found'
    BY <1>2
  <2> QED BY <2>1, <1>3, <1>13 DEF TrakOK
<1>15. MovieInv'
  <2>1. ~InTraf(stack)'
    BY <1>7, <1>8 DEF InTraf
  <2> QED BY <2>1, <1>13, <1>14 DEF MovieInv
<1>16. StackInv'
  <2>1. found_moov' \in BOOLEAN /\ found_mdat' \in BOOLEAN /\ Len(stack) <= 6
    BY <1>1, <1>2, <1>6 DEF StackInv, flags
  <2> QED BY <2>1, <1>1, <1>5, PutOnKeeps
<1>17. NestedStep
  BY <1>1, <1>5, PutNested
<1> QED BY <1>15, <1>16, <1>17 DEF BoxesInv

-----------------------------------------------------------------------------
(* The steps that read nothing, or in vain *)

LEMMA OffsetOK ==
  ASSUME StackInv
  PROVE  /\ offset \in Nat /\ offset < Word
         /\ \A n \in Nat : offset + n <= File.length => offset + n \in Nat /\ offset + n < Word
<1>1. offset \in Nat /\ offset < Word
  BY DEF StackInv, NestedOK
<1>2. File.length \in Nat /\ File.length < Word /\ Word \in Nat
  BY FileFacts, Lengths DEF StackInv
<1> QED BY <1>1, <1>2

LEMMA StepHeaderFails ==
  ASSUME BoxesInv, HeaderFails
  PROVE  BoxesInv' /\ NestedStep
<1>1. Reading(Containers) /\ UNCHANGED offset /\ Calm
  BY DEF HeaderFails, MayHead, Calm
<1>2. pc = "walk" /\ Top.type # "stsd"
  BY <1>1, ContainersOnly
<1>3. offset' \in Nat /\ offset' < Word
  BY <1>1, OffsetOK DEF BoxesInv
<1>4. CASE Raise
  BY <1>1, <1>2, <1>3, <1>4, BackThrow
<1>5. CASE AtRoot /\ Finish("OK")
  BY <1>1, <1>2, <1>3, <1>5, BackEnd
<1> QED BY <1>4, <1>5 DEF HeaderFails

LEMMA StepHeaderInvalid ==
  ASSUME BoxesInv, NEW type, NEW size, NEW large, HeaderInvalid(type, size, large)
  PROVE  BoxesInv' /\ NestedStep
<1>1. /\ Reading(Containers) /\ Calm /\ Raise /\ offset + HeaderLength(large) <= File.length
      /\ offset' = offset + (IF LargeFits(large) THEN HeaderLength(large) ELSE HEADER)
  BY DEF HeaderInvalid, Header, MayHead, Calm
<1>2. pc = "walk" /\ Top.type # "stsd"
  BY <1>1, ContainersOnly
<1>3. offset' \in Nat /\ offset' < Word
  <2>1. HeaderLength(large) \in Nat /\ HeaderLength(large) >= HEADER /\ HEADER \in Nat
    BY Lengths
  <2>2. offset \in Nat /\ File.length \in Nat
    BY OffsetOK, FileFacts DEF BoxesInv, StackInv
  <2>3. offset + HEADER <= File.length
    BY <1>1, <2>1, <2>2
  <2> QED BY <1>1, <2>1, <2>3, OffsetOK DEF BoxesInv
<1> QED BY <1>1, <1>2, <1>3, BackThrow

LEMMA StepHandlerFails ==
  ASSUME BoxesInv, NEW type, NEW size, NEW large, HandlerFails(type, size, large)
  PROVE  BoxesInv' /\ NestedStep
<1>1. /\ Reading(Containers) /\ Calm /\ Raise /\ offset + HeaderLength(large) <= File.length
      /\ offset' = offset + HeaderLength(large)
  BY DEF HandlerFails, HeaderValid, Header, MayHead, Calm
<1>2. pc = "walk" /\ Top.type # "stsd"
  BY <1>1, ContainersOnly
<1>3. offset' \in Nat /\ offset' < Word
  BY <1>1, Lengths, OffsetOK DEF BoxesInv
<1> QED BY <1>1, <1>2, <1>3, BackThrow

LEMMA StepOfEntries ==
  ASSUME BoxesInv, \/ \E size : EntryInvalid(size)
                   \/ EntryFails
                   \/ EntriesEnd
  PROVE  BoxesInv' /\ NestedStep
<1>1. pc = "walk" /\ Top.type = "stsd" /\ UNCHANGED offset /\ Calm /\ (Return \/ Throw(Below))
  BY DEF EntryInvalid, EntryFails, EntriesEnd, MoreEntries, Reading, Walking, position, Calm
<1>2. offset' \in Nat /\ offset' < Word
  BY <1>1, OffsetOK DEF BoxesInv
<1>3. CASE Return
  BY <1>1, <1>3, BackReturn
<1>4. CASE Throw(Below)
  BY <1>1, <1>2, <1>4, BackThrow
<1> QED BY <1>1, <1>3, <1>4

LEMMA StepDescriptorFails ==
  ASSUME BoxesInv, NEW length \in {TAG, 2 * TAG}, DescriptorFails(length)
  PROVE  BoxesInv' /\ NestedStep
<1>1. /\ pc = "walk" /\ Top.type \in {"esds", "ES", "config"} /\ Calm /\ Raise
      /\ UNCHANGED offset \/ (offset' = offset + length /\ offset' <= File.length)
  BY DEF DescriptorFails, MayTag, InDescriptor, Reading, Walking, Calm
<1>2. offset' \in Nat /\ offset' < Word
  <2>1. length \in Nat
    BY Lengths
  <2> QED BY <2>1, <1>1, OffsetOK DEF BoxesInv
<1> QED BY <1>1, <1>2, BackThrow

LEMMA StepDescriptorsEnd ==
  ASSUME BoxesInv, DescriptorsEnd
  PROVE  BoxesInv' /\ NestedStep
<1>1. /\ pc = "walk" /\ Top.type \in {"esds", "ES", "config"} /\ Calm /\ UNCHANGED offset
      /\ Return \/ Raise
  BY DEF DescriptorsEnd, InDescriptor, Reading, Walking, position, Calm
<1>2. offset' \in Nat /\ offset' < Word
  BY <1>1, OffsetOK DEF BoxesInv
<1>3. CASE Return
  BY <1>1, <1>3, BackReturn
<1>4. CASE Raise
  BY <1>1, <1>2, <1>4, BackThrow
<1> QED BY <1>1, <1>3, <1>4

LEMMA StepChildrenEnd ==
  ASSUME BoxesInv, ChildrenEnd
  PROVE  BoxesInv' /\ NestedStep
<1>1. Reading(Containers) /\ UNCHANGED offset /\ Calm
  BY DEF ChildrenEnd, position, Calm
<1>2. pc = "walk" /\ Top.type # "stsd"
  BY <1>1, ContainersOnly
<1>3. offset' \in Nat /\ offset' < Word
  BY <1>1, OffsetOK DEF BoxesInv
<1>4. CASE AtRoot
  <2>1. Finish("OK")
    BY <1>4 DEF ChildrenEnd
  <2> QED BY <2>1, <1>1, <1>2, <1>3, <1>4, BackEnd
<1>5. CASE ~AtRoot /\ Complete
  <2>1. Return
    BY <1>5 DEF ChildrenEnd
  <2>2. Top.type # "root"
    BY <1>2, <1>5, FirstLevels DEF AtRoot, BoxesInv
  <2>3. Top.type = "trak" => "tkhd" \in found
    BY <1>5 DEF Complete, Required
  <2> QED BY <2>1, <2>2, <2>3, <1>1, <1>2, BackReturn
<1>6. CASE ~AtRoot /\ ~Complete
  <2>1. Raise
    BY <1>6 DEF ChildrenEnd
  <2> QED BY <2>1, <1>1, <1>2, <1>3, BackThrow
<1> QED BY <1>4, <1>5, <1>6

LEMMA StepThrow ==
  ASSUME BoxesInv, BoxOverrun \/ AfterError
  PROVE  BoxesInv' /\ NestedStep
<1>1. pc = "walk" /\ Throw(Below) /\ UNCHANGED offset /\ Calm
  BY DEF BoxOverrun, AfterError, AfterBox, Behind, Walking, position, Calm
<1>2. offset' \in Nat /\ offset' < Word
  BY <1>1, OffsetOK DEF BoxesInv
<1> QED BY <1>1, <1>2, BackThrow

LEMMA StepStopAtBox ==
  ASSUME BoxesInv, StopAtBox
  PROVE  BoxesInv' /\ NestedStep
<1> DEFINE over == TRUE
<1>1. /\ AfterBox /\ StopsHere /\ UNCHANGED offset /\ Calm /\ Continue
      /\ stack' = Front(Below) \o <<[Parent EXCEPT !.over = over]>>
  BY DEF StopAtBox, position, Calm
<1>2. over \in BOOLEAN
  OBVIOUS
<1> HIDE DEF over
<1> QED BY <1>1, <1>2, BackPop

LEMMA StepSkipToEnd ==
  ASSUME BoxesInv, SkipToEnd
  PROVE  BoxesInv' /\ NestedStep
<1> DEFINE end == IF Top.size = 0 THEN Top.offset ELSE End(Top)  over == Found
<1>1. AfterBox /\ Calm /\ pc = "walk" /\ over \in BOOLEAN
  BY DEF SkipToEnd, AfterBox, Behind, Walking, Calm, Found, BoxesInv, StackInv
<1>2. CASE offset' = end /\ stack' = Front(Below) \o <<[Parent EXCEPT !.over = over]>> /\ Continue
  <2>1. (Top.size # 0 /\ offset' = End(Top)) \/ (Top.size = 0 /\ offset' = Top.offset)
    BY <1>2
  <2> HIDE DEF end, over
  <2> QED BY <2>1, <1>1, <1>2, BackPop
<1>3. CASE Throw(Below) /\ UNCHANGED offset
  <2>1. offset' \in Nat /\ offset' < Word
    BY <1>3, OffsetOK DEF BoxesInv
  <2> QED BY <2>1, <1>1, <1>3, BackThrow
<1> QED BY <1>2, <1>3 DEF SkipToEnd

-----------------------------------------------------------------------------
(* All steps *)

LEMMA StepOpen ==
  ASSUME BoxesInv, Open
  PROVE  BoxesInv' /\ NestedStep
<1> DEFINE root == Frame("root", 0, 0)  t == <<root>>
<1>1. /\ pc = "idle" /\ pc' = "walk" /\ style' = style /\ stack' = t
      /\ offset' = offset /\ Calm
  BY DEF Open, Calm, position
<1>2. StackInv /\ MovieInv /\ stack = <<>>
  BY <1>1 DEF BoxesInv, StackInv
<1>3. /\ SameTracks /\ traf' = traf /\ (Audio' <=> Audio)
      /\ found_moov' \in BOOLEAN /\ found_mdat' \in BOOLEAN
  BY <1>1, CalmFacts
<1>4. /\ root \in Frames /\ root.type = "root" /\ root.size = 0 /\ root.offset = 0
      /\ root.returned = FALSE /\ root.exceeded = FALSE
  BY DEF Frame, Frames, FrameTypes
<1> HIDE DEF root
<1>5. t \in Seq(Frames) /\ Len(t) = 1 /\ DOMAIN t = {1} /\ t[1] = root /\ t # <<>>
  BY <1>4
<1> HIDE DEF t
<1>6. ShapeOK(t)
  <2>1. "root" \notin Skipped /\ "root" \notin TrakArea /\ Level["root"] = 1
    BY DEF Skipped, TrakArea, Level
  <2> QED BY <2>1, <1>4, <1>5 DEF ShapeOK
<1>7. NestedOK(t, offset')
  <2>1. offset' \in Nat /\ offset' < Word /\ Word \in Nat
    BY <1>1, <1>2, Lengths DEF StackInv, NestedOK
  <2>2. 0 < Word /\ Plain(root)
    BY <2>1, <1>4 DEF Plain
  <2> QED BY <2>1, <2>2, <1>4, <1>5 DEF NestedOK
<1>8. EntriesOK(t, Audio')
  BY <1>4, <1>5 DEF EntriesOK
<1>9. StackInv'
  BY <1>1, <1>2, <1>3, <1>5, <1>6, <1>7, <1>8 DEF StackInv
<1>10. Stays
  <2>1. ~InTrak(stack') /\ ~InTraf(stack')
    BY <1>1, <1>5 DEF InTrak, InTraf
  <2>2. ~InTrak(stack)
    BY <1>2 DEF InTrak
  <2> QED BY <2>1, <2>2, <1>1 DEF Stays
<1>11. MovieInv'
  BY <1>2, <1>3, <1>10, SameTracksKeep
<1>12. NestedStep
  BY <1>1, <1>2, <1>5 DEF NestedStep
<1> QED BY <1>9, <1>11, <1>12 DEF BoxesInv

LEMMA StepStutter ==
  ASSUME BoxesInv, UNCHANGED vars
  PROVE  BoxesInv' /\ NestedStep
<1>1. UNCHANGED <<style, pc, offset, stack, flags>> /\ UNCHANGED movie
  BY DEF vars, position
<1>2. Calm /\ UNCHANGED <<style, pc, offset, stack>>
  BY <1>1 DEF Calm
<1>4. SameTracks /\ traf' = traf /\ (Audio' <=> Audio)
  BY <1>2, CalmFacts
<1>5. Stays
  BY <1>2 DEF Stays, InTrak, InTraf, BoxesInv, StackInv
<1>6. MovieInv'
  BY <1>4, <1>5, SameTracksKeep DEF BoxesInv
<1>7. StackInv'
  BY <1>1, <1>4 DEF BoxesInv, StackInv, flags, ShapeOK, NestedOK, EntriesOK
<1>3. NestedStep
  <2>1. Len(stack') = Len(stack)
    BY <1>1
  <2>2. Len(stack) \in Nat
    BY LenProperties DEF BoxesInv, StackInv, ShapeOK
  <2> QED BY <2>1, <2>2 DEF NestedStep
<1> QED BY <1>3, <1>6, <1>7 DEF BoxesInv

LEMMA StepLeaf ==
  ASSUME BoxesInv, LeafStep
  PROVE  BoxesInv' /\ NestedStep
<1> PICK large \in BOOLEAN :
    \/ \E type \in Types : \E size \in File[type] :
         \/ HeaderInvalid(type, size, large)
         \/ HandlerFails(type, size, large)
         \/ EnterBox(type, size, large)
    \/ \E size \in File.other : SkipUnknown(size, large)
    \/ \E size \in File.moov : ReadMoov(size, large)
    \/ \E size \in File.trak : ReadTrak(size, large)
    \/ \E size \in File.tkhd, id \in File.ids : ReadTkhd(size, large, id)
    \/ \E size \in File.hdlr, handler \in File.handlers : ReadHdlr(size, large, handler)
    \/ \E size \in File.mdhd : ReadMdhd(size, large)
    \/ \E size \in File.table, length \in {BODY, 2 * BODY} : ReadTable(size, large, length)
    \/ \E size \in File.trex, id \in File.ids, default \in File.defaults :
         ReadTrex(size, large, id, default)
    \/ \E size \in File.moof : ReadMoof(size, large)
    \/ \E size \in File.traf : ReadTraf(size, large)
    \/ \E size \in File.tfhd, id \in File.ids, own \in {0, 1} : ReadTfhd(size, large, id, own)
    \/ \E size \in File.mdat : ReadMdat(size, large)
    \/ \E size \in File.stsd, count \in File.entries : ReadStsd(size, large, count)
    \/ \E size \in File.esds : ReadEsds(size, large)
  BY DEF LeafStep
<1>1. ASSUME NEW type, NEW size, HeaderInvalid(type, size, large) PROVE BoxesInv' /\ NestedStep
  BY <1>1, StepHeaderInvalid
<1>2. ASSUME NEW type, NEW size, HandlerFails(type, size, large) PROVE BoxesInv' /\ NestedStep
  BY <1>2, StepHandlerFails
<1>3. ASSUME NEW type, NEW size, EnterBox(type, size, large) PROVE BoxesInv' /\ NestedStep
  BY <1>3, StepEnterBox
<1>4. ASSUME NEW size, SkipUnknown(size, large) PROVE BoxesInv' /\ NestedStep
  BY <1>4, StepSkipUnknown
<1>5. ASSUME NEW size, ReadMoov(size, large) PROVE BoxesInv' /\ NestedStep
  BY <1>5, StepReadMoov
<1>6. ASSUME NEW size, ReadTrak(size, large) PROVE BoxesInv' /\ NestedStep
  BY <1>6, StepReadTrak
<1>7. ASSUME NEW size, NEW id \in File.ids, ReadTkhd(size, large, id) PROVE BoxesInv' /\ NestedStep
  BY <1>7, StepReadTkhd
<1>8. ASSUME NEW size, NEW handler \in File.handlers, ReadHdlr(size, large, handler)
      PROVE  BoxesInv' /\ NestedStep
  BY <1>8, StepReadHdlr
<1>9. ASSUME NEW size, ReadMdhd(size, large) PROVE BoxesInv' /\ NestedStep
  BY <1>9, StepReadMdhd
<1>10. ASSUME NEW size, NEW length \in {BODY, 2 * BODY}, ReadTable(size, large, length)
       PROVE  BoxesInv' /\ NestedStep
  BY <1>10, StepReadTable
<1>11. ASSUME NEW size, NEW id \in File.ids, NEW default \in File.defaults, ReadTrex(size, large, id, default)
       PROVE  BoxesInv' /\ NestedStep
  BY <1>11, StepReadTrex
<1>12. ASSUME NEW size, ReadMoof(size, large) PROVE BoxesInv' /\ NestedStep
  BY <1>12, StepReadMoof
<1>13. ASSUME NEW size, ReadTraf(size, large) PROVE BoxesInv' /\ NestedStep
  BY <1>13, StepReadTraf
<1>14. ASSUME NEW size, NEW id \in File.ids, NEW own \in {0, 1}, ReadTfhd(size, large, id, own)
       PROVE  BoxesInv' /\ NestedStep
  BY <1>14, StepReadTfhd
<1>15. ASSUME NEW size, ReadMdat(size, large) PROVE BoxesInv' /\ NestedStep
  BY <1>15, StepReadMdat
<1>16. ASSUME NEW size, NEW count \in File.entries, ReadStsd(size, large, count)
       PROVE  BoxesInv' /\ NestedStep
  BY <1>16, StepReadStsd
<1>17. ASSUME NEW size, ReadEsds(size, large) PROVE BoxesInv' /\ NestedStep
  BY <1>17, StepReadEsds
<1> QED
  BY <1>1, <1>2, <1>3, <1>4, <1>5, <1>6, <1>7, <1>8, <1>9, <1>10, <1>11, <1>12, <1>13, <1>14, <1>15,
     <1>16, <1>17

LEMMA StepEntries ==
  ASSUME BoxesInv, EntryStep
  PROVE  BoxesInv' /\ NestedStep
<1>1. ASSUME NEW size, EntryInvalid(size) PROVE BoxesInv' /\ NestedStep
  BY <1>1, StepOfEntries
<1>2. ASSUME NEW type \in Entries, NEW size, Entry(type, size) PROVE BoxesInv' /\ NestedStep
  BY <1>2, StepEntry
<1>3. CASE EntryFails
  BY <1>3, StepOfEntries
<1>4. CASE EntriesEnd
  BY <1>4, StepOfEntries
<1>5. ASSUME NEW length \in {TAG, 2 * TAG}, DescriptorFails(length) PROVE BoxesInv' /\ NestedStep
  BY <1>5, StepDescriptorFails
<1>6. ASSUME NEW size, SkipTag(size) PROVE BoxesInv' /\ NestedStep
  BY <1>6, StepSkipTag
<1>7. ASSUME NEW size, ReadEs(size) PROVE BoxesInv' /\ NestedStep
  BY <1>7, StepReadEs
<1>8. ASSUME NEW size, NEW codec \in {"none", "AAC", "MP3"}, ReadConfig(size, codec)
      PROVE  BoxesInv' /\ NestedStep
  BY <1>8, StepReadConfig
<1>9. ASSUME NEW size, ReadInfo(size) PROVE BoxesInv' /\ NestedStep
  BY <1>9, StepReadInfo
<1>10. CASE DescriptorsEnd
  BY <1>10, StepDescriptorsEnd
<1> QED BY <1>1, <1>2, <1>3, <1>4, <1>5, <1>6, <1>7, <1>8, <1>9, <1>10 DEF EntryStep

(* Every step keeps the invariant, and no box is left with another one     *)
(* inside of it that ends behind it.                                       *)
LEMMA EveryStep ==
  ASSUME BoxesInv, [Next]_vars
  PROVE  BoxesInv' /\ NestedStep
<1>1. CASE Open
  BY <1>1, StepOpen
<1>2. CASE HeaderFails
  BY <1>2, StepHeaderFails
<1>3. CASE LeafStep
  BY <1>3, StepLeaf
<1>4. CASE EntryStep
  BY <1>4, StepEntries
<1>5. CASE ReturnStep
  BY <1>5, StepChildrenEnd, StepThrow, StepStopAtBox, StepSkipToEnd DEF ReturnStep
<1>6. CASE UNCHANGED vars
  BY <1>6, StepStutter
<1> QED BY <1>1, <1>2, <1>3, <1>4, <1>5, <1>6 DEF Next, Walk

LEMMA InitInv ==
  ASSUME Init
  PROVE  BoxesInv
<1>1. /\ style \in DOMAIN Styles /\ pc = "idle" /\ stack = <<>> /\ offset = 0
      /\ found_moov = FALSE /\ found_mdat = FALSE
      /\ tracks = <<>> /\ heap = <<>> /\ trexes = [id \in Ids |-> 0]
  BY DEF Init
<1>2. 0 \in Nat /\ 0 < Word
  BY <1>1, FileFacts, Lengths
<1>3. ShapeOK(stack) /\ NestedOK(stack, offset) /\ EntriesOK(stack, Audio)
  BY <1>1, <1>2 DEF ShapeOK, NestedOK, EntriesOK
<1>4. StackInv
  BY <1>1, <1>3 DEF StackInv
<1>5. DOMAIN heap = {} /\ DOMAIN tracks = {}
  BY <1>1
<1>6. tracks \in Seq(Objects) /\ heap \in [DOMAIN heap -> TrackRecords]
  BY <1>1
<1>7. Range(tracks) = DOMAIN heap
  BY <1>5 DEF Range
<1>8. trexes \in [Ids -> Nat] /\ \A id \in Ids : trexes[id] = 0
  BY <1>1
<1>9. ListOK
  BY <1>5, <1>6, <1>7, <1>8 DEF ListOK
<1>10. ~InTrak(stack) /\ ~InTraf(stack)
  BY <1>1 DEF InTrak, InTraf
<1>11. TrakOK
  BY <1>5, <1>10 DEF TrakOK
<1> QED BY <1>4, <1>9, <1>10, <1>11 DEF BoxesInv, MovieInv

-----------------------------------------------------------------------------
(* The theorems *)

(* In every state the boxes that are being read lie in each other at the   *)
(* levels at which their handlers are called, and the list of tracks is    *)
(* that of what the boxes before have said (isom.cc:470-960, 590-700).     *)
THEOREM BoxesKeepOrder == Spec => []BoxesInv
<1>1. Init => BoxesInv
  BY InitInv
<1>2. BoxesInv /\ [Next]_vars => BoxesInv'
  BY EveryStep
<1> QED BY <1>1, <1>2, PTL DEF Spec

(* No box is accepted with a box inside of it that was to end behind it,   *)
(* whatever sizes of 32 or 64 bits the file claims: every way out of a box *)
(* passes a check of the place of the reader (isom.cc:506, 570).           *)
THEOREM NestedIsChecked == Spec => BoxesAreNested
<1>1. BoxesInv /\ [Next]_vars => [NestedStep]_vars
  BY EveryStep
<1> QED BY <1>1, BoxesKeepOrder, PTL DEF Spec, BoxesAreNested, NestedStep

(* The list of tracks has every track once and no freed one, under one id  *)
(* each, and holds the track that is being read, in whatever order the     *)
(* trak and trex boxes come (isom.cc:614, 632, 671).                       *)
THEOREM ListIsWhole == Spec => []TracksAreListed
<1>1. ASSUME BoxesInv PROVE TracksAreListed
  <2>1. StackInv /\ ListOK /\ TrakOK
    BY <1>1 DEF BoxesInv, MovieInv
  <2>2. ASSUME NEW i \in DOMAIN stack, stack[i].type = "trak", ~stack[i].returned
        PROVE  track \in Range(tracks)
    <3>1. i = 3 /\ i \in 1..Len(stack) /\ Len(stack) \in Nat
      BY <2>1, <2>2, ShapeAt DEF StackInv
    <3>2. InTrak(stack)
      BY <3>1, <2>2 DEF InTrak
    <3> QED BY <3>2, <2>1 DEF TrakOK, ListOK
  <2> QED BY <2>1, <2>2 DEF TracksAreListed, ListOK
<1> QED BY <1>1, BoxesKeepOrder, PTL

(* A track has the defaults of the last trex of its id, come before its    *)
(* trak or after, and a fragment those of its track, by the track's place  *)
(* in the list (isom.cc:622, 675, 1264).                                   *)
THEOREM DefaultsReachTracks == Spec => []DefaultsArePassedOn
<1>1. ASSUME BoxesInv PROVE DefaultsArePassedOn
  <2>1. StackInv /\ ListOK
    BY <1>1 DEF BoxesInv, MovieInv
  <2>2. ASSUME NEW i \in DOMAIN tracks, heap[tracks[i]].id # 0
        PROVE  heap[tracks[i]].default = trexes[heap[tracks[i]].id]
    <3>1. tracks[i] \in DOMAIN heap
      BY <2>1, ListFacts
    <3> QED BY <3>1, <2>1, <2>2 DEF ListOK
  <2>3. ASSUME pc = "walk", Top.type = "tfhd"
        PROVE  TrafOK
    <3>1. Len(stack) \in DOMAIN stack /\ Top = stack[Len(stack)]
      BY <2>1, <2>3, TopFacts
    <3>2. Len(stack) >= 3 /\ stack[3].type = "traf"
      <4>1. ShapeOK(stack)
        BY <2>1 DEF StackInv
      <4>2. Len(stack) \in Nat /\ Len(stack) >= 4 /\ stack[3].type = "traf"
        BY <4>1, <3>1, <2>3, ShapeAt
      <4> QED BY <4>2
    <3> QED BY <3>2, <1>1 DEF InTraf, BoxesInv, MovieInv
  <2> QED BY <2>2, <2>3 DEF DefaultsArePassedOn, TrafOK
<1> QED BY <1>1, BoxesKeepOrder, PTL
=============================================================================
