--------------------------- MODULE MatroskaProofs ---------------------------
(***************************************************************************)
(* What holds of the element stack as long as the file is readable, or its *)
(* elements, in any order, have sizes.  The inductive invariant is WalkInv *)
(* of such a file: an element is on the stack at the one level that the    *)
(* grammar gives it, which bounds the stack and leaves at most one object  *)
(* open; in a readable file the elements that are not over are the same,   *)
(* at the same levels, on the stack and in the file, so that an element of *)
(* unknown size is ended where it ends; and a demuxer that could not       *)
(* allocate an object is not used again.  PacketInv adds the clock and the *)
(* pending block.  No step makes a file sound that was not.                *)
(***************************************************************************)
EXTENDS Matroska, SequenceTheorems, TLAPS

USE IdAssumption, SizeAssumption, TimeAssumption, FileAssumption

Entries == [id : DOMAIN Grammar, offset : Nat, size : Nat, end : Nat]
Opened == [id : Ids, unknown : BOOLEAN, end : Nat]

Second ==
  {"EBML_READER_VERSION", "EBML_MAX_ID_LENGTH", "EBML_MAX_SIZE_LENGTH", "EBML_DOCTYPE",
   "EBML_DOCTYPE_READER_VERSION", "MKV_SEGMENT_INFO", "MKV_SEEK_HEAD", "MKV_TRACKS",
   "MKV_CUES", "MKV_CLUSTER"}
Third ==
  {"MKV_SEGMENT_DURATION", "MKV_SEGMENT_TIMECODE_SCALE", "MKV_SEEK", "MKV_TRACK",
   "MKV_CUE_POINT", "MKV_CLUSTER_TIMECODE", "MKV_CLUSTER_SIMPLE_BLOCK"}
Fourth ==
  {"MKV_SEEK_ID", "MKV_SEEK_POSITION", "MKV_TRACK_NUMBER", "MKV_TRACK_TYPE",
   "MKV_TRACK_DEFAULT_DURATION", "MKV_TRACK_TIMECODE_SCALE", "MKV_TRACK_CODEC_ID",
   "MKV_TRACK_CODEC_PRIVATE", "MKV_TRACK_AUDIO", "MKV_CUE_TIME", "MKV_CUE_TRACK_POSITION"}

(* The level of an element in a file. *)
Level(id) ==
  IF id = "EBML_ROOT" THEN 0
  ELSE IF id \in {"EBML_HEADER", "MKV_SEGMENT"} THEN 1
  ELSE IF id \in Second THEN 2
  ELSE IF id \in Third THEN 3
  ELSE IF id \in Fourth THEN 4
  ELSE 5

LEMMA LevelOfParent == \A id \in DOMAIN Grammar : Level(id) = Level(Grammar[id]) + 1
BY SMTT(60) DEF Grammar, Level, Second, Third, Fourth, Second, Third, Fourth
LEMMA LevelOfSegment == \A id : Level(id) \in 0..5 /\ Level("MKV_SEGMENT") = 1
BY DEF Level, Second, Third, Fourth
LEMMA LevelOfOwners == \A id \in Owners : Level(id) = 3
BY DEF Owners, Level, Second, Third, Fourth, Second, Third, Fourth

(* The root is no element, and elements of elements are known. *)
LEMMA RootIsNone == "EBML_ROOT" \notin DOMAIN Grammar /\ Masters \subseteq DOMAIN Grammar
BY DEF Grammar, Masters

-----------------------------------------------------------------------------
(* Sequences that are cut and extended *)

LEMMA Below16 == \A n \in 0..5 : \A d \in 0..n : (n >= 16) = FALSE /\ d \in 0..5
OBVIOUS

LEMMA CutAt ==
  ASSUME NEW S, NEW s \in Seq(S), NEW k \in 0..Len(s)
  PROVE  /\ SubSeq(s, 1, k) \in Seq(S) /\ Len(SubSeq(s, 1, k)) = k
         /\ DOMAIN SubSeq(s, 1, k) = 1..k
         /\ \A j \in 1..k : SubSeq(s, 1, k)[j] = s[j]
<1>1. Len(s) \in Nat /\ \A j \in 1..Len(s) : s[j] \in S
  BY LenProperties, ElementOfSeq
<1>2. \A j \in 1..k : s[j] \in S
  BY <1>1
<1>3. /\ SubSeq(s, 1, k) \in Seq(S) /\ Len(SubSeq(s, 1, k)) = k
      /\ \A j \in 1..k : SubSeq(s, 1, k)[j] = s[j]
  BY <1>1, <1>2, SubSeqProperties
<1> QED BY <1>3, LenProperties

LEMMA ExtendedAt ==
  ASSUME NEW S, NEW s \in Seq(S), NEW k \in 0..Len(s), NEW e \in S
  PROVE  LET t == Append(SubSeq(s, 1, k), e)
         IN  /\ t \in Seq(S) /\ Len(t) = k + 1 /\ DOMAIN t = 1..k + 1
             /\ \A j \in 1..k : t[j] = s[j]
             /\ t[k + 1] = e
<1> DEFINE c == SubSeq(s, 1, k)
<1>1. c \in Seq(S) /\ Len(c) = k /\ \A j \in 1..k : c[j] = s[j]
  BY CutAt
<1> HIDE DEF c
<1>2. /\ Append(c, e) \in Seq(S) /\ Len(Append(c, e)) = k + 1
      /\ \A j \in 1..k : Append(c, e)[j] = c[j]
      /\ Append(c, e)[k + 1] = e
  BY <1>1, AppendProperties
<1>3. DOMAIN Append(c, e) = 1..k + 1
  BY <1>2, LenProperties
<1> QED BY <1>1, <1>2, <1>3 DEF c

-----------------------------------------------------------------------------
(* The stack *)

StackOK(s) ==
  /\ s \in Seq(Entries)
  /\ \A k \in DOMAIN s :
       /\ Level(s[k].id) = k
       /\ Grammar[s[k].id] = IF k = 1 THEN "EBML_ROOT" ELSE s[k - 1].id

(* p is the object of the one element of s that has one, and so is the     *)
(* offset of the segment.                                                  *)
ObjectsOf(s, p, offset) ==
  \A k \in DOMAIN s :
    /\ s[k].id \in Owners => p = [id |-> s[k].id, at |-> s[k].offset]
    /\ s[k].id = "MKV_SEGMENT" => offset = s[k].offset

LEMMA EmptyStack == \A p, offset : StackOK(<<>>) /\ ObjectsOf(<<>>, p, offset)
BY EmptySeq DEF StackOK, ObjectsOf

LEMMA StackLength ==
  ASSUME NEW s, StackOK(s)
  PROVE  /\ Len(s) \in 0..5 /\ DOMAIN s = 1..Len(s) /\ (s = <<>> <=> Len(s) = 0)
         /\ \A k \in 1..Len(s) : s[k] \in Entries
<1>1. Len(s) \in Nat /\ DOMAIN s = 1..Len(s) /\ (s = <<>> <=> Len(s) = 0)
  BY EmptySeq, LenProperties DEF StackOK
<1>2. \A k \in 1..Len(s) : s[k] \in Entries
  BY <1>1, ElementOfSeq DEF StackOK
<1>3. Len(s) # 0 => Level(s[Len(s)].id) = Len(s)
  BY <1>1 DEF StackOK
<1> QED BY <1>1, <1>2, <1>3, LevelOfSegment

(* What is left when the last elements are popped. *)
LEMMA Popped ==
  ASSUME NEW s, StackOK(s), NEW k \in 0..Len(s)
  PROVE  LET t == SubSeq(s, 1, k)
         IN  /\ StackOK(t)
             /\ \A p, offset : ObjectsOf(s, p, offset) => ObjectsOf(t, p, offset)
<1> DEFINE t == SubSeq(s, 1, k)
<1>1. Len(s) \in Nat /\ DOMAIN s = 1..Len(s)
  BY StackLength
<1>2. t \in Seq(Entries) /\ DOMAIN t = 1..k /\ \A j \in 1..k : t[j] = s[j]
  BY <1>1, CutAt DEF StackOK
<1> HIDE DEF t
<1>3. \A j \in 1..k : j \in DOMAIN s /\ (j # 1 => j - 1 \in 1..k)
  BY <1>1
<1>4. StackOK(t)
  <2> SUFFICES ASSUME NEW j \in 1..k
               PROVE  /\ Level(t[j].id) = j
                      /\ Grammar[t[j].id] = IF j = 1 THEN "EBML_ROOT" ELSE t[j - 1].id
    BY <1>2 DEF StackOK
  <2>1. t[j] = s[j] /\ (j # 1 => t[j - 1] = s[j - 1]) /\ j \in DOMAIN s
    BY <1>2, <1>3
  <2> QED BY <2>1 DEF StackOK
<1>5. \A p, offset : ObjectsOf(s, p, offset) => ObjectsOf(t, p, offset)
  BY <1>2, <1>3 DEF ObjectsOf
<1> QED BY <1>4, <1>5 DEF t

(* What an element that belongs into the last one left makes of the stack; *)
(* it becomes the object, or it has none and the object stays.             *)
LEMMA Pushed ==
  ASSUME NEW s, StackOK(s), NEW e \in Entries,
         Grammar[e.id] = IF Len(s) = 0 THEN "EBML_ROOT" ELSE s[Len(s)].id
  PROVE  /\ StackOK(Append(s, e))
         /\ \A p, offset, q, new :
              /\ ObjectsOf(s, p, offset)
              /\ IF e.id \in Owners THEN q = [id |-> e.id, at |-> e.offset] ELSE q = p
              /\ IF e.id = "MKV_SEGMENT" THEN new = e.offset ELSE new = offset
              => ObjectsOf(Append(s, e), q, new)
<1> DEFINE t == Append(s, e)
<1>1. Len(s) \in Nat /\ DOMAIN s = 1..Len(s) /\ (s = <<>> <=> Len(s) = 0)
  BY StackLength
<1>2. /\ t \in Seq(Entries) /\ Len(t) = Len(s) + 1
      /\ \A k \in 1..Len(s) : t[k] = s[k]
      /\ t[Len(s) + 1] = e
  BY AppendProperties DEF StackOK
<1>3. DOMAIN t = 1..Len(s) + 1
  BY <1>2, LenProperties
<1> HIDE DEF t
<1>4. e.id \in DOMAIN Grammar
  BY DEF Entries
<1>5. Level(e.id) = Len(s) + 1
  <2>1. CASE Len(s) = 0
    BY <2>1, <1>1, <1>4, LevelOfParent DEF Level
  <2>2. CASE Len(s) # 0
    BY <2>2, <1>1, <1>4, LevelOfParent DEF StackOK
  <2> QED BY <2>1, <2>2
<1>6. StackOK(t)
  <2> SUFFICES ASSUME NEW k \in DOMAIN t
               PROVE  /\ Level(t[k].id) = k
                      /\ Grammar[t[k].id] = IF k = 1 THEN "EBML_ROOT" ELSE t[k - 1].id
    BY <1>2 DEF StackOK
  <2>1. CASE k = Len(s) + 1
    BY <2>1, <1>1, <1>2, <1>5
  <2>2. CASE k \in 1..Len(s)
    BY <2>2, <1>1, <1>2 DEF StackOK
  <2> QED BY <1>1, <1>3, <2>1, <2>2
<1>7. ASSUME NEW p, NEW offset, NEW q, NEW new, ObjectsOf(s, p, offset),
             IF e.id \in Owners THEN q = [id |-> e.id, at |-> e.offset] ELSE q = p,
             IF e.id = "MKV_SEGMENT" THEN new = e.offset ELSE new = offset
      PROVE  ObjectsOf(t, q, new)
  <2> SUFFICES ASSUME NEW k \in DOMAIN t
               PROVE  /\ t[k].id \in Owners => q = [id |-> t[k].id, at |-> t[k].offset]
                      /\ t[k].id = "MKV_SEGMENT" => new = t[k].offset
    BY DEF ObjectsOf
  <2>1. CASE k = Len(s) + 1
    BY <2>1, <1>2, <1>7
  <2>2. CASE k \in 1..Len(s)
    <3>1. Level(t[k].id) # Level(e.id)
      BY <2>2, <1>1, <1>2, <1>5 DEF StackOK
    <3>2. t[k].id \in Owners => e.id \notin Owners
      BY <3>1, LevelOfOwners
    <3>3. t[k].id = "MKV_SEGMENT" => e.id # "MKV_SEGMENT"
      BY <3>1
    <3> QED BY <2>2, <3>2, <3>3, <1>1, <1>2, <1>7 DEF ObjectsOf
  <2> QED BY <1>1, <1>3, <2>1, <2>2
<1> QED BY <1>6, <1>7 DEF t

-----------------------------------------------------------------------------
(* The stack s and the open elements p of a nested file at offset o, when  *)
(* n bytes of a block are still to be taken                                *)

Matched(s, p, k) ==
  /\ k \in DOMAIN s /\ k \in DOMAIN p
  /\ p[k].id = s[k].id /\ p[k].end = EndOf(s[k])
  /\ p[k].unknown <=> s[k].size = UNKNOWN_LENGTH

(* An element without a bound is the outermost, no other ends before what  *)
(* is pending or has less than a header left, and none after the one it is *)
(* in.                                                                     *)
EndsOK(p, o, n) ==
  \A k \in DOMAIN p :
    /\ o > 0
    /\ IF p[k].end = 0 THEN k = 1 /\ p[k].unknown ELSE p[k].end >= o + n /\ p[k].end # o + n + 1
    /\ \A j \in 1..k : p[j].end # 0 => p[k].end # 0 /\ p[k].end <= p[j].end

(* Elements that are not over are in both, and with a block pending the    *)
(* stack has no others.                                                    *)
FileInv(s, p, o, n) ==
  /\ \A k \in DOMAIN s : EndOf(s[k]) # o => Matched(s, p, k)
  /\ \A k \in DOMAIN p : p[k].end # o => Matched(s, p, k)
  /\ EndsOK(p, o, n)
  /\ s # <<>> => o > 0
  /\ n # 0 => \A k \in DOMAIN s : EndOf(s[k]) # o

LEMMA EndOfEntry == \A e \in Entries : EndOf(e) \in Nat
BY DEF Entries, EndOf

(* An element with less than a header left is over, which leaves the stack *)
(* as it would be without it.                                              *)
LEMMA Finished ==
  ASSUME NEW s, StackOK(s), s # <<>>, NEW p \in Seq(Opened), NEW o \in Nat, FileInv(s, p, o, 0),
         EndOf(s[Len(s)]) # 0, EndOf(s[Len(s)]) < o + 2
  PROVE  FileInv(SubSeq(s, 1, Len(s) - 1), p, o, 0)
<1> DEFINE m == Len(s)  t == SubSeq(s, 1, m - 1)
<1>1. m \in Nat \ {0} /\ DOMAIN s = 1..m /\ s[m] \in Entries
  BY StackLength
<1>2. DOMAIN t = 1..m - 1 /\ \A j \in 1..m - 1 : t[j] = s[j]
  BY <1>1, CutAt DEF StackOK
<1> HIDE DEF m, t
<1>3. EndOf(s[m]) = o
  <2>1. EndOf(s[m]) \in Nat
    BY <1>1, EndOfEntry
  <2>2. Matched(s, p, m) => p[m].end >= o /\ p[m].end # o + 1 /\ p[m].end = EndOf(s[m])
    BY DEF Matched, FileInv, EndsOK, m
  <2>3. EndOf(s[m]) # o => Matched(s, p, m)
    BY <1>1 DEF FileInv
  <2>4. EndOf(s[m]) < o + 2
    BY DEF m
  <2> QED BY <2>1, <2>2, <2>3, <2>4
<1>4. \A k \in 1..m - 1 : Matched(s, p, k) => Matched(t, p, k)
  BY <1>1, <1>2 DEF Matched
<1>5. ASSUME NEW k \in DOMAIN t, EndOf(t[k]) # o PROVE Matched(t, p, k)
  <2>1. k \in 1..m - 1 /\ k \in DOMAIN s /\ t[k] = s[k]
    BY <1>1, <1>2
  <2> QED BY <2>1, <1>4, <1>5 DEF FileInv
<1>6. ASSUME NEW k \in DOMAIN p, p[k].end # o PROVE Matched(t, p, k)
  <2>1. Matched(s, p, k)
    BY <1>6 DEF FileInv
  <2>2. k \in 1..m /\ k # m
    BY <2>1, <1>1, <1>3, <1>6 DEF Matched
  <2>3. k \in 1..m - 1
    BY <2>2, <1>1
  <2> QED BY <2>1, <2>3, <1>4
<1> QED BY <1>1, <1>5, <1>6 DEF FileInv, t, m

(* Where the last element is not over, none is, and all that the file has  *)
(* open besides is.                                                        *)
LEMMA InsideOf ==
  ASSUME NEW s, StackOK(s), NEW p \in Seq(Opened), NEW o \in Nat, FileInv(s, p, o, 0),
         s # <<>> => EndOf(s[Len(s)]) = 0 \/ EndOf(s[Len(s)]) >= o + 2
  PROVE  /\ \A k \in 1..Len(s) : Matched(s, p, k) /\ p[k].end # o
         /\ Len(s) <= Len(p)
         /\ \A k \in Len(s) + 1..Len(p) : p[k].end = o
<1> DEFINE m == Len(s)
<1>1. m \in Nat /\ DOMAIN s = 1..m /\ (s = <<>> <=> m = 0)
  BY StackLength
<1>2. Len(p) \in Nat /\ DOMAIN p = 1..Len(p) /\ \A k \in 1..Len(p) : p[k].end \in Nat
  <2>1. Len(p) \in Nat /\ DOMAIN p = 1..Len(p) /\ \A k \in 1..Len(p) : p[k] \in Opened
    BY LenProperties, ElementOfSeq
  <2> QED BY <2>1 DEF Opened
<1> HIDE DEF m
<1>3. \A k \in 1..Len(p) : p[k].end # o => k \in 1..m
  BY <1>1, <1>2 DEF FileInv, Matched
<1>4. m # 0 => Matched(s, p, m) /\ p[m].end # o
  <2> SUFFICES ASSUME m # 0 PROVE Matched(s, p, m) /\ p[m].end # o
    OBVIOUS
  <2>1. m \in DOMAIN s /\ (EndOf(s[m]) = 0 \/ EndOf(s[m]) >= o + 2)
    BY <1>1 DEF m
  <2>2. CASE EndOf(s[m]) # o
    BY <2>1, <2>2 DEF FileInv, Matched
  <2>3. CASE EndOf(s[m]) = o
    <3>1. o > 0
      BY <1>1 DEF FileInv
    <3> QED BY <2>1, <2>3, <3>1
  <2> QED BY <2>2, <2>3
<1>5. m <= Len(p)
  BY <1>1, <1>2, <1>4 DEF Matched
<1>6. ASSUME NEW k \in 1..m PROVE Matched(s, p, k) /\ p[k].end # o
  <2>1. m \in 1..Len(p) /\ k \in 1..Len(p) /\ m # 0 /\ k \in DOMAIN s
    BY <1>1, <1>2, <1>5
  <2>2. p[k].end # o
    <3>1. p[m].end = 0 \/ p[m].end >= o + 2
      BY <1>1, <1>4, <2>1 DEF Matched, m
    <3>2. /\ p[m].end = 0 => m = 1 /\ o > 0
          /\ p[k].end # 0 => p[m].end # 0 /\ p[m].end <= p[k].end
      BY <1>1, <1>2, <2>1 DEF FileInv, EndsOK
    <3>3. p[k].end \in Nat /\ p[m].end \in Nat /\ o > 0
      BY <1>2, <2>1 DEF FileInv, EndsOK
    <3> QED BY <3>1, <3>2, <3>3
  <2>3. Matched(s, p, k)
    BY <2>1, <2>2, <1>2 DEF FileInv
  <2> QED BY <2>2, <2>3
<1>7. \A k \in m + 1..Len(p) : p[k].end = o
  BY <1>1, <1>2, <1>3
<1> QED BY <1>5, <1>6, <1>7 DEF m

(* The file goes on: the element e is put into the k-th one, b is where    *)
(* the reader gets to, and n what it leaves of a block.  The stack has an  *)
(* entry f for the element, unless it is over.                             *)
Goes(s, p, k, e, b, n) ==
  /\ b \in Nat \ {0} /\ n \in Nat
  /\ \A j \in 1..k : Matched(s, p, j)
  /\ IF e.end = 0 THEN k = 0 /\ e.unknown ELSE e.end >= b + n /\ e.end # b + n + 1
  /\ \A j \in 1..k : p[j].end # 0 =>
       /\ p[j].end >= b + n /\ p[j].end # b + n + 1
       /\ e.end # 0 /\ e.end <= p[j].end

LEMMA FileGoesOn ==
  ASSUME NEW s, StackOK(s), NEW p \in Seq(Opened), NEW o \in Nat, FileInv(s, p, o, 0),
         NEW k \in 0..Len(s), k <= Len(p), NEW e \in Opened, NEW b, NEW n, Goes(s, p, k, e, b, n)
  PROVE  LET q == Append(SubSeq(p, 1, k), e)
         IN  /\ \A f \in Entries :
                  /\ f.id = e.id /\ EndOf(f) = e.end /\ (e.unknown <=> f.size = UNKNOWN_LENGTH)
                  /\ n # 0 => e.end # b
                  => FileInv(Append(SubSeq(s, 1, k), f), q, b, n)
             /\ n = 0 /\ e.end = b => FileInv(SubSeq(s, 1, k), q, b, n)
<1> DEFINE q == Append(SubSeq(p, 1, k), e)  c == SubSeq(s, 1, k)
<1>1. /\ Len(s) \in Nat /\ Len(p) \in Nat /\ DOMAIN s = 1..Len(s) /\ DOMAIN p = 1..Len(p)
      /\ \A j \in 1..Len(p) : p[j] \in Opened
  BY StackLength, LenProperties, ElementOfSeq
<1>2. /\ q \in Seq(Opened) /\ DOMAIN q = 1..k + 1
      /\ \A j \in 1..k : q[j] = p[j]
      /\ q[k + 1] = e
  <2>1. k \in 0..Len(p)
    BY <1>1
  <2> QED BY <2>1, ExtendedAt
<1>3. c \in Seq(Entries) /\ DOMAIN c = 1..k /\ \A j \in 1..k : c[j] = s[j]
  BY CutAt DEF StackOK
<1> HIDE DEF q, c
<1>4. /\ b \in Nat \ {0} /\ n \in Nat /\ k \in Nat /\ e.end \in Nat
      /\ \A j \in 1..k : p[j].end \in Nat
  BY <1>1 DEF Goes, Opened
<1>5. EndsOK(q, b, n)
  <2> SUFFICES ASSUME NEW i \in 1..k + 1
               PROVE  /\ IF q[i].end = 0 THEN i = 1 /\ q[i].unknown ELSE q[i].end >= b + n /\ q[i].end # b + n + 1
                      /\ \A j \in 1..i : q[j].end # 0 => q[i].end # 0 /\ q[i].end <= q[j].end
    BY <1>2, <1>4 DEF EndsOK
  <2>1. CASE i = k + 1
    <3>1. IF q[i].end = 0 THEN i = 1 /\ q[i].unknown ELSE q[i].end >= b + n /\ q[i].end # b + n + 1
      BY <2>1, <1>2, <1>4 DEF Goes
    <3>2. ASSUME NEW j \in 1..i, q[j].end # 0 PROVE q[i].end # 0 /\ q[i].end <= q[j].end
      <4>1. CASE j = i
        BY <4>1, <2>1, <3>2, <1>2, <1>4
      <4>2. CASE j # i
        <5>1. j \in 1..k
          BY <4>2, <2>1, <1>4
        <5> QED BY <5>1, <2>1, <3>2, <1>2 DEF Goes
      <4> QED BY <4>1, <4>2
    <3> QED BY <3>1, <3>2
  <2>2. CASE i # k + 1
    <3>1. i \in 1..k /\ i \in DOMAIN p /\ q[i] = p[i]
      BY <2>2, <1>1, <1>2, <1>4
    <3>2. p[i].end = 0 => i = 1 /\ p[i].unknown
      BY <3>1 DEF FileInv, EndsOK
    <3>3. p[i].end # 0 => p[i].end >= b + n /\ p[i].end # b + n + 1
      BY <3>1 DEF Goes
    <3>4. ASSUME NEW j \in 1..i, q[j].end # 0 PROVE q[i].end # 0 /\ q[i].end <= q[j].end
      <4>1. j \in 1..k /\ q[j] = p[j]
        BY <3>1, <1>2, <1>4
      <4> QED BY <3>1, <3>4, <4>1 DEF FileInv, EndsOK
    <3> QED BY <3>1, <3>2, <3>3, <3>4
  <2> QED BY <2>1, <2>2
<1>6. ASSUME NEW j \in 1..k PROVE Matched(s, p, j) /\ j \in DOMAIN s /\ EndOf(s[j]) = p[j].end
  <2>1. Matched(s, p, j)
    BY DEF Goes
  <2> QED BY <2>1 DEF Matched
<1>7. ASSUME n = 0, e.end = b PROVE FileInv(c, q, b, n)
  <2>1. ASSUME NEW j \in 1..k PROVE Matched(c, q, j)
    <3>1. j \in DOMAIN c /\ c[j] = s[j]
      BY <1>3
    <3>2. j \in DOMAIN q /\ q[j] = p[j]
      BY <1>2, <1>4
    <3> QED BY <3>1, <3>2, <1>6 DEF Matched
  <2>2. \A j \in DOMAIN q : q[j].end # b => j \in 1..k
    BY <1>2, <1>4, <1>7
  <2> QED BY <2>1, <2>2, <1>3, <1>4, <1>5, <1>7 DEF FileInv
<1>8. ASSUME NEW f \in Entries,
             f.id = e.id, EndOf(f) = e.end, e.unknown <=> f.size = UNKNOWN_LENGTH,
             n # 0 => e.end # b
      PROVE  FileInv(Append(c, f), q, b, n)
  <2> DEFINE t == Append(c, f)
  <2>1. /\ t \in Seq(Entries) /\ DOMAIN t = 1..k + 1
        /\ \A j \in 1..k : t[j] = s[j]
        /\ t[k + 1] = f
    BY ExtendedAt DEF StackOK, c
  <2> HIDE DEF t
  <2>2. ASSUME NEW j \in 1..k PROVE Matched(t, q, j)
    <3>1. j \in DOMAIN t /\ t[j] = s[j]
      BY <2>1, <1>4
    <3>2. j \in DOMAIN q /\ q[j] = p[j]
      BY <1>2, <1>4
    <3> QED BY <3>1, <3>2, <1>6 DEF Matched
  <2>3. Matched(t, q, k + 1)
    BY <2>1, <1>2, <1>4, <1>8 DEF Matched
  <2>4. \A j \in 1..k + 1 : j = k + 1 \/ j \in 1..k
    BY <1>4
  <2>5. ASSUME n # 0, NEW j \in 1..k + 1 PROVE EndOf(t[j]) # b
    <3>1. CASE j = k + 1
      BY <3>1, <2>1, <2>5, <1>8
    <3>2. CASE j \in 1..k
      <4>1. EndOf(t[j]) = p[j].end
        BY <3>2, <2>1, <1>6
      <4>2. p[j].end # 0 => p[j].end >= b + n
        BY <3>2 DEF Goes
      <4>3. p[j].end \in Nat
        BY <3>2, <1>4
      <4> QED BY <4>1, <4>2, <4>3, <2>5, <1>4
    <3> QED BY <3>1, <3>2, <2>4
  <2>6. \A j \in 1..k + 1 : Matched(t, q, j)
    BY <2>2, <2>3, <2>4
  <2> QED BY <2>1, <2>5, <2>6, <1>2, <1>4, <1>5 DEF FileInv, t
<1> QED BY <1>7, <1>8 DEF q, c

(* The payload of the block is taken. *)
LEMMA FileTaken ==
  ASSUME NEW s, NEW p \in Seq(Opened), NEW o \in Nat, NEW n \in Nat \ {0}, FileInv(s, p, o, n)
  PROVE  FileInv(s, p, o + n, 0)
<1>1. \A k \in DOMAIN p : p[k].end \in Nat
  <2>1. \A k \in DOMAIN p : p[k] \in Opened
    BY ElementOfSeq, LenProperties
  <2> QED BY <2>1 DEF Opened
<1>2. \A k \in DOMAIN s : Matched(s, p, k)
  BY DEF FileInv
<1>3. ASSUME NEW k \in DOMAIN p PROVE Matched(s, p, k)
  <2>1. o > 0 /\ (p[k].end # 0 => p[k].end >= o + n) /\ p[k].end \in Nat
    BY <1>1 DEF FileInv, EndsOK
  <2>2. p[k].end # o
    BY <2>1
  <2> QED BY <2>2 DEF FileInv
<1>4. EndsOK(p, o + n, 0)
  <2> SUFFICES ASSUME NEW k \in DOMAIN p
               PROVE  /\ o + n > 0
                      /\ IF p[k].end = 0 THEN k = 1 /\ p[k].unknown
                         ELSE p[k].end >= o + n + 0 /\ p[k].end # o + n + 0 + 1
                      /\ \A j \in 1..k : p[j].end # 0 => p[k].end # 0 /\ p[k].end <= p[j].end
    BY DEF EndsOK
  <2>1. \A j \in 1..k : p[j].end # 0 => p[k].end # 0 /\ p[k].end <= p[j].end
    BY DEF FileInv, EndsOK
  <2>2. IF p[k].end = 0 THEN k = 1 /\ p[k].unknown ELSE p[k].end >= o + n /\ p[k].end # o + n + 1
    BY DEF FileInv, EndsOK
  <2>3. o + n + 0 = o + n /\ o + n > 0
    OBVIOUS
  <2> QED BY <2>1, <2>2, <2>3
<1>5. s # <<>> => o + n > 0
  OBVIOUS
<1> QED BY <1>2, <1>3, <1>4, <1>5 DEF FileInv

-----------------------------------------------------------------------------
(* The inductive invariant *)

CallsInOrder ==
  /\ pc = "open" => ~opened
  /\ pc \in {"packet", "take"} => opened
  /\ pc \in {"open", "packet"} => sample_size = 0
  /\ pc = "idle" /\ ~opened /\ result = "OK" => sample_size = 0

Dead == pc = "idle" /\ result # "OK" /\ sample_size = 0

AllSized(s) == \A k \in DOMAIN s : s[k].size # UNKNOWN_LENGTH

FileOK ==
  /\ reader.error = "OK" => ~Wrapped
  /\ file = "sized" => AllSized(stack)
  /\ file = "readable" /\ reader.error = "OK" => FileInv(stack, path, reader.offset, sample_size)

WalkInv ==
  /\ file \in {"readable", "sized"}
  /\ TypeOK /\ StackOK(stack) /\ ~outside
  /\ CallsInOrder
  /\ Dead \/ ObjectsOf(stack, ptr, segment_offset)
  /\ FileOK

LEMMA InitWalk == Init => WalkInv
<1> SUFFICES ASSUME Init PROVE WalkInv
  OBVIOUS
<1>1. TypeOK
  BY EmptySeq DEF Init, TypeOK, NoTime, NoBlock
<1>5. file \in {"readable", "sized"}
  BY DEF Init
<1>2. StackOK(stack) /\ ObjectsOf(stack, ptr, segment_offset)
  BY EmptyStack DEF Init
<1>3. CallsInOrder /\ ~outside
  BY DEF Init, CallsInOrder
<1>4. FileOK
  <2>1. DOMAIN stack = {} /\ DOMAIN path = {} /\ stack = <<>> /\ sample_size = 0
    BY EmptySeq DEF Init
  <2>2. ~Wrapped
    BY <2>1 DEF Wrapped
  <2> QED BY <2>1, <2>2 DEF FileOK, AllSized, FileInv, EndsOK
<1> QED BY <1>1, <1>2, <1>3, <1>4, <1>5 DEF WalkInv

(* Where a round of read_children() may begin. *)
LEMMA InRound ==
  ASSUME WalkInv, InChildren
  PROVE  ObjectsOf(stack, ptr, segment_offset) /\ sample_size = 0
BY DEF WalkInv, InChildren, Dead, CallsInOrder

(* A failed call leaves a demuxer that is not used again. *)
LEMMA Failed ==
  ASSUME WalkInv, InChildren, NEW err, Fail(err),
         err \in {"XE_ENOMEM", "XE_INVALID_DATA"} \union ReaderErrors,
         UNCHANGED sample_size
  PROVE  /\ pc' = "idle" /\ result' = err /\ opened' = opened
         /\ CallsInOrder' /\ Dead'
BY InRound DEF Fail, CallsInOrder, Dead, WalkInv, ReaderErrors

(* The ways in which open() and read_packet() go on after read_children(). *)
LEMMA Returned ==
  ASSUME WalkInv, InChildren, Return
  PROVE  /\ pc' \in {"idle", "take"} /\ opened' \in BOOLEAN
         /\ result' \in {"OK", "XE_ENOMEM", "XE_INVALID_DATA"} \union ReaderErrors
         /\ CallsInOrder'
<1>1. opened \in BOOLEAN /\ (pc = "open" => opened = FALSE) /\ (pc = "packet" => opened = TRUE)
  BY DEF WalkInv, TypeOK, CallsInOrder
<1>2. pc \in {"open", "packet"} /\ result \in {"OK", "XE_ENOMEM", "XE_INVALID_DATA"} \union ReaderErrors
  BY DEF InChildren, WalkInv, TypeOK
<1>3. CASE pc = "open"
  BY <1>1, <1>3 DEF Return, CallsInOrder
<1>4. CASE pc = "packet"
  <2>1. CASE sample_size' = 0
    BY <1>1, <1>4, <2>1 DEF Return, Fail, CallsInOrder, ReaderErrors
  <2>2. CASE sample_size' # 0
    <3>1. pc' = "take" /\ opened' = opened /\ result' = result
      BY <1>4, <2>2 DEF Return
    <3> QED BY <1>1, <1>2, <1>4, <3>1 DEF CallsInOrder
  <2> QED BY <2>1, <2>2
<1> QED BY <1>2, <1>3, <1>4

-----------------------------------------------------------------------------
(* What a header says of the file and of the stack *)

Place(k, id, size, h) ==
  [id |-> id, unknown |-> size = UNKNOWN_LENGTH, end |-> EndsAt(k, size, h)]

LEMMA PlaceOpened ==
  ASSUME WalkInv, NEW id \in Ids, NEW size \in Nat, NEW h \in Nat, NEW k \in 0..Len(path)
  PROVE  Place(k, id, size, h) \in Opened
<1>1. path \in Seq(Opened) /\ reader.offset \in Nat
  BY DEF WalkInv, TypeOK, Opened
<1>2. Len(path) \in Nat /\ \A j \in 1..Len(path) : path[j] \in Opened
  BY <1>1, LenProperties, ElementOfSeq
<1>3. k # 0 => path[k].end \in Nat
  BY <1>2 DEF Opened
<1>4. EndsAt(k, size, h) \in Nat
  BY <1>1, <1>3 DEF EndsAt, After
<1> HIDE DEF EndsAt
<1> QED BY <1>4 DEF Place, Opened

(* What is written keeps a readable file readable, ...                     *)
LEMMA WrittenInPlace ==
  ASSUME file = "readable", UNCHANGED file, NEW id, NEW size, NEW h, Written(id, size, h)
  PROVE  /\ size = UNKNOWN_LENGTH => id \in UnknownIds
         /\ \E k \in 0..Len(path) :
              /\ Nested(k, id, size, h) /\ Readable(k, id, size)
              /\ path' = Append(SubSeq(path, 1, k), Place(k, id, size, h))
<1> HIDE DEF Nested, Readable
<1>1. PICK k \in 0..Len(path) :
         /\ Nested(k, id, size, h) /\ (size = UNKNOWN_LENGTH => id \in UnknownIds)
         /\ path' = Append(SubSeq(path, 1, k), Place(k, id, size, h))
         /\ file' = IF Readable(k, id, size) THEN file ELSE "any"
  BY DEF Written, Place
<1>2. Readable(k, id, size)
  BY <1>1
<1> QED BY <1>1, <1>2

(* ... or a sized one sized.                                               *)
LEMMA WrittenSized ==
  ASSUME file = "sized", UNCHANGED file, NEW id, NEW size, NEW h, Written(id, size, h)
  PROVE  path' = path /\ Sized(id, size)
BY DEF Written

(* The header of an element keeps the file a file. *)
LEMMA HeaderType ==
  ASSUME WalkInv, UNCHANGED file, NEW id \in Ids, NEW size \in Sizes \union {UNKNOWN_LENGTH},
         NEW h \in HeaderSizes, Header(id, size, h)
  PROVE  /\ {size, h} \subseteq Nat /\ h >= 2
         /\ size = UNKNOWN_LENGTH => id \in Masters /\ file = "readable"
         /\ id = "MKV_CLUSTER_SIMPLE_BLOCK" => size >= BlockHeader
         /\ reader.error = "OK" /\ reader.offset \in Nat
         /\ path' \in Seq(Opened)
<1>1. {size, h} \subseteq Nat /\ h >= 2
  OBVIOUS
<1>0. Written(id, size, h) /\ file \in {"readable", "sized"}
  BY DEF Header, WalkInv
<1>2. /\ size = UNKNOWN_LENGTH => id \in Masters /\ file = "readable"
      /\ id = "MKV_CLUSTER_SIMPLE_BLOCK" => size >= BlockHeader
  BY <1>0, <1>1, WrittenInPlace, WrittenSized DEF Nested, Complete, Sized
<1>3. reader.error = "OK" /\ reader.offset \in Nat /\ path \in Seq(Opened)
  BY DEF Header, WalkInv, TypeOK, Opened
<1>4. ASSUME NEW k \in 0..Len(path), path' = Append(SubSeq(path, 1, k), Place(k, id, size, h))
      PROVE  path' \in Seq(Opened)
  <2>1. Place(k, id, size, h) \in Opened
    BY <1>1, PlaceOpened
  <2> QED BY <1>3, <1>4, <2>1, ExtendedAt
<1>5. path' \in Seq(Opened)
  <2>1. CASE file = "sized"
    BY <1>0, <1>3, <2>1, WrittenSized
  <2>2. CASE file = "readable"
    BY <1>0, <1>4, <2>2, WrittenInPlace
  <2> QED BY <1>0, <2>1, <2>2
<1> QED BY <1>1, <1>2, <1>3, <1>5

(* In a nested file all elements of the stack are open where a header is   *)
(* read, and the file has no others.                                       *)
LEMMA InNestedFile ==
  ASSUME WalkInv, InChildren, Ready, file = "readable", reader.error = "OK"
  PROVE  /\ FileInv(stack, path, reader.offset, 0) /\ reader.offset \in Nat
         /\ path \in Seq(Opened) /\ Len(path) \in Nat /\ DOMAIN path = 1..Len(path)
         /\ \A k \in 1..Len(stack) : Matched(stack, path, k) /\ path[k].end # reader.offset
         /\ Len(stack) <= Len(path)
         /\ \A k \in Len(stack) + 1..Len(path) : path[k].end = reader.offset
<1>1. /\ FileInv(stack, path, reader.offset, 0) /\ reader.offset \in Nat
      /\ path \in Seq(Opened) /\ StackOK(stack)
  BY InRound DEF WalkInv, FileOK, TypeOK, Opened
<1>2. ASSUME stack # <<>>
      PROVE  EndOf(stack[Len(stack)]) = 0 \/ EndOf(stack[Len(stack)]) >= reader.offset + 2
  <2>1. Has(Top, 2)
    BY <1>2 DEF Ready
  <2>2. Top \in Entries
    BY <1>1, <1>2, StackLength DEF Top
  <2>3. EndOf(Top) = 0 \/ EndOf(Top) >= reader.offset + 2
    BY <1>1, <2>1, <2>2 DEF Has, EndOf, Entries
  <2> QED BY <2>3 DEF Top
<1>3. Len(path) \in Nat /\ DOMAIN path = 1..Len(path)
  BY <1>1, LenProperties
<1> QED BY <1>1, <1>2, <1>3, InsideOf

(* The element is written into the k-th that is open. *)
Placed(k, id, size, h) ==
  /\ k <= Len(path) /\ \A j \in 1..k : Matched(stack, path, j)
  /\ Fits(k, size, h) /\ Readable(k, id, size) /\ Complete(id, size)
  /\ path' = Append(SubSeq(path, 1, k), Place(k, id, size, h))

(* An element of id belongs into the k-th of the stack, which may have to  *)
(* be searched for.                                                        *)
BelongsIn(id, k) ==
  /\ Grammar[id] = IF k = 0 THEN "EBML_ROOT" ELSE stack[k].id
  /\ k # Len(stack) => TopUnknown
  /\ k = 1 /\ k # Len(stack) => Len(stack) = 3 /\ stack[2].id = id

(* In a nested file the search of element_handler() for the parent finds   *)
(* the element that the next one is in.                                    *)
LEMMA ParentIsFound ==
  ASSUME StackOK(stack), NEW id \in DOMAIN Grammar, NEW k \in 0..Len(stack), BelongsIn(id, k)
  PROVE  Depth(id) = k /\ ~Misplaced(id) /\ ~LooksOutside(id)
<1> DEFINE m == Len(stack)
<1>0. m \in Nat /\ k \in 0..m
  BY StackLength
<1>1. DOMAIN stack = 1..m /\ (stack = <<>> <=> m = 0)
  BY StackLength
<1>2. \A j \in 1..m : Level(stack[j].id) = j
  BY <1>1 DEF StackOK
<1>3. Level(Grammar[id]) = k /\ Level(id) = k + 1 /\ (Grammar[id] = "EBML_ROOT" <=> k = 0)
  <2>1. Level("EBML_ROOT") = 0
    BY DEF Level
  <2>2. k # 0 => k \in 1..m
    BY <1>0
  <2>3. Level(Grammar[id]) = k
    <3>1. CASE k = 0
      BY <3>1, <2>1 DEF BelongsIn
    <3>2. CASE k # 0
      <4>1. Level(stack[k].id) = k
        BY <3>2, <2>2, <1>2
      <4> QED BY <3>2, <4>1 DEF BelongsIn
    <3> QED BY <3>1, <3>2
  <2>4. Level(id) = k + 1
    BY <2>3, LevelOfParent
  <2>5. k # 0 => Grammar[id] # "EBML_ROOT"
    BY <2>1, <2>3
  <2>6. k = 0 => Grammar[id] = "EBML_ROOT"
    BY DEF BelongsIn
  <2> QED BY <2>3, <2>4, <2>5, <2>6
<1>4. TopId = IF m = 0 THEN "EBML_ROOT" ELSE stack[m].id
  BY <1>1 DEF TopId, Top
<1> HIDE DEF m
<1>5. CASE k = m
  <2>1. TopId = Grammar[id]
    BY <1>4, <1>5 DEF m, BelongsIn
  <2> QED BY <2>1, <1>5 DEF Depth, Misplaced, LooksOutside, m
<1>6. CASE k # m
  <2>1. k < m
    BY <1>0, <1>6
  <2>2. TopUnknown
    BY <1>6 DEF m, BelongsIn
  <2>3. TopId # Grammar[id]
    <3>1. Level(stack[m].id) = m
      BY <1>0, <1>2, <2>1
    <3> QED BY <1>0, <1>3, <1>4, <2>1, <3>1
  <2>4. ~Misplaced(id)
    <3>1. k # 0 => m > 1
      BY <1>0, <2>1
    <3>2. Grammar[id] = "EBML_ROOT" \/ Len(stack) > 1
      BY <1>3, <3>1 DEF m
    <3> QED BY <2>2, <3>2 DEF Misplaced
  <2>5. CASE k = 0
    BY <2>3, <2>4, <2>5, <1>3 DEF Depth, LooksOutside
  <2>6. CASE k # 0 /\ Twin(id)
    <3>1. m > 1 /\ stack[m - 1].id = id
      BY <2>6 DEF Twin, m
    <3>2. Level(id) = m - 1
      BY <1>0, <1>2, <3>1
    <3>3. m - 2 = k
      BY <1>0, <1>3, <3>2
    <3>4. Depth(id) = k
      BY <2>3, <2>6, <3>3, <1>3 DEF Depth, m
    <3> QED BY <2>4, <2>6, <3>4 DEF LooksOutside
  <2>7. CASE k # 0 /\ ~Twin(id)
    <3>1. k # 1
      <4>1. k = 1 => m = 3 /\ stack[2].id = id
        BY <1>6 DEF m, BelongsIn
      <4>2. m = 3 => (Twin(id) <=> stack[2].id = id)
        BY DEF Twin, m
      <4> QED BY <4>1, <4>2, <2>7
    <3>2. Ancestors(id) = {k}
      <4>1. \A j \in 1..m - 1 : stack[j].id = Grammar[id] => j = k
        BY <1>0, <1>2, <1>3
      <4>2. k \in 1..m - 1
        BY <1>0, <2>1, <2>7
      <4>3. stack[k].id = Grammar[id]
        BY <2>7 DEF BelongsIn
      <4> QED BY <4>1, <4>2, <4>3 DEF Ancestors, m
    <3>3. (CHOOSE i \in Ancestors(id) : TRUE) = k /\ \A i, j \in Ancestors(id) : i = j
      BY <3>2
    <3>4. Depth(id) = k
      BY <2>3, <2>7, <3>2, <3>3, <1>3 DEF Depth
    <3> QED BY <2>4, <3>1, <3>4 DEF LooksOutside
  <2> QED BY <2>5, <2>6, <2>7
<1> QED BY <1>5, <1>6

LEMMA WrittenAt ==
  ASSUME WalkInv, UNCHANGED file, file = "readable", NEW id \in Ids, NEW size \in Sizes \union {UNKNOWN_LENGTH},
         NEW h \in HeaderSizes, Header(id, size, h)
  PROVE  IF id \in DOMAIN Grammar
           THEN /\ Depth(id) \in 0..Len(stack) /\ ~Misplaced(id) /\ ~LooksOutside(id)
                /\ Grammar[id] = IF Depth(id) = 0 THEN "EBML_ROOT" ELSE stack[Depth(id)].id
                /\ Placed(Depth(id), id, size, h)
           ELSE Placed(Len(stack), id, size, h)
<1> DEFINE m == Len(stack)
<1>1. InChildren /\ Ready /\ reader.error = "OK" /\ Written(id, size, h)
  BY DEF Header
<1>2. /\ FileInv(stack, path, reader.offset, 0) /\ reader.offset \in Nat
      /\ path \in Seq(Opened) /\ Len(path) \in Nat /\ DOMAIN path = 1..Len(path)
      /\ \A k \in 1..m : Matched(stack, path, k) /\ path[k].end # reader.offset
      /\ m <= Len(path)
      /\ \A k \in m + 1..Len(path) : path[k].end = reader.offset
  BY <1>1, InNestedFile
<1>3. m \in Nat /\ m <= 5 /\ DOMAIN stack = 1..m /\ (stack = <<>> <=> m = 0)
  BY StackLength DEF WalkInv
<1>4. PICK k \in 0..Len(path) :
         /\ IF id \in DOMAIN Grammar
              THEN Grammar[id] = IF k = 0 THEN "EBML_ROOT" ELSE path[k].id
              ELSE k > 0 => ~Over(path[k])
         /\ \A j \in k+1..Len(path) : Ended(path[j], id)
         /\ Fits(k, size, h) /\ Readable(k, id, size) /\ Complete(id, size)
         /\ path' = Append(SubSeq(path, 1, k), Place(k, id, size, h))
  BY <1>1, WrittenInPlace DEF Nested
<1> HIDE DEF m
<1>5. k <= m
  <2> SUFFICES ASSUME k > m PROVE FALSE
    BY <1>2, <1>3
  <2>1. k \in m + 1..Len(path) /\ k \in DOMAIN path /\ k \in 1..k
    BY <1>2, <1>3
  <2>2. path[k].end = reader.offset
    BY <2>1, <1>2
  <2>3. reader.offset > 0
    BY <2>1, <1>2 DEF FileInv, EndsOK
  <2>4. path[k].end # 0 => ~Over(path[k])
    BY <2>1, <1>4 DEF Fits
  <2> QED BY <2>2, <2>3, <2>4 DEF Over
<1>6. Placed(k, id, size, h)
  BY <1>2, <1>3, <1>4, <1>5 DEF Placed
<1>7. \A j \in k + 1..m : path[j].unknown /\ id \in DOMAIN Grammar
  <2> TAKE j \in k + 1..m
  <2>1. j \in k + 1..Len(path) /\ j \in 1..m
    BY <1>2, <1>3
  <2> QED BY <2>1, <1>2, <1>4 DEF Ended
<1>8. CASE id \in DOMAIN Grammar
  <2>1. Grammar[id] = IF k = 0 THEN "EBML_ROOT" ELSE stack[k].id
    BY <1>2, <1>3, <1>4, <1>5, <1>8 DEF Matched
  <2>2. k # m => TopUnknown
    <3> SUFFICES ASSUME k # m PROVE TopUnknown
      OBVIOUS
    <3>1. m \in k + 1..m /\ m \in 1..m /\ stack # <<>>
      BY <1>3, <1>5
    <3>2. path[m].unknown /\ Matched(stack, path, m)
      BY <3>1, <1>2, <1>7
    <3> QED BY <3>1, <3>2 DEF TopUnknown, Top, Matched, m
  <2>3. k = 1 /\ k # m => m = 3 /\ stack[2].id = id
    <3> SUFFICES ASSUME k = 1, k # m PROVE m = 3 /\ stack[2].id = id
      OBVIOUS
    <3>1. Ending(k) = 2..m
      <4>1. \A j \in 2..Len(path) : ~Over(path[j]) <=> j <= m
        BY <1>2, <1>3 DEF Over
      <4> QED BY <4>1, <1>2, <1>3 DEF Ending
    <3>2. 2 \in Ending(k)
      BY <3>1, <1>3, <1>5
    <3>3. Ending(k) = {2, 3} /\ path[2].id = id
      BY <3>2, <1>4 DEF Readable
    <3>4. 2..m = {2, 3}
      BY <3>1, <3>3
    <3>5. m = 3
      <4>1. 3 \in 2..m /\ 4 \notin 2..m
        BY <3>4
      <4> QED BY <4>1, <1>3
    <3>6. Matched(stack, path, 2)
      BY <3>5, <1>2
    <3> QED BY <3>3, <3>5, <3>6 DEF Matched
  <2>4. Depth(id) = k /\ ~Misplaced(id) /\ ~LooksOutside(id)
    <3>1. k \in 0..Len(stack) /\ StackOK(stack)
      BY <1>3, <1>5 DEF m, WalkInv
    <3>2. BelongsIn(id, k)
      BY <2>1, <2>2, <2>3 DEF m, BelongsIn
    <3> QED BY <1>8, <3>1, <3>2, ParentIsFound
  <2> QED BY <1>3, <1>5, <1>6, <1>8, <2>1, <2>4 DEF m
<1>9. CASE id \notin DOMAIN Grammar
  <2>1. k = m
    <3>1. k # m => m \in k + 1..m
      BY <1>3, <1>5
    <3> QED BY <3>1, <1>7, <1>9
  <2> QED BY <1>6, <1>9, <2>1 DEF m
<1> QED BY <1>8, <1>9

(* What is left of the stack when an element is handled. *)
Below(id) == SubSeq(stack, 1, Depth(id))

LEMMA HandledAt ==
  ASSUME WalkInv, UNCHANGED file, NEW id \in Ids, NEW size \in Sizes \union {UNKNOWN_LENGTH},
         NEW h \in HeaderSizes, Handled(id, size, h, Below(id))
  PROVE  /\ InChildren /\ Header(id, size, h) /\ id \in DOMAIN Grammar /\ outside' = FALSE
         /\ ~Refused(id, size) /\ Depth(id) \in 0..Len(stack)
         /\ Grammar[id] = IF Depth(id) = 0 THEN "EBML_ROOT" ELSE stack[Depth(id)].id
         /\ file = "readable" => Placed(Depth(id), id, size, h)
<1>1. /\ InChildren /\ Header(id, size, h) /\ id \in DOMAIN Grammar
      /\ ~Misplaced(id) /\ ~Refused(id, size)
  BY DEF Handled, Header
<1>2. outside' = (LooksOutside(id) \/ IsFull(Below(id)))
  BY DEF Handled
<1>5. Depth(id) \in 0..Len(stack) => ~IsFull(Below(id))
  <2>1. Len(stack) \in 0..5 /\ stack \in Seq(Entries)
    BY StackLength DEF WalkInv, StackOK
  <2>2. Depth(id) \in 0..Len(stack) => Len(Below(id)) = Depth(id)
    BY <2>1, CutAt DEF Below
  <2>3. ASSUME Depth(id) \in 0..Len(stack) PROVE ~(Len(Below(id)) >= 16)
    <3>1. Depth(id) \in 0..5
      BY <2>1, <2>3, Below16
    <3>2. 0 \in 0..Depth(id)
      BY <3>1
    <3> QED BY <2>2, <2>3, <3>1, <3>2, Below16
  <2> QED BY <2>3 DEF IsFull, STACK_SIZE
<1>3. CASE file = "readable"
  <2>1. /\ Depth(id) \in 0..Len(stack) /\ ~LooksOutside(id)
        /\ Grammar[id] = IF Depth(id) = 0 THEN "EBML_ROOT" ELSE stack[Depth(id)].id
        /\ Placed(Depth(id), id, size, h)
    BY <1>1, <1>3, WrittenAt
  <2>2. outside' = FALSE
    BY <1>2, <1>5, <2>1 DEF LooksOutside
  <2> QED BY <1>1, <2>1, <2>2
<1>4. CASE file = "sized"
  <2>1. Len(stack) \in Nat /\ DOMAIN stack = 1..Len(stack) /\ (stack = <<>> <=> Len(stack) = 0)
    BY StackLength DEF WalkInv
  <2>2. ~TopUnknown
    <3>1. stack # <<>> => Len(stack) \in DOMAIN stack
      BY <2>1
    <3> QED BY <3>1, <1>4 DEF WalkInv, FileOK, AllSized, TopUnknown, Top
  <2>3. TopId = Grammar[id]
    BY <1>1, <2>2 DEF Misplaced
  <2>4. Depth(id) = Len(stack)
    BY <2>3 DEF Depth
  <2>5. outside' = FALSE
    <3>1. Depth(id) \in 0..Len(stack)
      BY <2>1, <2>4
    <3> QED BY <1>2, <1>5, <2>3, <3>1 DEF LooksOutside
  <2> QED BY <1>1, <1>4, <2>1, <2>3, <2>4, <2>5 DEF TopId, Top
<1> QED BY <1>3, <1>4 DEF WalkInv

LEMMA BelowOK ==
  ASSUME WalkInv, InChildren, NEW id, Depth(id) \in 0..Len(stack)
  PROVE  /\ StackOK(Below(id)) /\ ObjectsOf(Below(id), ptr, segment_offset)
         /\ Len(Below(id)) = Depth(id) /\ (Below(id) = <<>> <=> Depth(id) = 0)
         /\ Depth(id) # 0 => Below(id)[Depth(id)] = stack[Depth(id)]
         /\ file = "sized" => AllSized(Below(id))
<1>1. StackOK(stack) /\ ObjectsOf(stack, ptr, segment_offset)
  BY InRound DEF WalkInv
<1>2. StackOK(Below(id)) /\ ObjectsOf(Below(id), ptr, segment_offset)
  BY <1>1, Popped DEF Below
<1>3. /\ Len(stack) \in Nat /\ DOMAIN stack = 1..Len(stack)
      /\ Len(Below(id)) = Depth(id) /\ DOMAIN Below(id) = 1..Depth(id)
      /\ \A j \in 1..Depth(id) : Below(id)[j] = stack[j]
  BY <1>1, StackLength, CutAt DEF Below, StackOK
<1>4. Below(id) = <<>> <=> Depth(id) = 0
  BY <1>2, <1>3, StackLength
<1>5. file = "sized" => AllSized(Below(id))
  <2>1. \A j \in 1..Depth(id) : j \in DOMAIN stack
    BY <1>3
  <2> QED BY <2>1, <1>3 DEF WalkInv, FileOK, AllSized
<1>6. Depth(id) # 0 => Below(id)[Depth(id)] = stack[Depth(id)]
  BY <1>3
<1> QED BY <1>2, <1>3, <1>4, <1>5, <1>6

(* What a handled element makes of the stack. *)
LEMMA HandledPushed ==
  ASSUME WalkInv, UNCHANGED file, NEW id \in Ids, NEW size \in Sizes \union {UNKNOWN_LENGTH},
         NEW h \in HeaderSizes, Handled(id, size, h, Below(id)), NEW e \in Nat
  PROVE  LET t == Append(Below(id), Element(id, size, h, e))
         IN  /\ StackOK(t) /\ (file = "sized" => AllSized(t))
             /\ Element(id, size, h, e) \in Entries
             /\ \A q, new :
                  /\ IF id \in Owners THEN q = [id |-> id, at |-> reader.offset + h] ELSE q = ptr
                  /\ IF id = "MKV_SEGMENT" THEN new = reader.offset + h ELSE new = segment_offset
                  => ObjectsOf(t, q, new)
<1> DEFINE elem == Element(id, size, h, e)
<1>1. /\ InChildren /\ Header(id, size, h) /\ id \in DOMAIN Grammar
      /\ Depth(id) \in 0..Len(stack)
      /\ Grammar[id] = IF Depth(id) = 0 THEN "EBML_ROOT" ELSE stack[Depth(id)].id
  BY HandledAt
<1>2. /\ {size, h} \subseteq Nat /\ reader.offset \in Nat
      /\ size = UNKNOWN_LENGTH => file = "readable"
  BY <1>1, HeaderType
<1>3. /\ elem \in Entries /\ elem.id = id /\ elem.offset = reader.offset + h
      /\ elem.size = size
  BY <1>1, <1>2 DEF Element, Entries
<1>4. /\ StackOK(Below(id)) /\ ObjectsOf(Below(id), ptr, segment_offset)
      /\ Len(Below(id)) = Depth(id)
      /\ Depth(id) # 0 => Below(id)[Depth(id)] = stack[Depth(id)]
      /\ file = "sized" => AllSized(Below(id))
  BY <1>1, BelowOK
<1> HIDE DEF elem
<1>5. Grammar[elem.id] = IF Len(Below(id)) = 0 THEN "EBML_ROOT" ELSE Below(id)[Len(Below(id))].id
  BY <1>1, <1>3, <1>4
<1>6. /\ StackOK(Append(Below(id), elem))
      /\ \A p, offset, q, new :
              /\ ObjectsOf(Below(id), p, offset)
              /\ IF elem.id \in Owners THEN q = [id |-> elem.id, at |-> elem.offset] ELSE q = p
              /\ IF elem.id = "MKV_SEGMENT" THEN new = elem.offset ELSE new = offset
              => ObjectsOf(Append(Below(id), elem), q, new)
  BY <1>3, <1>4, <1>5, Pushed
<1>7. ASSUME file = "sized" PROVE AllSized(Append(Below(id), elem))
  <2>1. elem.size # UNKNOWN_LENGTH
    BY <1>2, <1>3, <1>7
  <2>2. /\ Len(Below(id)) \in Nat /\ DOMAIN Below(id) = 1..Len(Below(id))
        /\ DOMAIN Append(Below(id), elem) = 1..Len(Below(id)) + 1
        /\ \A j \in 1..Len(Below(id)) : Append(Below(id), elem)[j] = Below(id)[j]
        /\ Append(Below(id), elem)[Len(Below(id)) + 1] = elem
    BY <1>3, <1>4, AppendProperties, LenProperties DEF StackOK
  <2>3. \A j \in 1..Len(Below(id)) + 1 : j = Len(Below(id)) + 1 \/ j \in 1..Len(Below(id))
    BY <2>2
  <2> QED BY <1>4, <1>7, <2>1, <2>2, <2>3 DEF AllSized
<1> QED BY <1>3, <1>4, <1>6, <1>7 DEF elem

(* An element of unknown size is given the bound that it has in the file. *)
LEMMA BoundIsFound ==
  ASSUME WalkInv, InChildren, NEW id, Depth(id) \in 0..Len(stack), NEW h,
         Placed(Depth(id), id, UNKNOWN_LENGTH, h)
  PROVE  EndIn(Below(id)) = EndsAt(Depth(id), UNKNOWN_LENGTH, h) /\ EndIn(Below(id)) \in Nat
<1> DEFINE k == Depth(id)
<1>1. /\ Len(Below(id)) = k /\ (Below(id) = <<>> <=> k = 0)
      /\ k # 0 => Below(id)[k] = stack[k]
  BY BelowOK
<1>2. EndsAt(k, UNKNOWN_LENGTH, h) = IF k = 0 THEN 0 ELSE path[k].end
  BY DEF EndsAt
<1>3. CASE k = 0
  BY <1>1, <1>2, <1>3 DEF EndIn
<1>4. CASE k # 0
  <2>1. k \in 1..Len(stack) /\ k > 0 /\ k \in 1..k
    BY <1>4, StackLength DEF WalkInv
  <2>2. path[k].end = EndOf(stack[k])
    BY <2>1 DEF Placed, Matched
  <2>3. path[k].end # 0
    BY <2>1 DEF Placed, Readable
  <2>4. EndIn(Below(id)) = EndOf(stack[k])
    BY <1>1, <1>4, <2>2, <2>3 DEF EndIn, EndOf
  <2>5. stack[k] \in Entries
    BY <2>1, StackLength DEF WalkInv
  <2> QED BY <1>2, <1>4, <2>2, <2>4, <2>5, EndOfEntry
<1> QED BY <1>3, <1>4

(* The stack, the file and the reader after a header and what belongs to   *)
(* it have been read.                                                      *)
LEMMA FileMoves ==
  ASSUME WalkInv, UNCHANGED file, file = "readable", NEW id \in Ids, NEW size \in Sizes \union {UNKNOWN_LENGTH},
         NEW h \in HeaderSizes, Header(id, size, h),
         NEW k \in 0..Len(stack), Placed(k, id, size, h),
         NEW b \in Nat \ {0}, NEW n \in Nat,
         After(size, h) >= b + n, After(size, h) # b + n + 1
  PROVE  /\ \A f \in Entries :
              /\ f.id = id /\ EndOf(f) = EndsAt(k, size, h)
              /\ size = UNKNOWN_LENGTH <=> f.size = UNKNOWN_LENGTH
              /\ n # 0 => EndsAt(k, size, h) # b
              => FileInv(Append(SubSeq(stack, 1, k), f), path', b, n)
         /\ n = 0 /\ EndsAt(k, size, h) = b => FileInv(SubSeq(stack, 1, k), path', b, n)
<1> DEFINE e == Place(k, id, size, h)  a == After(size, h)
<1>1. /\ FileInv(stack, path, reader.offset, 0) /\ reader.offset \in Nat
      /\ path \in Seq(Opened) /\ Len(path) \in Nat
      /\ StackOK(stack) /\ Len(stack) \in Nat
  BY InNestedFile, StackLength DEF Header, WalkInv
<1>2. k \in Nat /\ k <= Len(path) /\ k \in 0..Len(path)
  BY <1>1 DEF Placed
<1>3. {size, h} \subseteq Nat
  BY HeaderType
<1>4. /\ e \in Opened /\ e.id = id /\ e.end = EndsAt(k, size, h)
      /\ (e.unknown <=> size = UNKNOWN_LENGTH)
  <2>1. e \in Opened
    BY <1>2, <1>3, PlaceOpened
  <2> HIDE DEF EndsAt
  <2> QED BY <2>1 DEF Place
<1>5. a \in Nat /\ a > 0
  BY <1>1, <1>3 DEF After
<1> HIDE DEF a, e
<1>6. a >= b + n /\ a # b + n + 1
  BY DEF a
<1>7. \A j \in 1..k : path[j] \in Opened
  BY <1>1, <1>2, ElementOfSeq
<1>8. \A j \in 1..k : path[j].end # 0 => path[j].end >= b + n /\ path[j].end # b + n + 1
  <2> SUFFICES ASSUME NEW j \in 1..k, path[j].end # 0
               PROVE  path[j].end >= b + n /\ path[j].end # b + n + 1
    OBVIOUS
  <2>1. a <= path[j].end /\ a + 1 # path[j].end
    BY DEF Placed, Fits, a
  <2>2. path[j].end \in Nat
    BY <1>7 DEF Opened
  <2> QED BY <2>1, <2>2, <1>5, <1>6
<1>9. IF e.end = 0 THEN k = 0 /\ e.unknown ELSE e.end >= b + n /\ e.end # b + n + 1
  <2>1. CASE size # UNKNOWN_LENGTH
    <3>1. e.end = a
      BY <2>1, <1>4 DEF EndsAt, a
    <3> QED BY <3>1, <1>5, <1>6
  <2>2. CASE size = UNKNOWN_LENGTH /\ k = 0
    <3>1. e.end = 0 /\ e.unknown
      BY <2>2, <1>4 DEF EndsAt
    <3> QED BY <3>1, <2>2
  <2>3. CASE size = UNKNOWN_LENGTH /\ k # 0
    <3>1. e.end = path[k].end
      BY <2>3, <1>4 DEF EndsAt
    <3>2. path[k].end # 0
      BY <2>3, <1>2 DEF Placed, Readable
    <3>3. k \in 1..k
      BY <2>3, <1>2
    <3> QED BY <3>1, <3>2, <3>3, <1>8
  <2> QED BY <2>1, <2>2, <2>3
<1>10. \A j \in 1..k : path[j].end # 0 => e.end # 0 /\ e.end <= path[j].end
  <2> SUFFICES ASSUME NEW j \in 1..k, path[j].end # 0
               PROVE  e.end # 0 /\ e.end <= path[j].end
    OBVIOUS
  <2>1. CASE size # UNKNOWN_LENGTH
    <3>1. e.end = a
      BY <2>1, <1>4 DEF EndsAt, a
    <3>2. a <= path[j].end
      BY DEF Placed, Fits, a
    <3> QED BY <3>1, <3>2, <1>5
  <2>2. CASE size = UNKNOWN_LENGTH
    <3>1. e.end = path[k].end /\ path[k].end # 0 /\ k \in DOMAIN path /\ k # 0
      <4>1. k # 0 /\ k > 0
        BY <1>2
      <4>2. e.end = path[k].end
        BY <2>2, <4>1, <1>4 DEF EndsAt
      <4>3. path[k].end # 0
        BY <2>2, <4>1 DEF Placed, Readable
      <4>4. k \in DOMAIN path
        BY <4>1, <1>1, <1>2, LenProperties
      <4> QED BY <4>1, <4>2, <4>3, <4>4
    <3> QED BY <3>1, <1>1 DEF FileInv, EndsOK
  <2> QED BY <2>1, <2>2
<1>11. Goes(stack, path, k, e, b, n)
  BY <1>8, <1>9, <1>10 DEF Goes, Placed
<1>12. path' = Append(SubSeq(path, 1, k), e)
  BY DEF Placed, e
<1> QED BY <1>1, <1>2, <1>4, <1>11, <1>12, FileGoesOn

-----------------------------------------------------------------------------
(* One lemma per action.  Each has the types, the stack, the order of the  *)
(* calls, the objects and the file.                                        *)

(* The same, for an element the demuxer puts on its stack ...              *)
LEMMA FilePushed ==
  ASSUME WalkInv, UNCHANGED file, file = "readable", NEW id \in Ids, NEW size \in Sizes \union {UNKNOWN_LENGTH},
         NEW h \in HeaderSizes, Header(id, size, h),
         NEW k \in 0..Len(stack), Placed(k, id, size, h),
         NEW b \in Nat \ {0}, NEW n \in Nat,
         After(size, h) >= b + n, After(size, h) # b + n + 1,
         NEW f \in Entries, f.id = id, EndOf(f) = EndsAt(k, size, h),
         size = UNKNOWN_LENGTH <=> f.size = UNKNOWN_LENGTH,
         n # 0 => EndsAt(k, size, h) # b
  PROVE  FileInv(Append(SubSeq(stack, 1, k), f), path', b, n)
BY FileMoves

(* ... at whose first byte it stands, ...                                  *)
LEMMA FilePushedAtStart ==
  ASSUME WalkInv, UNCHANGED file, file = "readable", NEW id \in Ids, NEW size \in Sizes \union {UNKNOWN_LENGTH},
         NEW h \in HeaderSizes, Header(id, size, h),
         NEW k \in 0..Len(stack), Placed(k, id, size, h),
         NEW b \in Nat \ {0}, 
         After(size, h) >= b, After(size, h) # b + 1,
         NEW f \in Entries, f.id = id, EndOf(f) = EndsAt(k, size, h),
         size = UNKNOWN_LENGTH <=> f.size = UNKNOWN_LENGTH
  PROVE  FileInv(Append(SubSeq(stack, 1, k), f), path', b, 0)
<1>1. 0 \in Nat /\ After(size, h) >= b + 0 /\ After(size, h) # b + 0 + 1
  OBVIOUS
<1> QED BY <1>1, FilePushed

(* ... and for one it has left behind.                                     *)
LEMMA FilePassed ==
  ASSUME WalkInv, UNCHANGED file, file = "readable", NEW id \in Ids, NEW size \in Sizes \union {UNKNOWN_LENGTH},
         NEW h \in HeaderSizes, Header(id, size, h),
         NEW k \in 0..Len(stack), Placed(k, id, size, h),
         NEW b \in Nat \ {0}, 
         After(size, h) = b, EndsAt(k, size, h) = b
  PROVE  FileInv(SubSeq(stack, 1, k), path', b, 0)
<1>1. 0 \in Nat /\ After(size, h) >= b + 0 /\ After(size, h) # b + 0 + 1
  OBVIOUS
<1> QED BY <1>1, FileMoves

(* Nothing that the file is about has changed. *)
LEMMA FileStays ==
  ASSUME WalkInv, UNCHANGED file, UNCHANGED <<stack, path, reader, sample_size>>
  PROVE  FileOK'
BY DEF WalkInv, FileOK, AllSized, Wrapped

(* What the reader fails in is not read any further. *)
LEMMA FileFails ==
  ASSUME WalkInv, UNCHANGED file, reader'.error \in ReaderErrors, file = "sized" => AllSized(stack')
  PROVE  FileOK'
BY DEF FileOK, ReaderErrors, AllSized

LEMMA OpenWalk == ASSUME WalkInv, UNCHANGED file, Open PROVE WalkInv'
<1>1. TypeOK'
  BY DEF Open, WalkInv, TypeOK, fields, stream, Uninitialised
<1>2. CallsInOrder' /\ ~outside' /\ StackOK(stack')
  BY DEF Open, WalkInv, CallsInOrder, fields
<1>3. ObjectsOf(stack', ptr', segment_offset')
  BY DEF Open, WalkInv, Dead, fields
<1>4. FileOK'
  BY FileStays DEF Open, fields, stream
<1> QED BY <1>1, <1>2, <1>3, <1>4 DEF WalkInv

LEMMA ReadPacketWalk == ASSUME WalkInv, UNCHANGED file, ReadPacket PROVE WalkInv'
<1>1. TypeOK'
  BY DEF ReadPacket, WalkInv, TypeOK, fields, stream, Uninitialised
<1>2. CallsInOrder' /\ ~outside' /\ StackOK(stack')
  BY DEF ReadPacket, WalkInv, CallsInOrder, fields
<1>3. ObjectsOf(stack', ptr', segment_offset')
  BY DEF ReadPacket, WalkInv, Dead, fields
<1>4. FileOK'
  BY FileStays DEF ReadPacket, fields, stream
<1> QED BY <1>1, <1>2, <1>3, <1>4 DEF WalkInv

LEMMA TakeWalk == ASSUME WalkInv, UNCHANGED file, Take PROVE WalkInv'
<1>1. /\ reader' \in [offset : Nat, error : {"OK"} \union ReaderErrors]
      /\ sample_size' \in Nat
      /\ due' \in [time : Nat \union {NoTime}, size : Nat, at : Nat]
  <2>1. /\ reader \in [offset : Nat, error : {"OK"} \union ReaderErrors]
        /\ sample_size \in Nat
        /\ due \in [time : Nat \union {NoTime}, size : Nat, at : Nat]
    BY DEF WalkInv, TypeOK
  <2> QED BY <2>1 DEF Take, ReaderErrors, NoBlock
<1>2. TypeOK'
  BY <1>1 DEF Take, Fail, WalkInv, TypeOK, ReaderErrors, caller
<1>6. ~outside' /\ ~(Wrapped /\ reader.error = "OK")
  BY DEF Take, WalkInv, FileOK
<1>3. CallsInOrder' /\ StackOK(stack')
  <2>1. StackOK(stack') /\ pc = "take" /\ opened
    BY DEF Take, WalkInv, CallsInOrder
  <2>2. pc' = "idle" /\ opened' = opened
    BY <1>6 DEF Take, Fail
  <2> QED BY <2>1, <2>2 DEF CallsInOrder
<1>4. ObjectsOf(stack', ptr', segment_offset')
  BY DEF Take, WalkInv, Dead
<1>7. sample_size' = 0 => ~Wrapped'
  BY DEF Wrapped
<1>5. FileOK'
  <2>1. CASE UNCHANGED <<reader, sample_size>>
    BY <2>1, FileStays DEF Take
  <2>2. CASE reader.error = "OK" /\ reader' = [reader EXCEPT !.offset = @ + sample_size] /\ sample_size' = 0
    <3>1. /\ reader.offset \in Nat /\ sample_size \in Nat /\ path \in Seq(Opened)
          /\ reader \in [offset : Nat, error : {"OK"} \union ReaderErrors]
      BY DEF WalkInv, TypeOK, Opened
    <3>2. reader'.offset = reader.offset + sample_size
      BY <2>2, <3>1
    <3>3. stack' = stack /\ path' = path
      BY DEF Take
    <3>4. file = "readable" => FileInv(stack, path, reader.offset, sample_size)
      BY <2>2 DEF WalkInv, FileOK
    <3>5. file = "readable" => FileInv(stack, path, reader.offset + sample_size, 0)
      <4>1. CASE sample_size = 0
        <5>1. reader.offset + sample_size = reader.offset
          BY <3>1, <4>1
        <5> QED BY <3>4, <4>1, <5>1
      <4>2. CASE sample_size # 0
        BY <3>1, <3>4, <4>2, FileTaken
      <4> QED BY <4>1, <4>2
    <3>6. file = "sized" => AllSized(stack)
      BY DEF WalkInv, FileOK
    <3> QED BY <1>7, <2>2, <3>2, <3>3, <3>5, <3>6 DEF FileOK, AllSized
  <2>3. CASE \E e \in ReaderErrors : reader' = [reader EXCEPT !.error = e]
    <3>1. reader \in [offset : Nat, error : {"OK"} \union ReaderErrors]
      BY DEF WalkInv, TypeOK
    <3>2. reader'.error \in ReaderErrors
      BY <2>3, <3>1
    <3>3. file = "sized" => AllSized(stack')
      BY DEF Take, WalkInv, FileOK
    <3> QED BY <3>2, <3>3, FileFails
  <2> QED BY <1>6, <2>1, <2>2, <2>3 DEF Take, ReaderErrors
<1> QED BY <1>2, <1>3, <1>4, <1>5, <1>6 DEF WalkInv

LEMMA FinishElementWalk == ASSUME WalkInv, UNCHANGED file, FinishElement PROVE WalkInv'
<1>1. stack # <<>> /\ ~Has(Top, 2)
  BY DEF FinishElement, Ready
<1>0. /\ Len(stack) \in Nat /\ Len(stack) # 0 /\ Len(stack) - 1 \in 0..Len(stack)
      /\ DOMAIN stack = 1..Len(stack)
  <2>1. Len(stack) \in Nat /\ Len(stack) # 0 /\ DOMAIN stack = 1..Len(stack)
    BY <1>1, StackLength DEF WalkInv
  <2> QED BY <2>1
<1>2. /\ StackOK(stack')
      /\ ObjectsOf(stack, ptr, segment_offset) => ObjectsOf(stack', ptr, segment_offset)
  BY <1>0, Popped DEF FinishElement, WalkInv
<1>3. TypeOK'
  BY <1>2 DEF FinishElement, WalkInv, TypeOK, StackOK, Entries, caller, fields, stream
<1>4. CallsInOrder' /\ ~outside'
  BY DEF FinishElement, WalkInv, CallsInOrder, caller, fields
<1>5. ObjectsOf(stack', ptr', segment_offset')
  BY <1>2, InRound DEF FinishElement, fields
<1>6. file = "sized" => AllSized(stack')
  <2>1. /\ DOMAIN stack' = 1..Len(stack) - 1
        /\ \A j \in 1..Len(stack) - 1 : stack'[j] = stack[j] /\ j \in DOMAIN stack
    BY <1>0, CutAt DEF FinishElement, WalkInv, StackOK
  <2> QED BY <2>1 DEF WalkInv, FileOK, AllSized
<1>7. ASSUME file = "readable", reader.error = "OK" PROVE FileInv(stack', path, reader.offset, 0)
  <2>1. FileInv(stack, path, reader.offset, 0)
    BY <1>7, InRound DEF WalkInv, FileOK, FinishElement
  <2>2. stack[Len(stack)] \in Entries /\ reader.offset \in Nat /\ path \in Seq(Opened)
    BY <1>0, ElementOfSeq DEF WalkInv, TypeOK, Opened, StackOK
  <2>3. EndOf(Top) < reader.offset + 2 /\ (EndOf(Top) = 0 => Top.size # UNKNOWN_LENGTH)
    BY <1>1, <2>2 DEF Has, Top, EndOf, Entries
  <2>4. EndOf(Top) # 0
    <3> SUFFICES ASSUME EndOf(Top) = 0 PROVE FALSE
      OBVIOUS
    <3>1. Len(stack) \in DOMAIN stack /\ reader.offset > 0
      BY <1>0, <1>1, <2>1 DEF FileInv
    <3>2. Matched(stack, path, Len(stack))
      BY <2>1, <2>2, <3>1 DEF FileInv, Top
    <3>3. path[Len(stack)].unknown
      BY <2>1, <3>2 DEF FileInv, EndsOK, Matched, Top
    <3> QED BY <2>3, <3>2, <3>3 DEF Matched, Top
  <2> QED BY <1>1, <2>1, <2>2, <2>3, <2>4, Finished DEF FinishElement, WalkInv, Top
<1>8. FileOK'
  <2>1. UNCHANGED <<path, reader, sample_size>> /\ sample_size = 0
    BY InRound DEF FinishElement, fields, stream
  <2>2. ~Wrapped'
    BY <2>1 DEF Wrapped
  <2> QED BY <1>6, <1>7, <2>1, <2>2 DEF FileOK, AllSized
<1> QED BY <1>2, <1>3, <1>4, <1>5, <1>8 DEF WalkInv

LEMMA HeaderInvalidWalk == ASSUME WalkInv, UNCHANGED file, HeaderInvalid PROVE WalkInv'
<1>1. sample_size' = sample_size
  BY DEF HeaderInvalid, fields
<1>2. /\ pc' = "idle" /\ result' = "XE_INVALID_DATA" /\ opened' = opened
      /\ CallsInOrder' /\ Dead'
  BY <1>1, Failed DEF HeaderInvalid
<1>3. TypeOK'
  BY <1>2 DEF HeaderInvalid, WalkInv, TypeOK, fields, stream
<1>4. FileOK'
  BY FileStays DEF HeaderInvalid, fields, stream
<1> QED BY <1>2, <1>3, <1>4 DEF WalkInv, HeaderInvalid

LEMMA BrokenReader ==
  ASSUME WalkInv, NEW e \in ReaderErrors, Broken(e)
  PROVE  reader' \in [offset : Nat, error : {"OK"} \union ReaderErrors] /\ reader'.error = e
<1>1. reader \in [offset : Nat, error : {"OK"} \union ReaderErrors]
  BY DEF WalkInv, TypeOK
<1> QED BY <1>1 DEF Broken

LEMMA IdFailsWalk ==
  ASSUME WalkInv, UNCHANGED file, NEW e \in ReaderErrors, IdFails(e)
  PROVE  WalkInv'
<1>1. /\ pc' \in {"idle", "take"} /\ opened' \in BOOLEAN
      /\ result' \in {"OK", "XE_ENOMEM", "XE_INVALID_DATA"} \union ReaderErrors
      /\ CallsInOrder' /\ StackOK(stack') /\ stack' \in {stack, <<>>}
      /\ Dead' \/ ObjectsOf(stack', ptr', segment_offset')
  <2>1. CASE e = "XE_EOF" /\ TopUnknown /\ Top.end = 0
    <3>1. stack' = <<>> /\ Return
      BY <2>1 DEF IdFails
    <3> QED BY <3>1, Returned, EmptyStack DEF IdFails
  <2>2. CASE ~(e = "XE_EOF" /\ TopUnknown /\ Top.end = 0)
    <3>1. stack' = stack /\ Fail(e) /\ sample_size' = sample_size /\ InChildren
      BY <2>2 DEF IdFails, fields
    <3> QED BY <3>1, Failed DEF WalkInv, TypeOK
  <2> QED BY <2>1, <2>2
<1>2. reader' \in [offset : Nat, error : {"OK"} \union ReaderErrors] /\ reader'.error = e
  BY BrokenReader DEF IdFails
<1>3. TypeOK'
  BY <1>1, <1>2 DEF IdFails, Broken, WalkInv, TypeOK, StackOK, Entries, fields
<1>4. FileOK'
  <2>1. DOMAIN <<>> = {}
    BY EmptySeq
  <2>2. file = "sized" => AllSized(stack')
    BY <1>1, <2>1 DEF WalkInv, FileOK, AllSized
  <2> QED BY <1>2, <2>2, FileFails
<1> QED BY <1>1, <1>3, <1>4 DEF WalkInv, IdFails

LEMMA SizeFailsWalk ==
  ASSUME WalkInv, UNCHANGED file, NEW e \in ReaderErrors, SizeFails(e)
  PROVE  WalkInv'
<1>1. sample_size' = sample_size
  BY DEF SizeFails, fields
<1>2. /\ pc' = "idle" /\ result' = e /\ opened' = opened
      /\ CallsInOrder' /\ Dead'
  BY <1>1, Failed DEF SizeFails
<1>3. reader' \in [offset : Nat, error : {"OK"} \union ReaderErrors] /\ reader'.error = e
  BY BrokenReader DEF SizeFails
<1>4. TypeOK'
  BY <1>2, <1>3 DEF SizeFails, Broken, WalkInv, TypeOK, fields
<1>5. FileOK'
  <2>1. file = "sized" => AllSized(stack')
    BY DEF SizeFails, WalkInv, FileOK
  <2> QED BY <1>3, <2>1, FileFails
<1> QED BY <1>2, <1>4, <1>5 DEF WalkInv, SizeFails

(* An element in the wrong place is in no readable file, ...               *)
LEMMA Ignored ==
  ASSUME WalkInv, UNCHANGED file,
         NEW id \in Ids, NEW size \in Sizes \union {UNKNOWN_LENGTH}, NEW h \in HeaderSizes,
         Ignore(id, size, h)
  PROVE  /\ InChildren /\ Header(id, size, h) /\ file = "sized" /\ size # UNKNOWN_LENGTH
         /\ UNCHANGED caller \/ Return
<1>1. InChildren /\ Header(id, size, h) /\ id \in DOMAIN Grammar /\ Misplaced(id)
  BY DEF Ignore, Header
<1>2. file = "sized"
  BY <1>1, WrittenAt DEF WalkInv
<1>3. size # UNKNOWN_LENGTH
  BY <1>1, <1>2, HeaderType
<1> QED BY <1>1, <1>2, <1>3 DEF Ignore, RoundEnds

LEMMA IgnoreWalk ==
  ASSUME WalkInv, UNCHANGED file,
         NEW id \in Ids, NEW size \in Sizes \union {UNKNOWN_LENGTH}, NEW h \in HeaderSizes,
         Ignore(id, size, h)
  PROVE  WalkInv'
<1>1. InChildren /\ Header(id, size, h) /\ file = "sized" /\ (UNCHANGED caller \/ Return)
  BY Ignored
<1>2. /\ {size, h} \subseteq Nat /\ reader.offset \in Nat /\ path' \in Seq(Opened)
  BY <1>1, HeaderType
<1>3. reader' \in [offset : Nat, error : {"OK"} \union ReaderErrors]
  <2>1. reader' = [reader EXCEPT !.offset = reader.offset + h]
    BY DEF Ignore, At
  <2>2. reader.offset + h \in Nat
    BY <1>2
  <2>3. reader \in [offset : Nat, error : {"OK"} \union ReaderErrors]
    BY DEF WalkInv, TypeOK
  <2> QED BY <2>1, <2>2, <2>3
<1>5. /\ CallsInOrder' /\ pc' \in {"idle", "open", "packet", "take"} /\ opened' \in BOOLEAN
      /\ result' \in {"OK", "XE_ENOMEM", "XE_INVALID_DATA"} \union ReaderErrors
  <2>1. CASE UNCHANGED caller
    BY <2>1 DEF Ignore, WalkInv, TypeOK, CallsInOrder, caller, fields
  <2>2. CASE Return
    BY <1>1, <2>2, Returned
  <2> QED BY <1>1, <2>1, <2>2
<1>4. TypeOK'
  BY <1>1, <1>2, <1>3, <1>5 DEF Ignore, WalkInv, TypeOK, Opened, fields
<1>6. ObjectsOf(stack', ptr', segment_offset') /\ StackOK(stack') /\ ~outside'
  BY <1>1, InRound DEF Ignore, WalkInv, fields
<1>7. FileOK'
  <2>1. sample_size' = 0
    BY <1>1, InRound DEF Ignore, fields
  <2> QED BY <1>1, <2>1 DEF Ignore, WalkInv, FileOK, AllSized, Wrapped
<1> QED BY <1>1, <1>4, <1>5, <1>6, <1>7 DEF WalkInv

(* ... and no value in a sound one has no size.                            *)
LEMMA NothingRefused ==
  ASSUME WalkInv, UNCHANGED file, NEW id \in Ids, NEW h \in HeaderSizes
  PROVE  ~RefuseUnknown(id, h)
BY HeaderType DEF RefuseUnknown, Refused

LEMMA SkipElementWalk ==
  ASSUME WalkInv, UNCHANGED file,
         NEW id \in Ids, NEW size \in Sizes \union {UNKNOWN_LENGTH}, NEW h \in HeaderSizes,
         SkipElement(id, size, h)
  PROVE  WalkInv'
<1>1. InChildren /\ Header(id, size, h) /\ id \notin DOMAIN Grammar
  BY DEF SkipElement, Header
<1>2. /\ {size, h} \subseteq Nat /\ h >= 2 /\ reader.offset \in Nat /\ path' \in Seq(Opened)
      /\ size # UNKNOWN_LENGTH /\ reader.error = "OK"
  BY <1>1, HeaderType, RootIsNone
<1> DEFINE b == reader.offset + h + size
<1>3. b \in Nat \ {0} /\ After(size, h) = b
  BY <1>2 DEF After
<1> HIDE DEF b
<1>4. reader' \in [offset : Nat, error : {"OK"} \union ReaderErrors] /\ reader'.offset = b
  <2>1. reader' = [reader EXCEPT !.offset = b]
    BY <1>2 DEF SkipElement, At, b
  <2>2. reader \in [offset : Nat, error : {"OK"} \union ReaderErrors]
    BY DEF WalkInv, TypeOK
  <2> QED BY <1>3, <2>1, <2>2
<1>9. UNCHANGED caller /\ outside' = FALSE
  <2>1. Len(stack) \in 0..5
    BY StackLength DEF WalkInv
  <2>2. outside' = (Len(stack) >= 16)
    BY DEF SkipElement, IsFull, STACK_SIZE
  <2>4. 0 \in 0..Len(stack)
    BY <2>1
  <2>3. outside' = FALSE
    BY <2>1, <2>2, <2>4, Below16
  <2> QED BY <1>2, <2>3 DEF SkipElement, RoundEnds
<1>5. TypeOK'
  BY <1>1, <1>2, <1>4, <1>9 DEF SkipElement, WalkInv, TypeOK, Opened, caller, fields
<1>6. CallsInOrder' /\ ~outside' /\ StackOK(stack')
  BY <1>9 DEF SkipElement, WalkInv, CallsInOrder, caller, fields
<1>7. ObjectsOf(stack', ptr', segment_offset')
  BY <1>1, InRound DEF SkipElement, fields
<1>8. FileOK'
  <2>1. stack' = stack /\ sample_size' = 0
    BY <1>1, InRound DEF SkipElement, fields
  <2>2. ASSUME file = "readable" PROVE FileInv(stack, path', b, 0)
    <3>1. Placed(Len(stack), id, size, h)
      BY <1>1, <2>2, WrittenAt
    <3>2. Len(stack) \in 0..Len(stack) /\ SubSeq(stack, 1, Len(stack)) = stack
      BY StackLength, SubSeqFull DEF WalkInv, StackOK
    <3>3. After(size, h) = b /\ b \in Nat \ {0}
      BY <1>3
    <3>4. EndsAt(Len(stack), size, h) = b
      BY <1>2, <1>3 DEF EndsAt
    <3>5. Header(id, size, h)
      BY <1>1
    <3>6. FileInv(SubSeq(stack, 1, Len(stack)), path', b, 0)
      BY <2>2, <3>1, <3>2, <3>3, <3>4, <3>5, FilePassed
    <3> QED BY <3>2, <3>6
  <2>3. file = "sized" => AllSized(stack)
    BY DEF WalkInv, FileOK
  <2>4. ~Wrapped'
    BY <2>1 DEF Wrapped
  <2> QED BY <1>4, <2>1, <2>2, <2>3, <2>4 DEF FileOK, AllSized
<1> QED BY <1>5, <1>6, <1>7, <1>8 DEF WalkInv

LEMMA SkipFailsWalk ==
  ASSUME WalkInv, UNCHANGED file,
         NEW id \in Ids, NEW size \in Sizes \union {UNKNOWN_LENGTH}, NEW h \in HeaderSizes,
         NEW e \in ReaderErrors, SkipFails(id, size, h, e)
  PROVE  WalkInv'
<1>1. InChildren /\ Header(id, size, h) /\ sample_size' = sample_size
  BY DEF SkipFails, Header, fields
<1>2. /\ pc' = "idle" /\ result' = e /\ opened' = opened
      /\ CallsInOrder' /\ Dead'
  BY <1>1, Failed DEF SkipFails
<1>3. {size, h} \subseteq Nat /\ reader.offset \in Nat /\ path' \in Seq(Opened)
  BY <1>1, HeaderType
<1>4. reader' \in [offset : Nat, error : {"OK"} \union ReaderErrors] /\ reader'.error = e
  BY <1>3 DEF SkipFails
<1>7. outside' = FALSE
  <2>1. Len(stack) \in 0..5
    BY StackLength DEF WalkInv
  <2>2. outside' = (Len(stack) >= 16)
    BY DEF SkipFails, IsFull, STACK_SIZE
  <2>3. 0 \in 0..Len(stack)
    BY <2>1
  <2> QED BY <2>1, <2>2, <2>3, Below16
<1>5. TypeOK'
  BY <1>2, <1>3, <1>4, <1>7 DEF SkipFails, WalkInv, TypeOK, Opened, fields
<1>6. FileOK'
  <2>1. file = "sized" => AllSized(stack')
    BY DEF SkipFails, WalkInv, FileOK
  <2> QED BY <1>4, <2>1, FileFails
<1> QED BY <1>2, <1>5, <1>6, <1>7 DEF WalkInv, SkipFails

(* The end of a master that is entered is not behind the reader. *)
LEMMA EnterGoesOn ==
  ASSUME WalkInv, UNCHANGED file,
         NEW id \in Ids, NEW size \in Sizes \union {UNKNOWN_LENGTH}, NEW h \in HeaderSizes,
         Enter(id, size, h), RoundEnds(size, end')
  PROVE  UNCHANGED caller
<1>1. CASE size # UNKNOWN_LENGTH
  BY <1>1 DEF RoundEnds
<1>2. CASE size = UNKNOWN_LENGTH
  <2>1. Handled(id, size, h, Below(id)) /\ end' = EndIn(Below(id))
    BY <1>2 DEF Enter, Below
  <2>2. /\ InChildren /\ Header(id, size, h) /\ Depth(id) \in 0..Len(stack)
        /\ file = "readable" => Placed(Depth(id), id, size, h)
    BY <2>1, HandledAt
  <2>3. /\ {size, h} \subseteq Nat /\ reader.offset \in Nat /\ file = "readable"
    BY <1>2, <2>2, HeaderType
  <2>4. end' = EndsAt(Depth(id), UNKNOWN_LENGTH, h) /\ end' \in Nat
    BY <1>2, <2>1, <2>2, <2>3, BoundIsFound
  <2>5. reader'.offset = reader.offset + h
    <3>1. reader' = [reader EXCEPT !.offset = reader.offset + h]
      BY DEF Enter, At
    <3>2. reader \in [offset : Nat, error : {"OK"} \union ReaderErrors]
      BY DEF WalkInv, TypeOK
    <3> QED BY <3>1, <3>2
  <2>6. end' # 0 => reader.offset + h <= end'
    <3>1. Depth(id) # 0 => Depth(id) \in 1..Depth(id)
      BY <2>2
    <3>2. Depth(id) # 0 /\ path[Depth(id)].end # 0 => After(UNKNOWN_LENGTH, h) <= path[Depth(id)].end
      BY <1>2, <2>2, <2>3, <3>1 DEF Placed, Fits
    <3>3. After(UNKNOWN_LENGTH, h) = reader.offset + h
      BY <2>3 DEF After
    <3> QED BY <2>4, <3>2, <3>3 DEF EndsAt
  <2>7. ~(end' # 0 /\ end' < reader'.offset)
    BY <2>3, <2>4, <2>5, <2>6
  <2> QED BY <2>7 DEF RoundEnds
<1> QED BY <1>1, <1>2

LEMMA EnterWalk ==
  ASSUME WalkInv, UNCHANGED file,
         NEW id \in Ids, NEW size \in Sizes \union {UNKNOWN_LENGTH}, NEW h \in HeaderSizes,
         Enter(id, size, h)
  PROVE  WalkInv'
<1>0. Handled(id, size, h, Below(id)) /\ id \in Masters
  BY DEF Enter, Below
<1>1. /\ InChildren /\ Header(id, size, h) /\ outside' = FALSE
      /\ Depth(id) \in 0..Len(stack) /\ (file = "readable" => Placed(Depth(id), id, size, h))
  BY <1>0, HandledAt
<1>2. /\ {size, h} \subseteq Nat /\ h >= 2 /\ reader.offset \in Nat /\ path' \in Seq(Opened)
      /\ size = UNKNOWN_LENGTH => file = "readable"
      /\ reader.error = "OK"
  BY <1>1, HeaderType
<1> DEFINE e == IF size = UNKNOWN_LENGTH THEN EndIn(Below(id)) ELSE 0
           elem == Element(id, size, h, e)
           b == reader.offset + h
<1>3. /\ end' = IF size = UNKNOWN_LENGTH THEN e ELSE end
      /\ stack' = Append(Below(id), elem)
  BY DEF Enter, Below
<1>4. /\ e \in Nat
      /\ size = UNKNOWN_LENGTH => e = EndsAt(Depth(id), UNKNOWN_LENGTH, h)
  BY <1>1, <1>2, BoundIsFound
<1>5. b \in Nat \ {0}
  BY <1>2
<1>6. /\ elem.id = id /\ elem.size = size
      /\ file = "readable" => EndOf(elem) = EndsAt(Depth(id), size, h)
  <2>1. elem.id = id /\ elem.size = size /\ elem.end = e /\ elem.offset = b
    BY DEF Element
  <2> HIDE DEF e, b
  <2>2. CASE size = UNKNOWN_LENGTH
    BY <2>1, <2>2, <1>4 DEF EndOf
  <2>3. CASE size # UNKNOWN_LENGTH
    BY <2>1, <2>3 DEF EndOf, EndsAt, After, b
  <2> QED BY <2>1, <2>2, <2>3
<1> HIDE DEF e
<1>7. /\ StackOK(stack') /\ (file = "sized" => AllSized(stack'))
      /\ elem \in Entries
      /\ \A q, new :
            /\ IF id \in Owners THEN q = [id |-> id, at |-> b] ELSE q = ptr
            /\ IF id = "MKV_SEGMENT" THEN new = b ELSE new = segment_offset
            => ObjectsOf(stack', q, new)
  BY <1>0, <1>3, <1>4, HandledPushed
<1> HIDE DEF elem, b
<1>8. /\ sample_size' = sample_size
      /\ segment_offset' = IF id = "MKV_SEGMENT" THEN b ELSE segment_offset
      /\ \/ /\ UNCHANGED caller
            /\ IF id \in Owners THEN ptr' = [id |-> id, at |-> b] ELSE ptr' = ptr
         \/ /\ Fail("XE_ENOMEM")
            /\ ptr' \in {ptr, [id |-> "EBML_ROOT", at |-> 0]}
  BY EnterGoesOn DEF Enter, b
<1>9. /\ pc' \in {"idle", "open", "packet", "take"} /\ opened' = opened
      /\ result' \in {"OK", "XE_ENOMEM", "XE_INVALID_DATA"} \union ReaderErrors
      /\ CallsInOrder'
      /\ Dead' \/ ObjectsOf(stack', ptr', segment_offset')
  <2>1. CASE UNCHANGED caller /\ IF id \in Owners THEN ptr' = [id |-> id, at |-> b] ELSE ptr' = ptr
    <3>1. ObjectsOf(stack', ptr', segment_offset')
      BY <2>1, <1>7, <1>8
    <3> QED BY <2>1, <3>1, <1>8 DEF caller, WalkInv, TypeOK, CallsInOrder
  <2>2. CASE Fail("XE_ENOMEM")
    BY <2>2, <1>1, <1>8, Failed
  <2> QED BY <1>8, <2>1, <2>2
<1>10. ptr' \in [id : Owners \union {"EBML_ROOT"}, at : Nat]
  <2>1. ptr \in [id : Owners \union {"EBML_ROOT"}, at : Nat]
    BY DEF WalkInv, TypeOK
  <2>2. ptr' \in {ptr, [id |-> "EBML_ROOT", at |-> 0]} \/ (id \in Owners /\ ptr' = [id |-> id, at |-> b])
    BY <1>8
  <2> QED BY <2>1, <2>2, <1>5
<1>11. /\ segment_offset' \in Nat /\ clock' \in Nat \union {NoTime}
       /\ reader' \in [offset : Nat, error : {"OK"} \union ReaderErrors]
       /\ reader'.offset = b /\ reader'.error = "OK"
  <2>1. /\ segment_offset \in Nat /\ clock \in Nat \union {NoTime}
        /\ reader \in [offset : Nat, error : {"OK"} \union ReaderErrors]
    BY DEF WalkInv, TypeOK
  <2>2. reader' = [reader EXCEPT !.offset = b] /\ clock' \in {NoTime, clock}
    BY DEF Enter, At, b
  <2> QED BY <2>1, <2>2, <1>2, <1>5, <1>8
<1>12. stack' \in Seq([id : DOMAIN Grammar, offset : Nat, size : Nat, end : Nat]) /\ end' \in Nat
  BY <1>3, <1>4, <1>7 DEF StackOK, Entries, WalkInv, TypeOK
<1>13. UNCHANGED <<cluster_timecode, sample_size, sample_time, due>>
  BY DEF Enter
<1>14. TypeOK'
  BY <1>1, <1>2, <1>9, <1>10, <1>11, <1>12, <1>13 DEF WalkInv, TypeOK, Opened
<1>15. FileOK'
  <2>1. ASSUME file = "readable" PROVE FileInv(stack', path', b, 0)
    <3>1. After(size, h) >= b /\ After(size, h) # b + 1
      <4>1. size # 1
        BY <1>0, <1>1, <2>1 DEF Placed, Complete
      <4> QED BY <4>1, <1>2 DEF After, b
    <3>2. /\ elem.id = id /\ EndOf(elem) = EndsAt(Depth(id), size, h)
          /\ size = UNKNOWN_LENGTH <=> elem.size = UNKNOWN_LENGTH
      BY <1>6, <2>1
    <3>3. Header(id, size, h) /\ Depth(id) \in 0..Len(stack) /\ Placed(Depth(id), id, size, h)
      BY <1>1, <2>1
    <3>4. b \in Nat \ {0} /\ elem \in Entries
      BY <1>1, <1>5, <1>7
    <3>5. FileInv(Append(SubSeq(stack, 1, Depth(id)), elem), path', b, 0)
      BY <2>1, <3>1, <3>2, <3>3, <3>4, FilePushedAtStart
    <3> QED BY <3>5, <1>3 DEF Below
  <2>2. sample_size' = 0
    BY <1>1, <1>8, InRound
  <2>3. ~Wrapped'
    BY <2>2 DEF Wrapped
  <2> QED BY <1>7, <1>11, <2>1, <2>2, <2>3 DEF FileOK, AllSized
<1> QED BY <1>1, <1>7, <1>9, <1>14, <1>15 DEF WalkInv

LEMMA ReadLeafWalk ==
  ASSUME WalkInv, UNCHANGED file,
         NEW id \in Ids, NEW size \in Sizes \union {UNKNOWN_LENGTH}, NEW h \in HeaderSizes,
         NEW t \in Timecodes, ReadLeaf(id, size, h, t)
  PROVE  WalkInv'
<1>0. Handled(id, size, h, Below(id)) /\ id \notin Masters
  BY DEF ReadLeaf, Below, Leaves
<1>1. /\ InChildren /\ Header(id, size, h) /\ outside' = FALSE
      /\ Depth(id) \in 0..Len(stack) /\ (file = "readable" => Placed(Depth(id), id, size, h))
  BY <1>0, HandledAt
<1>2. /\ {size, h} \subseteq Nat /\ h >= 2 /\ reader.offset \in Nat /\ path' \in Seq(Opened)
      /\ size # UNKNOWN_LENGTH /\ reader.error = "OK"
  BY <1>0, <1>1, HeaderType
<1> DEFINE b == reader.offset + h + size
<1>3. b \in Nat \ {0} /\ After(size, h) = b
  BY <1>2 DEF After
<1> HIDE DEF b
<1>4. /\ stack' = Below(id)
      /\ UNCHANGED <<caller, end, ptr, segment_offset, sample_size, sample_time, due>>
  BY DEF ReadLeaf, Below
<1>5. reader' \in [offset : Nat, error : {"OK"} \union ReaderErrors] /\ reader'.offset = b
  <2>1. reader' = [reader EXCEPT !.offset = b]
    BY DEF ReadLeaf, At, b
  <2>2. reader \in [offset : Nat, error : {"OK"} \union ReaderErrors]
    BY DEF WalkInv, TypeOK
  <2> QED BY <2>1, <2>2, <1>3
<1>6. cluster_timecode' \in Nat /\ clock' \in Nat \union {NoTime}
  BY DEF ReadLeaf, TimecodeRead, WalkInv, TypeOK
<1>7. /\ StackOK(stack') /\ ObjectsOf(stack', ptr', segment_offset')
      /\ file = "sized" => AllSized(stack')
  BY <1>1, <1>4, BelowOK
<1>8. TypeOK'
  BY <1>1, <1>2, <1>4, <1>5, <1>6, <1>7 DEF WalkInv, TypeOK, Opened, StackOK, Entries, caller
<1>9. CallsInOrder'
  BY <1>4 DEF WalkInv, CallsInOrder, caller
<1>10. FileOK'
  <2>1. sample_size' = 0
    BY <1>1, <1>4, InRound
  <2>2. ASSUME file = "readable" PROVE FileInv(stack', path', b, 0)
    <3>1. After(size, h) = b /\ b \in Nat \ {0}
      BY <1>3
    <3>2. EndsAt(Depth(id), size, h) = b
      BY <1>2, <1>3 DEF EndsAt
    <3>3. Header(id, size, h) /\ Depth(id) \in 0..Len(stack) /\ Placed(Depth(id), id, size, h)
      BY <1>1, <2>2
    <3>4. FileInv(SubSeq(stack, 1, Depth(id)), path', b, 0)
      BY <2>2, <3>1, <3>2, <3>3, FilePassed
    <3> QED BY <3>4, <1>4 DEF Below
  <2>3. ~Wrapped'
    BY <2>1 DEF Wrapped
  <2> QED BY <1>5, <1>7, <2>1, <2>2, <2>3 DEF FileOK, AllSized
<1> QED BY <1>1, <1>7, <1>8, <1>9, <1>10 DEF WalkInv

LEMMA LeafInvalidWalk ==
  ASSUME WalkInv, UNCHANGED file,
         NEW id \in Ids, NEW size \in Sizes \union {UNKNOWN_LENGTH}, NEW h \in HeaderSizes,
         LeafInvalid(id, size, h)
  PROVE  WalkInv'
<1>0. Handled(id, size, h, Below(id)) /\ id \notin Masters
  BY DEF LeafInvalid, Below, Leaves
<1>1. /\ InChildren /\ Header(id, size, h) /\ outside' = FALSE
      /\ Depth(id) \in 0..Len(stack) /\ (file = "readable" => Placed(Depth(id), id, size, h))
  BY <1>0, HandledAt
<1>2. /\ {size, h} \subseteq Nat /\ h >= 2 /\ reader.offset \in Nat /\ path' \in Seq(Opened)
      /\ size # UNKNOWN_LENGTH /\ reader.error = "OK"
  BY <1>0, <1>1, HeaderType
<1> DEFINE b == reader.offset + h + size
           elem == Element(id, size, h, 0)
<1>3. b \in Nat \ {0} /\ After(size, h) = b
  BY <1>2 DEF After
<1>4. elem.id = id /\ elem.size = size /\ EndOf(elem) = b
  BY <1>2 DEF Element, EndOf
<1> HIDE DEF b
<1>5. stack' = Append(Below(id), elem) /\ UNCHANGED <<end, fields, clock, due>>
  BY DEF LeafInvalid, Below
<1>6. StackOK(stack') /\ (file = "sized" => AllSized(stack')) /\ elem \in Entries
  BY <1>0, <1>5, HandledPushed
<1> HIDE DEF elem
<1>7. reader' \in [offset : Nat, error : {"OK"} \union ReaderErrors] /\ reader'.offset = b
  <2>1. reader' = [reader EXCEPT !.offset = b]
    BY DEF LeafInvalid, At, b
  <2>2. reader \in [offset : Nat, error : {"OK"} \union ReaderErrors]
    BY DEF WalkInv, TypeOK
  <2> QED BY <2>1, <2>2, <1>3
<1>8. /\ pc' = "idle" /\ result' = "XE_INVALID_DATA" /\ opened' = opened
      /\ CallsInOrder' /\ Dead'
  BY <1>1, <1>5, Failed DEF LeafInvalid, fields
<1>9. TypeOK'
  BY <1>1, <1>2, <1>5, <1>6, <1>7, <1>8 DEF WalkInv, TypeOK, Opened, StackOK, Entries, fields
<1>10. FileOK'
  <2>1. sample_size' = 0
    BY <1>8 DEF Dead
  <2>2. ASSUME file = "readable" PROVE FileInv(stack', path', b, 0)
    <3>1. b \in Nat \ {0} /\ After(size, h) >= b /\ After(size, h) # b + 1
      BY <1>3
    <3>2. EndsAt(Depth(id), size, h) = b
      BY <1>2, <1>3 DEF EndsAt
    <3>3. Header(id, size, h) /\ Depth(id) \in 0..Len(stack) /\ Placed(Depth(id), id, size, h)
      BY <1>1, <2>2
    <3>4. /\ elem \in Entries /\ elem.id = id /\ EndOf(elem) = EndsAt(Depth(id), size, h)
          /\ size = UNKNOWN_LENGTH <=> elem.size = UNKNOWN_LENGTH
      BY <1>4, <1>6, <3>2
    <3>5. FileInv(Append(SubSeq(stack, 1, Depth(id)), elem), path', b, 0)
      BY <2>2, <3>1, <3>3, <3>4, FilePushedAtStart
    <3> QED BY <3>5, <1>5 DEF Below
  <2>3. ~Wrapped'
    BY <2>1 DEF Wrapped
  <2> QED BY <1>6, <1>7, <2>1, <2>2, <2>3 DEF FileOK, AllSized
<1> QED BY <1>1, <1>6, <1>8, <1>9, <1>10 DEF WalkInv

LEMMA LeafFailsWalk ==
  ASSUME WalkInv, UNCHANGED file,
         NEW id \in Ids, NEW size \in Sizes \union {UNKNOWN_LENGTH}, NEW h \in HeaderSizes,
         NEW e \in ReaderErrors, LeafFails(id, size, h, e)
  PROVE  WalkInv'
<1>0. Handled(id, size, h, Below(id))
  BY DEF LeafFails, Below
<1>1. /\ InChildren /\ Header(id, size, h) /\ outside' = FALSE
      /\ Depth(id) \in 0..Len(stack)
  BY <1>0, HandledAt
<1>2. {size, h} \subseteq Nat /\ reader.offset \in Nat /\ path' \in Seq(Opened)
  BY <1>1, HeaderType
<1>3. /\ stack' \in {Below(id), Append(Below(id), Element(id, size, h, 0))}
      /\ UNCHANGED <<end, fields, clock, due>>
  BY DEF LeafFails, Below
<1>4. StackOK(stack') /\ (file = "sized" => AllSized(stack'))
  <2>1. /\ StackOK(Append(Below(id), Element(id, size, h, 0)))
        /\ file = "sized" => AllSized(Append(Below(id), Element(id, size, h, 0)))
    BY <1>0, HandledPushed
  <2>2. StackOK(Below(id)) /\ (file = "sized" => AllSized(Below(id)))
    BY <1>1, BelowOK
  <2> QED BY <2>1, <2>2, <1>3
<1>5. reader' \in [offset : Nat, error : {"OK"} \union ReaderErrors] /\ reader'.error = e
  BY <1>2 DEF LeafFails
<1>6. /\ pc' = "idle" /\ result' = e /\ opened' = opened
      /\ CallsInOrder' /\ Dead'
  BY <1>1, <1>3, Failed DEF LeafFails, fields
<1>7. TypeOK'
  BY <1>1, <1>2, <1>3, <1>4, <1>5, <1>6 DEF WalkInv, TypeOK, Opened, StackOK, Entries, fields
<1>8. FileOK'
  BY <1>4, <1>5, FileFails
<1> QED BY <1>1, <1>4, <1>6, <1>7, <1>8 DEF WalkInv

LEMMA RestOf == ASSUME NEW x \in Nat, NEW w \in Nat, x < w PROVE x % w = x
OBVIOUS

(* The payload of a block that holds its header. *)
LEMMA PayloadOf ==
  ASSUME NEW size \in Nat, size < UNKNOWN_LENGTH
  PROVE  /\ (size - 1) % (UNKNOWN_LENGTH + 1) \in Nat
         /\ size >= BlockHeader =>
              /\ Payload(size) = size - BlockHeader
              /\ size - BlockHeader \in Nat /\ size - BlockHeader <= UNKNOWN_LENGTH - BlockHeader
<1>1. UNKNOWN_LENGTH + 1 \in Nat \ {0}
  OBVIOUS
<1>2. size >= BlockHeader => size - BlockHeader \in Nat /\ size - BlockHeader < UNKNOWN_LENGTH + 1
  OBVIOUS
<1>3. size >= BlockHeader => Payload(size) = size - BlockHeader
  BY <1>1, <1>2, RestOf DEF Payload
<1>4. \A x \in Int, w \in Nat \ {0} : x % w \in Nat
  OBVIOUS
<1> QED BY <1>1, <1>2, <1>3, <1>4

LEMMA ReadBlockWalk ==
  ASSUME WalkInv, UNCHANGED file,
         NEW id \in Ids, NEW size \in Sizes \union {UNKNOWN_LENGTH}, NEW h \in HeaderSizes,
         NEW t \in Times, NEW plain \in BOOLEAN, ReadBlock(id, size, h, t, plain)
  PROVE  WalkInv'
<1>0. /\ Handled(id, size, h, Below(id))
      /\ id \notin Masters /\ id \notin Owners /\ id # "MKV_SEGMENT"
      /\ id = "MKV_CLUSTER_SIMPLE_BLOCK"
  BY DEF ReadBlock, Below, Masters, Owners
<1>1. /\ InChildren /\ Header(id, size, h) /\ outside' = FALSE
      /\ Depth(id) \in 0..Len(stack) /\ (file = "readable" => Placed(Depth(id), id, size, h))
  BY <1>0, HandledAt
<1>2. /\ {size, h} \subseteq Nat /\ h >= 2 /\ reader.offset \in Nat /\ path' \in Seq(Opened)
      /\ size # UNKNOWN_LENGTH /\ size >= BlockHeader /\ size < UNKNOWN_LENGTH
      /\ reader.error = "OK"
  BY <1>0, <1>1, HeaderType
<1> DEFINE b == reader.offset + h + BlockHeader
           elem == Element(id, size, h, 0)
<1>12. /\ Payload(size) = size - BlockHeader
       /\ size - BlockHeader <= UNKNOWN_LENGTH - BlockHeader
  BY <1>2, PayloadOf
<1>3. /\ size - BlockHeader \in Nat
      /\ b \in Nat \ {0} /\ After(size, h) = b + (size - BlockHeader)
  BY <1>2 DEF After
<1>4. /\ elem.id = id /\ elem.size = size /\ EndOf(elem) = After(size, h)
      /\ EndsAt(Depth(id), size, h) = After(size, h)
  BY <1>2 DEF Element, EndOf, EndsAt, After
<1> HIDE DEF b
<1>5. /\ stack' = Append(Below(id), elem)
      /\ Return /\ UNCHANGED <<end, ptr, segment_offset, cluster_timecode, clock>>
  BY DEF ReadBlock, Below
<1>6. /\ StackOK(stack') /\ (file = "sized" => AllSized(stack')) /\ elem \in Entries
      /\ ObjectsOf(stack', ptr', segment_offset')
  BY <1>0, <1>5, HandledPushed
<1> HIDE DEF elem
<1>7. /\ pc' \in {"idle", "take"} /\ opened' \in BOOLEAN
      /\ result' \in {"OK", "XE_ENOMEM", "XE_INVALID_DATA"} \union ReaderErrors
      /\ CallsInOrder'
  BY <1>1, <1>5, Returned
<1>8. reader' \in [offset : Nat, error : {"OK"} \union ReaderErrors] /\ reader'.offset = b
  <2>1. reader' = [reader EXCEPT !.offset = b]
    BY DEF ReadBlock, At, b
  <2>2. reader \in [offset : Nat, error : {"OK"} \union ReaderErrors]
    BY DEF WalkInv, TypeOK
  <2> QED BY <2>1, <2>2, <1>3
<1>9. /\ sample_size' \in Nat /\ sample_time' \in Nat
      /\ due' \in [time : Nat \union {NoTime}, size : Nat, at : Nat]
  <2>1. CASE plain
    <3>1. /\ sample_size' = size - BlockHeader /\ sample_time' = cluster_timecode + t
          /\ due' = [time |-> clock + t, size |-> size - BlockHeader, at |-> b]
      BY <1>12, <2>1 DEF ReadBlock, SampleTime, b
    <3>2. /\ cluster_timecode \in Nat /\ clock + t \in Nat \union {NoTime}
          /\ t \in Nat
      BY DEF WalkInv, TypeOK, NoTime
    <3> QED BY <3>1, <3>2, <1>3
  <2>2. CASE ~plain
    BY <2>2 DEF ReadBlock, WalkInv, TypeOK
  <2> QED BY <2>1, <2>2
<1>10. TypeOK'
  BY <1>1, <1>2, <1>5, <1>6, <1>7, <1>8, <1>9 DEF WalkInv, TypeOK, Opened, StackOK, Entries
<1>11. FileOK'
  <2>1. ASSUME file = "readable" PROVE FileInv(stack', path', b, sample_size')
    <3> DEFINE n == size - BlockHeader
    <3>1. sample_size' = n
      BY <1>12, <2>1 DEF ReadBlock
    <3>2. n \in Nat /\ After(size, h) = b + n
      BY <1>3
    <3> HIDE DEF n
    <3>3. After(size, h) >= b + n /\ After(size, h) # b + n + 1 /\ (n # 0 => After(size, h) # b)
      BY <3>2, <1>3
    <3>4. Header(id, size, h) /\ Depth(id) \in 0..Len(stack) /\ Placed(Depth(id), id, size, h)
      BY <1>1, <2>1
    <3>5. b \in Nat \ {0} /\ elem \in Entries /\ elem.id = id
      BY <1>3, <1>4, <1>6
    <3>6. /\ EndOf(elem) = EndsAt(Depth(id), size, h)
          /\ size = UNKNOWN_LENGTH <=> elem.size = UNKNOWN_LENGTH
          /\ n # 0 => EndsAt(Depth(id), size, h) # b
      BY <1>3, <1>4, <3>3
    <3>7. FileInv(Append(SubSeq(stack, 1, Depth(id)), elem), path', b, n)
      BY <2>1, <3>2, <3>3, <3>4, <3>5, <3>6, FilePushed
    <3> QED BY <3>1, <3>7, <1>5 DEF Below
  <2>2. ~Wrapped'
    <3>1. sample_size' \in {size - BlockHeader, sample_size} /\ sample_size = 0
      BY <1>1, <1>12, InRound DEF ReadBlock
    <3> QED BY <1>2, <1>12, <3>1 DEF Wrapped
  <2> QED BY <1>6, <1>8, <2>1, <2>2 DEF FileOK, AllSized
<1> QED BY <1>1, <1>6, <1>7, <1>10, <1>11 DEF WalkInv

LEMMA BlockFailsWalk ==
  ASSUME WalkInv, UNCHANGED file,
         NEW id \in Ids, NEW size \in Sizes \union {UNKNOWN_LENGTH}, NEW h \in HeaderSizes,
         NEW e \in ReaderErrors, BlockFails(id, size, h, e)
  PROVE  WalkInv'
<1>0. /\ Handled(id, size, h, Below(id))
      /\ id \notin Owners /\ id # "MKV_SEGMENT" /\ id \notin Masters
  BY DEF BlockFails, Below, Owners, Masters
<1>1. /\ InChildren /\ Header(id, size, h) /\ outside' = FALSE
      /\ Depth(id) \in 0..Len(stack)
  BY <1>0, HandledAt
<1>2. /\ {size, h} \subseteq Nat /\ reader.offset \in Nat /\ path' \in Seq(Opened)
      /\ size < UNKNOWN_LENGTH
  BY <1>0, <1>1, HeaderType
<1>3. /\ stack' = Append(Below(id), Element(id, size, h, 0))
      /\ Return /\ UNCHANGED <<end, ptr, segment_offset, cluster_timecode, clock, due>>
  BY DEF BlockFails, Below
<1>4. /\ StackOK(stack') /\ (file = "sized" => AllSized(stack'))
      /\ ObjectsOf(stack', ptr', segment_offset')
  BY <1>0, <1>3, HandledPushed
<1>5. /\ pc' \in {"idle", "take"} /\ opened' \in BOOLEAN
      /\ result' \in {"OK", "XE_ENOMEM", "XE_INVALID_DATA"} \union ReaderErrors
      /\ CallsInOrder'
  BY <1>1, <1>3, Returned
<1>6. reader' \in [offset : Nat, error : {"OK"} \union ReaderErrors] /\ reader'.error = e
  BY <1>2 DEF BlockFails
<1>7. sample_size' \in Nat /\ sample_time' \in Nat
  <2>1. \/ sample_size' = sample_size /\ sample_time' = sample_time
        \/ /\ sample_size' = (size - 1) % (UNKNOWN_LENGTH + 1)
           /\ sample_time' = cluster_timecode + 0
    BY DEF BlockFails, SampleTime
  <2>3. (size - 1) % (UNKNOWN_LENGTH + 1) \in Nat
    BY <1>2, PayloadOf
  <2>2. sample_size \in Nat /\ sample_time \in Nat /\ cluster_timecode \in Nat
    BY DEF WalkInv, TypeOK
  <2> QED BY <2>1, <2>2, <2>3
<1>8. TypeOK'
  BY <1>1, <1>2, <1>3, <1>4, <1>5, <1>6, <1>7 DEF WalkInv, TypeOK, Opened, StackOK, Entries
<1>9. FileOK'
  BY <1>4, <1>6, FileFails
<1> QED BY <1>1, <1>4, <1>5, <1>8, <1>9 DEF WalkInv

-----------------------------------------------------------------------------
(* No step makes a file sound, or any other than it is if it stays sound. *)
LEMMA StaysSound == ASSUME [Next]_vars, Sound' PROVE Sound /\ UNCHANGED file
<1>1. CASE UNCHANGED vars \/ UNCHANGED file
  BY <1>1 DEF Sound, vars
<1>2. ASSUME NEW id, NEW size, NEW h, Written(id, size, h) PROVE Sound /\ UNCHANGED file
  <2>1. file' \in {file, "any"}
    BY <1>2 DEF Written
  <2> QED BY <2>1 DEF Sound
<1>3. CASE NextElement
  <2>1. \E id, size, h : Header(id, size, h)
    BY <1>3 DEF NextElement, Ignore, RefuseUnknown, Enter, ReadLeaf, LeafInvalid, ReadBlock,
                SkipElement, LeafFails, BlockFails, SkipFails, Handled
  <2> QED BY <2>1, <1>2 DEF Header
<1> QED BY <1>1, <1>3 DEF Next, Call

LEMMA NextWalk == ASSUME WalkInv, [Next]_vars, Sound' PROVE WalkInv'
<1>0. UNCHANGED file
  BY StaysSound
<1>1. CASE UNCHANGED vars
  <2>1. FileOK'
    BY <1>1, FileStays DEF vars, fields, stream
  <2>2. TypeOK' /\ CallsInOrder'
    BY <1>1 DEF WalkInv, TypeOK, CallsInOrder, vars, caller, fields, stream
  <2>3. (Dead \/ ObjectsOf(stack, ptr, segment_offset))'
    BY <1>1 DEF WalkInv, Dead, vars, caller, fields, stream
  <2> QED BY <1>1, <2>1, <2>2, <2>3 DEF WalkInv, vars
<1>2. CASE Call
  <2> USE <1>0
  <2>1. CASE Open
    BY <2>1, OpenWalk
  <2>2. CASE ReadPacket
    BY <2>2, ReadPacketWalk
  <2>3. CASE Take
    BY <2>3, TakeWalk
  <2>4. CASE FinishElement
    BY <2>4, FinishElementWalk
  <2>5. CASE HeaderInvalid
    BY <2>5, HeaderInvalidWalk
  <2>6. ASSUME NEW e \in ReaderErrors, IdFails(e) \/ SizeFails(e) PROVE WalkInv'
    BY <2>6, IdFailsWalk, SizeFailsWalk
  <2> QED BY <1>2, <2>1, <2>2, <2>3, <2>4, <2>5, <2>6 DEF Call
<1>3. CASE NextElement
  <2> USE <1>0
  <2> SUFFICES ASSUME NEW id \in Ids, NEW size \in Sizes \union {UNKNOWN_LENGTH}, NEW h \in HeaderSizes,
                      \/ Ignore(id, size, h)
                      \/ RefuseUnknown(id, h)
                      \/ Enter(id, size, h)
                      \/ \E t \in Timecodes : ReadLeaf(id, size, h, t)
                      \/ LeafInvalid(id, size, h)
                      \/ \E t \in Times, plain \in BOOLEAN : ReadBlock(id, size, h, t, plain)
                      \/ SkipElement(id, size, h)
                      \/ \E e \in ReaderErrors :
                           \/ LeafFails(id, size, h, e)
                           \/ BlockFails(id, size, h, e)
                           \/ SkipFails(id, size, h, e)
               PROVE  WalkInv'
    BY <1>3 DEF NextElement
  <2>1. CASE Ignore(id, size, h)
    BY <2>1, IgnoreWalk
  <2>2. CASE RefuseUnknown(id, h)
    BY <2>2, NothingRefused
  <2>3. CASE Enter(id, size, h)
    BY <2>3, EnterWalk
  <2>4. ASSUME NEW t \in Timecodes, ReadLeaf(id, size, h, t) PROVE WalkInv'
    BY <2>4, ReadLeafWalk
  <2>5. CASE LeafInvalid(id, size, h)
    BY <2>5, LeafInvalidWalk
  <2>6. ASSUME NEW t \in Times, NEW plain \in BOOLEAN, ReadBlock(id, size, h, t, plain)
        PROVE  WalkInv'
    BY <2>6, ReadBlockWalk
  <2>7. CASE SkipElement(id, size, h)
    BY <2>7, SkipElementWalk
  <2>8. ASSUME NEW e \in ReaderErrors, LeafFails(id, size, h, e) PROVE WalkInv'
    BY <2>8, LeafFailsWalk
  <2>9. ASSUME NEW e \in ReaderErrors, BlockFails(id, size, h, e) PROVE WalkInv'
    BY <2>9, BlockFailsWalk
  <2>10. ASSUME NEW e \in ReaderErrors, SkipFails(id, size, h, e) PROVE WalkInv'
    BY <2>10, SkipFailsWalk
  <2> QED BY <2>1, <2>2, <2>3, <2>4, <2>5, <2>6, <2>7, <2>8, <2>9, <2>10
<1> QED BY <1>1, <1>2, <1>3 DEF Next

(* The invariant holds of every file, as long as it is sound. *)
SoundWalk == Sound => WalkInv

THEOREM WalkIsSafe == Spec => []SoundWalk
<1>1. Init => SoundWalk
  BY InitWalk DEF SoundWalk
<1>2. SoundWalk /\ [Next]_vars => SoundWalk'
  <2> SUFFICES ASSUME SoundWalk, [Next]_vars, Sound' PROVE WalkInv'
    BY DEF SoundWalk
  <2>1. Sound
    BY StaysSound
  <2> QED BY <2>1, NextWalk DEF SoundWalk
<1> QED BY <1>1, <1>2, PTL DEF Spec

(* element_handler() handles an element only inside of the one it belongs  *)
(* in (mkv.cc:1119), in a readable file and in one of any elements that    *)
(* have sizes.                                                             *)
THEOREM WalkIsNested == Spec => []StackIsNested
<1>1. SoundWalk => StackIsNested
  BY DEF SoundWalk, WalkInv, StackOK, StackIsNested
<1> QED BY <1>1, WalkIsSafe, PTL

(* Values are stored in the object of an element that is open              *)
(* (mkv.cc:927), in the same files.                                        *)
THEOREM WalkObjectsAreOpen == Spec => []ObjectsAreOpen
<1>1. SoundWalk => ObjectsAreOpen
  BY DEF SoundWalk, WalkInv, Dead, ObjectsOf, ObjectsAreOpen
<1> QED BY <1>1, WalkIsSafe, PTL

(* In the same files no push finds the stack full, the search for a parent *)
(* does not look outside of it, and no block gets a packet that is too     *)
(* small for it (mkv.cc:1089, 1129, 1846).                                 *)
THEOREM WalkStaysInStack == Spec => []NeverOutside
<1>1. SoundWalk => NeverOutside
  BY DEF SoundWalk, WalkInv, NeverOutside
<1> QED BY <1>1, WalkIsSafe, PTL

(* In a readable file the demuxer is in the elements the file is in, so    *)
(* that those of unknown size end where they end (mkv.cc:1121, 1143,       *)
(* 1234).                                                                  *)
THEOREM WalkFollowsFile == Spec => []FollowsFile
<1>1. ASSUME WalkInv, reader.error = "OK", file = "readable"
      PROVE  Unfinished(Frames) = Unfinished(Places)
  <2> DEFINE o == reader.offset
             inStack == {j \in DOMAIN Frames : Frames[j].end # o}
             inFile == {j \in DOMAIN Places : Places[j].end # o}
  <2>1. FileInv(stack, path, o, sample_size)
    BY <1>1 DEF WalkInv, FileOK
  <2>2. /\ DOMAIN Frames = DOMAIN stack /\ DOMAIN Places = DOMAIN path
        /\ \A k \in DOMAIN stack : Frames[k] = [id |-> stack[k].id, end |-> EndOf(stack[k])]
        /\ \A k \in DOMAIN path : Places[k] = [id |-> path[k].id, end |-> path[k].end]
    BY DEF Frames, Places
  <2>3. ASSUME NEW k, k \in inStack \/ k \in inFile
        PROVE  k \in inStack /\ k \in inFile /\ Frames[k] = Places[k]
    <3>1. Matched(stack, path, k)
      BY <2>1, <2>2, <2>3 DEF FileInv
    <3>2. k \in DOMAIN Frames /\ k \in DOMAIN Places /\ Frames[k] = Places[k]
      BY <2>2, <3>1 DEF Matched
    <3> QED BY <2>3, <3>2
  <2> HIDE DEF inStack, inFile
  <2>4. inStack = inFile
    BY <2>3
  <2>5. \A k \in inFile : Frames[k] = Places[k]
    BY <2>3
  <2>6. /\ Unfinished(Frames) = {<<k, Frames[k]>> : k \in inStack}
        /\ Unfinished(Places) = {<<k, Places[k]>> : k \in inFile}
    BY DEF Unfinished, inStack, inFile
  <2> QED BY <2>4, <2>5, <2>6
<1>2. SoundWalk => FollowsFile
  BY <1>1 DEF SoundWalk, Sound, FollowsFile
<1> QED BY <1>2, WalkIsSafe, PTL

-----------------------------------------------------------------------------
(* Packets.  In a nested file the demuxer has the time of the cluster once *)
(* the cluster has one, and a block has a payload.                         *)

InTime ==
  /\ clock # NoTime => cluster_timecode = clock
  /\ due # NoBlock => due.size > 0

PacketInv ==
  /\ pc # "idle" => result \in {"OK", "XE_ENOMEM"}
  /\ file = "readable" => InTime
  /\ BlocksInTurn /\ EofIsTheEnd

LEMMA InitPacket == Init => PacketInv
BY DEF Init, PacketInv, InTime, BlocksInTurn, EofIsTheEnd

(* No block is pending where a header is read. *)
LEMMA NothingDue ==
  ASSUME WalkInv, PacketInv, InChildren, file = "readable", reader.error = "OK"
  PROVE  due = NoBlock /\ sample_size = 0
<1>1. sample_size = 0
  BY InRound
<1>2. due # NoBlock => due.size > 0 /\ sample_size = due.size
  BY DEF PacketInv, InTime, BlocksInTurn
<1> QED BY <1>1, <1>2

(* A step that reads something else than a block. *)
LEMMA QuietPacket ==
  ASSUME WalkInv, PacketInv, InChildren, UNCHANGED <<file, sample_size, due>>,
         reader'.error = "OK" => reader.error = "OK",
         UNCHANGED caller \/ Fail("XE_ENOMEM") \/ Fail("XE_INVALID_DATA"),
         file = "readable" => (clock' # NoTime => cluster_timecode' = clock')
  PROVE  PacketInv'
<1>1. pc # "idle" /\ result \in {"OK", "XE_ENOMEM"}
  BY DEF PacketInv, InChildren
<1>2. /\ pc' # "idle" => result' \in {"OK", "XE_ENOMEM"}
      /\ result' # "XE_EOF"
  BY <1>1 DEF caller, Fail
<1>3. (file = "readable" => InTime)'
  BY DEF PacketInv, InTime
<1>4. ASSUME reader'.error = "OK", file' = "readable" PROVE due' = NoBlock /\ sample_size' = 0
  BY <1>4, NothingDue
<1>5. BlocksInTurn'
  BY <1>4 DEF BlocksInTurn
<1> QED BY <1>2, <1>3, <1>5 DEF PacketInv, EofIsTheEnd

(* The reader has failed. *)
LEMMA FailedPacket ==
  ASSUME PacketInv, UNCHANGED <<file, due, clock, cluster_timecode>>,
         reader'.error \in ReaderErrors,
         pc' # "idle" => pc # "idle" /\ result' = result,
         result' = "XE_EOF" =>
           reader'.error = "XE_EOF" \/ TopId' = "MKV_CLUSTER_SIMPLE_BLOCK"
  PROVE  PacketInv'
<1>1. reader'.error # "OK" /\ reader'.error \in {"XE_EOF", "XE_EXTERNAL"}
  BY DEF ReaderErrors
<1>2. pc' # "idle" => result' \in {"OK", "XE_ENOMEM"}
  BY DEF PacketInv
<1>3. (file = "readable" => InTime)'
  BY DEF PacketInv, InTime
<1> QED BY <1>1, <1>2, <1>3 DEF PacketInv, BlocksInTurn, EofIsTheEnd

LEMMA ReturnedPacket ==
  ASSUME InChildren, Return
  PROVE  pc' # "idle" => pc # "idle" /\ result' = result
BY DEF InChildren, Return, Fail

LEMMA CallsPacket ==
  ASSUME WalkInv, PacketInv, UNCHANGED file, Open \/ ReadPacket
  PROVE  PacketInv'
<1>1. result' = result /\ result \in {"OK", "XE_ENOMEM"}
  BY DEF Open, ReadPacket
<1>2. UNCHANGED <<reader, stack, due, clock, cluster_timecode, sample_size, sample_time>>
  BY DEF Open, ReadPacket, fields, stream
<1> QED BY <1>1, <1>2 DEF PacketInv, InTime, BlocksInTurn, EofIsTheEnd

LEMMA TakePacket == ASSUME WalkInv, PacketInv, UNCHANGED file, Take PROVE PacketInv'
<1>1. UNCHANGED <<cluster_timecode, sample_time, clock>>
  BY DEF Take
<1>2. CASE Fail("XE_ENOMEM") /\ UNCHANGED <<reader, sample_size, due>>
  BY <1>1, <1>2 DEF Fail, PacketInv, InTime, BlocksInTurn, EofIsTheEnd
<1>3. CASE Fail("OK") /\ sample_size' = 0 /\ due' = NoBlock
  BY <1>1, <1>3 DEF Fail, PacketInv, InTime, BlocksInTurn, EofIsTheEnd
<1>4. CASE \E e \in ReaderErrors : reader' = [reader EXCEPT !.error = e] /\ Fail(e) /\ UNCHANGED due
  <2>1. reader \in [offset : Nat, error : {"OK"} \union ReaderErrors]
    BY DEF WalkInv, TypeOK
  <2>2. reader'.error \in ReaderErrors /\ pc' = "idle" /\ result' = reader'.error
    BY <1>4, <2>1 DEF Fail
  <2> QED BY <1>1, <1>4, <2>2, FailedPacket
<1>5. ~outside'
  BY TakeWalk DEF WalkInv
<1> QED BY <1>2, <1>3, <1>4, <1>5 DEF Take, ReaderErrors

LEMMA ReadBlockPacket ==
  ASSUME WalkInv, PacketInv, UNCHANGED file,
         NEW id \in Ids, NEW size \in Sizes \union {UNKNOWN_LENGTH}, NEW h \in HeaderSizes,
         NEW t \in Times, NEW plain \in BOOLEAN, ReadBlock(id, size, h, t, plain)
  PROVE  PacketInv'
<1>0. /\ Handled(id, size, h, Below(id)) /\ id = "MKV_CLUSTER_SIMPLE_BLOCK"
      /\ id \notin Masters
  BY DEF ReadBlock, Below, Masters
<1>1. InChildren /\ Header(id, size, h) /\ (file = "readable" => Complete(id, size))
  BY <1>0, HandledAt DEF Placed
<1>2. /\ {size, h} \subseteq Nat /\ reader.offset \in Nat /\ reader.error = "OK"
      /\ size < UNKNOWN_LENGTH
  BY <1>0, <1>1, HeaderType
<1>3. Return /\ UNCHANGED <<cluster_timecode, clock>>
  BY DEF ReadBlock
<1>4. reader'.offset = reader.offset + h + BlockHeader
  <2>1. reader' = [reader EXCEPT !.offset = reader.offset + h + BlockHeader]
    BY DEF ReadBlock, At
  <2>2. reader \in [offset : Nat, error : {"OK"} \union ReaderErrors]
    BY DEF WalkInv, TypeOK
  <2> QED BY <2>1, <2>2
<1>5. pc' # "idle" => result' \in {"OK", "XE_ENOMEM"}
  BY <1>1, <1>3, ReturnedPacket DEF PacketInv
<1>6. ASSUME file = "readable"
      PROVE  InTime' /\ BlocksInTurn' /\ result' # "XE_EOF"
  <2>1. /\ plain /\ size > BlockHeader /\ clock # NoTime /\ cluster_timecode = clock
        /\ clock \in Nat /\ t \in Nat
    BY <1>0, <1>1, <1>6 DEF ReadBlock, Complete, PacketInv, InTime, WalkInv, TypeOK
  <2>2. /\ sample_size' = size - BlockHeader /\ sample_time' = clock + t
        /\ due' = [time |-> clock + t, size |-> size - BlockHeader,
                   at |-> reader.offset + h + BlockHeader]
    BY <1>2, <2>1, PayloadOf DEF ReadBlock, SampleTime
  <2>3. size - BlockHeader > 0
    BY <2>1, <1>2
  <2>4. due' # NoBlock
    <3>1. due'.size # NoBlock.size
      BY <2>2, <2>3 DEF NoBlock
    <3> QED BY <3>1
  <2>5. InTime'
    BY <2>1, <2>2, <2>3, <1>3 DEF InTime
  <2>6. BlocksInTurn'
    BY <2>2, <2>4, <1>4 DEF BlocksInTurn
  <2>7. result' # "XE_EOF"
    <3>1. sample_size' # 0
      BY <2>2, <2>3
    <3>2. result \in {"OK", "XE_ENOMEM"}
      BY <1>1 DEF PacketInv, InChildren
    <3> QED BY <1>3, <3>1, <3>2 DEF Return
  <2> QED BY <2>5, <2>6, <2>7
<1> QED BY <1>5, <1>6 DEF PacketInv, BlocksInTurn, EofIsTheEnd

(* The elements that are no blocks, and what they set the clock to. *)
LEMMA ElementPacket ==
  ASSUME WalkInv, PacketInv, UNCHANGED file,
         NEW id \in Ids, NEW size \in Sizes \union {UNKNOWN_LENGTH}, NEW h \in HeaderSizes,
         \/ Ignore(id, size, h) \/ Enter(id, size, h)
         \/ \E t \in Timecodes : ReadLeaf(id, size, h, t)
         \/ LeafInvalid(id, size, h) \/ SkipElement(id, size, h)
  PROVE  PacketInv'
<1>1. CASE Ignore(id, size, h)
  <2>1. file' = "sized" /\ InChildren /\ (UNCHANGED caller \/ Return)
    BY <1>1, Ignored
  <2>2. pc' # "idle" => result' \in {"OK", "XE_ENOMEM"}
    BY <2>1, ReturnedPacket DEF PacketInv, caller
  <2> QED BY <2>1, <2>2 DEF PacketInv, BlocksInTurn, EofIsTheEnd
<1>2. CASE Enter(id, size, h)
  <2>1. UNCHANGED <<sample_size, due, cluster_timecode>> /\ clock' \in {NoTime, clock}
    BY <1>2 DEF Enter
  <2>2. InChildren /\ reader.error = "OK"
    BY <1>2 DEF Enter, Handled, Header
  <2>3. UNCHANGED caller \/ Fail("XE_ENOMEM")
    BY <1>2, EnterGoesOn DEF Enter
  <2> QED BY <2>1, <2>2, <2>3, QuietPacket DEF PacketInv, InTime
<1>3. ASSUME NEW t \in Timecodes, ReadLeaf(id, size, h, t) PROVE PacketInv'
  <2>1. UNCHANGED <<caller, sample_size, due>> /\ TimecodeRead(id, size, t)
    BY <1>3 DEF ReadLeaf
  <2>2. Handled(id, size, h, Below(id))
    BY <1>3 DEF ReadLeaf, Below
  <2>3. InChildren /\ reader.error = "OK" /\ (file = "readable" => Complete(id, size))
    BY <2>2, HandledAt DEF Placed, Header
  <2>4. file = "readable" => (clock' # NoTime => cluster_timecode' = clock')
    BY <2>1, <2>3 DEF TimecodeRead, Complete, PacketInv, InTime
  <2> QED BY <2>1, <2>3, <2>4, QuietPacket
<1>4. CASE LeafInvalid(id, size, h)
  <2>1. /\ Fail("XE_INVALID_DATA") /\ InChildren /\ reader.error = "OK"
        /\ UNCHANGED <<sample_size, due, clock, cluster_timecode>>
    BY <1>4 DEF LeafInvalid, Handled, Header, fields
  <2> QED BY <2>1, QuietPacket DEF PacketInv, InTime
<1>5. CASE SkipElement(id, size, h)
  <2>1. InChildren /\ reader.error = "OK" /\ UNCHANGED <<sample_size, due, clock, cluster_timecode>>
    BY <1>5 DEF SkipElement, Header, fields
  <2>2. UNCHANGED caller
    <3>1. Header(id, size, h) /\ id \notin DOMAIN Grammar
      BY <1>5 DEF SkipElement
    <3>2. size # UNKNOWN_LENGTH
      BY <3>1, HeaderType, RootIsNone
    <3> QED BY <1>5, <3>2 DEF SkipElement, RoundEnds
  <2> QED BY <2>1, <2>2, QuietPacket DEF PacketInv, InTime
<1> QED BY <1>1, <1>2, <1>3, <1>4, <1>5

(* Where the reader fails between elements and in them. *)
LEMMA ReaderPacket ==
  ASSUME WalkInv, PacketInv, UNCHANGED file, NEW e \in ReaderErrors,
         \/ IdFails(e) \/ SizeFails(e)
         \/ \E id \in Ids, size \in Sizes \union {UNKNOWN_LENGTH}, h \in HeaderSizes :
              \/ LeafFails(id, size, h, e) \/ BlockFails(id, size, h, e)
              \/ SkipFails(id, size, h, e)
  PROVE  PacketInv'
<1>1. CASE IdFails(e)
  <2>1. reader'.error = e /\ UNCHANGED <<due, clock, cluster_timecode>>
    BY <1>1, BrokenReader DEF IdFails, Broken, fields
  <2>2. InChildren /\ (Return \/ Fail(e))
    BY <1>1 DEF IdFails
  <2>3. pc' # "idle" => pc # "idle" /\ result' = result
    BY <2>2, ReturnedPacket DEF Fail
  <2>4. result' = "XE_EOF" => e = "XE_EOF"
    BY <1>1 DEF IdFails, Fail
  <2> QED BY <2>1, <2>3, <2>4, FailedPacket
<1>2. CASE SizeFails(e)
  <2>1. reader'.error = e /\ UNCHANGED <<due, clock, cluster_timecode>> /\ pc' = "idle" /\ result' = e
    BY <1>2, BrokenReader DEF SizeFails, Broken, Fail, fields
  <2> QED BY <2>1, FailedPacket
<1>3. ASSUME NEW id \in Ids, NEW size \in Sizes \union {UNKNOWN_LENGTH}, NEW h \in HeaderSizes,
             LeafFails(id, size, h, e) \/ SkipFails(id, size, h, e)
      PROVE  PacketInv'
  <2>1. reader'.error = e /\ UNCHANGED <<due, clock, cluster_timecode>> /\ pc' = "idle" /\ result' = e
    BY <1>3 DEF LeafFails, SkipFails, Fail, fields
  <2> QED BY <2>1, FailedPacket
<1>4. ASSUME NEW id \in Ids, NEW size \in Sizes \union {UNKNOWN_LENGTH}, NEW h \in HeaderSizes,
             BlockFails(id, size, h, e)
      PROVE  PacketInv'
  <2>1. reader'.error = e /\ UNCHANGED <<due, clock, cluster_timecode>> /\ Return /\ InChildren
    BY <1>4 DEF BlockFails, Handled, Header
  <2>2. pc' # "idle" => pc # "idle" /\ result' = result
    BY <2>1, ReturnedPacket
  <2>3. TopId' = "MKV_CLUSTER_SIMPLE_BLOCK"
    <3>1. /\ Handled(id, size, h, Below(id)) /\ id = "MKV_CLUSTER_SIMPLE_BLOCK"
          /\ stack' = Append(Below(id), Element(id, size, h, 0))
      BY <1>4 DEF BlockFails, Below
    <3>2. Element(id, size, h, 0) \in Entries /\ Below(id) \in Seq(Entries)
      BY <2>1, <3>1, HandledAt, HandledPushed, BelowOK DEF StackOK
    <3>3. stack'[Len(stack')] = Element(id, size, h, 0) /\ stack' # <<>>
      BY <3>1, <3>2, AppendProperties, LenProperties, EmptySeq
    <3> QED BY <3>1, <3>3 DEF TopId, Top, Element
  <2> QED BY <2>1, <2>2, <2>3, FailedPacket
<1> QED BY <1>1, <1>2, <1>3, <1>4

LEMMA NextPacket == ASSUME WalkInv, PacketInv, [Next]_vars, Sound' PROVE PacketInv'
<1>0. UNCHANGED file
  BY StaysSound
<1>1. CASE UNCHANGED vars
  BY <1>1 DEF PacketInv, InTime, BlocksInTurn, EofIsTheEnd, TopId, Top, vars, caller, fields, stream
<1>2. CASE Call
  <2>1. CASE Open \/ ReadPacket
    BY <1>0, <2>1, CallsPacket
  <2>2. CASE Take
    BY <1>0, <2>2, TakePacket
  <2>3. CASE FinishElement \/ HeaderInvalid
    <3>1. /\ InChildren /\ UNCHANGED <<sample_size, due, clock, cluster_timecode, reader>>
          /\ UNCHANGED caller \/ Fail("XE_INVALID_DATA")
      BY <2>3 DEF FinishElement, HeaderInvalid, fields, stream
    <3> QED BY <1>0, <3>1, QuietPacket DEF PacketInv, InTime
  <2>4. ASSUME NEW e \in ReaderErrors, IdFails(e) \/ SizeFails(e) PROVE PacketInv'
    BY <1>0, <2>4, ReaderPacket
  <2> QED BY <1>2, <2>1, <2>2, <2>3, <2>4 DEF Call
<1>3. CASE NextElement
  <2>1. PICK id \in Ids, size \in Sizes \union {UNKNOWN_LENGTH}, h \in HeaderSizes :
          \/ Ignore(id, size, h)
          \/ RefuseUnknown(id, h)
          \/ Enter(id, size, h)
          \/ \E t \in Timecodes : ReadLeaf(id, size, h, t)
          \/ LeafInvalid(id, size, h)
          \/ \E t \in Times, plain \in BOOLEAN : ReadBlock(id, size, h, t, plain)
          \/ SkipElement(id, size, h)
          \/ \E e \in ReaderErrors :
               \/ LeafFails(id, size, h, e)
               \/ BlockFails(id, size, h, e)
               \/ SkipFails(id, size, h, e)
    BY <1>3 DEF NextElement
  <2>2. CASE \/ Ignore(id, size, h) \/ Enter(id, size, h)
             \/ \E t \in Timecodes : ReadLeaf(id, size, h, t)
             \/ LeafInvalid(id, size, h) \/ SkipElement(id, size, h)
    BY <1>0, <2>2, ElementPacket
  <2>3. ASSUME NEW t \in Times, NEW plain \in BOOLEAN, ReadBlock(id, size, h, t, plain)
        PROVE  PacketInv'
    BY <1>0, <2>3, ReadBlockPacket
  <2>4. ASSUME NEW e \in ReaderErrors,
               \/ LeafFails(id, size, h, e) \/ BlockFails(id, size, h, e)
               \/ SkipFails(id, size, h, e)
        PROVE  PacketInv'
    BY <1>0, <2>4, ReaderPacket
  <2>5. ~RefuseUnknown(id, h)
    BY <1>0, NothingRefused
  <2> QED BY <2>1, <2>2, <2>3, <2>4, <2>5
<1> QED BY <1>1, <1>2, <1>3 DEF Next

SoundPackets == Sound => PacketInv

THEOREM PacketsAreSafe == Spec => []SoundPackets
<1>1. Init => SoundPackets
  BY InitPacket DEF SoundPackets
<1>2. SoundWalk /\ SoundPackets /\ [Next]_vars => SoundPackets'
  <2> SUFFICES ASSUME SoundWalk, SoundPackets, [Next]_vars, Sound' PROVE PacketInv'
    BY DEF SoundPackets
  <2>1. Sound
    BY StaysSound
  <2> QED BY <2>1, NextPacket DEF SoundWalk, SoundPackets
<1> QED BY <1>1, <1>2, WalkIsSafe, PTL DEF Spec

(* In a readable file a packet has the payload and the time of the next    *)
(* block, and no block is passed over (mkv.cc:1660, 1835), also when there *)
(* was no memory for it the first time.                                    *)
THEOREM WalkBlocksInTurn == Spec => []BlocksInTurn
<1>1. SoundPackets => BlocksInTurn
  BY DEF SoundPackets, Sound, PacketInv, BlocksInTurn
<1> QED BY <1>1, PacketsAreSafe, PTL

(* In a readable file read_packet() reports the end when the reader has    *)
(* come to it, or has failed inside of a block; for no other error, and    *)
(* for no block that has a payload (mkv.cc:1395, 1837).                    *)
THEOREM WalkEofIsTheEnd == Spec => []EofIsTheEnd
<1>1. SoundPackets => EofIsTheEnd
  BY DEF SoundPackets, Sound, PacketInv, EofIsTheEnd
<1> QED BY <1>1, PacketsAreSafe, PTL
=============================================================================
