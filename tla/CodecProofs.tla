----------------------------- MODULE CodecProofs -----------------------------
(***************************************************************************)
(* Proofs about Codec: the refcount of every block is the number of those  *)
(* that point to it, for every number of blocks, packets, frames, codecs   *)
(* and units in the library.                                               *)
(*                                                                         *)
(* Holders(b) is a sum of cardinalities, one for each kind of holder.  The *)
(* lemmas say how each of them changes when one packet, one frame or the   *)
(* queue of one codec does; a step of the codec then changes the two sides *)
(* of the equation by the same terms.                                      *)
(***************************************************************************)
EXTENDS Codec, FiniteSetTheorems, FunctionTheorems, TLAPS

-----------------------------------------------------------------------------
(* The inductive invariant *)

Crashed == [state |-> "crashed", extradata |-> FALSE]

References == [bufs : SUBSET Blocks, extended : SUBSET Blocks]

CodecTypes ==
  /\ context \in [Codecs -> {NoContext, Opened, Crashed}] /\ config = TRUE
  /\ count \in [Blocks -> Int]
  /\ current \in [block : Blocks \union {NoBlock}, left : Nat]
  /\ ref \in [Packets -> Blocks \union {NoBlock}]
  /\ frame \in [Frames -> References]
  /\ held \in [Codecs -> Seq(SUBSET Blocks)]
  /\ draining \in [Codecs -> BOOLEAN]
  /\ lost \in [Blocks -> Int]

(* A slice is cut from a block that is there, a frame names a block only   *)
(* once, and the library keeps no more units than Holders counts.          *)
Bounded ==
  /\ current.left > 0 => current.block \in Blocks
  /\ \A f \in Frames : frame[f].bufs \intersect frame[f].extended = {}
  /\ \A c \in Codecs : Len(held[c]) <= Depth

Counted == \A b \in Blocks : count[b] = Holders(b) + lost[b]

NoneCrashed == \A c \in Library : context[c] \in {NoContext, Opened}

CodecInv == CodecTypes /\ Bounded /\ Counted /\ NoneCrashed

-----------------------------------------------------------------------------
(* Counting *)

One(is) == IF is THEN 1 ELSE 0

Set(f, i, v) == [f EXCEPT ![i] = v]

PacketsWith(r, b) == {p \in Packets : r[p] = b}
BufsWith(fr, b) == {f \in Frames : b \in fr[f].bufs}
ExtendedWith(fr, b) == {f \in Frames : b \in fr[f].extended}
UnitsWith(h, b) == {u \in Codecs \X (1..Depth) : u[2] <= Len(h[u[1]]) /\ b \in h[u[1]][u[2]]}

(* The units of one queue, and those of all others. *)
Places(s, b) == {i \in 1..Len(s) : b \in s[i]}
OtherUnits(h, c, b) == {u \in UnitsWith(h, b) : u[1] # c}

FramesCount(fr, b) == Cardinality(BufsWith(fr, b)) + Cardinality(ExtendedWith(fr, b))

(* All of these sets are finite: parts of the packets, the frames, the     *)
(* places in the queues.                                                   *)
LEMMA FinitelyMany ==
  ASSUME NEW r, NEW fr, NEW h, NEW b
  PROVE  /\ IsFiniteSet(PacketsWith(r, b)) /\ Cardinality(PacketsWith(r, b)) \in Nat
         /\ IsFiniteSet(BufsWith(fr, b)) /\ Cardinality(BufsWith(fr, b)) \in Nat
         /\ IsFiniteSet(ExtendedWith(fr, b)) /\ Cardinality(ExtendedWith(fr, b)) \in Nat
         /\ IsFiniteSet(UnitsWith(h, b)) /\ Cardinality(UnitsWith(h, b)) \in Nat
<1>1. IsFiniteSet(PacketsWith(r, b))
  <2>1. PacketsWith(r, b) \in SUBSET Packets
    BY DEF PacketsWith
  <2> QED
    BY <2>1, FS_Subset, CodecAssumption
<1>2. IsFiniteSet(BufsWith(fr, b)) /\ IsFiniteSet(ExtendedWith(fr, b))
  <2>1. BufsWith(fr, b) \in SUBSET Frames /\ ExtendedWith(fr, b) \in SUBSET Frames
    BY DEF BufsWith, ExtendedWith
  <2> QED
    BY <2>1, FS_Subset, CodecAssumption
<1>3. IsFiniteSet(UnitsWith(h, b))
  <2>1. IsFiniteSet(Codecs)
    BY FS_Union, CodecAssumption DEF Codecs
  <2>2. IsFiniteSet(1..Depth)
    BY FS_Interval, CodecAssumption
  <2>3. IsFiniteSet(Codecs \X (1..Depth))
    BY <2>1, <2>2, FS_Product
  <2>4. UnitsWith(h, b) \in SUBSET (Codecs \X (1..Depth))
    BY DEF UnitsWith
  <2> QED
    BY <2>3, <2>4, FS_Subset
<1> QED
  BY <1>1, <1>2, <1>3, FS_CardinalityType

(* Two finite sets that differ in d at most. *)
LEMMA OneElement ==
  ASSUME NEW S, NEW T, NEW d, IsFiniteSet(S), IsFiniteSet(T), S \ {d} = T \ {d}
  PROVE  Cardinality(T) = Cardinality(S) - One(d \in S) + One(d \in T)
<1>1. Cardinality(S) \in Nat /\ Cardinality(T) \in Nat
  BY FS_CardinalityType
<1>2. Cardinality(S \ {d}) = IF d \in S THEN Cardinality(S) - 1 ELSE Cardinality(S)
  BY FS_RemoveElement
<1>3. Cardinality(T \ {d}) = IF d \in T THEN Cardinality(T) - 1 ELSE Cardinality(T)
  BY FS_RemoveElement
<1> QED
  BY <1>1, <1>2, <1>3 DEF One

(* The reference of one packet changes. *)
LEMMA PacketChanges ==
  ASSUME NEW r \in [Packets -> Blocks \union {NoBlock}], NEW p \in Packets,
         NEW v \in Blocks \union {NoBlock}, NEW b
  PROVE  Cardinality(PacketsWith(Set(r, p, v), b))
           = Cardinality(PacketsWith(r, b)) - One(r[p] = b) + One(v = b)
<1> DEFINE q == Set(r, p, v)
<1>1. PacketsWith(r, b) \ {p} = PacketsWith(q, b) \ {p}
  BY DEF PacketsWith, Set
<1>2. (p \in PacketsWith(r, b) <=> r[p] = b) /\ (p \in PacketsWith(q, b) <=> v = b)
  BY DEF PacketsWith, Set
<1>3. IsFiniteSet(PacketsWith(r, b)) /\ IsFiniteSet(PacketsWith(q, b))
  BY FinitelyMany
<1>4. Cardinality(PacketsWith(q, b)) = Cardinality(PacketsWith(r, b))
         - One(p \in PacketsWith(r, b)) + One(p \in PacketsWith(q, b))
  BY <1>1, <1>3, OneElement
<1> QED
  BY <1>2, <1>4 DEF One

(* A frame names a block only once. *)
Apart(v) == v.bufs \intersect v.extended = {}

(* The references of one frame change. *)
LEMMA FrameChanges ==
  ASSUME NEW fr \in [Frames -> References], NEW f \in Frames, NEW v \in References, NEW b,
         Apart(fr[f]), Apart(v)
  PROVE  FramesCount(Set(fr, f, v), b)
           = FramesCount(fr, b) - One(b \in All(fr[f])) + One(b \in All(v))
<1> DEFINE g == Set(fr, f, v)
<1>1. BufsWith(fr, b) \ {f} = BufsWith(g, b) \ {f}
  BY DEF BufsWith, Set
<1>2. ExtendedWith(fr, b) \ {f} = ExtendedWith(g, b) \ {f}
  BY DEF ExtendedWith, Set
<1>3. (f \in BufsWith(fr, b) <=> b \in fr[f].bufs) /\ (f \in BufsWith(g, b) <=> b \in v.bufs)
  BY DEF BufsWith, Set
<1>4. /\ f \in ExtendedWith(fr, b) <=> b \in fr[f].extended
      /\ f \in ExtendedWith(g, b) <=> b \in v.extended
  BY DEF ExtendedWith, Set
<1>5. /\ IsFiniteSet(BufsWith(fr, b)) /\ IsFiniteSet(BufsWith(g, b))
      /\ IsFiniteSet(ExtendedWith(fr, b)) /\ IsFiniteSet(ExtendedWith(g, b))
      /\ Cardinality(BufsWith(fr, b)) \in Nat /\ Cardinality(ExtendedWith(fr, b)) \in Nat
  BY FinitelyMany
<1>6. Cardinality(BufsWith(g, b)) = Cardinality(BufsWith(fr, b))
         - One(b \in fr[f].bufs) + One(b \in v.bufs)
  <2>1. Cardinality(BufsWith(g, b)) = Cardinality(BufsWith(fr, b))
           - One(f \in BufsWith(fr, b)) + One(f \in BufsWith(g, b))
    BY <1>1, <1>5, OneElement
  <2> QED
    BY <2>1, <1>3 DEF One
<1>7. Cardinality(ExtendedWith(g, b)) = Cardinality(ExtendedWith(fr, b))
         - One(b \in fr[f].extended) + One(b \in v.extended)
  <2>1. Cardinality(ExtendedWith(g, b)) = Cardinality(ExtendedWith(fr, b))
           - One(f \in ExtendedWith(fr, b)) + One(f \in ExtendedWith(g, b))
    BY <1>2, <1>5, OneElement
  <2> QED
    BY <2>1, <1>4 DEF One
<1>8. One(b \in All(fr[f])) = One(b \in fr[f].bufs) + One(b \in fr[f].extended)
  BY DEF One, All, Apart
<1>9. One(b \in All(v)) = One(b \in v.bufs) + One(b \in v.extended)
  BY DEF One, All, Apart
<1>10. /\ One(b \in fr[f].bufs) \in Int /\ One(b \in fr[f].extended) \in Int
       /\ One(b \in v.bufs) \in Int /\ One(b \in v.extended) \in Int
  BY DEF One
<1> QED
  BY <1>5, <1>6, <1>7, <1>8, <1>9, <1>10 DEF FramesCount

-----------------------------------------------------------------------------
(* The queues of the library *)

(* A unit is added at the end. *)
LEMMA PlacesAppended ==
  ASSUME NEW s \in Seq(SUBSET Blocks), NEW S \in SUBSET Blocks, NEW b
  PROVE  Cardinality(Places(Append(s, S), b)) = Cardinality(Places(s, b)) + One(b \in S)
<1> DEFINE t == Append(s, S)
           d == Len(s) + 1
<1>1. Len(s) \in Nat /\ Len(t) = d /\ t[d] = S /\ \A i \in 1..Len(s) : t[i] = s[i]
  OBVIOUS
<1>2. IsFiniteSet(Places(s, b)) /\ IsFiniteSet(Places(t, b))
  <2>1. IsFiniteSet(1..Len(s)) /\ IsFiniteSet(1..Len(t))
    BY <1>1, FS_Interval
  <2>2. Places(s, b) \in SUBSET (1..Len(s)) /\ Places(t, b) \in SUBSET (1..Len(t))
    BY DEF Places
  <2> QED
    BY <2>1, <2>2, FS_Subset
<1>3. 1..Len(t) = (1..Len(s)) \union {d} /\ d \notin 1..Len(s)
  BY <1>1
<1>4. Places(s, b) \ {d} = Places(t, b) \ {d}
  BY <1>1, <1>3 DEF Places
<1>5. d \notin Places(s, b) /\ (d \in Places(t, b) <=> b \in S)
  BY <1>1, <1>3 DEF Places
<1>6. Cardinality(Places(t, b)) = Cardinality(Places(s, b))
         - One(d \in Places(s, b)) + One(d \in Places(t, b))
  BY <1>2, <1>4, OneElement
<1>7. Cardinality(Places(s, b)) \in Nat
  BY <1>2, FS_CardinalityType
<1> QED
  BY <1>5, <1>6, <1>7 DEF One

(* The first unit is taken away: the others move up by one place. *)
LEMMA PlacesConsumed ==
  ASSUME NEW s \in Seq(SUBSET Blocks), s # <<>>, NEW b
  PROVE  Cardinality(Places(Tail(s), b)) = Cardinality(Places(s, b)) - One(b \in Head(s))
<1> DEFINE t == Tail(s)
           later == Places(s, b) \ {1}
           F == [i \in Places(t, b) |-> i + 1]
<1>1. /\ Len(s) \in Nat /\ Len(s) > 0 /\ Len(t) = Len(s) - 1 /\ Head(s) = s[1]
      /\ \A i \in 1..Len(t) : t[i] = s[i + 1]
  OBVIOUS
<1>2. IsFiniteSet(Places(s, b)) /\ IsFiniteSet(Places(t, b))
  <2>1. IsFiniteSet(1..Len(s)) /\ IsFiniteSet(1..Len(t))
    BY <1>1, FS_Interval
  <2>2. Places(s, b) \in SUBSET (1..Len(s)) /\ Places(t, b) \in SUBSET (1..Len(t))
    BY DEF Places
  <2> QED
    BY <2>1, <2>2, FS_Subset
<1>3. Cardinality(later) = Cardinality(Places(t, b))
  <2>1. \A i \in Places(t, b) : i \in Int /\ i + 1 \in later
    BY <1>1 DEF Places
  <2>2. F \in [Places(t, b) -> later]
    BY <2>1
  <2>3. \A i, j \in Places(t, b) : F[i] = F[j] => i = j
    BY <2>1
  <2>4. ASSUME NEW j \in later
        PROVE  \E i \in Places(t, b) : F[i] = j
    <3>1. j \in 1..Len(s) /\ j # 1 /\ b \in s[j]
      BY DEF Places
    <3>2. j - 1 \in 1..Len(t) /\ (j - 1) + 1 = j
      BY <3>1, <1>1
    <3>3. j - 1 \in Places(t, b)
      BY <3>1, <3>2, <1>1 DEF Places
    <3>4. F[j - 1] = (j - 1) + 1
      BY <3>3
    <3> QED
      BY <3>2, <3>3, <3>4
  <2>5. F \in Bijection(Places(t, b), later)
    <3> HIDE DEF F, later
    <3> QED
      BY <2>2, <2>3, <2>4, Fun_IsBij
  <2>6. ExistsBijection(Places(t, b), later)
    BY <2>5 DEF ExistsBijection
  <2> QED
    BY <2>6, <1>2, FS_Bijection
<1>4. Cardinality(later) = IF 1 \in Places(s, b) THEN Cardinality(Places(s, b)) - 1
                                                 ELSE Cardinality(Places(s, b))
  BY <1>2, FS_RemoveElement
<1>5. 1 \in Places(s, b) <=> b \in Head(s)
  BY <1>1 DEF Places
<1>6. Cardinality(Places(s, b)) \in Nat
  BY <1>2, FS_CardinalityType
<1> QED
  BY <1>3, <1>4, <1>5, <1>6 DEF One

Queue(s) == s \in Seq(SUBSET Blocks) /\ Len(s) <= Depth

(* The units of one codec and those of all others. *)
LEMMA UnitsOfOne ==
  ASSUME NEW h \in [Codecs -> Seq(SUBSET Blocks)], NEW c \in Codecs, Len(h[c]) <= Depth, NEW b
  PROVE  /\ Cardinality(UnitsWith(h, b)) = Cardinality(OtherUnits(h, c, b)) + Cardinality(Places(h[c], b))
         /\ Cardinality(OtherUnits(h, c, b)) \in Nat /\ Cardinality(Places(h[c], b)) \in Nat
<1> DEFINE mine == UnitsWith(h, b) \ OtherUnits(h, c, b)
           F == [i \in Places(h[c], b) |-> <<c, i>>]
<1>1. IsFiniteSet(UnitsWith(h, b)) /\ Cardinality(UnitsWith(h, b)) \in Nat
  BY FinitelyMany
<1>2. OtherUnits(h, c, b) \in SUBSET UnitsWith(h, b)
  BY DEF OtherUnits
<1>3. IsFiniteSet(OtherUnits(h, c, b)) /\ Cardinality(OtherUnits(h, c, b)) \in Nat
  BY <1>1, <1>2, FS_Subset, FS_CardinalityType
<1>4. Len(h[c]) \in Nat /\ Depth \in Nat
  BY CodecAssumption
<1>5. mine = {u \in Codecs \X (1..Depth) : u[1] = c /\ u[2] <= Len(h[c]) /\ b \in h[c][u[2]]}
  BY DEF UnitsWith, OtherUnits
<1>6. IsFiniteSet(Places(h[c], b))
  <2>1. IsFiniteSet(1..Len(h[c]))
    BY <1>4, FS_Interval
  <2>2. Places(h[c], b) \in SUBSET (1..Len(h[c]))
    BY DEF Places
  <2> QED
    BY <2>1, <2>2, FS_Subset
<1>7. Cardinality(mine) = Cardinality(Places(h[c], b))
  <2>1. \A i \in Places(h[c], b) : <<c, i>> \in mine
    BY <1>4, <1>5 DEF Places
  <2>2. F \in [Places(h[c], b) -> mine]
    BY <2>1
  <2>3. \A i, j \in Places(h[c], b) : F[i] = F[j] => i = j
    OBVIOUS
  <2>4. ASSUME NEW u \in mine
        PROVE  \E i \in Places(h[c], b) : F[i] = u
    <3>1. u \in Codecs \X (1..Depth) /\ u[1] = c /\ u[2] <= Len(h[c]) /\ b \in h[c][u[2]]
      BY <1>5
    <3>2. u = <<c, u[2]>> /\ u[2] \in 1..Len(h[c])
      BY <3>1, <1>4
    <3>3. u[2] \in Places(h[c], b)
      BY <3>1, <3>2 DEF Places
    <3> QED
      BY <3>2, <3>3
  <2>5. F \in Bijection(Places(h[c], b), mine)
    <3> HIDE DEF F, mine
    <3> QED
      BY <2>2, <2>3, <2>4, Fun_IsBij
  <2>6. ExistsBijection(Places(h[c], b), mine)
    BY <2>5 DEF ExistsBijection
  <2> QED
    BY <2>6, <1>6, FS_Bijection
<1>8. Cardinality(mine) = Cardinality(UnitsWith(h, b)) - Cardinality(OtherUnits(h, c, b))
  <2>1. UnitsWith(h, b) \cap OtherUnits(h, c, b) = OtherUnits(h, c, b)
    BY <1>2
  <2> QED
    BY <2>1, <1>1, FS_Difference
<1>9. Cardinality(Places(h[c], b)) \in Nat
  BY <1>6, FS_CardinalityType
<1> QED
  BY <1>1, <1>3, <1>7, <1>8, <1>9

(* The queue of one codec changes. *)
LEMMA QueueChanges ==
  ASSUME NEW h \in [Codecs -> Seq(SUBSET Blocks)], NEW c \in Codecs, Queue(h[c]),
         NEW s, Queue(s), NEW b
  PROVE  /\ Cardinality(UnitsWith(Set(h, c, s), b))
              = Cardinality(UnitsWith(h, b)) - Cardinality(Places(h[c], b)) + Cardinality(Places(s, b))
         /\ Cardinality(Places(h[c], b)) \in Nat /\ Cardinality(Places(s, b)) \in Nat
<1> DEFINE g == Set(h, c, s)
<1>1. g \in [Codecs -> Seq(SUBSET Blocks)] /\ g[c] = s /\ \A e \in Codecs : e # c => g[e] = h[e]
  BY DEF Set, Queue
<1>2. OtherUnits(g, c, b) = OtherUnits(h, c, b)
  <2> HIDE DEF g
  <2>1. \A u \in Codecs \X (1..Depth) : u[1] # c => g[u[1]] = h[u[1]]
    BY <1>1
  <2> QED
    BY <2>1 DEF OtherUnits, UnitsWith
<1> HIDE DEF g
<1>3. /\ Cardinality(UnitsWith(h, b)) = Cardinality(OtherUnits(h, c, b)) + Cardinality(Places(h[c], b))
      /\ Cardinality(OtherUnits(h, c, b)) \in Nat /\ Cardinality(Places(h[c], b)) \in Nat
  BY UnitsOfOne DEF Queue
<1>4. /\ Cardinality(UnitsWith(g, b)) = Cardinality(OtherUnits(g, c, b)) + Cardinality(Places(g[c], b))
      /\ Cardinality(Places(g[c], b)) \in Nat
  BY <1>1, UnitsOfOne DEF Queue
<1> QED
  BY <1>1, <1>2, <1>3, <1>4 DEF g

-----------------------------------------------------------------------------
(* The two sides of the equation *)

Total(r, fr, h, cu, b) ==
  Cardinality(PacketsWith(r, b)) + FramesCount(fr, b) + Cardinality(UnitsWith(h, b)) + One(cu.block = b)

LEMMA CountedIs ==
  /\ Counted <=> \A b \in Blocks : count[b] = Total(ref, frame, held, current, b) + lost[b]
  /\ Counted' <=> \A b \in Blocks : count'[b] = Total(ref', frame', held', current', b) + lost'[b]
<1>1. ASSUME NEW b
      PROVE  /\ Cardinality(PacketsWith(ref, b)) \in Nat /\ Cardinality(BufsWith(frame, b)) \in Nat
             /\ Cardinality(ExtendedWith(frame, b)) \in Nat /\ Cardinality(UnitsWith(held, b)) \in Nat
             /\ Cardinality(PacketsWith(ref', b)) \in Nat /\ Cardinality(BufsWith(frame', b)) \in Nat
             /\ Cardinality(ExtendedWith(frame', b)) \in Nat /\ Cardinality(UnitsWith(held', b)) \in Nat
  BY FinitelyMany
<1>2. ASSUME NEW b
      PROVE  Holders(b) = Total(ref, frame, held, current, b)
  <2>1. Holders(b) = Cardinality(PacketsWith(ref, b)) + Cardinality(BufsWith(frame, b))
          + Cardinality(ExtendedWith(frame, b)) + Cardinality(UnitsWith(held, b)) + One(current.block = b)
    BY DEF Holders, PacketsWith, BufsWith, ExtendedWith, UnitsWith, One
  <2>2. One(current.block = b) \in Nat
    BY DEF One
  <2> QED
    BY <1>1, <2>1, <2>2 DEF Total, FramesCount
<1>3. ASSUME NEW b
      PROVE  Holders(b)' = Total(ref', frame', held', current', b)
  <2>1. Holders(b)' = Cardinality(PacketsWith(ref', b)) + Cardinality(BufsWith(frame', b))
          + Cardinality(ExtendedWith(frame', b)) + Cardinality(UnitsWith(held', b)) + One(current'.block = b)
    BY DEF Holders, PacketsWith, BufsWith, ExtendedWith, UnitsWith, One
  <2>2. One(current'.block = b) \in Nat
    BY DEF One
  <2> QED
    BY <1>1, <2>1, <2>2 DEF Total, FramesCount
<1> QED
  BY <1>2, <1>3 DEF Counted

LEMMA TermsAreNumbers ==
  ASSUME NEW r, NEW fr, NEW h, NEW b
  PROVE  /\ Cardinality(PacketsWith(r, b)) \in Nat /\ FramesCount(fr, b) \in Nat
         /\ Cardinality(UnitsWith(h, b)) \in Nat
BY FinitelyMany DEF FramesCount

LEMMA OneIsANumber ==
  ASSUME NEW is
  PROVE  One(is) \in Int
BY DEF One

LEMMA GainIs ==
  ASSUME NEW n \in [Blocks -> Int], NEW S
  PROVE  Gain(n, S) \in [Blocks -> Int] /\ \A b \in Blocks : Gain(n, S)[b] = n[b] + One(b \in S)
BY DEF Gain, One

LEMMA LoseIs ==
  ASSUME NEW n \in [Blocks -> Int], NEW S
  PROVE  Lose(n, S) \in [Blocks -> Int] /\ \A b \in Blocks : Lose(n, S)[b] = n[b] - One(b \in S)
BY DEF Lose, One

LEMMA LoseAllIs ==
  ASSUME NEW n \in [Blocks -> Int], NEW s \in Seq(SUBSET Blocks),
         \A b \in Blocks : Cardinality(Places(s, b)) \in Nat
  PROVE  /\ LoseAll(n, s) \in [Blocks -> Int]
         /\ \A b \in Blocks : LoseAll(n, s)[b] = n[b] - Cardinality(Places(s, b))
<1>1. \A b : Places(s, b) = {i \in DOMAIN s : b \in s[i]}
  BY DEF Places
<1>2. LoseAll(n, s) = [b \in Blocks |-> n[b] - Cardinality(Places(s, b))]
  BY <1>1 DEF LoseAll
<1> QED
  BY <1>2

(* A reference that may be null. *)
LEMMA BlocksOfIs ==
  ASSUME NEW r, NEW b \in Blocks
  PROVE  One(b \in BlocksOf(r)) = One(r = b)
BY CodecAssumption DEF BlocksOf, One

-----------------------------------------------------------------------------
(* The steps *)

(* Opening, and failing to, touches the context of one codec only. *)
LEMMA OpenKeeps ==
  ASSUME CodecInv, NEW c \in Codecs, Open(c) \/ \E s \in Stages : OpenFails(c, s)
  PROVE  CodecInv'
<1> DEFINE May(x) == /\ context' = [context EXCEPT ![c] = x] /\ x \in {NoContext, Opened, Crashed}
                     /\ c \in Library => x # Crashed
<1>1. /\ \E x : May(x)
      /\ UNCHANGED <<config, count, current, ref, frame, held, draining, lost>>
  <2>1. CASE Open(c)
    <3>1. May(Opened)
      BY <2>1 DEF Open, Opened, Crashed
    <3> QED
      BY <2>1, <3>1 DEF Open
  <2>2. ASSUME NEW s \in Stages, OpenFails(c, s)
        PROVE  (\E x : May(x)) /\ UNCHANGED <<config, count, current, ref, frame, held, draining, lost>>
    <3>1. PICK x \in Discarded(Reached(s)) : context' = [context EXCEPT ![c] = x]
      BY <2>2 DEF OpenFails
    <3>2. x = NoContext \/ (s = "library" /\ x = Crashed)
      <4>1. CASE s = "library"
        <5>1. Reached(s) = [state |-> "unset", extradata |-> FALSE]
          BY <4>1 DEF Reached
        <5>2. [Reached(s) EXCEPT !.state = "crashed"] = Crashed
          <6>1. \A e : [[state |-> "unset", extradata |-> e] EXCEPT !.state = "crashed"]
                          = [state |-> "crashed", extradata |-> e]
            OBVIOUS
          <6> QED
            BY <5>1, <6>1 DEF Crashed
        <5> QED
          BY <3>1, <4>1, <5>2 DEF Discarded
      <4>2. CASE s # "library"
        <5>1. Reached(s).state # "unset"
          BY <4>2 DEF Reached, Stages
        <5> QED
          BY <3>1, <5>1 DEF Discarded
      <4> QED
        BY <4>1, <4>2
    <3>3. (s = "library" => c \notin Library) /\ NoContext # Crashed
      BY <2>2 DEF OpenFails, MayFail, NoContext, Crashed
    <3>4. May(x)
      BY <3>1, <3>2, <3>3
    <3> QED
      BY <2>2, <3>4 DEF OpenFails
  <2> QED
    BY <2>1, <2>2
<1>2. PICK x : May(x)
  BY <1>1
<1>3. CodecTypes'
  BY <1>1, <1>2 DEF CodecInv, CodecTypes
<1>4. Bounded'
  BY <1>1 DEF CodecInv, Bounded
<1>5. Counted'
  BY <1>1 DEF CodecInv, Counted, Holders
<1>6. NoneCrashed'
  BY <1>2 DEF CodecInv, CodecTypes, NoneCrashed
<1> QED
  BY <1>3, <1>4, <1>5, <1>6 DEF CodecInv

LEMMA DrainKeeps ==
  ASSUME CodecInv, NEW c \in Codecs, Drain(c)
  PROVE  CodecInv'
<1>1. CodecTypes'
  BY DEF CodecInv, CodecTypes, Drain
<1>2. Bounded'
  BY DEF CodecInv, Bounded, Drain
<1>3. Counted'
  BY DEF CodecInv, Counted, Holders, Drain
<1>4. NoneCrashed'
  BY DEF CodecInv, NoneCrashed, Drain
<1> QED
  BY <1>1, <1>2, <1>3, <1>4 DEF CodecInv

(* The library drops its queue. *)
LEMMA QueueIsDropped ==
  ASSUME CodecTypes, Bounded, Counted, NEW c \in Codecs,
         count' = LoseAll(count, held[c]), held' = [held EXCEPT ![c] = <<>>],
         UNCHANGED <<current, ref, frame, lost>>
  PROVE  /\ count' \in [Blocks -> Int] /\ held' \in [Codecs -> Seq(SUBSET Blocks)]
         /\ Bounded' /\ Counted'
<1>1. /\ held \in [Codecs -> Seq(SUBSET Blocks)] /\ held[c] \in Seq(SUBSET Blocks)
      /\ count \in [Blocks -> Int] /\ Len(held[c]) <= Depth
  BY DEF CodecTypes, Bounded
<1>2. <<>> \in Seq(SUBSET Blocks) /\ Len(<<>>) <= Depth
  BY CodecAssumption
<1>3. ASSUME NEW b \in Blocks
      PROVE  /\ Cardinality(UnitsWith(held', b)) = Cardinality(UnitsWith(held, b))
                  - Cardinality(Places(held[c], b)) + Cardinality(Places(<<>>, b))
             /\ Cardinality(Places(held[c], b)) \in Nat
  <2> DEFINE s == <<>>
  <2>1. held' = Set(held, c, s) /\ Queue(s) /\ Queue(held[c])
    BY <1>1, <1>2 DEF Set, Queue
  <2> HIDE DEF s
  <2>2. /\ Cardinality(UnitsWith(held', b))
             = Cardinality(UnitsWith(held, b)) - Cardinality(Places(held[c], b)) + Cardinality(Places(s, b))
        /\ Cardinality(Places(held[c], b)) \in Nat
    <3>1. Cardinality(UnitsWith(Set(held, c, s), b))
            = Cardinality(UnitsWith(held, b)) - Cardinality(Places(held[c], b)) + Cardinality(Places(s, b))
      BY <2>1, <1>1, QueueChanges
    <3>2. Cardinality(Places(held[c], b)) \in Nat
      BY <2>1, <1>1, QueueChanges
    <3> QED
      BY <2>1, <3>1, <3>2
  <2> QED
    BY <2>2 DEF s
<1>4. ASSUME NEW b
      PROVE  Cardinality(Places(<<>>, b)) = 0
  <2>1. Places(<<>>, b) = {}
    BY DEF Places
  <2> QED
    BY <2>1, FS_EmptySet
<1>5. /\ count' \in [Blocks -> Int]
      /\ \A b \in Blocks : count'[b] = count[b] - Cardinality(Places(held[c], b))
  BY <1>1, <1>3, LoseAllIs
<1>6. Bounded'
  BY <1>1, <1>2 DEF Bounded, CodecTypes
<1>7. Counted'
  <2>1. SUFFICES ASSUME NEW b \in Blocks
                 PROVE  count'[b] = Total(ref', frame', held', current', b) + lost'[b]
    BY CountedIs
  <2>0. lost'[b] = lost[b] /\ lost[b] \in Int
    BY DEF CodecInv, CodecTypes
  <2>2. count[b] = Total(ref, frame, held, current, b) + lost[b]
    BY CountedIs
  <2>3. count'[b] = count[b] - Cardinality(Places(held[c], b))
    BY <1>5
  <2>4. Cardinality(UnitsWith(held', b)) = Cardinality(UnitsWith(held, b)) - Cardinality(Places(held[c], b))
    <3>1. /\ Cardinality(UnitsWith(held', b)) = Cardinality(UnitsWith(held, b))
                  - Cardinality(Places(held[c], b)) + Cardinality(Places(<<>>, b))
          /\ Cardinality(Places(held[c], b)) \in Nat
      BY <1>3
    <3>2. Cardinality(Places(<<>>, b)) = 0
      BY <1>4
    <3>3. Cardinality(UnitsWith(held, b)) \in Nat
      BY TermsAreNumbers
    <3> QED
      BY <3>1, <3>2, <3>3
  <2>5. Cardinality(PacketsWith(ref, b)) \in Nat /\ FramesCount(frame, b) \in Nat
        /\ Cardinality(UnitsWith(held, b)) \in Nat /\ One(current.block = b) \in Int
        /\ Cardinality(Places(held[c], b)) \in Nat
    BY <1>3, TermsAreNumbers, OneIsANumber
  <2>6. Total(ref', frame', held', current', b)
          = Total(ref, frame, held, current, b) - Cardinality(Places(held[c], b))
    BY <2>4, <2>5 DEF Total
  <2>7. Total(ref, frame, held, current, b) \in Int
    BY <2>5 DEF Total
  <2> QED
    BY <2>0, <2>2, <2>3, <2>5, <2>6, <2>7
<1> QED
  BY <1>1, <1>2, <1>5, <1>6, <1>7

LEMMA DeleteKeeps ==
  ASSUME CodecInv, NEW c \in Codecs, Delete(c)
  PROVE  CodecInv'
<1>1. /\ count' \in [Blocks -> Int] /\ held' \in [Codecs -> Seq(SUBSET Blocks)]
      /\ Bounded' /\ Counted'
  BY QueueIsDropped DEF CodecInv, Delete
<1>2. context[c] = Opened
  BY DEF CodecInv, CodecTypes, Delete, IsOpen, NoContext, Opened, Crashed
<1>3. config' = TRUE
  <2>1. context[c].extradata = FALSE
    BY <1>2 DEF Opened
  <2>2. config = TRUE /\ config' = (config /\ ~context[c].extradata)
    BY DEF CodecInv, CodecTypes, Delete
  <2> QED
    BY <2>1, <2>2
<1>4. CodecTypes'
  BY <1>1, <1>3 DEF CodecInv, CodecTypes, Delete
<1>5. NoneCrashed'
  BY DEF CodecInv, CodecTypes, NoneCrashed, Delete
<1> QED
  BY <1>1, <1>4, <1>5 DEF CodecInv

LEMMA FlushKeeps ==
  ASSUME CodecInv, NEW c \in Codecs, Flush(c)
  PROVE  CodecInv'
<1>1. /\ count' \in [Blocks -> Int] /\ held' \in [Codecs -> Seq(SUBSET Blocks)]
      /\ Bounded' /\ Counted'
  BY QueueIsDropped DEF CodecInv, Flush
<1>2. CodecTypes'
  BY <1>1 DEF CodecInv, CodecTypes, Flush
<1>3. NoneCrashed'
  BY DEF CodecInv, NoneCrashed, Flush
<1> QED
  BY <1>1, <1>2, <1>3 DEF CodecInv

(* The demuxer gives up what the packet had and cuts a slice. *)
LEMMA FillKeeps ==
  ASSUME CodecInv, NEW p \in Packets, Fill(p)
  PROVE  CodecInv'
<1> DEFINE n == Lose(count, BlocksOf(ref[p]))
           m == Lose(n, BlocksOf(current.block))
<1>1. /\ count \in [Blocks -> Int] /\ ref \in [Packets -> Blocks \union {NoBlock}]
      /\ current \in [block : Blocks \union {NoBlock}, left : Nat]
  BY DEF CodecInv, CodecTypes
<1>2. n \in [Blocks -> Int] /\ \A x \in Blocks : n[x] = count[x] - One(x \in BlocksOf(ref[p]))
  BY <1>1, LoseIs
<1>3. m \in [Blocks -> Int] /\ \A x \in Blocks : m[x] = n[x] - One(x \in BlocksOf(current.block))
  BY <1>2, LoseIs
<1>4. UNCHANGED <<context, config, frame, held, draining, lost>>
  BY DEF Fill
<1> DEFINE Cut(b, left) ==
             /\ ref' = [ref EXCEPT ![p] = b] /\ current' = [block |-> b, left |-> left]
<1>5. CASE current.left > 0
  <2>1. count' = Gain(n, {current.block}) /\ current.block \in Blocks
    BY <1>5 DEF Fill, CodecInv, Bounded
  <2>2. Cut(current.block, current.left - 1) /\ current.left - 1 \in Nat
    BY <1>1, <1>5 DEF Fill
  <2>3. /\ count' \in [Blocks -> Int]
        /\ \A x \in Blocks : count'[x] = n[x] + One(x \in {current.block})
    BY <2>1, <1>2, GainIs
  <2>4. CodecTypes'
    BY <1>1, <1>4, <2>1, <2>2, <2>3 DEF CodecInv, CodecTypes
  <2>5. Bounded'
    BY <1>4, <2>1, <2>2 DEF CodecInv, Bounded
  <2>6. Counted'
    <3>1. SUFFICES ASSUME NEW x \in Blocks
                   PROVE  count'[x] = Total(ref', frame', held', current', x) + lost'[x]
      BY CountedIs
    <3>0. lost'[x] = lost[x] /\ lost[x] \in Int
      BY <1>4 DEF CodecInv, CodecTypes
    <3>2. count[x] = Total(ref, frame, held, current, x) + lost[x]
      BY CountedIs DEF CodecInv
    <3>3. count'[x] = count[x] - One(ref[p] = x) + One(current.block = x)
      <4>1. count'[x] = n[x] + One(x \in {current.block}) /\ n[x] = count[x] - One(x \in BlocksOf(ref[p]))
        BY <1>2, <2>3
      <4>2. One(x \in {current.block}) = One(current.block = x)
        BY DEF One
      <4>3. One(x \in BlocksOf(ref[p])) = One(ref[p] = x)
        BY BlocksOfIs
      <4> QED
        BY <4>1, <4>2, <4>3
    <3>4. Cardinality(PacketsWith(ref', x))
            = Cardinality(PacketsWith(ref, x)) - One(ref[p] = x) + One(current.block = x)
      <4>1. Cardinality(PacketsWith(Set(ref, p, current.block), x))
              = Cardinality(PacketsWith(ref, x)) - One(ref[p] = x) + One(current.block = x)
        BY <1>1, <2>1, PacketChanges
      <4> QED
        BY <2>2, <4>1 DEF Set
    <3>5. current'.block = current.block
      BY <2>2
    <3>6. /\ Cardinality(PacketsWith(ref, x)) \in Nat /\ FramesCount(frame, x) \in Nat
          /\ Cardinality(UnitsWith(held, x)) \in Nat
          /\ One(ref[p] = x) \in Int /\ One(current.block = x) \in Int
      BY TermsAreNumbers, OneIsANumber
    <3> QED
      BY <3>0, <1>4, <3>2, <3>3, <3>4, <3>5, <3>6 DEF Total
  <2>7. NoneCrashed'
    BY <1>4 DEF CodecInv, NoneCrashed
  <2> QED
    BY <2>4, <2>5, <2>6, <2>7 DEF CodecInv
<1>6. CASE ~(current.left > 0)
  <2>1. PICK b \in Fresh(m) : count' = Gain(Gain(m, {b}), {b}) /\ Cut(b, Slices - 1)
    BY <1>6 DEF Fill
  <2>2. b \in Blocks /\ Slices - 1 \in Nat
    BY CodecAssumption DEF Fresh
  <2>3. /\ Gain(m, {b}) \in [Blocks -> Int]
        /\ \A x \in Blocks : Gain(m, {b})[x] = m[x] + One(x \in {b})
    BY <1>3, GainIs
  <2>4. /\ count' \in [Blocks -> Int]
        /\ \A x \in Blocks : count'[x] = Gain(m, {b})[x] + One(x \in {b})
    BY <2>1, <2>3, GainIs
  <2>5. CodecTypes'
    BY <1>1, <1>4, <2>1, <2>2, <2>4 DEF CodecInv, CodecTypes
  <2>6. Bounded'
    BY <1>4, <2>1, <2>2 DEF CodecInv, Bounded
  <2>7. Counted'
    <3>1. SUFFICES ASSUME NEW x \in Blocks
                   PROVE  count'[x] = Total(ref', frame', held', current', x) + lost'[x]
      BY CountedIs
    <3>0. lost'[x] = lost[x] /\ lost[x] \in Int
      BY <1>4 DEF CodecInv, CodecTypes
    <3>2. count[x] = Total(ref, frame, held, current, x) + lost[x]
      BY CountedIs DEF CodecInv
    <3>3. /\ Cardinality(PacketsWith(ref, x)) \in Nat /\ FramesCount(frame, x) \in Nat
          /\ Cardinality(UnitsWith(held, x)) \in Nat /\ count[x] \in Int
          /\ One(ref[p] = x) \in Int /\ One(current.block = x) \in Int /\ One(b = x) \in Int
      BY <1>1, TermsAreNumbers, OneIsANumber
    <3>4. count'[x] = count[x] - One(ref[p] = x) - One(current.block = x) + One(b = x) + One(b = x)
      <4>1. /\ n[x] = count[x] - One(x \in BlocksOf(ref[p]))
            /\ m[x] = n[x] - One(x \in BlocksOf(current.block))
        BY <1>2, <1>3
      <4>2. Gain(m, {b})[x] = m[x] + One(x \in {b}) /\ count'[x] = Gain(m, {b})[x] + One(x \in {b})
        BY <2>3, <2>4
      <4>3. One(x \in {b}) = One(b = x)
        BY DEF One
      <4>4. /\ One(x \in BlocksOf(ref[p])) = One(ref[p] = x)
            /\ One(x \in BlocksOf(current.block)) = One(current.block = x)
        BY BlocksOfIs
      <4> HIDE DEF n, m
      <4> QED
        BY <3>3, <4>1, <4>2, <4>3, <4>4
    <3>5. Cardinality(PacketsWith(ref', x)) = Cardinality(PacketsWith(ref, x)) - One(ref[p] = x) + One(b = x)
      <4>1. Cardinality(PacketsWith(Set(ref, p, b), x))
              = Cardinality(PacketsWith(ref, x)) - One(ref[p] = x) + One(b = x)
        BY <1>1, <2>2, PacketChanges
      <4> QED
        BY <2>1, <4>1 DEF Set
    <3>6. One(current'.block = x) = One(b = x)
      BY <2>1
    <3> QED
      BY <3>0, <1>4, <3>2, <3>3, <3>4, <3>5, <3>6 DEF Total
  <2>8. NoneCrashed'
    BY <1>4 DEF CodecInv, NoneCrashed
  <2> QED
    BY <2>5, <2>6, <2>7, <2>8 DEF CodecInv
<1> QED
  BY <1>5, <1>6

(* The library takes references of its own. *)
LEMMA SendKeeps ==
  ASSUME CodecInv, NEW c \in Codecs, NEW S \in SUBSET Blocks, Sent(c, S),
         UNCHANGED <<context, config, current, ref, frame, draining, lost>>
  PROVE  CodecInv'
<1> DEFINE s == Append(held[c], S)
<1>1. /\ count \in [Blocks -> Int] /\ held \in [Codecs -> Seq(SUBSET Blocks)]
      /\ held[c] \in Seq(SUBSET Blocks) /\ Len(held[c]) <= Depth
  BY DEF CodecInv, CodecTypes, Bounded
<1>2. s \in Seq(SUBSET Blocks) /\ Len(s) <= Depth
  BY <1>1, CodecAssumption DEF Sent
<1>3. held' = [held EXCEPT ![c] = s] /\ count' = Gain(count, S)
  BY DEF Sent
<1>4. count' \in [Blocks -> Int] /\ \A x \in Blocks : count'[x] = count[x] + One(x \in S)
  BY <1>1, <1>3, GainIs
<1>5. CodecTypes'
  BY <1>1, <1>2, <1>3, <1>4 DEF CodecInv, CodecTypes
<1>6. Bounded'
  BY <1>1, <1>2, <1>3 DEF CodecInv, Bounded
<1>7. Counted'
  <2>1. SUFFICES ASSUME NEW x \in Blocks
                 PROVE  count'[x] = Total(ref', frame', held', current', x) + lost'[x]
    BY CountedIs
  <2>0. lost'[x] = lost[x] /\ lost[x] \in Int
    BY DEF CodecInv, CodecTypes
  <2>2. count[x] = Total(ref, frame, held, current, x) + lost[x] /\ count'[x] = count[x] + One(x \in S)
    BY <1>4, CountedIs DEF CodecInv
  <2>3. /\ Cardinality(UnitsWith(held', x))
             = Cardinality(UnitsWith(held, x)) - Cardinality(Places(held[c], x)) + Cardinality(Places(s, x))
        /\ Cardinality(Places(held[c], x)) \in Nat /\ Cardinality(Places(s, x)) \in Nat
    <3>1. held' = Set(held, c, s) /\ Queue(s) /\ Queue(held[c])
      BY <1>1, <1>2, <1>3 DEF Set, Queue
    <3> QED
      BY <3>1, <1>1, QueueChanges
  <2>4. Cardinality(Places(s, x)) = Cardinality(Places(held[c], x)) + One(x \in S)
    BY <1>1, PlacesAppended
  <2>5. /\ Cardinality(PacketsWith(ref, x)) \in Nat /\ FramesCount(frame, x) \in Nat
        /\ Cardinality(UnitsWith(held, x)) \in Nat
        /\ One(x \in S) \in Int /\ One(current.block = x) \in Int
    BY TermsAreNumbers, OneIsANumber
  <2> HIDE DEF s
  <2> QED
    BY <2>0, <2>2, <2>3, <2>4, <2>5 DEF Total
<1>8. NoneCrashed'
  BY DEF CodecInv, NoneCrashed
<1> QED
  BY <1>5, <1>6, <1>7, <1>8 DEF CodecInv

LEMMA SendPacketKeeps ==
  ASSUME CodecInv, NEW c \in Codecs, NEW p \in Packets, SendPacket(c, p)
  PROVE  CodecInv'
<1>1. ref[p] \in Blocks
  BY DEF CodecInv, CodecTypes, SendPacket
<1> QED
  BY <1>1, SendKeeps DEF SendPacket

LEMMA SendFrameKeeps ==
  ASSUME CodecInv, NEW c \in Codecs, NEW f \in Frames, SendFrame(c, f)
  PROVE  CodecInv'
<1>1. All(frame[f]) \in SUBSET Blocks
  BY DEF CodecInv, CodecTypes, References, All
<1> QED
  BY <1>1, SendKeeps DEF SendFrame

(* The oldest unit is taken from the queue. *)
LEMMA UnitIsConsumed ==
  ASSUME CodecInv, NEW c \in Codecs, held[c] # <<>>, held' = Rest(c)
  PROVE  /\ held' \in [Codecs -> Seq(SUBSET Blocks)] /\ \A e \in Codecs : Len(held'[e]) <= Depth
         /\ Consumed(c) \in [Blocks -> Int]
         /\ \A x \in Blocks : Consumed(c)[x] = count[x] - One(x \in Head(held[c]))
         /\ \A x \in Blocks : Cardinality(UnitsWith(held', x))
                     = Cardinality(UnitsWith(held, x)) - One(x \in Head(held[c]))
<1> DEFINE s == Tail(held[c])
<1>1. /\ count \in [Blocks -> Int] /\ held \in [Codecs -> Seq(SUBSET Blocks)]
      /\ held[c] \in Seq(SUBSET Blocks) /\ \A e \in Codecs : Len(held[e]) <= Depth
  BY DEF CodecInv, CodecTypes, Bounded
<1>2. s \in Seq(SUBSET Blocks) /\ Len(s) <= Depth
  <2>1. Len(s) = Len(held[c]) - 1 /\ Len(held[c]) \in Nat /\ s \in Seq(SUBSET Blocks)
    BY <1>1
  <2>2. Len(held[c]) <= Depth
    BY <1>1
  <2> QED
    BY <2>1, <2>2, CodecAssumption
<1>3. held' = [held EXCEPT ![c] = s]
  BY DEF Rest
<1>4. /\ Consumed(c) \in [Blocks -> Int]
      /\ \A x \in Blocks : Consumed(c)[x] = count[x] - One(x \in Head(held[c]))
  BY <1>1, LoseIs DEF Consumed
<1>5. ASSUME NEW x \in Blocks
      PROVE  Cardinality(UnitsWith(held', x))
               = Cardinality(UnitsWith(held, x)) - One(x \in Head(held[c]))
  <2>1. /\ Cardinality(UnitsWith(held', x))
             = Cardinality(UnitsWith(held, x)) - Cardinality(Places(held[c], x)) + Cardinality(Places(s, x))
        /\ Cardinality(Places(held[c], x)) \in Nat /\ Cardinality(Places(s, x)) \in Nat
    <3>1. held' = Set(held, c, s) /\ Queue(s) /\ Queue(held[c])
      BY <1>1, <1>2, <1>3 DEF Set, Queue
    <3> HIDE DEF s
    <3> QED
      BY <3>1, <1>1, QueueChanges
  <2>2. Cardinality(Places(s, x)) = Cardinality(Places(held[c], x)) - One(x \in Head(held[c]))
    BY <1>1, PlacesConsumed
  <2>3. Cardinality(UnitsWith(held, x)) \in Nat /\ One(x \in Head(held[c])) \in Int
    BY TermsAreNumbers, OneIsANumber
  <2> HIDE DEF s
  <2> QED
    BY <2>1, <2>2, <2>3
<1>6. \A e \in Codecs : Len(held'[e]) <= Depth
  BY <1>1, <1>2, <1>3
<1> QED
  BY <1>1, <1>2, <1>3, <1>4, <1>5, <1>6

LEMMA UnitIsDroppedKeeps ==
  ASSUME CodecInv, NEW c \in Codecs, UnitIsDropped(c)
  PROVE  CodecInv'
<1>1. /\ held[c] # <<>> /\ held' = Rest(c) /\ count' = Consumed(c)
      /\ UNCHANGED <<context, config, current, ref, frame, draining, lost>>
  BY DEF UnitIsDropped
<1>2. /\ held' \in [Codecs -> Seq(SUBSET Blocks)] /\ \A e \in Codecs : Len(held'[e]) <= Depth
      /\ count' \in [Blocks -> Int]
      /\ \A x \in Blocks : count'[x] = count[x] - One(x \in Head(held[c]))
      /\ \A x \in Blocks : Cardinality(UnitsWith(held', x))
                  = Cardinality(UnitsWith(held, x)) - One(x \in Head(held[c]))
  BY <1>1, UnitIsConsumed
<1>3. CodecTypes'
  BY <1>1, <1>2 DEF CodecInv, CodecTypes
<1>4. Bounded'
  BY <1>1, <1>2 DEF CodecInv, Bounded
<1>5. Counted'
  <2>1. SUFFICES ASSUME NEW x \in Blocks
                 PROVE  count'[x] = Total(ref', frame', held', current', x) + lost'[x]
    BY CountedIs
  <2>0. lost'[x] = lost[x] /\ lost[x] \in Int
    BY <1>1 DEF CodecInv, CodecTypes
  <2>2. count[x] = Total(ref, frame, held, current, x) + lost[x]
    BY CountedIs DEF CodecInv
  <2>3. /\ count'[x] = count[x] - One(x \in Head(held[c]))
        /\ Cardinality(UnitsWith(held', x)) = Cardinality(UnitsWith(held, x)) - One(x \in Head(held[c]))
    BY <1>2
  <2>4. /\ Cardinality(PacketsWith(ref, x)) \in Nat /\ FramesCount(frame, x) \in Nat
        /\ Cardinality(UnitsWith(held, x)) \in Nat
        /\ One(x \in Head(held[c])) \in Int /\ One(current.block = x) \in Int
    BY TermsAreNumbers, OneIsANumber
  <2>5. Total(ref', frame', held', current', x)
          = Total(ref, frame, held, current, x) - One(x \in Head(held[c]))
    BY <1>1, <2>3, <2>4 DEF Total
  <2>6. Total(ref, frame, held, current, x) \in Int
    BY <2>4 DEF Total
  <2> QED
    BY <2>0, <2>2, <2>3, <2>4, <2>5, <2>6
<1>6. NoneCrashed'
  BY <1>1 DEF CodecInv, NoneCrashed
<1> QED
  BY <1>3, <1>4, <1>5, <1>6 DEF CodecInv

(* A frame comes out with references of its own, which the AVFrame on the  *)
(* stack no longer has.  Those that the frame had before are lost.         *)
LEMMA ReceiveFrameKeeps ==
  ASSUME CodecInv, NEW c \in Codecs, NEW f \in Frames, ReceiveFrame(c, f)
  PROVE  CodecInv'
<1>1. /\ held[c] # <<>> /\ held' = Rest(c) /\ lost' = Gain(lost, All(frame[f]))
      /\ UNCHANGED <<context, config, current, ref, draining>>
  BY DEF ReceiveFrame
<1>2. /\ held' \in [Codecs -> Seq(SUBSET Blocks)] /\ \A e \in Codecs : Len(held'[e]) <= Depth
      /\ Consumed(c) \in [Blocks -> Int]
      /\ \A x \in Blocks : Consumed(c)[x] = count[x] - One(x \in Head(held[c]))
      /\ \A x \in Blocks : Cardinality(UnitsWith(held', x))
                             = Cardinality(UnitsWith(held, x)) - One(x \in Head(held[c]))
  BY <1>1, UnitIsConsumed
<1>3. PICK av \in References : /\ Apart(av) /\ frame' = Set(frame, f, av)
                               /\ count' = Lose(Gain(Consumed(c), All(av)), All(Left(av)))
  <2>1. PICK bufs \in SUBSET Fresh(Consumed(c)), extended \in SUBSET Fresh(Consumed(c)) :
          LET av == [bufs |-> bufs, extended |-> extended]
          IN  /\ bufs \intersect extended = {} /\ frame' = [frame EXCEPT ![f] = av]
              /\ count' = Lose(Gain(Consumed(c), All(av)), All(Left(av)))
    BY DEF ReceiveFrame
  <2> DEFINE av == [bufs |-> bufs, extended |-> extended]
  <2>2. av \in References /\ Apart(av)
    BY <2>1 DEF References, Apart, Fresh
  <2> QED
    BY <2>1, <2>2 DEF Set
<1>4. /\ count' \in [Blocks -> Int]
      /\ \A x \in Blocks : count'[x] = count[x] - One(x \in Head(held[c])) + One(x \in All(av))
  <2>1. /\ Gain(Consumed(c), All(av)) \in [Blocks -> Int]
        /\ \A x \in Blocks : Gain(Consumed(c), All(av))[x] = Consumed(c)[x] + One(x \in All(av))
    BY <1>2, GainIs
  <2>2. All(Left(av)) = {}
    BY DEF All, Left
  <2>3. /\ count' \in [Blocks -> Int]
        /\ \A x \in Blocks : count'[x] = Gain(Consumed(c), All(av))[x] - One(x \in {})
    BY <1>3, <2>1, <2>2, LoseIs
  <2>4. ASSUME NEW x \in Blocks
        PROVE  count'[x] = count[x] - One(x \in Head(held[c])) + One(x \in All(av))
    <3>1. /\ count'[x] = Gain(Consumed(c), All(av))[x] - One(x \in {})
          /\ Gain(Consumed(c), All(av))[x] = Consumed(c)[x] + One(x \in All(av))
          /\ Consumed(c)[x] = count[x] - One(x \in Head(held[c]))
      BY <1>2, <2>1, <2>3
    <3>2. One(x \in {}) = 0
      BY DEF One
    <3>3. count[x] \in Int /\ One(x \in Head(held[c])) \in Int /\ One(x \in All(av)) \in Int
      BY OneIsANumber DEF CodecInv, CodecTypes
    <3> QED
      BY <3>1, <3>2, <3>3
  <2> QED
    BY <2>3, <2>4
<1>5. frame \in [Frames -> References] /\ Apart(frame[f]) /\ lost \in [Blocks -> Int]
  BY DEF CodecInv, CodecTypes, Bounded, Apart
<1>6. lost' \in [Blocks -> Int] /\ \A x \in Blocks : lost'[x] = lost[x] + One(x \in All(frame[f]))
  BY <1>1, <1>5, GainIs
<1>7. CodecTypes'
  BY <1>1, <1>2, <1>3, <1>4, <1>5, <1>6 DEF CodecInv, CodecTypes, Set
<1>8. Bounded'
  <2>1. \A e \in Frames : frame'[e].bufs \intersect frame'[e].extended = {}
    BY <1>3, <1>5 DEF CodecInv, Bounded, Set, Apart
  <2> QED
    BY <1>1, <1>2, <2>1 DEF CodecInv, Bounded
<1>9. Counted'
  <2>1. SUFFICES ASSUME NEW x \in Blocks
                 PROVE  count'[x] = Total(ref', frame', held', current', x) + lost'[x]
    BY CountedIs
  <2>2. count[x] = Total(ref, frame, held, current, x) + lost[x]
    BY CountedIs DEF CodecInv
  <2>3. /\ count'[x] = count[x] - One(x \in Head(held[c])) + One(x \in All(av))
        /\ Cardinality(UnitsWith(held', x)) = Cardinality(UnitsWith(held, x)) - One(x \in Head(held[c]))
    BY <1>2, <1>4
  <2>4. FramesCount(frame', x) = FramesCount(frame, x) - One(x \in All(frame[f])) + One(x \in All(av))
    BY <1>3, <1>5, FrameChanges
  <2>5. lost'[x] = lost[x] + One(x \in All(frame[f])) /\ lost[x] \in Int /\ One(x \in All(frame[f])) \in Int
    BY <1>5, <1>6, OneIsANumber
  <2>6. /\ Cardinality(PacketsWith(ref, x)) \in Nat /\ FramesCount(frame, x) \in Nat
        /\ Cardinality(UnitsWith(held, x)) \in Nat /\ One(x \in All(av)) \in Int
        /\ One(x \in Head(held[c])) \in Int /\ One(current.block = x) \in Int
    BY TermsAreNumbers, OneIsANumber
  <2>7. /\ Cardinality(PacketsWith(ref', x)) = Cardinality(PacketsWith(ref, x))
        /\ One(current'.block = x) = One(current.block = x)
    BY <1>1
  <2> QED
    BY <2>2, <2>3, <2>4, <2>5, <2>6, <2>7 DEF Total
<1>10. NoneCrashed'
  BY <1>1 DEF CodecInv, NoneCrashed
<1> QED
  BY <1>7, <1>8, <1>9, <1>10 DEF CodecInv

(* A packet takes the only reference to a new block, and gives up its old  *)
(* one.                                                                    *)
LEMMA ReceivePacketKeeps ==
  ASSUME CodecInv, NEW c \in Codecs, NEW p \in Packets, ReceivePacket(c, p)
  PROVE  CodecInv'
<1>1. /\ held[c] # <<>> /\ held' = Rest(c)
      /\ UNCHANGED <<context, config, current, frame, draining, lost>>
  BY DEF ReceivePacket
<1>2. /\ held' \in [Codecs -> Seq(SUBSET Blocks)] /\ \A e \in Codecs : Len(held'[e]) <= Depth
      /\ Consumed(c) \in [Blocks -> Int]
      /\ \A x \in Blocks : Consumed(c)[x] = count[x] - One(x \in Head(held[c]))
      /\ \A x \in Blocks : Cardinality(UnitsWith(held', x))
                             = Cardinality(UnitsWith(held, x)) - One(x \in Head(held[c]))
  BY <1>1, UnitIsConsumed
<1>3. PICK b \in Blocks : /\ ref' = [ref EXCEPT ![p] = b]
                          /\ count' = Lose(Gain(Consumed(c), {b}), BlocksOf(ref[p]))
  BY DEF ReceivePacket, Assigned, Fresh
<1>4. /\ count' \in [Blocks -> Int]
      /\ \A x \in Blocks : count'[x] = count[x] - One(x \in Head(held[c])) + One(b = x) - One(ref[p] = x)
  <2>1. /\ Gain(Consumed(c), {b}) \in [Blocks -> Int]
        /\ \A x \in Blocks : Gain(Consumed(c), {b})[x] = Consumed(c)[x] + One(x \in {b})
    BY <1>2, GainIs
  <2>2. /\ count' \in [Blocks -> Int]
        /\ \A x \in Blocks : count'[x] = Gain(Consumed(c), {b})[x] - One(x \in BlocksOf(ref[p]))
    BY <1>3, <2>1, LoseIs
  <2>3. ASSUME NEW x \in Blocks
        PROVE  count'[x] = count[x] - One(x \in Head(held[c])) + One(b = x) - One(ref[p] = x)
    <3>1. /\ count'[x] = Gain(Consumed(c), {b})[x] - One(x \in BlocksOf(ref[p]))
          /\ Gain(Consumed(c), {b})[x] = Consumed(c)[x] + One(x \in {b})
          /\ Consumed(c)[x] = count[x] - One(x \in Head(held[c]))
      BY <1>2, <2>1, <2>2
    <3>2. One(x \in {b}) = One(b = x)
      BY DEF One
    <3>3. One(x \in BlocksOf(ref[p])) = One(ref[p] = x)
      BY BlocksOfIs
    <3>4. /\ count[x] \in Int /\ One(x \in Head(held[c])) \in Int
          /\ One(b = x) \in Int /\ One(ref[p] = x) \in Int
      BY OneIsANumber DEF CodecInv, CodecTypes
    <3> QED
      BY <3>1, <3>2, <3>3, <3>4
  <2> QED
    BY <2>2, <2>3
<1>5. ref \in [Packets -> Blocks \union {NoBlock}]
  BY DEF CodecInv, CodecTypes
<1>6. CodecTypes'
  BY <1>1, <1>2, <1>3, <1>4, <1>5 DEF CodecInv, CodecTypes
<1>7. Bounded'
  BY <1>1, <1>2 DEF CodecInv, Bounded
<1>8. Counted'
  <2>1. SUFFICES ASSUME NEW x \in Blocks
                 PROVE  count'[x] = Total(ref', frame', held', current', x) + lost'[x]
    BY CountedIs
  <2>0. lost'[x] = lost[x] /\ lost[x] \in Int
    BY <1>1 DEF CodecInv, CodecTypes
  <2>2. count[x] = Total(ref, frame, held, current, x) + lost[x]
    BY CountedIs DEF CodecInv
  <2>3. /\ count'[x] = count[x] - One(x \in Head(held[c])) + One(b = x) - One(ref[p] = x)
        /\ Cardinality(UnitsWith(held', x)) = Cardinality(UnitsWith(held, x)) - One(x \in Head(held[c]))
    BY <1>2, <1>4
  <2>4. Cardinality(PacketsWith(ref', x)) = Cardinality(PacketsWith(ref, x)) - One(ref[p] = x) + One(b = x)
    <3>1. Cardinality(PacketsWith(Set(ref, p, b), x))
            = Cardinality(PacketsWith(ref, x)) - One(ref[p] = x) + One(b = x)
      BY <1>5, PacketChanges
    <3> QED
      BY <1>3, <3>1 DEF Set
  <2>5. /\ Cardinality(PacketsWith(ref, x)) \in Nat /\ FramesCount(frame, x) \in Nat
        /\ Cardinality(UnitsWith(held, x)) \in Nat /\ count[x] \in Int
        /\ One(x \in Head(held[c])) \in Int /\ One(current.block = x) \in Int
        /\ One(b = x) \in Int /\ One(ref[p] = x) \in Int
    BY TermsAreNumbers, OneIsANumber DEF CodecInv, CodecTypes
  <2>6. FramesCount(frame', x) = FramesCount(frame, x) /\ One(current'.block = x) = One(current.block = x)
    BY <1>1
  <2> QED
    BY <2>0, <2>2, <2>3, <2>4, <2>5, <2>6 DEF Total
<1>9. NoneCrashed'
  BY <1>1 DEF CodecInv, NoneCrashed
<1> QED
  BY <1>6, <1>7, <1>8, <1>9 DEF CodecInv

LEMMA UnrefPacketKeeps ==
  ASSUME CodecInv, NEW p \in Packets, UnrefPacket(p)
  PROVE  CodecInv'
<1>1. /\ count' = Lose(count, BlocksOf(ref[p])) /\ ref' = [ref EXCEPT ![p] = NoBlock]
      /\ UNCHANGED <<context, config, current, frame, held, draining, lost>>
  BY DEF UnrefPacket
<1>2. count \in [Blocks -> Int] /\ ref \in [Packets -> Blocks \union {NoBlock}]
  BY DEF CodecInv, CodecTypes
<1>3. /\ count' \in [Blocks -> Int]
      /\ \A x \in Blocks : count'[x] = count[x] - One(x \in BlocksOf(ref[p]))
  BY <1>1, <1>2, LoseIs
<1>4. CodecTypes'
  BY <1>1, <1>2, <1>3 DEF CodecInv, CodecTypes
<1>5. Bounded'
  BY <1>1 DEF CodecInv, Bounded
<1>6. Counted'
  <2>1. SUFFICES ASSUME NEW x \in Blocks
                 PROVE  count'[x] = Total(ref', frame', held', current', x) + lost'[x]
    BY CountedIs
  <2>0. lost'[x] = lost[x] /\ lost[x] \in Int
    BY <1>1 DEF CodecInv, CodecTypes
  <2>2. count[x] = Total(ref, frame, held, current, x) + lost[x]
    BY CountedIs DEF CodecInv
  <2>3. count'[x] = count[x] - One(ref[p] = x)
    <3>1. One(x \in BlocksOf(ref[p])) = One(ref[p] = x)
      BY BlocksOfIs
    <3> QED
      BY <1>3, <3>1
  <2>4. Cardinality(PacketsWith(ref', x)) = Cardinality(PacketsWith(ref, x)) - One(ref[p] = x)
    <3>1. Cardinality(PacketsWith(Set(ref, p, NoBlock), x))
            = Cardinality(PacketsWith(ref, x)) - One(ref[p] = x) + One(NoBlock = x)
      BY <1>2, PacketChanges
    <3>2. One(NoBlock = x) = 0
      BY CodecAssumption DEF One
    <3>3. Cardinality(PacketsWith(ref, x)) \in Nat /\ One(ref[p] = x) \in Int
      BY TermsAreNumbers, OneIsANumber
    <3>4. ref' = Set(ref, p, NoBlock)
      BY <1>1 DEF Set
    <3> QED
      BY <3>1, <3>2, <3>3, <3>4
  <2>5. /\ Cardinality(PacketsWith(ref, x)) \in Nat /\ FramesCount(frame, x) \in Nat
        /\ Cardinality(UnitsWith(held, x)) \in Nat /\ One(ref[p] = x) \in Int
        /\ One(current.block = x) \in Int
    BY TermsAreNumbers, OneIsANumber
  <2> QED
    BY <2>0, <1>1, <2>2, <2>3, <2>4, <2>5 DEF Total
<1>7. NoneCrashed'
  BY <1>1 DEF CodecInv, NoneCrashed
<1> QED
  BY <1>4, <1>5, <1>6, <1>7 DEF CodecInv

LEMMA EmptyFrame ==
  NoFrame \in References /\ Apart(NoFrame) /\ \A x : One(x \in All(NoFrame)) = 0
BY DEF NoFrame, References, Apart, All, One

LEMMA UnrefFrameKeeps ==
  ASSUME CodecInv, NEW f \in Frames, UnrefFrame(f)
  PROVE  CodecInv'
<1>1. /\ count' = Lose(count, All(frame[f])) /\ frame' = Set(frame, f, NoFrame)
      /\ UNCHANGED <<context, config, current, ref, held, draining, lost>>
  BY DEF UnrefFrame, Set
<1>2. count \in [Blocks -> Int] /\ frame \in [Frames -> References] /\ Apart(frame[f])
  BY DEF CodecInv, CodecTypes, Bounded, Apart
<1>3. /\ count' \in [Blocks -> Int]
      /\ \A x \in Blocks : count'[x] = count[x] - One(x \in All(frame[f]))
  BY <1>1, <1>2, LoseIs
<1>4. CodecTypes'
  BY <1>1, <1>2, <1>3, EmptyFrame DEF CodecInv, CodecTypes, Set
<1>5. Bounded'
  BY <1>1, <1>2, EmptyFrame DEF CodecInv, Bounded, Set, Apart
<1>6. Counted'
  <2>1. SUFFICES ASSUME NEW x \in Blocks
                 PROVE  count'[x] = Total(ref', frame', held', current', x) + lost'[x]
    BY CountedIs
  <2>0. lost'[x] = lost[x] /\ lost[x] \in Int
    BY <1>1 DEF CodecInv, CodecTypes
  <2>2. count[x] = Total(ref, frame, held, current, x) + lost[x] /\ count'[x] = count[x] - One(x \in All(frame[f]))
    BY <1>3, CountedIs DEF CodecInv
  <2>3. FramesCount(frame', x)
          = FramesCount(frame, x) - One(x \in All(frame[f])) + One(x \in All(NoFrame))
    BY <1>1, <1>2, EmptyFrame, FrameChanges
  <2>4. One(x \in All(NoFrame)) = 0
    BY EmptyFrame
  <2>5. /\ Cardinality(PacketsWith(ref, x)) \in Nat /\ FramesCount(frame, x) \in Nat
        /\ Cardinality(UnitsWith(held, x)) \in Nat /\ One(x \in All(frame[f])) \in Int
        /\ One(current.block = x) \in Int
    BY TermsAreNumbers, OneIsANumber
  <2> QED
    BY <2>0, <1>1, <2>2, <2>3, <2>4, <2>5 DEF Total
<1>7. NoneCrashed'
  BY <1>1 DEF CodecInv, NoneCrashed
<1> QED
  BY <1>4, <1>5, <1>6, <1>7 DEF CodecInv

(* The references of g become those of f, and g has none. *)
LEMMA MoveFrameKeeps ==
  ASSUME CodecInv, NEW f \in Frames, NEW g \in Frames, MoveFrame(f, g)
  PROVE  CodecInv'
<1> DEFINE fr == Set(frame, f, frame[g])
<1>1. /\ count' = Lose(count, All(frame[f])) /\ f # g
      /\ UNCHANGED <<context, config, current, ref, held, draining, lost>>
  BY DEF MoveFrame
<1>2. /\ count \in [Blocks -> Int] /\ frame \in [Frames -> References]
      /\ \A e \in Frames : frame[e] \in References /\ Apart(frame[e])
  BY DEF CodecInv, CodecTypes, Bounded, Apart
<1>3. frame' = Set(fr, g, NoFrame)
  <2>1. MovedFrom(frame[g]) = NoFrame
    <3> DEFINE m == MovedFrom(frame[g])
    <3>1. m = [[frame[g] EXCEPT !.bufs = {}] EXCEPT !.extended = {}]
      BY DEF MovedFrom
    <3>2. [frame[g] EXCEPT !.bufs = {}] = [bufs |-> {}, extended |-> frame[g].extended]
      <4>1. PICK bufs \in SUBSET Blocks, extended \in SUBSET Blocks :
              frame[g] = [bufs |-> bufs, extended |-> extended]
        BY <1>2 DEF References
      <4>2. [[bufs |-> bufs, extended |-> extended] EXCEPT !.bufs = {}]
              = [bufs |-> {}, extended |-> extended]
        OBVIOUS
      <4>3. frame[g].extended = extended
        BY <4>1
      <4> QED
        BY <4>1, <4>2, <4>3
    <3>3. [[bufs |-> {}, extended |-> frame[g].extended] EXCEPT !.extended = {}] = NoFrame
      BY DEF NoFrame
    <3> QED
      BY <3>1, <3>2, <3>3
  <2> QED
    BY <1>2, <2>1 DEF MoveFrame, Set
<1>4. /\ count' \in [Blocks -> Int]
      /\ \A x \in Blocks : count'[x] = count[x] - One(x \in All(frame[f]))
  BY <1>1, <1>2, LoseIs
<1>5. fr \in [Frames -> References] /\ fr[g] = frame[g] /\ \A e \in Frames : Apart(fr[e])
  BY <1>1, <1>2 DEF Set
<1> HIDE DEF fr
<1>6. frame' \in [Frames -> References] /\ \A e \in Frames : Apart(frame'[e])
  BY <1>3, <1>5, EmptyFrame DEF Set
<1>7. CodecTypes'
  BY <1>1, <1>4, <1>6 DEF CodecInv, CodecTypes
<1>8. Bounded'
  BY <1>1, <1>6 DEF CodecInv, Bounded, Apart
<1>9. Counted'
  <2>1. SUFFICES ASSUME NEW x \in Blocks
                 PROVE  count'[x] = Total(ref', frame', held', current', x) + lost'[x]
    BY CountedIs
  <2>0. lost'[x] = lost[x] /\ lost[x] \in Int
    BY <1>1 DEF CodecInv, CodecTypes
  <2>2. count[x] = Total(ref, frame, held, current, x) + lost[x] /\ count'[x] = count[x] - One(x \in All(frame[f]))
    BY <1>4, CountedIs DEF CodecInv
  <2>3. FramesCount(fr, x) = FramesCount(frame, x) - One(x \in All(frame[f])) + One(x \in All(frame[g]))
    BY <1>2, FrameChanges DEF fr
  <2>4. FramesCount(frame', x) = FramesCount(fr, x) - One(x \in All(frame[g])) + One(x \in All(NoFrame))
    <3>1. FramesCount(Set(fr, g, NoFrame), x)
            = FramesCount(fr, x) - One(x \in All(fr[g])) + One(x \in All(NoFrame))
      BY <1>5, EmptyFrame, FrameChanges
    <3> QED
      BY <1>3, <1>5, <3>1
  <2>5. One(x \in All(NoFrame)) = 0
    BY EmptyFrame
  <2>6. /\ Cardinality(PacketsWith(ref, x)) \in Nat /\ FramesCount(frame, x) \in Nat
        /\ Cardinality(UnitsWith(held, x)) \in Nat /\ One(x \in All(frame[f])) \in Int
        /\ One(x \in All(frame[g])) \in Int /\ One(current.block = x) \in Int
    BY TermsAreNumbers, OneIsANumber
  <2> QED
    BY <2>0, <1>1, <2>2, <2>3, <2>4, <2>5, <2>6 DEF Total
<1>10. NoneCrashed'
  BY <1>1 DEF CodecInv, NoneCrashed
<1> QED
  BY <1>7, <1>8, <1>9, <1>10 DEF CodecInv

-----------------------------------------------------------------------------
(* The theorems *)

LEMMA CodecInit == Init => CodecInv
<1> SUFFICES ASSUME Init
             PROVE  CodecInv
  OBVIOUS
<1>1. CodecTypes
  BY DEF Init, CodecTypes, NoContext, NoFrame, References
<1>2. Bounded
  BY CodecAssumption DEF Init, Bounded, NoFrame
<1>3. Counted
  <2>1. SUFFICES ASSUME NEW b \in Blocks
                 PROVE  count[b] = Total(ref, frame, held, current, b) + lost[b]
    BY CountedIs
  <2>2. /\ PacketsWith(ref, b) = {} /\ BufsWith(frame, b) = {} /\ ExtendedWith(frame, b) = {}
    BY CodecAssumption DEF Init, NoFrame, PacketsWith, BufsWith, ExtendedWith
  <2>3. UnitsWith(held, b) = {}
    BY DEF Init, UnitsWith
  <2>4. One(current.block = b) = 0 /\ count[b] = 0 /\ lost[b] = 0
    BY CodecAssumption DEF Init, One
  <2> QED
    BY <2>2, <2>3, <2>4, FS_EmptySet DEF Total, FramesCount
<1>4. NoneCrashed
  BY CodecAssumption DEF Init, NoneCrashed, Codecs
<1> QED
  BY <1>1, <1>2, <1>3, <1>4 DEF CodecInv

LEMMA CodecNext == CodecInv /\ [Next]_vars => CodecInv'
<1> SUFFICES ASSUME CodecInv, [Next]_vars
             PROVE  CodecInv'
  OBVIOUS
<1>1. CASE UNCHANGED vars
  <2>1. CodecTypes' /\ Bounded' /\ NoneCrashed'
    BY <1>1 DEF CodecInv, CodecTypes, Bounded, NoneCrashed, vars
  <2>2. Counted'
    BY <1>1 DEF CodecInv, Counted, Holders, vars
  <2> QED
    BY <2>1, <2>2 DEF CodecInv
<1>2. CASE \E c \in Codecs : Open(c) \/ \E s \in Stages : OpenFails(c, s)
  BY <1>2, OpenKeeps
<1>3. CASE \E c \in Codecs : Delete(c) \/ Flush(c) \/ UnitIsDropped(c)
  BY <1>3, DeleteKeeps, FlushKeeps, UnitIsDroppedKeeps
<1>4. CASE \E c \in Decoders : Drain(c)
  BY <1>4, DrainKeeps DEF Codecs
<1>5. CASE \E p \in Packets : Fill(p) \/ UnrefPacket(p)
  BY <1>5, FillKeeps, UnrefPacketKeeps
<1>6. CASE \E c \in Decoders, p \in Packets : SendPacket(c, p)
  BY <1>6, SendPacketKeeps DEF Codecs
<1>7. CASE \E c \in Encoders, f \in Frames : SendFrame(c, f)
  BY <1>7, SendFrameKeeps DEF Codecs
<1>8. CASE \E c \in Decoders, f \in Frames : ReceiveFrame(c, f)
  BY <1>8, ReceiveFrameKeeps DEF Codecs
<1>9. CASE \E c \in Encoders, p \in Packets : ReceivePacket(c, p)
  BY <1>9, ReceivePacketKeeps DEF Codecs
<1>10. CASE \E f \in Frames : UnrefFrame(f)
  BY <1>10, UnrefFrameKeeps
<1>11. CASE \E f, g \in Frames : MoveFrame(f, g)
  BY <1>11, MoveFrameKeeps
<1> QED
  BY <1>1, <1>2, <1>3, <1>4, <1>5, <1>6, <1>7, <1>8, <1>9, <1>10, <1>11 DEF Next

(* Every reachable state satisfies the invariant: in particular, whatever  *)
(* the library lacks, the refcount of every block is the number of those   *)
(* that point to it (buffer.cc, frame.h, codecs/av.cc).                    *)
THEOREM CodecCorrect == Spec => []CodecInv
<1>1. Init => CodecInv
  BY CodecInit
<1>2. CodecInv /\ [Next]_vars => CodecInv'
  BY CodecNext
<1> QED
  BY <1>1, <1>2, PTL DEF Spec

(* The refcounts are right at all times, receiving into a frame in use     *)
(* loses exactly what was in it, and, of the codecs that the library has,  *)
(* a context is allocated for exactly those that are open, at whatever     *)
(* stage an open failed (codec.cc:11, codecs/av.cc:7, 122): the codecs     *)
(* that it lacks, where the destructor frees a pointer that was never set  *)
(* (codecs/opus.cc:46), are in the specification, but nothing is claimed   *)
(* of their contexts.                                                      *)
THEOREM CodecCountsMemory == Spec => []MemoryIsCounted
<1>1. CodecInv => MemoryIsCounted
  BY DEF CodecInv, CodecTypes, Counted, NoneCrashed, MemoryIsCounted
<1> QED
  BY <1>1, CodecCorrect, PTL
=============================================================================
