-------------------------- MODULE PacketPoolProofs --------------------------
(***************************************************************************)
(* The safety of the packet pool for any number of buffers, packets and    *)
(* demuxers, any padding, and any sizes that fit into a size_t with their  *)
(* padding (FitAssumption).                                                *)
(*                                                                         *)
(* An operation of the code is a chain of references dropped and taken.    *)
(* The first part says what one drop, one take and one get_buffer() do to  *)
(* a heap, the second what they do to the number of holders; both change a *)
(* function from buffers to numbers at one place.                          *)
(***************************************************************************)
EXTENDS PacketPool, FiniteSetTheorems, TLAPS

-----------------------------------------------------------------------------
(* Sizes *)

(* The sum of a size that fits and the padding does not wrap. *)
LEMMA Fits ==
  ASSUME NEW n \in Sizes
  PROVE  n \in Nat /\ Padded(n) = n + XE_BUFFER_PADDING
<1>1. n \in Nat /\ XE_BUFFER_PADDING \in Nat /\ Word \in Nat /\ n + XE_BUFFER_PADDING < Word
  BY SizeAssumption, FitAssumption
<1>2. ASSUME NEW x \in Nat, NEW w \in Nat, x < w PROVE x % w = x
  BY <1>2
<1>3. n + XE_BUFFER_PADDING \in Nat
  BY <1>1
<1> QED
  BY <1>1, <1>2, <1>3 DEF Padded

-----------------------------------------------------------------------------
(* The heap *)

InList(ls, b) == \E i \in 1..Len(ls) : ls[i] = b

(* Counts N, sizes sz and list ls agree. *)
Good(N, sz, ls) ==
  /\ N \in [Buffers -> Nat] /\ sz \in [Buffers -> Nat] /\ ls \in Seq(Buffers)
  /\ \A i \in 1..Len(ls) : N[ls[i]] = 0 /\ sz[ls[i]] = XE_BUFFER_SIZE
  /\ \A i, j \in 1..Len(ls) : ls[i] = ls[j] => i = j
  /\ \A b \in Buffers : sz[b] > 0 <=> N[b] > 0 \/ InList(ls, b)

GoodHeap(h) == Good(h.refcount, h.size, h.list)

(* A count that stays above zero, or was above zero, may change. *)
LEMMA GoodCount ==
  ASSUME NEW N, NEW sz, NEW ls, Good(N, sz, ls), NEW c \in Buffers, N[c] > 0,
         NEW v \in Nat, v > 0
  PROVE  Good([N EXCEPT ![c] = v], sz, ls)
<1> DEFINE M == [N EXCEPT ![c] = v]
<1>1. M \in [Buffers -> Nat] /\ M[c] = v /\ \A b \in Buffers : b # c => M[b] = N[b]
  BY DEF Good
<1>2. \A i \in 1..Len(ls) : ls[i] \in Buffers /\ ls[i] # c
  BY DEF Good
<1> HIDE DEF M
<1>3. \A i \in 1..Len(ls) : M[ls[i]] = 0 /\ sz[ls[i]] = XE_BUFFER_SIZE
  BY <1>1, <1>2 DEF Good
<1>4. \A b \in Buffers : sz[b] > 0 <=> M[b] > 0 \/ InList(ls, b)
  BY <1>1 DEF Good
<1>5. Good(M, sz, ls)
  BY <1>1, <1>3, <1>4 DEF Good
<1> QED
  BY <1>5 DEF M

(* A buffer without holders goes to the front of the list. *)
LEMMA GoodRestore ==
  ASSUME NEW N, NEW sz, NEW ls, Good(N, sz, ls), NEW c \in Buffers,
         N[c] > 0, sz[c] = XE_BUFFER_SIZE
  PROVE  Good([N EXCEPT ![c] = 0], sz, <<c>> \o ls)
<1> DEFINE M == [N EXCEPT ![c] = 0]
           ms == <<c>> \o ls
<1>1. M \in [Buffers -> Nat] /\ M[c] = 0 /\ \A b \in Buffers : b # c => M[b] = N[b]
  BY DEF Good
<1>2. \A i \in 1..Len(ls) : ls[i] \in Buffers /\ ls[i] # c
  BY DEF Good
<1>3. /\ ms \in Seq(Buffers) /\ ms[1] = c
      /\ Len(ls) \in Nat /\ Len(ms) = Len(ls) + 1
  BY DEF Good
<1>4. \A i \in 2..Len(ms) : i - 1 \in 1..Len(ls) /\ ms[i] = ls[i - 1]
  BY <1>3 DEF Good
<1> HIDE DEF M, ms
<1>5. ASSUME NEW i \in 1..Len(ms) PROVE M[ms[i]] = 0 /\ sz[ms[i]] = XE_BUFFER_SIZE
  <2>1. CASE i = 1
    BY <1>1, <1>3, <2>1
  <2>2. CASE i # 1
    <3>1. i - 1 \in 1..Len(ls) /\ ms[i] = ls[i - 1]
      BY <1>3, <1>4, <2>2
    <3> QED
      BY <1>1, <1>2, <3>1 DEF Good
  <2> QED
    BY <2>1, <2>2
<1>6. ASSUME NEW i \in 1..Len(ms), NEW j \in 1..Len(ms), ms[i] = ms[j] PROVE i = j
  <2>1. CASE i = 1
    BY <1>2, <1>3, <1>4, <1>6, <2>1
  <2>2. CASE j = 1
    BY <1>2, <1>3, <1>4, <1>6, <2>2
  <2>3. CASE i # 1 /\ j # 1
    <3>1. i - 1 \in 1..Len(ls) /\ j - 1 \in 1..Len(ls) /\ ls[i - 1] = ls[j - 1]
      BY <1>3, <1>4, <1>6, <2>3
    <3>2. i - 1 = j - 1
      BY <3>1 DEF Good
    <3> QED
      BY <3>2
  <2> QED
    BY <2>1, <2>2, <2>3
<1>7. InList(ms, c)
  BY <1>3 DEF InList
<1>8. ASSUME NEW b \in Buffers, b # c PROVE InList(ms, b) <=> InList(ls, b)
  <2>1. ASSUME InList(ms, b) PROVE InList(ls, b)
    <3>1. PICK i \in 1..Len(ms) : ms[i] = b
      BY <2>1 DEF InList
    <3>2. i - 1 \in 1..Len(ls) /\ ls[i - 1] = b
      BY <1>3, <1>4, <1>8, <3>1
    <3> QED
      BY <3>2 DEF InList
  <2>2. ASSUME InList(ls, b) PROVE InList(ms, b)
    <3>1. PICK i \in 1..Len(ls) : ls[i] = b
      BY <2>2 DEF InList
    <3>2. i + 1 \in 2..Len(ms) /\ (i + 1) - 1 = i
      BY <1>3
    <3>3. i + 1 \in 1..Len(ms) /\ ms[i + 1] = b
      BY <1>4, <3>1, <3>2
    <3> QED
      BY <3>3 DEF InList
  <2> QED
    BY <2>1, <2>2
<1>9. \A b \in Buffers : sz[b] > 0 <=> M[b] > 0 \/ InList(ms, b)
  BY <1>1, <1>7, <1>8 DEF Good
<1>10. Good(M, sz, ms)
  BY <1>1, <1>3, <1>5, <1>6, <1>9 DEF Good
<1> QED
  BY <1>10 DEF M, ms

(* A buffer without holders is given back to the system. *)
LEMMA GoodFree ==
  ASSUME NEW N, NEW sz, NEW ls, Good(N, sz, ls), NEW c \in Buffers, N[c] > 0
  PROVE  Good([N EXCEPT ![c] = 0], [sz EXCEPT ![c] = 0], ls)
<1> DEFINE M == [N EXCEPT ![c] = 0]
           tz == [sz EXCEPT ![c] = 0]
<1>1. M \in [Buffers -> Nat] /\ M[c] = 0 /\ \A b \in Buffers : b # c => M[b] = N[b]
  BY DEF Good
<1>2. tz \in [Buffers -> Nat] /\ tz[c] = 0 /\ \A b \in Buffers : b # c => tz[b] = sz[b]
  BY DEF Good
<1>3. \A i \in 1..Len(ls) : ls[i] \in Buffers /\ ls[i] # c
  BY DEF Good
<1> HIDE DEF M, tz
<1>4. \A i \in 1..Len(ls) : M[ls[i]] = 0 /\ tz[ls[i]] = XE_BUFFER_SIZE
  BY <1>1, <1>2, <1>3 DEF Good
<1>5. ~InList(ls, c)
  BY <1>3 DEF InList
<1>6. \A b \in Buffers : tz[b] > 0 <=> M[b] > 0 \/ InList(ls, b)
  BY <1>1, <1>2, <1>5 DEF Good
<1>7. Good(M, tz, ls)
  BY <1>1, <1>2, <1>4, <1>6 DEF Good
<1> QED
  BY <1>7 DEF M, tz

(* c is the front of ls, and ts is the rest. *)
Popped(ls, c, ts) ==
  /\ Len(ls) > 0 /\ c = ls[1]
  /\ ts \in Seq(Buffers) /\ Len(ts) = Len(ls) - 1
  /\ \A i \in 1..Len(ts) : ts[i] = ls[i + 1]

(* The front of the list gets its first holder. *)
LEMMA GoodTail ==
  ASSUME NEW N, NEW sz, NEW ls, Good(N, sz, ls), NEW c, NEW ts, Popped(ls, c, ts)
  PROVE  /\ c \in Buffers /\ N[c] = 0 /\ sz[c] = XE_BUFFER_SIZE
         /\ Good([N EXCEPT ![c] = 1], sz, ts)
<1> DEFINE M == [N EXCEPT ![c] = 1]
<1>1. Len(ls) \in Nat /\ Len(ls) > 0 /\ c = ls[1] /\ c \in Buffers
  BY DEF Good, Popped
<1>2. N[c] = 0 /\ sz[c] = XE_BUFFER_SIZE
  BY <1>1 DEF Good
<1>3. M \in [Buffers -> Nat] /\ M[c] = 1 /\ \A b \in Buffers : b # c => M[b] = N[b]
  BY <1>1 DEF Good
<1>4. ts \in Seq(Buffers) /\ Len(ts) = Len(ls) - 1
  BY DEF Popped
<1>5. \A i \in 1..Len(ts) : i + 1 \in 1..Len(ls) /\ ts[i] = ls[i + 1]
  BY <1>1, <1>4 DEF Popped
<1> HIDE DEF M
<1>6. ASSUME NEW i \in 1..Len(ts) PROVE ts[i] \in Buffers /\ ts[i] # c
  <2>1. 1 \in 1..Len(ls) /\ i + 1 \in 1..Len(ls) /\ i + 1 # 1
    BY <1>1, <1>5
  <2>2. ls[i + 1] # ls[1]
    BY <2>1 DEF Good
  <2>3. ls[i + 1] \in Buffers
    BY <2>1 DEF Good
  <2> QED
    BY <1>1, <1>5, <2>2, <2>3
<1>7. ASSUME NEW i \in 1..Len(ts) PROVE M[ts[i]] = 0 /\ sz[ts[i]] = XE_BUFFER_SIZE
  <2>1. N[ls[i + 1]] = 0 /\ sz[ls[i + 1]] = XE_BUFFER_SIZE
    BY <1>5 DEF Good
  <2> QED
    BY <1>3, <1>5, <1>6, <2>1
<1>8. ASSUME NEW i \in 1..Len(ts), NEW j \in 1..Len(ts), ts[i] = ts[j] PROVE i = j
  <2>1. i + 1 \in 1..Len(ls) /\ j + 1 \in 1..Len(ls) /\ ls[i + 1] = ls[j + 1]
    BY <1>5, <1>8
  <2>2. i + 1 = j + 1
    BY <2>1 DEF Good
  <2> QED
    BY <2>2
<1>9. ASSUME NEW b \in Buffers, b # c PROVE InList(ts, b) <=> InList(ls, b)
  <2>1. ASSUME InList(ts, b) PROVE InList(ls, b)
    BY <1>5, <2>1 DEF InList
  <2>2. ASSUME InList(ls, b) PROVE InList(ts, b)
    <3>1. PICK i \in 1..Len(ls) : ls[i] = b
      BY <2>2 DEF InList
    <3>2. i - 1 \in 1..Len(ts) /\ (i - 1) + 1 = i
      BY <1>1, <1>4, <1>9, <3>1
    <3>3. ts[i - 1] = b
      BY <1>5, <3>1, <3>2
    <3> QED
      BY <3>2, <3>3 DEF InList
  <2> QED
    BY <2>1, <2>2
<1>10. ASSUME NEW b \in Buffers PROVE sz[b] > 0 <=> M[b] > 0 \/ InList(ts, b)
  <2>1. CASE b = c
    BY <1>2, <1>3, <2>1, SizeAssumption
  <2>2. CASE b # c
    BY <1>3, <1>9, <2>2 DEF Good
  <2> QED
    BY <2>1, <2>2
<1>11. Good(M, sz, ts)
  BY <1>3, <1>4, <1>7, <1>8, <1>10 DEF Good
<1> QED
  BY <1>1, <1>2, <1>11 DEF M

(* A new buffer with its first holder. *)
LEMMA GoodCreate ==
  ASSUME NEW N, NEW sz, NEW ls, Good(N, sz, ls), NEW c \in Buffers, sz[c] = 0,
         NEW v \in Nat, v > 0
  PROVE  N[c] = 0 /\ Good([N EXCEPT ![c] = 1], [sz EXCEPT ![c] = v], ls)
<1> DEFINE M == [N EXCEPT ![c] = 1]
           tz == [sz EXCEPT ![c] = v]
<1>1. M \in [Buffers -> Nat] /\ M[c] = 1 /\ \A b \in Buffers : b # c => M[b] = N[b]
  BY DEF Good
<1>2. tz \in [Buffers -> Nat] /\ tz[c] = v /\ \A b \in Buffers : b # c => tz[b] = sz[b]
  BY DEF Good
<1>3. N[c] = 0 /\ ~InList(ls, c)
  BY DEF Good
<1>4. \A i \in 1..Len(ls) : ls[i] \in Buffers /\ ls[i] # c
  BY <1>3 DEF Good, InList
<1> HIDE DEF M, tz
<1>5. \A i \in 1..Len(ls) : M[ls[i]] = 0 /\ tz[ls[i]] = XE_BUFFER_SIZE
  BY <1>1, <1>2, <1>4 DEF Good
<1>6. \A b \in Buffers : tz[b] > 0 <=> M[b] > 0 \/ InList(ls, b)
  BY <1>1, <1>2, <1>3 DEF Good
<1>7. Good(M, tz, ls)
  BY <1>1, <1>2, <1>5, <1>6 DEF Good
<1> QED
  BY <1>3, <1>7 DEF M, tz

(* unref(): the buffer is counted down, and freed or put on the list with  *)
(* its last reference.  Buffers that still have holders stay as they are.  *)
LEMMA HeapDrop ==
  ASSUME NEW h, GoodHeap(h), NEW c \in Buffers, h.refcount[c] > 0
  PROVE  /\ GoodHeap(Unreferenced(h, c))
         /\ Unreferenced(h, c).refcount = [h.refcount EXCEPT ![c] = @ - 1]
         /\ \A b \in Buffers : Unreferenced(h, c).refcount[b] > 0
              => Unreferenced(h, c).size[b] = h.size[b]
<1> DEFINE less == [h EXCEPT !.refcount[c] = @ - 1]
           v == h.refcount[c] - 1
           M == [h.refcount EXCEPT ![c] = v]
           k == Unreferenced(h, c)
<1>1. less.refcount = M /\ less.size = h.size /\ less.list = h.list
  BY DEF GoodHeap, Good
<1>2. v \in Nat /\ less.refcount[c] = v /\ h.refcount[c] = v + 1
  BY <1>1 DEF GoodHeap, Good
<1>3. k = IF v = 0 THEN Freed(less, c) ELSE less
  BY <1>2, NameAssumption DEF Unreferenced
<1>4. CASE v # 0
  <2>1. k = less
    BY <1>3, <1>4
  <2>2. Good(M, h.size, h.list)
    BY <1>2, <1>4, GoodCount DEF GoodHeap
  <2> QED
    BY <1>1, <2>1, <2>2 DEF GoodHeap
<1>5. CASE v = 0 /\ h.size[c] = XE_BUFFER_SIZE
  <2>1. k = [less EXCEPT !.list = <<c>> \o @]
    BY <1>1, <1>3, <1>5 DEF Freed, Pooled, Restored
  <2>2. k.refcount = M /\ k.size = h.size /\ k.list = <<c>> \o h.list
    BY <1>1, <2>1
  <2>3. Good(M, h.size, <<c>> \o h.list)
    BY <1>5, GoodRestore DEF GoodHeap
  <2> QED
    BY <2>2, <2>3 DEF GoodHeap
<1>6. CASE v = 0 /\ h.size[c] # XE_BUFFER_SIZE
  <2>1. k = [less EXCEPT !.size[c] = 0]
    BY <1>1, <1>3, <1>6 DEF Freed, Pooled
  <2>2. k.refcount = M /\ k.size = [h.size EXCEPT ![c] = 0] /\ k.list = h.list
    BY <1>1, <2>1
  <2>3. Good(M, [h.size EXCEPT ![c] = 0], h.list)
    BY <1>6, GoodFree DEF GoodHeap
  <2>4. \A b \in Buffers : M[b] > 0 => b # c
    BY <1>6 DEF GoodHeap, Good
  <2>5. \A b \in Buffers : b # c => k.size[b] = h.size[b]
    BY <2>2 DEF GoodHeap, Good
  <2> QED
    BY <2>2, <2>3, <2>4, <2>5 DEF GoodHeap
<1> QED
  BY <1>4, <1>5, <1>6

(* ref() of a buffer that somebody holds. *)
LEMMA HeapTake ==
  ASSUME NEW h, GoodHeap(h), NEW c \in Buffers, h.refcount[c] > 0
  PROVE  /\ GoodHeap(Referenced(h, c))
         /\ Referenced(h, c).refcount = [h.refcount EXCEPT ![c] = @ + 1]
         /\ Referenced(h, c).size = h.size
<1> DEFINE v == h.refcount[c] + 1
           M == [h.refcount EXCEPT ![c] = v]
           k == Referenced(h, c)
<1>1. k.refcount = M /\ k.size = h.size /\ k.list = h.list
  BY DEF Referenced, GoodHeap, Good
<1>2. v \in Nat /\ v > 0
  BY DEF GoodHeap, Good
<1>3. Good(M, h.size, h.list)
  BY <1>2, GoodCount DEF GoodHeap
<1> QED
  BY <1>1, <1>3 DEF GoodHeap

(* get_buffer() gives a buffer nobody holds, of the size asked for. *)
LEMMA HeapGet ==
  ASSUME NEW h, GoodHeap(h), NEW n \in Sizes, NEW got \in Buffer(h, n)
  PROVE  /\ got.buf \in Buffers /\ h.refcount[got.buf] = 0
         /\ GoodHeap(got.heap)
         /\ got.heap.refcount = [h.refcount EXCEPT ![got.buf] = 1]
         /\ got.heap.size[got.buf] = Rounded(n)
         /\ \A b \in Buffers : b # got.buf => got.heap.size[b] = h.size[b]
<1> DEFINE c == got.buf
           k == got.heap
           M == [h.refcount EXCEPT ![c] = 1]
<1>0. Rounded(n) \in Nat /\ Rounded(n) > 0
  BY Fits, SizeAssumption DEF Rounded
<1>1. CASE TakesPooled(h, n)
  <2>1. c = Head(h.list) /\ k = TakeHead(h) /\ Rounded(n) = XE_BUFFER_SIZE /\ h.list # <<>>
    BY <1>1 DEF Buffer, TakesPooled
  <2>2. /\ c \in Buffers /\ h.refcount[c] = 0 /\ h.size[c] = XE_BUFFER_SIZE
        /\ Good(M, h.size, Tail(h.list))
    <3>1. Good(h.refcount, h.size, h.list)
      BY DEF GoodHeap
    <3>2. Popped(h.list, c, Tail(h.list))
      BY <2>1, <3>1 DEF Good, Popped
    <3> QED
      BY <3>1, <3>2, GoodTail
  <2>3. /\ k.refcount = [h.refcount EXCEPT ![c] = @ + 1]
        /\ k.size = h.size /\ k.list = Tail(h.list)
    BY <2>1 DEF TakeHead, Referenced
  <2>4. k.refcount = M
    BY <2>2, <2>3 DEF GoodHeap, Good
  <2> QED
    BY <2>1, <2>2, <2>3, <2>4 DEF GoodHeap
<1>2. CASE ~TakesPooled(h, n)
  <2>1. c \in Buffers /\ h.size[c] = 0 /\ k = Created(h, c, n)
    BY <1>2 DEF Buffer
  <2>2. h.refcount[c] = 0 /\ Good(M, [h.size EXCEPT ![c] = Rounded(n)], h.list)
    BY <1>0, <2>1, GoodCreate DEF GoodHeap
  <2>3. /\ k.refcount = M /\ k.list = h.list
        /\ k.size = [h.size EXCEPT ![c] = Rounded(n)]
    BY <2>1 DEF Created
  <2>4. k.size[c] = Rounded(n) /\ \A b \in Buffers : b # c => k.size[b] = h.size[b]
    BY <2>1, <2>3 DEF GoodHeap, Good
  <2> QED
    BY <2>1, <2>2, <2>3, <2>4 DEF GoodHeap
<1> QED
  BY <1>1, <1>2

-----------------------------------------------------------------------------
(* Counting *)

W == Packets \union Demuxers

Addresses == Buffers \union {NoBuffer}

(* Whom the holders refer to. *)
Refs(pk, cu) == [w \in W |-> IF w \in Packets THEN pk[w].buf ELSE cu[w].buf]

HoldersIn(f, b) == {w \in W : f[w] = b}

Counts(f) == [b \in Buffers |-> Cardinality(HoldersIn(f, b))]

(* There are finitely many holders. *)
LEMMA HoldersFinite ==
  ASSUME NEW f, NEW b
  PROVE  IsFiniteSet(HoldersIn(f, b)) /\ Cardinality(HoldersIn(f, b)) \in Nat
<1>1. IsFiniteSet(W)
  BY FS_Union, NameAssumption DEF W
<1>2. HoldersIn(f, b) \subseteq W
  BY DEF HoldersIn
<1> QED
  BY <1>1, <1>2, FS_Subset, FS_CardinalityType

(* A buffer that somebody refers to has a count above zero. *)
LEMMA CountPositive ==
  ASSUME NEW f, NEW b \in Buffers
  PROVE  Counts(f)[b] \in Nat /\ (Counts(f)[b] > 0 <=> \E w \in W : f[w] = b)
<1>1. Cardinality(HoldersIn(f, b)) = 0 <=> HoldersIn(f, b) = {}
  BY HoldersFinite, FS_EmptySet
<1>2. Counts(f)[b] = Cardinality(HoldersIn(f, b)) /\ Cardinality(HoldersIn(f, b)) \in Nat
  BY HoldersFinite DEF Counts
<1>3. HoldersIn(f, b) = {} <=> ~\E w \in W : f[w] = b
  BY DEF HoldersIn
<1> QED
  BY <1>1, <1>2, <1>3

(* A holder that lets go of its buffer is counted no more. *)
LEMMA CountDrop ==
  ASSUME NEW f \in [W -> Addresses], NEW w \in W, f[w] \in Buffers
  PROVE  Counts([f EXCEPT ![w] = NoBuffer]) = [Counts(f) EXCEPT ![f[w]] = @ - 1]
<1> DEFINE g == [f EXCEPT ![w] = NoBuffer]
<1>1. ASSUME NEW b \in Buffers
      PROVE  Cardinality(HoldersIn(g, b)) =
               IF b = f[w] THEN Cardinality(HoldersIn(f, b)) - 1 ELSE Cardinality(HoldersIn(f, b))
  <2>1. NoBuffer # b
    BY NameAssumption
  <2>2. CASE b = f[w]
    <3>1. HoldersIn(g, b) = HoldersIn(f, b) \ {w} /\ w \in HoldersIn(f, b)
      BY <2>1, <2>2 DEF HoldersIn
    <3> QED
      BY <3>1, <2>2, HoldersFinite, FS_RemoveElement
  <2>3. CASE b # f[w]
    <3>1. HoldersIn(g, b) = HoldersIn(f, b)
      BY <2>1, <2>3 DEF HoldersIn
    <3> QED
      BY <3>1, <2>3
  <2> QED
    BY <2>2, <2>3
<1> QED
  BY <1>1 DEF Counts

(* A holder that takes a reference is counted once more. *)
LEMMA CountTake ==
  ASSUME NEW f \in [W -> Addresses], NEW w \in W, f[w] = NoBuffer, NEW c \in Buffers
  PROVE  Counts([f EXCEPT ![w] = c]) = [Counts(f) EXCEPT ![c] = @ + 1]
<1> DEFINE g == [f EXCEPT ![w] = c]
<1>1. ASSUME NEW b \in Buffers
      PROVE  Cardinality(HoldersIn(g, b)) =
               IF b = c THEN Cardinality(HoldersIn(f, b)) + 1 ELSE Cardinality(HoldersIn(f, b))
  <2>1. NoBuffer # b
    BY NameAssumption
  <2>2. CASE b = c
    <3>1. HoldersIn(g, b) = HoldersIn(f, b) \union {w} /\ w \notin HoldersIn(f, b)
      BY <2>1, <2>2 DEF HoldersIn
    <3> QED
      BY <3>1, <2>2, HoldersFinite, FS_AddElement
  <2>3. CASE b # c
    <3>1. HoldersIn(g, b) = HoldersIn(f, b)
      BY <2>1, <2>3 DEF HoldersIn
    <3> QED
      BY <3>1, <2>3
  <2> QED
    BY <2>2, <2>3
<1> QED
  BY <1>1 DEF Counts

-----------------------------------------------------------------------------
(* The state: heap, packets and the demuxers' buffers together *)

Slice == [buf : Addresses, from : Nat, len : Nat]

RoomOK(r) == r.buf \in Addresses /\ r.head \in Nat /\ r.left \in Nat

Slots(pk, cu) ==
  /\ pk \in [Packets -> Slice]
  /\ cu = [d \in Demuxers |-> cu[d]] /\ \A d \in Demuxers : RoomOK(cu[d])

SlicesOK(sz, pk, cu) ==
  /\ \A p \in Packets : pk[p].buf # NoBuffer => pk[p].from + pk[p].len <= sz[pk[p].buf]
  /\ \A d \in Demuxers : cu[d].buf # NoBuffer =>
       /\ cu[d].head + cu[d].left = sz[cu[d].buf]
       /\ \A p \in Packets : pk[p].buf = cu[d].buf => pk[p].from + pk[p].len <= cu[d].head

RoomsApart(cu) == \A d, e \in Demuxers : cu[d].buf = cu[e].buf => d = e \/ cu[d].buf = NoBuffer

State(h, pk, cu) ==
  /\ Slots(pk, cu)
  /\ GoodHeap(h) /\ h.refcount = Counts(Refs(pk, cu))
  /\ SlicesOK(h.size, pk, cu)
  /\ RoomsApart(cu)

(* The references are those of the packets and of the demuxers. *)
LEMMA RefsType ==
  ASSUME NEW pk, NEW cu, Slots(pk, cu)
  PROVE  /\ Refs(pk, cu) \in [W -> Addresses]
         /\ \A p \in Packets : p \in W /\ Refs(pk, cu)[p] = pk[p].buf
         /\ \A d \in Demuxers : d \in W /\ Refs(pk, cu)[d] = cu[d].buf
  BY NameAssumption DEF Refs, Slots, RoomOK, W, Slice

(* Giving a packet another slice changes one reference. *)
LEMMA PacketMove ==
  ASSUME NEW pk, NEW cu, Slots(pk, cu), NEW p \in Packets, NEW s \in Slice
  PROVE  /\ Slots([pk EXCEPT ![p] = s], cu)
         /\ Refs([pk EXCEPT ![p] = s], cu) = [Refs(pk, cu) EXCEPT ![p] = s.buf]
<1>1. Slots([pk EXCEPT ![p] = s], cu)
  BY DEF Slots
<1>2. \A w \in W : Refs([pk EXCEPT ![p] = s], cu)[w] = [Refs(pk, cu) EXCEPT ![p] = s.buf][w]
  BY DEF Refs, Slots, W
<1> QED
  BY <1>1, <1>2 DEF Refs

(* Giving a demuxer another buffer changes one reference. *)
LEMMA RoomMove ==
  ASSUME NEW pk, NEW cu, Slots(pk, cu), NEW d \in Demuxers, NEW r, RoomOK(r)
  PROVE  /\ Slots(pk, [cu EXCEPT ![d] = r])
         /\ Refs(pk, [cu EXCEPT ![d] = r]) = [Refs(pk, cu) EXCEPT ![d] = r.buf]
<1> DEFINE cv == [cu EXCEPT ![d] = r]
<1>1. /\ cv = [e \in Demuxers |-> cv[e]]
      /\ \A e \in Demuxers : cv[e] = IF e = d THEN r ELSE cu[e]
  BY DEF Slots
<1>2. Slots(pk, cv)
  BY <1>1 DEF Slots
<1>3. d \notin Packets /\ d \in W
  BY NameAssumption DEF W
<1>4. \A w \in W : Refs(pk, cv)[w] = [Refs(pk, cu) EXCEPT ![d] = r.buf][w]
  BY <1>1, <1>3 DEF Refs, W
<1> QED
  BY <1>2, <1>4 DEF Refs

(* Slices stay right when the buffers that are referred to keep their size.*)
LEMMA SlicesKept ==
  ASSUME NEW h, NEW k, NEW pk, NEW cu, Slots(pk, cu), SlicesOK(h.size, pk, cu),
         k.refcount = Counts(Refs(pk, cu)),
         \A b \in Buffers : k.refcount[b] > 0 => k.size[b] = h.size[b]
  PROVE  SlicesOK(k.size, pk, cu)
<1>1. \A p \in Packets : pk[p].buf # NoBuffer => k.size[pk[p].buf] = h.size[pk[p].buf]
  <2> SUFFICES ASSUME NEW p \in Packets, pk[p].buf # NoBuffer
               PROVE  k.size[pk[p].buf] = h.size[pk[p].buf]
    OBVIOUS
  <2>1. pk[p].buf \in Buffers /\ p \in W /\ Refs(pk, cu)[p] = pk[p].buf
    BY RefsType DEF Slots, Slice, Addresses
  <2> QED
    BY <2>1, CountPositive
<1>2. \A d \in Demuxers : cu[d].buf # NoBuffer => k.size[cu[d].buf] = h.size[cu[d].buf]
  <2> SUFFICES ASSUME NEW d \in Demuxers, cu[d].buf # NoBuffer
               PROVE  k.size[cu[d].buf] = h.size[cu[d].buf]
    OBVIOUS
  <2>1. cu[d].buf \in Buffers /\ d \in W /\ Refs(pk, cu)[d] = cu[d].buf
    BY RefsType DEF Slots, RoomOK, Addresses
  <2> QED
    BY <2>1, CountPositive
<1> QED
  BY <1>1, <1>2 DEF SlicesOK

(* One reference dropped, by whomever. *)
LEMMA Dropped ==
  ASSUME NEW h, NEW pk, NEW cu, State(h, pk, cu), NEW w \in W,
         NEW pl, NEW cv, Slots(pl, cv),
         Refs(pl, cv) = [Refs(pk, cu) EXCEPT ![w] = NoBuffer],
         SlicesOK(h.size, pl, cv), RoomsApart(cv),
         NEW b \in Addresses, b = Refs(pk, cu)[w]
  PROVE  State(Unreferenced(h, b), pl, cv)
<1> DEFINE f == Refs(pk, cu)
           k == Unreferenced(h, b)
<1>1. f \in [W -> Addresses]
  BY RefsType DEF State
<1>2. CASE b = NoBuffer
  <2>1. Refs(pl, cv) = f /\ k = h
    BY <1>1, <1>2 DEF Unreferenced
  <2> QED
    BY <2>1 DEF State
<1>3. CASE b # NoBuffer
  <2>1. b \in Buffers /\ h.refcount[b] > 0
    BY <1>1, <1>3, CountPositive DEF State, Addresses
  <2>2. /\ GoodHeap(k) /\ k.refcount = [h.refcount EXCEPT ![b] = @ - 1]
        /\ \A c \in Buffers : k.refcount[c] > 0 => k.size[c] = h.size[c]
    BY <2>1, HeapDrop DEF State
  <2>3. k.refcount = Counts(Refs(pl, cv))
    <3>1. f[w] \in Buffers /\ h.refcount = Counts(f)
      BY <2>1 DEF State
    <3>2. Counts([f EXCEPT ![w] = NoBuffer]) = [Counts(f) EXCEPT ![f[w]] = @ - 1]
      BY <1>1, <3>1, CountDrop
    <3> QED
      BY <2>2, <3>1, <3>2
  <2>4. SlicesOK(k.size, pl, cv)
    <3> HIDE DEF k
    <3> QED
      BY <2>2, <2>3, SlicesKept
  <2> QED
    BY <2>2, <2>3, <2>4 DEF State
<1> QED
  BY <1>2, <1>3

(* packet.unref() *)
LEMMA DropPacket ==
  ASSUME NEW h, NEW pk, NEW cu, State(h, pk, cu), NEW p \in Packets
  PROVE  State(Unreferenced(h, pk[p].buf), [pk EXCEPT ![p] = NoSlice], cu)
<1> DEFINE pl == [pk EXCEPT ![p] = NoSlice]
<1>1. NoSlice \in Slice /\ NoSlice.buf = NoBuffer
  BY DEF NoSlice, Slice, Addresses
<1>2. Slots(pl, cu) /\ Refs(pl, cu) = [Refs(pk, cu) EXCEPT ![p] = NoBuffer]
  BY <1>1, PacketMove DEF State
<1>3. p \in W /\ Refs(pk, cu)[p] = pk[p].buf /\ pk[p].buf \in Addresses
  BY RefsType DEF State, Slots, Slice
<1>4. \A q \in Packets : pl[q] = IF q = p THEN NoSlice ELSE pk[q]
  BY DEF State, Slots
<1>5. SlicesOK(h.size, pl, cu)
  BY <1>1, <1>4 DEF State, SlicesOK
<1> QED
  BY <1>2, <1>3, <1>5, Dropped DEF State

(* xe_packet_buffer::unref(), whatever head and left become. *)
LEMMA DropRoom ==
  ASSUME NEW h, NEW pk, NEW cu, State(h, pk, cu), NEW d \in Demuxers,
         NEW r, RoomOK(r), r.buf = NoBuffer
  PROVE  State(Unreferenced(h, cu[d].buf), pk, [cu EXCEPT ![d] = r])
<1> DEFINE cv == [cu EXCEPT ![d] = r]
<1>1. Slots(pk, cv) /\ Refs(pk, cv) = [Refs(pk, cu) EXCEPT ![d] = NoBuffer]
  BY RoomMove DEF State
<1>2. d \in W /\ Refs(pk, cu)[d] = cu[d].buf /\ cu[d].buf \in Addresses
  BY RefsType DEF State, Slots, RoomOK
<1>3. \A e \in Demuxers : cv[e] = IF e = d THEN r ELSE cu[e]
  BY DEF State, Slots
<1> HIDE DEF cv
<1>4. SlicesOK(h.size, pk, cv)
  BY <1>3 DEF State, SlicesOK
<1>5. RoomsApart(cv)
  BY <1>3 DEF State, RoomsApart
<1>6. State(Unreferenced(h, cu[d].buf), pk, cv)
  BY <1>1, <1>2, <1>4, <1>5, Dropped
<1> QED
  BY <1>6 DEF cv

(* The room a demuxer has after get_buffer(). *)
NewRoom(got) == [buf |-> got.buf, head |-> 0, left |-> got.heap.size[got.buf]]

(* get_buffer() for a demuxer whose buffer has gone. *)
LEMMA GetRoom ==
  ASSUME NEW h, NEW pk, NEW cu, State(h, pk, cu), NEW d \in Demuxers, cu[d].buf = NoBuffer,
         NEW n \in Sizes, NEW got \in Buffer(h, n)
  PROVE  /\ State(got.heap, pk, [cu EXCEPT ![d] = NewRoom(got)])
         /\ got.buf \in Buffers /\ NewRoom(got).left = Rounded(n)
         /\ h.refcount[got.buf] = 0
<1> DEFINE c == got.buf
           k == got.heap
           r == NewRoom(got)
           cv == [cu EXCEPT ![d] = r]
<1>1. /\ c \in Buffers /\ h.refcount[c] = 0
      /\ GoodHeap(k) /\ k.refcount = [h.refcount EXCEPT ![c] = 1]
      /\ k.size[c] = Rounded(n) /\ \A b \in Buffers : b # c => k.size[b] = h.size[b]
  BY HeapGet DEF State
<1>2. Rounded(n) \in Nat
  BY Fits, SizeAssumption DEF Rounded
<1>3. r.buf = c /\ r.head = 0 /\ r.left = Rounded(n) /\ RoomOK(r)
  BY <1>1, <1>2 DEF NewRoom, RoomOK, Addresses
<1> HIDE DEF r
<1>4. Slots(pk, cv) /\ Refs(pk, cv) = [Refs(pk, cu) EXCEPT ![d] = c]
  BY <1>3, RoomMove DEF State
<1>5. \A e \in Demuxers : cv[e] = IF e = d THEN r ELSE cu[e]
  BY DEF State, Slots
<1>6. Refs(pk, cu) \in [W -> Addresses] /\ d \in W /\ Refs(pk, cu)[d] = NoBuffer
  BY RefsType DEF State
<1>7. k.refcount = Counts(Refs(pk, cv))
  <2> DEFINE f == Refs(pk, cu)
  <2>0. f \in [W -> Addresses] /\ d \in W /\ f[d] = NoBuffer /\ c \in Buffers
    BY <1>1, <1>6
  <2>1. Counts([f EXCEPT ![d] = c]) = [Counts(f) EXCEPT ![c] = @ + 1]
    <3> HIDE DEF f, c
    <3> QED
      BY <2>0, CountTake
  <2> QED
    BY <2>1, <1>1, <1>4 DEF State, GoodHeap, Good
<1>8. \A p \in Packets : pk[p].buf # c
  BY <1>1, CountPositive, RefsType DEF State
<1>9. \A e \in Demuxers : cu[e].buf # c
  BY <1>1, CountPositive, RefsType DEF State
<1>10. SlicesOK(k.size, pk, cv)
  <2>1. ASSUME NEW p \in Packets, pk[p].buf # NoBuffer
        PROVE  pk[p].from + pk[p].len <= k.size[pk[p].buf]
    <3>1. pk[p].buf \in Buffers
      BY <2>1 DEF State, Slots, Slice, Addresses
    <3> QED
      BY <1>1, <1>8, <2>1, <3>1 DEF State, SlicesOK
  <2>2. ASSUME NEW e \in Demuxers, cv[e].buf # NoBuffer
        PROVE  /\ cv[e].head + cv[e].left = k.size[cv[e].buf]
               /\ \A p \in Packets : pk[p].buf = cv[e].buf => pk[p].from + pk[p].len <= cv[e].head
    <3>1. CASE e = d
      BY <1>1, <1>2, <1>3, <1>5, <1>8, <3>1
    <3>2. CASE e # d
      <4>1. cv[e] = cu[e] /\ cu[e].buf \in Buffers /\ cu[e].buf # c
        BY <1>5, <1>9, <2>2, <3>2 DEF State, Slots, RoomOK, Addresses
      <4> QED
        BY <1>1, <2>2, <4>1 DEF State, SlicesOK
    <3> QED
      BY <3>1, <3>2
  <2> QED
    BY <2>1, <2>2 DEF SlicesOK
<1>11. RoomsApart(cv)
  BY <1>3, <1>5, <1>9 DEF State, RoomsApart
<1>12. State(k, pk, cv)
  BY <1>1, <1>4, <1>7, <1>10, <1>11 DEF State
<1> QED
  BY <1>1, <1>3, <1>12 DEF r

(* alloc(): the slice is the front of what the demuxer has left. *)
LEMMA CutSlice ==
  ASSUME NEW h, NEW pk, NEW cu, State(h, pk, cu), NEW p \in Packets, NEW d \in Demuxers,
         pk[p].buf = NoBuffer, cu[d].buf \in Buffers,
         NEW n \in Sizes, cu[d].left >= n + XE_BUFFER_PADDING,
         NEW s, s = [buf |-> cu[d].buf, from |-> cu[d].head, len |-> n + XE_BUFFER_PADDING]
  PROVE  State(Referenced(h, cu[d].buf), [pk EXCEPT ![p] = s], [cu EXCEPT ![d] = Cut(cu[d], n)])
<1> DEFINE c == cu[d].buf
           r == Cut(cu[d], n)
           k == Referenced(h, c)
           pl == [pk EXCEPT ![p] = s]
           cv == [cu EXCEPT ![d] = r]
           m == n + XE_BUFFER_PADDING
<1>1. m \in Nat /\ cu[d].head \in Nat /\ cu[d].left \in Nat
  BY Fits, SizeAssumption DEF State, Slots, RoomOK
<1>2. r.buf = c /\ r.head = cu[d].head + m /\ r.left = cu[d].left - m
  BY <1>1, Fits DEF Cut
<1>3. RoomOK(r) /\ s \in Slice
  BY <1>1, <1>2 DEF RoomOK, Slice, Addresses
<1> HIDE DEF r
<1>4. Slots(pl, cu) /\ Refs(pl, cu) = [Refs(pk, cu) EXCEPT ![p] = c]
  BY <1>3, PacketMove DEF State
<1>5. Slots(pl, cv) /\ Refs(pl, cv) = [Refs(pl, cu) EXCEPT ![d] = c]
  <2> HIDE DEF pl
  <2>1. Slots(pl, cu)
    BY <1>4
  <2>2. /\ Slots(pl, [cu EXCEPT ![d] = r])
        /\ Refs(pl, [cu EXCEPT ![d] = r]) = [Refs(pl, cu) EXCEPT ![d] = r.buf]
    BY <1>3, <2>1, RoomMove
  <2> QED
    BY <1>2, <2>2
<1>6. Refs(pl, cv) = [Refs(pk, cu) EXCEPT ![p] = c]
  <2>1. Refs(pl, cu)[d] = c /\ d \in W /\ Refs(pl, cu) \in [W -> Addresses]
    BY <1>4, RefsType
  <2> QED
    BY <1>4, <1>5, <2>1
<1>7. /\ Refs(pk, cu) \in [W -> Addresses] /\ p \in W /\ d \in W
      /\ Refs(pk, cu)[p] = NoBuffer /\ Refs(pk, cu)[d] = c
  BY RefsType DEF State
<1>8. h.refcount[c] > 0
  BY <1>7, CountPositive DEF State
<1>9. GoodHeap(k) /\ k.refcount = [h.refcount EXCEPT ![c] = @ + 1] /\ k.size = h.size
  BY <1>8, HeapTake DEF State
<1>10. k.refcount = Counts(Refs(pl, cv))
  <2> DEFINE f == Refs(pk, cu)
  <2>0. f \in [W -> Addresses] /\ p \in W /\ f[p] = NoBuffer /\ c \in Buffers
    BY <1>7
  <2>1. Counts([f EXCEPT ![p] = c]) = [Counts(f) EXCEPT ![c] = @ + 1]
    <3> HIDE DEF f, c
    <3> QED
      BY <2>0, CountTake
  <2> QED
    BY <1>6, <1>7, <1>9, <2>1 DEF State
<1>11. \A e \in Demuxers : cv[e] = IF e = d THEN r ELSE cu[e]
  BY DEF State, Slots
<1>12. \A q \in Packets : pl[q] = IF q = p THEN s ELSE pk[q]
  BY DEF State, Slots
<1>13. c # NoBuffer /\ cu[d].head + cu[d].left = h.size[c]
  BY NameAssumption DEF State, SlicesOK
<1>14. SlicesOK(h.size, pl, cv)
  <2>1. ASSUME NEW q \in Packets, pl[q].buf # NoBuffer
        PROVE  pl[q].from + pl[q].len <= h.size[pl[q].buf]
    <3>1. CASE q = p
      BY <1>1, <1>12, <1>13, <3>1
    <3>2. CASE q # p
      BY <1>12, <2>1, <3>2 DEF State, SlicesOK
    <3> QED
      BY <3>1, <3>2
  <2>2. ASSUME NEW e \in Demuxers, cv[e].buf # NoBuffer
        PROVE  cv[e].head + cv[e].left = h.size[cv[e].buf]
    <3>1. CASE e = d
      BY <1>1, <1>2, <1>11, <1>13, <3>1
    <3>2. CASE e # d
      BY <1>11, <2>2, <3>2 DEF State, SlicesOK
    <3> QED
      BY <3>1, <3>2
  <2>3. ASSUME NEW e \in Demuxers, cv[e].buf # NoBuffer, NEW q \in Packets, pl[q].buf = cv[e].buf
        PROVE  pl[q].from + pl[q].len <= cv[e].head
    <3>1. CASE e = d
      <4>1. CASE q = p
        BY <1>1, <1>2, <1>11, <1>12, <3>1, <4>1
      <4>2. CASE q # p
        <5>1. pl[q] = pk[q] /\ pk[q].buf = c /\ pk[q].from \in Nat /\ pk[q].len \in Nat
          BY <1>2, <1>11, <1>12, <2>3, <3>1, <4>2 DEF State, Slots, Slice
        <5>2. pk[q].from + pk[q].len <= cu[d].head
          BY <1>13, <5>1 DEF State, SlicesOK
        <5> QED
          BY <1>1, <1>2, <1>11, <3>1, <5>1, <5>2
      <4> QED
        BY <4>1, <4>2
    <3>2. CASE e # d
      <4>1. cv[e] = cu[e] /\ cu[e].buf # c
        BY <1>11, <1>13, <2>3, <3>2 DEF State, RoomsApart
      <4>2. q # p /\ pl[q] = pk[q]
        BY <1>12, <2>3, <4>1
      <4> QED
        BY <2>3, <4>1, <4>2 DEF State, SlicesOK
    <3> QED
      BY <3>1, <3>2
  <2> QED
    BY <2>1, <2>2, <2>3 DEF SlicesOK
<1>15. RoomsApart(cv)
  BY <1>2, <1>11 DEF State, RoomsApart
<1>16. State(k, pl, cv)
  BY <1>5, <1>9, <1>10, <1>14, <1>15 DEF State
<1> QED
  BY <1>16 DEF r

(* A packet takes a reference to the bytes of another. *)
LEMMA CopySlice ==
  ASSUME NEW h, NEW pk, NEW cu, State(h, pk, cu), NEW p \in Packets, NEW q \in Packets,
         pk[q].buf = NoBuffer, pk[p].buf \in Buffers
  PROVE  State(Referenced(h, pk[p].buf), [pk EXCEPT ![q] = pk[p]], cu)
<1> DEFINE c == pk[p].buf
           k == Referenced(h, c)
           pl == [pk EXCEPT ![q] = pk[p]]
<1>1. pk[p] \in Slice
  BY DEF State, Slots
<1>2. Slots(pl, cu) /\ Refs(pl, cu) = [Refs(pk, cu) EXCEPT ![q] = c]
  BY <1>1, PacketMove DEF State
<1>3. /\ Refs(pk, cu) \in [W -> Addresses] /\ p \in W /\ q \in W
      /\ Refs(pk, cu)[q] = NoBuffer /\ Refs(pk, cu)[p] = c
  BY RefsType DEF State
<1>4. h.refcount[c] > 0
  BY <1>3, CountPositive DEF State
<1>5. GoodHeap(k) /\ k.refcount = [h.refcount EXCEPT ![c] = @ + 1] /\ k.size = h.size
  BY <1>4, HeapTake DEF State
<1>6. k.refcount = Counts(Refs(pl, cu))
  <2> DEFINE f == Refs(pk, cu)
  <2>0. f \in [W -> Addresses] /\ q \in W /\ f[q] = NoBuffer /\ c \in Buffers
    BY <1>3
  <2>1. Counts([f EXCEPT ![q] = c]) = [Counts(f) EXCEPT ![c] = @ + 1]
    <3> HIDE DEF f, c
    <3> QED
      BY <2>0, CountTake
  <2> QED
    BY <1>2, <1>3, <1>5, <2>1 DEF State
<1>7. \A o \in Packets : pl[o] = IF o = q THEN pk[p] ELSE pk[o]
  BY DEF State, Slots
<1>8. SlicesOK(h.size, pl, cu)
  BY <1>7 DEF State, SlicesOK
<1> QED
  BY <1>2, <1>5, <1>6, <1>8 DEF State

-----------------------------------------------------------------------------
(* The invariant *)

WantsOK == wants \in [Demuxers -> SUBSET Sizes]

Inv == State(heap, packet, current) /\ RoomIsReal /\ NeverNull /\ WantsOK

EmptyRoom == [buf |-> NoBuffer, head |-> 0, left |-> 0]

(* Nothing is allocated at the start. *)
LEMMA InitInv == Init => Inv
<1> SUFFICES ASSUME Init PROVE Inv
  OBVIOUS
<1>1. Slots(packet, current)
  BY DEF Init, Slots, NoSlice, Slice, Addresses, RoomOK
<1>2. \A w \in W : Refs(packet, current)[w] = NoBuffer
  BY DEF Init, Refs, W, NoSlice
<1>3. ASSUME NEW b \in Buffers PROVE Counts(Refs(packet, current))[b] = 0
  <2>1. ~\E w \in W : Refs(packet, current)[w] = b
    BY <1>2, NameAssumption
  <2> QED
    BY <2>1, CountPositive
<1>4. heap.refcount = Counts(Refs(packet, current))
  BY <1>3 DEF Init, Counts
<1>5. GoodHeap(heap)
  BY DEF Init, GoodHeap, Good, InList
<1>6. SlicesOK(heap.size, packet, current) /\ RoomsApart(current)
  BY DEF Init, SlicesOK, RoomsApart, NoSlice
<1>7. NeverNull /\ WantsOK
  BY DEF Init, NeverNull, WantsOK
<1>8. RoomIsReal
  <2>1. \A d \in Keeps : current[d].left = 0 /\ wants[d] = Sizes
    BY ChoiceAssumption DEF Init
  <2>2. \A n \in Sizes : Padded(n) \in Nat
    BY Fits, SizeAssumption
  <2> QED
    BY <2>1, <2>2 DEF RoomIsReal, Has
<1> QED
  BY <1>1, <1>4, <1>5, <1>6, <1>7, <1>8 DEF Inv, State

(* The packets of demuxers are as before but for one, which is new and     *)
(* shares no byte with another.                                            *)
Fresh(p) ==
  \E s \in Slice : /\ packet' = [packet EXCEPT ![p] = s]
                   /\ \A q \in Packets \ {p} : Memory!Apart(s, packet[q])

(* A slice cut from a right state is new. *)
LEMMA SlicedFresh ==
  ASSUME NEW h, NEW cu, NEW p \in Packets, NEW d \in Demuxers, NEW n \in Sizes,
         Slots(packet, current),
         State(h, [packet EXCEPT ![p] = NoSlice], cu),
         cu[d].buf \in Buffers, cu[d].left >= n + XE_BUFFER_PADDING,
         heap' = Referenced(h, cu[d].buf),
         packet' = [packet EXCEPT ![p] = [buf |-> cu[d].buf, from |-> cu[d].head,
                                          len |-> n + XE_BUFFER_PADDING]],
         current' = [cu EXCEPT ![d] = Cut(cu[d], n)]
  PROVE  State(heap', packet', current') /\ Fresh(p)
<1> DEFINE pk == [packet EXCEPT ![p] = NoSlice]
           s == [buf |-> cu[d].buf, from |-> cu[d].head, len |-> n + XE_BUFFER_PADDING]
<1>1. \A q \in Packets : pk[q] = IF q = p THEN NoSlice ELSE packet[q]
  BY DEF Slots
<1>2. packet' = [pk EXCEPT ![p] = s] /\ pk[p].buf = NoBuffer
  BY <1>1 DEF Slots, NoSlice
<1>3. s \in Slice
  BY Fits, SizeAssumption DEF State, Slots, RoomOK, Slice, Addresses
<1>4. State(heap', packet', current')
  <2>1. State(h, pk, cu)
    OBVIOUS
  <2>2. State(Referenced(h, cu[d].buf), [pk EXCEPT ![p] = s], [cu EXCEPT ![d] = Cut(cu[d], n)])
    <3> HIDE DEF pk
    <3> QED
      BY <1>2, <2>1, CutSlice
  <2> QED
    BY <1>2, <2>2
<1>5. ASSUME NEW q \in Packets \ {p} PROVE Memory!Apart(s, packet[q])
  <2>1. CASE packet[q].buf = cu[d].buf
    <3>1. packet[q].from + packet[q].len <= cu[d].head
      BY <1>1, <2>1, NameAssumption DEF State, SlicesOK
    <3> QED
      BY <3>1 DEF Memory!Apart
  <2>2. CASE packet[q].buf # cu[d].buf
    BY <2>2 DEF Memory!Apart
  <2> QED
    BY <2>1, <2>2
<1> QED
  BY <1>3, <1>4, <1>5 DEF Fresh

(* What the demuxers have room for stays right when one of them gets a     *)
(* buffer, or has no room for what it will ask for.                        *)
LEMMA RoomStays ==
  ASSUME Inv, NEW d \in Demuxers, NEW ns \in SUBSET Sizes,
         wants' = [wants EXCEPT ![d] = ns], UNCHANGED crashed,
         \A e \in Demuxers \ {d} : current'[e].buf = current[e].buf
                                   /\ (current[e].buf = NoBuffer => current'[e] = current[e]),
         \/ current'[d].buf # NoBuffer
         \/ d \notin Keeps
         \/ \A n \in ns : ~Has(current'[d], n)
  PROVE  RoomIsReal' /\ NeverNull' /\ WantsOK'
<1>1. wants'[d] = ns /\ \A e \in Demuxers \ {d} : wants'[e] = wants[e]
  BY DEF Inv, WantsOK
<1>2. WantsOK' /\ NeverNull'
  BY DEF Inv, WantsOK, NeverNull
<1>3. ASSUME NEW e \in Keeps, current'[e].buf = NoBuffer, NEW n \in wants'[e]
      PROVE  ~(current'[e].left > Padded(n))
  <2>1. CASE e = d
    BY <1>1, <1>3, <2>1 DEF Has
  <2>2. CASE e # d
    <3>1. e \in Demuxers \ {d}
      BY <2>2, ChoiceAssumption
    <3>2. current'[e] = current[e] /\ current[e].buf = NoBuffer /\ n \in wants[e]
      BY <1>1, <1>3, <3>1
    <3> QED
      BY <3>2 DEF Inv, RoomIsReal, Has
  <2> QED
    BY <2>1, <2>2
<1>4. RoomIsReal'
  BY <1>3 DEF RoomIsReal, Has
<1> QED
  BY <1>2, <1>4

(* alloc_packet() succeeds, or takes a reference to null. *)
LEMMA AllocPacketInv ==
  ASSUME Inv, NEW d \in Demuxers, NEW p \in Packets, NEW n \in Sizes, AllocPacket(d, p, n)
  PROVE  Inv' /\ (Fresh(p) \/ UNCHANGED packet)
<1> DEFINE c == current[d]
           h == Unreferenced(heap, packet[p].buf)
           pk == [packet EXCEPT ![p] = NoSlice]
           h1 == Unreferenced(h, c.buf)
           cu1 == [current EXCEPT ![d] = EmptyRoom]
<1>0. /\ n \in Nat /\ XE_BUFFER_PADDING \in Nat \ {0} /\ Padded(n) = n + XE_BUFFER_PADDING
      /\ n \in wants[d] /\ crashed = {} /\ Slots(packet, current)
  BY Fits, SizeAssumption DEF AllocPacket, Asks, Alive, Inv, State
<1>1. State(h, pk, current)
  BY DropPacket DEF Inv
<1>2. c.buf \in Addresses /\ c.head \in Nat /\ c.left \in Nat
  BY <1>0 DEF Slots, RoomOK
<1>3. CASE Has(c, n) /\ c.buf = NoBuffer
  <2>1. crashed' = {d} /\ UNCHANGED <<heap, current, packet>> /\ wants' = [wants EXCEPT ![d] = Sizes]
    BY <1>3 DEF AllocPacket, Sliced
  <2>2. d \notin Keeps
    BY <1>0, <1>3 DEF Inv, RoomIsReal
  <2>3. WantsOK' /\ \A e \in Keeps : wants'[e] = wants[e]
    BY <2>1, <2>2, ChoiceAssumption DEF Inv, WantsOK
  <2>4. NeverNull'
    BY <2>1, <2>2 DEF NeverNull
  <2>5. RoomIsReal'
    BY <2>1, <2>3 DEF Inv, RoomIsReal, Has
  <2> QED
    BY <2>1, <2>3, <2>4, <2>5 DEF Inv
<1>4. CASE Has(c, n) /\ c.buf # NoBuffer
  <2>1. /\ heap' = Referenced(h, c.buf)
        /\ packet' = [packet EXCEPT ![p] = [buf |-> c.buf, from |-> c.head,
                                            len |-> n + XE_BUFFER_PADDING]]
        /\ current' = [current EXCEPT ![d] = Cut(c, n)]
        /\ wants' = [wants EXCEPT ![d] = Sizes] /\ UNCHANGED crashed
    BY <1>4 DEF AllocPacket, Sliced
  <2>2. c.buf \in Buffers /\ c.left >= n + XE_BUFFER_PADDING
    BY <1>0, <1>2, <1>4 DEF Has, Addresses
  <2>3. State(heap', packet', current') /\ Fresh(p)
    BY <1>0, <1>1, <2>1, <2>2, SlicedFresh
  <2>4. \A e \in Demuxers : current'[e].buf = current[e].buf /\ (e # d => current'[e] = current[e])
    BY <1>0, <2>1 DEF Slots, Cut
  <2>5. RoomIsReal' /\ NeverNull' /\ WantsOK'
    BY <1>4, <2>1, <2>4, RoomStays
  <2> QED
    BY <2>3, <2>5 DEF Inv
<1>5. CASE ~Has(c, n)
  <2>1. PICK got \in Buffer(h1, n) :
          Sliced(got.heap, [buf |-> got.buf, head |-> 0, left |-> got.heap.size[got.buf]], d, p, n)
    BY <1>5 DEF AllocPacket
  <2> DEFINE r == NewRoom(got)
             cu2 == [cu1 EXCEPT ![d] = r]
  <2>2. RoomOK(EmptyRoom) /\ EmptyRoom.buf = NoBuffer
    BY DEF RoomOK, EmptyRoom, Addresses
  <2>3. State(h1, pk, cu1)
    BY <1>1, <2>2, DropRoom
  <2>4. cu1[d].buf = NoBuffer
    BY <1>0, <2>2 DEF Slots
  <2>5. State(got.heap, pk, cu2) /\ got.buf \in Buffers /\ r.left = Rounded(n)
    <3> HIDE DEF h1, pk, cu1
    <3> QED
      BY <1>0, <2>3, <2>4, GetRoom
  <2>6. cu2[d] = r /\ r.buf = got.buf /\ r.head = 0
    BY <1>0 DEF Slots, NewRoom
  <2>7. got.buf # NoBuffer
    BY <2>5, NameAssumption
  <2>8. /\ heap' = Referenced(got.heap, r.buf)
        /\ packet' = [packet EXCEPT ![p] = [buf |-> r.buf, from |-> r.head,
                                            len |-> n + XE_BUFFER_PADDING]]
        /\ current' = [current EXCEPT ![d] = Cut(r, n)]
        /\ wants' = [wants EXCEPT ![d] = Sizes] /\ UNCHANGED crashed
    BY <2>1, <2>7 DEF AllocPacket, Sliced, NewRoom
  <2>9. current' = [cu2 EXCEPT ![d] = Cut(r, n)]
    BY <1>0, <2>8 DEF Slots
  <2>10. r.left >= n + XE_BUFFER_PADDING
    BY <1>0, <2>5, SizeAssumption DEF Rounded
  <2>11. State(heap', packet', current') /\ Fresh(p)
    <3>1. State(got.heap, [packet EXCEPT ![p] = NoSlice], cu2)
      BY <2>5
    <3>2. /\ cu2[d].buf \in Buffers /\ cu2[d].left >= n + XE_BUFFER_PADDING
          /\ heap' = Referenced(got.heap, cu2[d].buf)
          /\ packet' = [packet EXCEPT ![p] = [buf |-> cu2[d].buf, from |-> cu2[d].head,
                                              len |-> n + XE_BUFFER_PADDING]]
          /\ current' = [cu2 EXCEPT ![d] = Cut(cu2[d], n)]
      <4> HIDE DEF cu2, r
      <4> QED
        BY <2>5, <2>6, <2>8, <2>9, <2>10
    <3> HIDE DEF cu2, r
    <3> QED
      BY <1>0, <3>1, <3>2, SlicedFresh
  <2>12. \A e \in Demuxers : IF e = d THEN current'[e].buf = got.buf ELSE current'[e] = current[e]
    BY <1>0, <2>6, <2>8 DEF Slots, Cut
  <2>13. RoomIsReal' /\ NeverNull' /\ WantsOK'
    BY <2>7, <2>8, <2>12, RoomStays
  <2> QED
    BY <2>11, <2>13 DEF Inv
<1> QED
  BY <1>3, <1>4, <1>5

(* alloc_packet() fails. *)
LEMMA AllocFailsInv ==
  ASSUME Inv, NEW d \in Demuxers, NEW p \in Packets, NEW n \in Sizes, AllocFails(d, p, n)
  PROVE  Inv' /\ packet' = [packet EXCEPT ![p] = NoSlice]
<1> DEFINE h == Unreferenced(heap, packet[p].buf)
           pk == [packet EXCEPT ![p] = NoSlice]
           r == [buf |-> NoBuffer, head |-> current[d].head, left |-> current[d].left]
<1>1. State(h, pk, current)
  BY DropPacket DEF Inv
<1>2. RoomOK(r) /\ r.buf = NoBuffer
  BY DEF Inv, State, Slots, RoomOK, Addresses
<1>3. /\ heap' = Unreferenced(h, current[d].buf) /\ packet' = pk
      /\ current' = [current EXCEPT ![d] = r]
      /\ wants' = [wants EXCEPT ![d] = IF d \in Keeps THEN {n} ELSE Sizes]
      /\ crashed' = crashed /\ ~Has(current[d], n)
  BY DEF AllocFails
<1>4. State(heap', packet', current')
  <2> HIDE DEF h, pk, r
  <2> QED
    BY <1>1, <1>2, <1>3, DropRoom
<1>5. current'[d] = r /\ \A e \in Demuxers \ {d} : current'[e] = current[e]
  BY <1>3 DEF Inv, State, Slots
<1>6. ~Has(r, n)
  BY <1>3 DEF Has
<1>7. RoomIsReal' /\ NeverNull' /\ WantsOK'
  <2> DEFINE ns == IF d \in Keeps THEN {n} ELSE Sizes
  <2> HIDE DEF r
  <2>1. d \notin Keeps \/ \A m \in ns : ~Has(current'[d], m)
    BY <1>5, <1>6
  <2>2. ns \in SUBSET Sizes /\ wants' = [wants EXCEPT ![d] = ns] /\ UNCHANGED crashed
    BY <1>3
  <2> HIDE DEF ns
  <2> QED
    BY <1>5, <2>1, <2>2, RoomStays
<1> QED
  BY <1>3, <1>4, <1>7 DEF Inv

(* A packet is unreferenced. *)
LEMMA DropInv ==
  ASSUME Inv, NEW p \in Packets, Drop(p)
  PROVE  Inv' /\ packet' = [packet EXCEPT ![p] = NoSlice]
<1>1. State(heap', packet', current')
  BY DropPacket DEF Inv, Drop
<1> QED
  BY <1>1 DEF Inv, Drop, RoomIsReal, Has, NeverNull, WantsOK

(* A packet is copied over another. *)
LEMMA CopyInv ==
  ASSUME Inv, NEW p \in Packets, NEW q \in Packets, Copy(p, q)
  PROVE  Inv' /\ Memory!Copy(p, q)
<1> DEFINE h == Unreferenced(heap, packet[q].buf)
           pk == [packet EXCEPT ![q] = NoSlice]
<1>1. State(h, pk, current)
  BY DropPacket DEF Inv
<1>2. \A o \in Packets : pk[o] = IF o = q THEN NoSlice ELSE packet[o]
  BY DEF Inv, State, Slots
<1>3. pk[q].buf = NoBuffer /\ pk[p] = packet[p] /\ packet[p].buf \in Buffers
  BY <1>2 DEF Copy, Inv, State, Slots, Slice, Addresses, NoSlice
<1>4. packet' = [pk EXCEPT ![q] = pk[p]] /\ heap' = Referenced(h, pk[p].buf) /\ current' = current
  BY <1>3 DEF Copy, Inv, State, Slots
<1>5. State(heap', packet', current')
  <2> HIDE DEF h, pk
  <2> QED
    BY <1>1, <1>3, <1>4, CopySlice
<1>6. RoomIsReal' /\ NeverNull' /\ WantsOK'
  BY DEF Copy, Inv, RoomIsReal, Has, NeverNull, WantsOK
<1>7. Memory!Copy(p, q)
  BY <1>3, NameAssumption DEF Copy, Memory!Copy, Memory!Nothing
<1> QED
  BY <1>5, <1>6, <1>7 DEF Inv

(* A demuxer is deleted. *)
LEMMA CloseInv ==
  ASSUME Inv, NEW d \in Demuxers, Close(d)
  PROVE  Inv' /\ UNCHANGED packet
<1>1. RoomOK(EmptyRoom) /\ EmptyRoom.buf = NoBuffer
  BY DEF RoomOK, EmptyRoom, Addresses
<1>2. /\ heap' = Unreferenced(heap, current[d].buf) /\ packet' = packet
      /\ current' = [current EXCEPT ![d] = EmptyRoom]
      /\ wants' = [wants EXCEPT ![d] = {}] /\ crashed' = crashed
  BY DEF Close, EmptyRoom
<1>3. State(heap', packet', current')
  BY <1>1, <1>2, DropRoom DEF Inv
<1>4. \A e \in Demuxers \ {d} : current'[e] = current[e]
  BY <1>2 DEF Inv, State, Slots
<1>5. RoomIsReal' /\ NeverNull' /\ WantsOK'
  BY <1>2, <1>4, RoomStays
<1> QED
  BY <1>2, <1>3, <1>5 DEF Inv

(* The pool is destroyed. *)
LEMMA DestroyInv ==
  ASSUME Inv, Destroy
  PROVE  Inv' /\ UNCHANGED packet
<1> DEFINE N == heap.refcount
           sz == heap.size
           ls == heap.list
           tz == [b \in Buffers |-> IF b \in Listed THEN 0 ELSE sz[b]]
<1>1. /\ heap'.refcount = N /\ heap'.size = tz /\ heap'.list = <<>>
      /\ UNCHANGED <<packet, current, wants, crashed>>
  BY DEF Destroy
<1>2. Good(N, sz, ls)
  BY DEF Inv, State, GoodHeap
<1>3. \A b \in Buffers : b \in Listed <=> InList(ls, b)
  BY <1>2 DEF Listed, InList, Good
<1>4. \A b \in Buffers : b \in Listed => N[b] = 0
  BY <1>2, <1>3 DEF Good, InList
<1>5. tz \in [Buffers -> Nat] /\ \A b \in Buffers : tz[b] = IF b \in Listed THEN 0 ELSE sz[b]
  BY <1>2 DEF Good
<1> HIDE DEF tz
<1>6. Good(N, tz, <<>>)
  <2>1. \A b \in Buffers : tz[b] > 0 <=> N[b] > 0
    BY <1>2, <1>3, <1>4, <1>5 DEF Good
  <2> QED
    BY <1>2, <1>5, <2>1 DEF Good, InList
<1>7. GoodHeap(heap')
  BY <1>1, <1>6 DEF GoodHeap
<1>8. heap'.refcount = Counts(Refs(packet, current))
  BY <1>1 DEF Inv, State
<1>9. \A b \in Buffers : heap'.refcount[b] > 0 => heap'.size[b] = heap.size[b]
  BY <1>1, <1>4, <1>5
<1>10. SlicesOK(heap'.size, packet, current)
  BY <1>8, <1>9, SlicesKept DEF Inv, State
<1>11. State(heap', packet, current)
  BY <1>7, <1>8, <1>10 DEF Inv, State
<1>12. packet' = packet /\ current' = current /\ RoomIsReal' /\ NeverNull' /\ WantsOK'
  BY <1>1 DEF Inv, RoomIsReal, Has, NeverNull, WantsOK
<1>13. State(heap', packet', current')
  BY <1>11, <1>12
<1> QED
  BY <1>12, <1>13 DEF Inv

(* Every step keeps the invariant and is a step of PacketMemory. *)
LEMMA NextInv == Inv /\ [Next]_vars => Inv' /\ [Memory!Next]_packet
<1> SUFFICES ASSUME Inv, [Next]_vars PROVE Inv' /\ [Memory!Next]_packet
  OBVIOUS
<1>0. packet \in [Packets -> Slice] /\ NoSlice = Memory!Nothing
  BY DEF Inv, State, Slots, NoSlice, Memory!Nothing
<1>1. ASSUME NEW d \in Demuxers, NEW p \in Packets, NEW n \in Sizes, AllocPacket(d, p, n)
      PROVE  Inv' /\ [Memory!Next]_packet
  <2>1. Inv' /\ (Fresh(p) \/ UNCHANGED packet)
    BY <1>1, AllocPacketInv
  <2>2. ASSUME Fresh(p) PROVE Memory!Alloc(p)
    <3>1. PICK s \in Slice : /\ packet' = [packet EXCEPT ![p] = s]
                             /\ \A q \in Packets \ {p} : Memory!Apart(s, packet[q])
      BY <2>2 DEF Fresh
    <3>2. packet'[p] = s
      BY <1>0, <3>1
    <3> QED
      BY <3>1, <3>2 DEF Memory!Alloc, Memory!Replaced
  <2> QED
    BY <2>1, <2>2 DEF Memory!Next
<1>2. ASSUME NEW d \in Demuxers, NEW p \in Packets, NEW n \in Sizes, AllocFails(d, p, n)
      PROVE  Inv' /\ [Memory!Next]_packet
  BY <1>0, <1>2, AllocFailsInv DEF Memory!Next, Memory!Drop
<1>3. ASSUME NEW p \in Packets, Drop(p) PROVE Inv' /\ [Memory!Next]_packet
  BY <1>0, <1>3, DropInv DEF Memory!Next, Memory!Drop
<1>4. ASSUME NEW p \in Packets, NEW q \in Packets, Copy(p, q) PROVE Inv' /\ [Memory!Next]_packet
  BY <1>4, CopyInv DEF Memory!Next
<1>5. ASSUME NEW d \in Demuxers, Close(d) PROVE Inv' /\ [Memory!Next]_packet
  BY <1>5, CloseInv
<1>6. CASE Destroy
  BY <1>6, DestroyInv
<1>7. CASE UNCHANGED vars
  BY <1>7 DEF vars, Inv, RoomIsReal, Has, NeverNull, WantsOK
<1> QED
  BY <1>1, <1>2, <1>3, <1>4, <1>5, <1>6, <1>7 DEF Next, Halted

(* What the invariant says in the terms of PacketPool. *)
LEMMA InvImplies == Inv => PoolInv
<1> SUFFICES ASSUME Inv PROVE PoolInv
  OBVIOUS
<1>1. ASSUME NEW b \in Buffers
      PROVE  Holders(b) = HoldersIn(Refs(packet, current), b)
  BY NameAssumption DEF Holders, HoldersIn, Refs, W
<1>2. ASSUME NEW b \in Buffers
      PROVE  heap.refcount[b] = Cardinality(Holders(b)) /\ (heap.refcount[b] > 0 <=> Holders(b) # {})
  BY <1>1, CountPositive DEF Inv, State, Counts, HoldersIn
<1>3. RefsCounted
  BY <1>2 DEF RefsCounted
<1>4. Good(heap.refcount, heap.size, heap.list) /\ DOMAIN heap.list = 1..Len(heap.list)
  BY DEF Inv, State, GoodHeap, Good
<1>5. ListIsUnused
  <2>1. ASSUME NEW i \in 1..Len(heap.list)
        PROVE  Holders(heap.list[i]) = {} /\ Pooled(heap, heap.list[i])
    <3>1. heap.list[i] \in Buffers /\ heap.refcount[heap.list[i]] = 0
      BY <1>4 DEF Good
    <3> QED
      BY <1>2, <1>4, <3>1 DEF Good, Pooled
  <2> QED
    BY <1>4, <2>1 DEF ListIsUnused, Good
<1>6. NothingLost
  <2>1. \A b \in Buffers : b \in Listed <=> InList(heap.list, b)
    BY <1>4 DEF Listed, InList
  <2>2. \A b \in Buffers : heap.size[b] > 0 <=> heap.refcount[b] > 0 \/ InList(heap.list, b)
    BY <1>4 DEF Good
  <2> QED
    BY <1>2, <2>1, <2>2 DEF NothingLost
<1>7. SlicesInBuffer /\ BuffersApart /\ RoomIsReal
  BY DEF Inv, State, SlicesOK, SlicesInBuffer, RoomsApart, BuffersApart
<1> QED
  BY <1>3, <1>5, <1>6, <1>7 DEF PoolInv

-----------------------------------------------------------------------------
(* Theorems *)

(* The counts are the numbers of references, the list has the unused       *)
(* buffers and nothing else, and slices stay inside of buffers that their  *)
(* demuxers do not share (pool.h:25, 71; buffer.cc:39, 43).                *)
THEOREM PoolCorrect == Spec => []PoolInv
<1>1. Init => Inv
  BY InitInv
<1>2. Inv /\ [Next]_vars => Inv'
  BY NextInv
<1>3. Inv => PoolInv
  BY InvImplies
<1> QED
  BY <1>1, <1>2, <1>3, PTL DEF Spec

(* alloc() never works on a buffer that is not there (pool.h:31) for a     *)
(* demuxer that keeps its sample when an allocation has failed and asks    *)
(* for it again, as that of Matroska does (mkv.cc:1832, 1841), whatever    *)
(* the other demuxers of the pool ask for.                                 *)
THEOREM PoolNeverNull == Spec => []NeverNull
<1>1. Init => Inv
  BY InitInv
<1>2. Inv /\ [Next]_vars => Inv'
  BY NextInv
<1>3. Inv => NeverNull
  BY DEF Inv
<1> QED
  BY <1>1, <1>2, <1>3, PTL DEF Spec

(* The bytes of a packet are its own and its copies' as long as they live, *)
(* whatever is allocated meanwhile (pool.h:30, 72).                        *)
THEOREM PoolImplementsMemory == Spec => ImplementsMemory
<1>1. Init => Inv /\ Memory!Init
  BY InitInv DEF Init, Memory!Init, Memory!Nothing, NoSlice
<1>2. Inv /\ [Next]_vars => Inv' /\ [Memory!Next]_packet
  BY NextInv
<1> QED
  BY <1>1, <1>2, PTL DEF Spec, ImplementsMemory, Memory!Spec
=============================================================================
