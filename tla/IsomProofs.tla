----------------------------- MODULE IsomProofs -----------------------------
(***************************************************************************)
(* Theorems about Isom for every value of its constants.                   *)
(*                                                                         *)
(* In files of any tables, boxes and fragments, with failures of the       *)
(* reader and the memory anywhere, the cursors stay in the tables that     *)
(* they are used with (TablesInv).                                         *)
(*                                                                         *)
(* In files whose samples are where their tables or fragments say, the     *)
(* packets are the samples, each in its turn, to the last one (InTurn).    *)
(* That is shown for movies first (MovieInv) and then for fragments        *)
(* (FragmentInv), each in four parts: what the tables say about the        *)
(* samples, what the demuxer computes from them, the walk over the boxes,  *)
(* and the calls of read_packet().                                         *)
(***************************************************************************)
EXTENDS Isom, SequenceTheorems, FiniteSetTheorems, TLAPS

-----------------------------------------------------------------------------
(* The inductive invariant *)

Runs ==
  [data_offset : Int, total_sample_size : Nat, sample_count : Nat,
   sample_duration : Seq(Nat), sample_size : Seq(Nat), current_sample : Nat]
Trafs ==
  [track : Nat, start_time : Nat, offset : Int, explicit_base_offset : BOOLEAN,
   default_base_is_moof : BOOLEAN, default_sample_duration : Nat,
   default_sample_size : Nat, runs : Seq(Runs), run_index : Nat \ {0}]

Places ==
  {"idle", "open", "sample", "fragment", "first_run", "next_run", "first_root", "next_root",
   "check", "take", "hung"}

(* Cursors of the movie. *)
CursorsIn(c) ==
  /\ c \in [Tracks -> [chunk : Nat, sample : Nat, index : Nat]]
  /\ \A t \in Tracks :
       /\ c[t].chunk <= Len(file.tracks[t].chunk_offset)
       /\ file.tracks[t].chunk_offset # <<>> => c[t].index \in DOMAIN file.tracks[t].sample_chunk

CursorsOK == CursorsIn(cursor) /\ track_index \in Tracks

FragmentOK ==
  /\ moof.start \in Nat /\ moof = [start |-> moof.start, trafs |-> moof.trafs]
  /\ moof.trafs \in Seq(Trafs)

FoundOK == found_moov \in BOOLEAN /\ found_moof \in BOOLEAN /\ found_mdat \in BOOLEAN

ReaderOK == reader = [offset |-> reader.offset, error |-> reader.error]

(* The run that is being read. *)
RunOK ==
  traf_index \in DOMAIN moof.trafs /\ TheTraf.run_index \in DOMAIN TheTraf.runs

(* What read_packet() does when the samples of the movie are used up.      *)
Ready == (found_moof /\ found_mdat) \/ moof.trafs = <<>> \/ RunOK

(* The walk of open() ends with data, or with an error of the reader,      *)
(* after which nothing is read.                                            *)
PacketInv ==
  /\ pc \in {"sample", "fragment"} => Ready
  /\ pc \in {"check", "take"} => RunOK
  /\ pc = "idle" /\ opened /\ result = "OK" /\ reader.error = "OK" => Ready
  /\ pc = "open" => ~opened
  /\ pc \notin {"idle", "open"} => opened
  /\ ~opened => found_moof \/ moof.trafs = <<>>

TablesInv ==
  /\ file \in Files /\ pc \in Places /\ opened \in BOOLEAN
  /\ FoundOK /\ ReaderOK /\ FragmentOK /\ CursorsOK
  /\ pc = "sample" => HasChunk(cursor, track_index)
  /\ PacketInv

-----------------------------------------------------------------------------
(* Induction.  A predicate on numbers is stated as a function, and a step  *)
(* of it as one from values to values.                                     *)

LEMMA LeastNumber ==
  ASSUME NEW S, S \subseteq Nat, S # {}
  PROVE  \E x \in S : \A y \in S : x <= y
<1> DEFINE R == StrictSubsetOrdering(Nat)  F == FiniteSubsetsOf(Nat)  T == {0..x : x \in S}
<1>1. IsWellFoundedOn(R, F)
  BY FS_StrictSubsetOrderingWellFounded
<1>2. \A x \in S : 0..x \in F
  BY FS_Interval DEF FiniteSubsetsOf
<1>3. T \subseteq F /\ T # {}
  BY <1>2
<1>4. \A x, y \in S : y < x => <<0..y, 0..x>> \in R
  <2> SUFFICES ASSUME NEW x \in S, NEW y \in S, y < x PROVE <<0..y, 0..x>> \in R
    OBVIOUS
  <2>1. x \in Nat /\ y \in Nat
    OBVIOUS
  <2>2. 0..y \subseteq 0..x /\ x \in 0..x /\ x \notin 0..y
    BY <2>1
  <2> QED BY <2>1, <2>2 DEF StrictSubsetOrdering
<1> HIDE DEF R, F
<1>5. \E t \in T : \A u \in T : ~(<<u, t>> \in R)
  BY <1>1, <1>3, WFMin
<1>6. PICK x \in S : \A y \in S : ~(<<0..y, 0..x>> \in R)
  BY <1>5
<1>7. \A y \in S : x <= y
  <2> SUFFICES ASSUME NEW y \in S PROVE x <= y
    OBVIOUS
  <2>1. x \in Nat /\ y \in Nat
    OBVIOUS
  <2>2. ~(y < x)
    BY <1>4, <1>6
  <2> QED BY <2>1, <2>2
<1> QED BY <1>7

(* The values of a function stay in a set if its steps do. *)
LEMMA StaysIn ==
  ASSUME NEW n \in Nat, NEW f, NEW V, f[0] \in V,
         \A k \in 1..n : f[k - 1] \in V => f[k] \in V
  PROVE  \A k \in 0..n : f[k] \in V
<1> DEFINE B == {k \in 0..n : f[k] \notin V}
<1> SUFFICES ASSUME B # {} PROVE FALSE
  OBVIOUS
<1>1. PICK k \in B : \A j \in B : k <= j
  <2>1. B \subseteq Nat
    OBVIOUS
  <2> QED BY <2>1, LeastNumber
<1>2. k \in 1..n /\ k - 1 \in 0..n /\ k - 1 < k
  <2>1. k \in 0..n /\ k # 0
    BY <1>1
  <2> QED BY <2>1
<1>3. f[k - 1] \in V
  <2>1. k - 1 \notin B
    BY <1>1, <1>2
  <2> QED BY <2>1, <1>2
<1> QED BY <1>1, <1>2, <1>3

(* A function that is defined by such steps exists. *)
MadeBy(f, n, a, step) == f[0] = a /\ \A k \in 1..n : f[k] = step[k][f[k - 1]]

LEMMA StepsMakeOne ==
  ASSUME NEW n \in Nat, NEW V, NEW a \in V, NEW step \in [1..n -> [V -> V]]
  PROVE  \E f \in [0..n -> V] : MadeBy(f, n, a, step)
<1> DEFINE Made(m) == \E f \in [0..m -> V] : f[0] = a /\ \A k \in 1..m : f[k] = step[k][f[k - 1]]
           made == [m \in 0..n |-> Made(m)]
<1>1. made[0] \in {TRUE}
  <2> DEFINE f == [k \in {0} |-> a]
  <2>1. 0..0 = {0} /\ 1..0 = {}
    OBVIOUS
  <2>2. f \in [0..0 -> V] /\ f[0] = a /\ \A k \in 1..0 : f[k] = step[k][f[k - 1]]
    BY <2>1
  <2>3. Made(0)
    BY <2>2
  <2> QED BY <2>3
<1>2. ASSUME NEW m \in 1..n, made[m - 1] \in {TRUE} PROVE made[m] \in {TRUE}
  <2>0. m - 1 \in 0..n /\ m \in 0..n /\ m \in Nat /\ m - 1 \in Nat
    OBVIOUS
  <2>1. Made(m - 1)
    BY <1>2, <2>0
  <2>2. PICK g \in [0..m - 1 -> V] : g[0] = a /\ \A k \in 1..m - 1 : g[k] = step[k][g[k - 1]]
    BY <2>1
  <2> DEFINE f == [k \in 0..m |-> IF k = m THEN step[m][g[m - 1]] ELSE g[k]]
  <2>3. g[m - 1] \in V /\ step[m] \in [V -> V]
    BY <2>0
  <2>4. \A k \in 0..m : k # m => k \in 0..m - 1
    BY <2>0
  <2>5. f \in [0..m -> V]
    BY <2>3, <2>4
  <2>6. f[0] = a
    BY <2>0, <2>2
  <2>7. ASSUME NEW k \in 1..m PROVE f[k] = step[k][f[k - 1]]
    <3>1. k - 1 \in 0..m /\ k - 1 # m /\ k \in 0..m
      BY <2>0
    <3>2. f[k - 1] = g[k - 1]
      BY <3>1
    <3>3. k # m => k \in 1..m - 1 /\ f[k] = g[k]
      BY <3>1, <2>0
    <3>4. f[m] = step[m][g[m - 1]]
      BY <2>0
    <3> QED BY <3>2, <3>3, <3>4, <2>2
  <2>8. Made(m)
    BY <2>5, <2>6, <2>7
  <2> QED BY <2>8, <2>0
<1> HIDE DEF made
<1>3. \A m \in 0..n : made[m] \in {TRUE}
  BY <1>1, <1>2, StaysIn
<1> USE DEF made
<1>4. Made(n)
  <2>1. n \in 0..n
    OBVIOUS
  <2> QED BY <2>1, <1>3
<1> QED BY <1>4 DEF MadeBy

(* SumTo() is defined, and adds numbers to a number. *)
LEMMA SumIsNumber ==
  ASSUME NEW s \in Seq(Nat)
  PROVE  \A k \in 0..Len(s) : SumTo(s)[k] \in Nat
<1> DEFINE n == Len(s)
           Sums(g) == g = [k \in 0..n |-> IF k = 0 THEN 0 ELSE g[k - 1] + s[k]]
           f == CHOOSE g : Sums(g)
           step == [k \in 1..n |-> [v \in Nat |-> v + s[k]]]
           zero == 0
<1>1. n \in Nat /\ \A k \in 1..n : s[k] \in Nat
  BY LenProperties, ElementOfSeq
<1>2. SumTo(s) = f
  BY DEF SumTo
<1>3. step \in [1..n -> [Nat -> Nat]] /\ zero \in Nat
  BY <1>1
<1>4. \A k \in 1..n, v \in Nat : step[k][v] = v + s[k]
  OBVIOUS
<1> HIDE DEF step, n, zero
<1>5. PICK g \in [0..n -> Nat] : g[0] = zero /\ \A k \in 1..n : g[k] = step[k][g[k - 1]]
  <2> DEFINE V == Nat
  <2>1. n \in Nat /\ zero \in V /\ step \in [1..n -> [V -> V]]
    BY <1>1, <1>3
  <2>2. V = Nat
    OBVIOUS
  <2> HIDE DEF V
  <2>3. \E g \in [0..n -> V] : MadeBy(g, n, zero, step)
    BY <2>1, StepsMakeOne
  <2> QED BY <2>2, <2>3 DEF MadeBy
<1>6. Sums(g)
  <2>1. \A k \in 0..n : k # 0 => k \in 1..n /\ k - 1 \in 0..n
    BY <1>1
  <2>2. \A k \in 0..n : g[k] = IF k = 0 THEN 0 ELSE g[k - 1] + s[k]
    BY <2>1, <1>4, <1>5 DEF zero
  <2> QED BY <2>2
<1>7. Sums(f)
  BY <1>6
<1> HIDE DEF f
<1>8. f[0] = 0 /\ \A k \in 1..n : f[k] = f[k - 1] + s[k]
  <2>1. 0 \in 0..n /\ \A k \in 1..n : k \in 0..n /\ k # 0
    BY <1>1
  <2> QED BY <2>1, <1>7
<1>9. f[0] \in Nat /\ \A k \in 1..n : f[k - 1] \in Nat => f[k] \in Nat
  <2> SUFFICES ASSUME NEW k \in 1..n, f[k - 1] \in Nat PROVE f[k] \in Nat
    BY <1>8
  <2>1. f[k] = f[k - 1] + s[k] /\ s[k] \in Nat
    BY <1>1, <1>8
  <2> QED BY <2>1
<1>10. \A k \in 0..n : f[k] \in Nat
  BY <1>1, <1>9, StaysIn
<1> QED BY <1>2, <1>10 DEF n

(* One of several offsets is the nearest. *)
LEMMA NearestIsOne ==
  ASSUME NEW n \in Nat, NEW at, DOMAIN at \subseteq 1..n, DOMAIN at # {},
         \A x \in DOMAIN at : at[x] \in Int
  PROVE  /\ Nearest(at) \in DOMAIN at
         /\ \A y \in DOMAIN at : at[Nearest(at)] <= at[y]
<1> DEFINE D == DOMAIN at
           Before(y, x) == at[y] < at[x] \/ (at[y] = at[x] /\ y > x)
           ahead == [x \in D |-> {y \in D : Before(y, x)}]
           F == FiniteSubsetsOf(1..n)  R == StrictSubsetOrdering(1..n)  T == {ahead[x] : x \in D}
<1>1. IsWellFoundedOn(R, F)
  BY FS_StrictSubsetOrderingWellFounded
<1>2. T \subseteq F /\ T # {}
  <2>1. IsFiniteSet(1..n)
    BY FS_Interval
  <2>2. \A x \in D : ahead[x] \subseteq 1..n /\ IsFiniteSet(ahead[x])
    BY <2>1, FS_Subset
  <2> QED BY <2>2 DEF FiniteSubsetsOf
<1>3. \A x \in D : x \in Int /\ at[x] \in Int
  OBVIOUS
<1>4. ASSUME NEW x \in D, NEW y \in ahead[x] PROVE <<ahead[y], ahead[x]>> \in R
  <2>1. y \in D /\ Before(y, x)
    OBVIOUS
  <2>2. \A z \in D : Before(z, y) => Before(z, x)
    BY <2>1, <1>3
  <2>3. ~Before(y, y)
    BY <2>1, <1>3
  <2>4. ahead[y] \subseteq ahead[x] /\ y \in ahead[x] /\ y \notin ahead[y]
    BY <2>1, <2>2, <2>3
  <2>5. ahead[x] \subseteq 1..n /\ ahead[y] \subseteq 1..n
    BY <2>1
  <2> HIDE DEF ahead
  <2> QED BY <2>4, <2>5 DEF StrictSubsetOrdering
<1>5. PICK x \in D : \A y \in D : ~(<<ahead[y], ahead[x]>> \in R)
  <2> HIDE DEF R, F, ahead
  <2>1. \E t \in T : \A u \in T : ~(<<u, t>> \in R)
    BY <1>1, <1>2, WFMin
  <2> QED BY <2>1
<1>6. ahead[x] = {}
  <2> SUFFICES ASSUME NEW y \in ahead[x] PROVE FALSE
    OBVIOUS
  <2>1. y \in D
    OBVIOUS
  <2> QED BY <2>1, <1>4, <1>5
<1> DEFINE First(z) == \A y \in D : at[z] < at[y] \/ (at[z] = at[y] /\ y <= z)
<1>7. First(x)
  <2> SUFFICES ASSUME NEW y \in D PROVE at[x] < at[y] \/ (at[x] = at[y] /\ y <= x)
    OBVIOUS
  <2>1. ~Before(y, x)
    BY <1>6
  <2> QED BY <2>1, <1>3
<1>8. Nearest(at) \in D /\ First(Nearest(at))
  BY <1>7 DEF Nearest
<1>9. ASSUME NEW y \in D PROVE at[Nearest(at)] <= at[y]
  BY <1>8, <1>3
<1> QED BY <1>8, <1>9

-----------------------------------------------------------------------------
(* The file *)

LEMMA FileFacts ==
  ASSUME file \in Files
  PROVE  /\ Tracks # {} /\ Len(file.tracks) \in Nat /\ Tracks = 1..Len(file.tracks)
         /\ 1 \in Tracks
         /\ \A t \in Tracks :
              /\ file.tracks[t] \in TrackTables
              /\ Len(file.tracks[t].chunk_offset) \in Nat
              /\ file.tracks[t].chunk_offset # <<>> =>
                   /\ file.tracks[t].sample_chunk # <<>>
                   /\ 1 \in DOMAIN file.tracks[t].sample_chunk
         /\ \A b \in file.boxes :
              /\ b.start \in Nat /\ b.trafs \in Seq(FileTrafs)
              /\ \A k \in DOMAIN b.trafs : b.trafs[k].track \in Tracks
<1>1. /\ file.tracks \in Seq(TrackTables) /\ file.tracks # <<>>
      /\ \A t \in Tracks : file.tracks[t].chunk_offset # <<>> => file.tracks[t].sample_chunk # <<>>
      /\ \A b \in file.boxes :
           /\ b.start \in Nat /\ b.trafs \in Seq(FileTrafs)
           /\ \A k \in DOMAIN b.trafs : b.trafs[k].track \in Tracks
  BY FilesAssumption DEF Tracks
<1>2. Len(file.tracks) \in Nat \ {0} /\ Tracks = 1..Len(file.tracks)
  BY <1>1, EmptySeq, LenProperties DEF Tracks
<1>3. ASSUME NEW t \in Tracks
      PROVE  /\ file.tracks[t] \in TrackTables
             /\ Len(file.tracks[t].chunk_offset) \in Nat
             /\ file.tracks[t].sample_chunk # <<>> => 1 \in DOMAIN file.tracks[t].sample_chunk
  <2>1. file.tracks[t] \in TrackTables
    BY <1>1, <1>2, ElementOfSeq
  <2> DEFINE e == file.tracks[t].sample_chunk
  <2>2. e \in Seq([first : Nat, count : Nat]) /\ file.tracks[t].chunk_offset \in Seq(Nat)
    BY <2>1 DEF TrackTables
  <2> HIDE DEF e
  <2>3. Len(file.tracks[t].chunk_offset) \in Nat
    BY <2>2, LenProperties
  <2>4. DOMAIN e = 1..Len(e) /\ Len(e) \in Nat
    BY <2>2, LenProperties
  <2>5. e # <<>> => Len(e) \in Nat \ {0}
    BY <2>2, EmptySeq
  <2>6. e # <<>> => 1 \in DOMAIN e
    BY <2>4, <2>5
  <2> QED BY <2>1, <2>3, <2>6 DEF e
<1>4. 1 \in Tracks /\ Tracks # {}
  <2> DEFINE n == Len(file.tracks)
  <2>1. n \in Nat \ {0} /\ Tracks = 1..n
    BY <1>2
  <2> HIDE DEF n
  <2> QED BY <2>1
<1> QED BY <1>1, <1>2, <1>3, <1>4

-----------------------------------------------------------------------------
(* What a fragment consists of *)

LEMMA FunctionIsSeq ==
  ASSUME NEW S, NEW n \in Nat, NEW f \in [1..n -> S]
  PROVE  f \in Seq(S) /\ Len(f) = n
<1>1. f \in Seq(S)
  BY SeqDef
<1>2. DOMAIN f = 1..n /\ DOMAIN f = 1..Len(f) /\ Len(f) \in Nat
  BY <1>1, LenProperties
<1> QED BY <1>1, <1>2

LEMMA RunType ==
  ASSUME NEW r \in FileRuns
  PROVE  Run(r) \in Runs
<1>1. r.offset \in Int /\ r.count \in Nat /\ r.sizes \in Seq(Nat) /\ r.durations \in Seq(Nat)
  BY DEF FileRuns
<1> DEFINE d == [n \in DOMAIN r.durations |-> SumTo(r.durations)[n]]
           total == SumTo(r.sizes)[Len(r.sizes)]
           offset == IF r.offset = None THEN 0 ELSE r.offset
<1>2. d \in Seq(Nat)
  <2> DEFINE n == Len(r.durations)
  <2>1. n \in Nat /\ DOMAIN r.durations = 1..n
    BY <1>1, LenProperties
  <2>2. \A k \in 1..n : SumTo(r.durations)[k] \in Nat
    <3>1. \A k \in 0..n : SumTo(r.durations)[k] \in Nat
      BY <1>1, SumIsNumber
    <3> HIDE DEF n
    <3>2. \A k \in 1..n : k \in 0..n
      BY <2>1
    <3> QED BY <3>1, <3>2
  <2>3. d \in [1..n -> Nat]
    BY <2>1, <2>2
  <2> HIDE DEF d, n
  <2> QED BY <2>1, <2>3, FunctionIsSeq
<1>3. total \in Nat
  <2>1. Len(r.sizes) \in Nat
    BY <1>1, LenProperties
  <2>2. Len(r.sizes) \in 0..Len(r.sizes)
    BY <2>1
  <2> QED BY <1>1, <2>2, SumIsNumber
<1>4. offset \in Int
  BY <1>1
<1>5. Run(r) = [data_offset |-> offset, total_sample_size |-> total, sample_count |-> r.count,
                sample_duration |-> d, sample_size |-> r.sizes, current_sample |-> 0]
  BY DEF Run
<1> HIDE DEF d, total, offset
<1> QED BY <1>1, <1>2, <1>3, <1>4, <1>5 DEF Runs

LEMMA TrafType ==
  ASSUME file \in Files, NEW f \in FileTrafs, f.track \in Tracks
  PROVE  Traf(f) \in Trafs
<1> DEFINE duration == IF f.default_sample_duration = None
                         THEN file.tracks[f.track].default_sample_duration
                         ELSE f.default_sample_duration
           size == IF f.default_sample_size = None
                     THEN file.tracks[f.track].default_sample_size ELSE f.default_sample_size
           runs == [k \in DOMAIN f.runs |-> Run(f.runs[k])]
           offset == IF f.base = "explicit" THEN f.offset ELSE 0
           explicit == f.base = "explicit"
           default == f.base = "moof"
<1>1. /\ f.track \in Nat /\ f.time \in Nat /\ f.offset \in Nat
      /\ f.default_sample_duration \in Nat \union {None}
      /\ f.default_sample_size \in Nat \union {None} /\ f.runs \in Seq(FileRuns)
  BY DEF FileTrafs
<1>2. file.tracks[f.track] \in TrackTables
  BY FileFacts
<1>3. duration \in Nat /\ size \in Nat
  BY <1>1, <1>2 DEF TrackTables
<1>4. runs \in Seq(Runs)
  <2> DEFINE n == Len(f.runs)
  <2>1. n \in Nat /\ DOMAIN f.runs = 1..n /\ \A k \in 1..n : f.runs[k] \in FileRuns
    BY <1>1, LenProperties, ElementOfSeq
  <2>2. \A k \in 1..n : Run(f.runs[k]) \in Runs
    BY <2>1, RunType
  <2>3. runs \in [1..n -> Runs]
    BY <2>1, <2>2
  <2> HIDE DEF runs, n
  <2> QED BY <2>1, <2>3, FunctionIsSeq
<1>5. offset \in Int /\ explicit \in BOOLEAN /\ default \in BOOLEAN /\ 1 \in Nat \ {0}
  BY <1>1
<1>6. Traf(f) = [track |-> f.track, start_time |-> f.time, offset |-> offset,
                 explicit_base_offset |-> explicit, default_base_is_moof |-> default,
                 default_sample_duration |-> duration, default_sample_size |-> size,
                 runs |-> runs, run_index |-> 1]
  BY DEF Traf
<1> HIDE DEF duration, size, runs, offset, explicit, default
<1> QED BY <1>1, <1>3, <1>4, <1>5, <1>6 DEF Trafs

LEMMA FragmentType ==
  ASSUME file \in Files, NEW b \in file.boxes
  PROVE  trafs_of(b) \in Seq(Trafs)
<1> DEFINE n == Len(b.trafs)
<1>1. n \in Nat /\ DOMAIN b.trafs = 1..n /\ \A k \in 1..n : b.trafs[k] \in FileTrafs /\ b.trafs[k].track \in Tracks
  BY FileFacts, LenProperties, ElementOfSeq
<1>2. \A k \in 1..n : Traf(b.trafs[k]) \in Trafs
  BY <1>1, TrafType
<1>3. trafs_of(b) \in [1..n -> Trafs]
  BY <1>1, <1>2 DEF trafs_of
<1> HIDE DEF n
<1> QED BY <1>1, <1>3, FunctionIsSeq

LEMMA TrafFacts ==
  ASSUME NEW trafs \in Seq(Trafs)
  PROVE  /\ Len(trafs) \in Nat /\ DOMAIN trafs = 1..Len(trafs)
         /\ \A k \in 1..Len(trafs) :
              /\ trafs[k] \in Trafs /\ trafs[k].runs \in Seq(Runs) /\ Len(trafs[k].runs) \in Nat
              /\ DOMAIN trafs[k].runs = 1..Len(trafs[k].runs)
              /\ trafs[k].run_index \in Nat \ {0} /\ trafs[k].default_sample_size \in Nat
              /\ trafs[k].offset \in Int
              /\ \A j \in 1..Len(trafs[k].runs) : trafs[k].runs[j] \in Runs
<1>1. Len(trafs) \in Nat /\ DOMAIN trafs = 1..Len(trafs) /\ \A k \in 1..Len(trafs) : trafs[k] \in Trafs
  BY LenProperties, ElementOfSeq
<1>2. ASSUME NEW x \in Trafs
      PROVE  /\ x.runs \in Seq(Runs) /\ Len(x.runs) \in Nat /\ DOMAIN x.runs = 1..Len(x.runs)
             /\ x.run_index \in Nat \ {0} /\ x.default_sample_size \in Nat /\ x.offset \in Int
             /\ \A j \in 1..Len(x.runs) : x.runs[j] \in Runs
  <2>1. x.runs \in Seq(Runs) /\ x.run_index \in Nat \ {0} /\ x.default_sample_size \in Nat /\ x.offset \in Int
    BY DEF Trafs
  <2> DEFINE s == x.runs
  <2>2. s \in Seq(Runs)
    BY <2>1
  <2> HIDE DEF s
  <2>3. Len(s) \in Nat /\ DOMAIN s = 1..Len(s) /\ \A j \in 1..Len(s) : s[j] \in Runs
    BY <2>2, LenProperties, ElementOfSeq
  <2> QED BY <2>1, <2>3 DEF s
<1> QED BY <1>1, <1>2

(* A track fragment with other runs. *)
LEMMA OtherRuns ==
  ASSUME NEW x \in Trafs, NEW s \in Seq(Runs)
  PROVE  [x EXCEPT !.runs = s] \in Trafs /\ [x EXCEPT !.runs = s].runs = s
BY DEF Trafs

LEMMA BareRunType ==
  ASSUME NEW u \in Runs
  PROVE  BareRun(u) \in Runs
<1>1. <<>> \in Seq(Nat) /\ 0 \in Nat
  BY EmptySeq
<1> QED BY <1>1 DEF Runs, BareRun

LEMMA PartType ==
  ASSUME NEW trafs \in Seq(Trafs), trafs # <<>>, NEW bare \in BOOLEAN,
         NEW j \in 0..Len(trafs[Len(trafs)].runs), bare => j # 0
  PROVE  Part(trafs, j, bare) \in Seq(Trafs)
<1> DEFINE k == Len(trafs)  x == trafs[k]  s == SubSeq(x.runs, 1, j)
           r == BareRun(s[j])
           t == IF bare THEN [s EXCEPT ![j] = BareRun(@)] ELSE s
<1>1. k \in Nat \ {0} /\ k \in 1..k
  BY EmptySeq
<1>2. /\ x \in Trafs /\ x.runs \in Seq(Runs) /\ Len(x.runs) \in Nat
      /\ \A i \in 1..Len(x.runs) : x.runs[i] \in Runs
  BY <1>1, TrafFacts
<1>3. s \in Seq(Runs) /\ Len(s) = j /\ j \in Nat
  <2>1. j \in Nat /\ j <= Len(x.runs)
    BY <1>2
  <2>2. \A i \in 1..j : x.runs[i] \in Runs
    BY <2>1, <1>2
  <2> QED BY <2>1, <2>2, SubSeqProperties
<1> HIDE DEF s
<1>4. t \in Seq(Runs)
  <2>1. CASE bare
    <3>1. j \in 1..Len(s) /\ s[j] \in Runs
      BY <2>1, <1>3, ElementOfSeq
    <3>2. r \in Runs
      BY <3>1, BareRunType
    <3>3. t = [s EXCEPT ![j] = r]
      BY <2>1
    <3> HIDE DEF r, t
    <3> QED BY <3>1, <3>2, <3>3, <1>3, ExceptSeq
  <2>2. CASE ~bare
    BY <2>2, <1>3
  <2> QED BY <2>1, <2>2
<1>5. Part(trafs, j, bare) = [trafs EXCEPT ![k] = [x EXCEPT !.runs = t]]
  BY DEF Part, s
<1> HIDE DEF t, x, k
<1>6. [x EXCEPT !.runs = t] \in Trafs
  BY <1>2, <1>4, OtherRuns
<1> QED BY <1>1, <1>5, <1>6, ExceptSeq DEF k

LEMMA PartsType ==
  ASSUME NEW trafs \in Seq(Trafs)
  PROVE  Parts(trafs) \subseteq Seq(Trafs)
<1>1. <<>> \in Seq(Trafs)
  BY EmptySeq
<1>2. ASSUME NEW k \in DOMAIN trafs, NEW j \in 0..Len(trafs[k].runs), NEW bare \in BOOLEAN, bare => j # 0
      PROVE  Part(SubSeq(trafs, 1, k), j, bare) \in Seq(Trafs)
  <2> DEFINE s == SubSeq(trafs, 1, k)
  <2>1. /\ Len(trafs) \in Nat /\ k \in 1..Len(trafs) /\ k \in Nat \ {0}
        /\ \A i \in 1..k : trafs[i] \in Trafs
    BY TrafFacts
  <2>2. s \in Seq(Trafs) /\ Len(s) = k /\ \A i \in 1..k : s[i] = trafs[i]
    BY <2>1, SubSeqProperties
  <2> HIDE DEF s
  <2>3. s # <<>> /\ s[k] = trafs[k]
    BY <2>1, <2>2
  <2>4. j \in 0..Len(s[Len(s)].runs)
    BY <2>2, <2>3
  <2>5. Part(s, j, bare) \in Seq(Trafs)
    BY <1>2, <2>2, <2>3, <2>4, PartType
  <2> QED BY <2>5 DEF s
<1>3. ASSUME NEW k \in DOMAIN trafs, NEW j \in 0..Len(trafs[k].runs)
      PROVE  Part(SubSeq(trafs, 1, k), j, FALSE) \in Seq(Trafs)
  <2> DEFINE bare == FALSE
  <2>1. bare \in BOOLEAN /\ (bare => j # 0)
    OBVIOUS
  <2> HIDE DEF bare
  <2>2. Part(SubSeq(trafs, 1, k), j, bare) \in Seq(Trafs)
    BY <2>1, <1>2
  <2> QED BY <2>2 DEF bare
<1>4. ASSUME NEW k \in DOMAIN trafs, NEW j \in DOMAIN trafs[k].runs
      PROVE  Part(SubSeq(trafs, 1, k), j, TRUE) \in Seq(Trafs)
  <2> DEFINE bare == TRUE
  <2>1. bare \in BOOLEAN /\ j # 0 /\ j \in 0..Len(trafs[k].runs)
    <3>1. Len(trafs[k].runs) \in Nat /\ DOMAIN trafs[k].runs = 1..Len(trafs[k].runs)
      BY TrafFacts
    <3> DEFINE n == Len(trafs[k].runs)
    <3>2. n \in Nat /\ j \in 1..n
      BY <3>1
    <3> HIDE DEF n
    <3>3. j # 0 /\ j \in 0..n
      BY <3>2
    <3> QED BY <3>3 DEF n
  <2> HIDE DEF bare
  <2>2. Part(SubSeq(trafs, 1, k), j, bare) \in Seq(Trafs)
    BY <2>1, <1>2
  <2> QED BY <2>2 DEF bare
<1>5. \A p \in Parts(trafs) :
        \/ p = <<>>
        \/ \E k \in DOMAIN trafs : \E j \in 0..Len(trafs[k].runs) : p = Part(SubSeq(trafs, 1, k), j, FALSE)
        \/ \E k \in DOMAIN trafs : \E j \in DOMAIN trafs[k].runs : p = Part(SubSeq(trafs, 1, k), j, TRUE)
  BY DEF Parts
<1> QED BY <1>1, <1>3, <1>4, <1>5

(* The ends of the track fragments are defined, from the start of the      *)
(* fragment on.                                                            *)
EndAfter(k, v) ==
  LET T == moof.trafs[k]
      run == T.runs[Len(T.runs)]
  IN  IF T.runs = <<>> THEN v ELSE Base(T, v) + run.data_offset + Total(T, run)

LEMMA EndsAreNumbers ==
  ASSUME moof.trafs \in Seq(Trafs), moof.start \in Nat
  PROVE  /\ \A k \in 0..Len(moof.trafs) : last_offset[k] \in Int
         /\ last_offset[0] = moof.start
         /\ \A k \in 1..Len(moof.trafs) : last_offset[k] = EndAfter(k, last_offset[k - 1])
<1> DEFINE n == Len(moof.trafs)
           traf(k) == moof.trafs[k]
           last(k) == traf(k).runs[Len(traf(k).runs)]
           After(k, v) == IF traf(k).runs = <<>> THEN v
                          ELSE Base(traf(k), v) + last(k).data_offset + Total(traf(k), last(k))
           Ends(g) == g = [k \in 0..n |-> IF k = 0 THEN moof.start ELSE After(k, g[k - 1])]
           f == CHOOSE g : Ends(g)
           V == Int
           step == [k \in 1..n |-> [v \in V |-> After(k, v)]]
<1>1. n \in Nat
  BY TrafFacts
<1>2. last_offset = f
  BY DEF last_offset
<1>3. \A k \in 1..n, v \in V : After(k, v) \in V
  <2> SUFFICES ASSUME NEW k \in 1..n, NEW v \in V PROVE After(k, v) \in V
    OBVIOUS
  <2>1. /\ traf(k) \in Trafs /\ traf(k).runs \in Seq(Runs) /\ Len(traf(k).runs) \in Nat
        /\ traf(k).default_sample_size \in Nat /\ traf(k).offset \in Int
        /\ \A j \in 1..Len(traf(k).runs) : traf(k).runs[j] \in Runs
    BY TrafFacts
  <2> HIDE DEF traf
  <2>2. CASE traf(k).runs = <<>>
    BY <2>2
  <2>3. CASE traf(k).runs # <<>>
    <3>1. Len(traf(k).runs) \in 1..Len(traf(k).runs)
      <4>1. Len(traf(k).runs) \in Nat \ {0}
        BY <2>1, <2>3, EmptySeq
      <4> QED BY <4>1
    <3>2. last(k) \in Runs
      BY <2>1, <3>1
    <3> HIDE DEF last
    <3>3. last(k).data_offset \in Int /\ last(k).total_sample_size \in Nat /\ last(k).sample_count \in Nat
      BY <3>2 DEF Runs
    <3>4. Total(traf(k), last(k)) \in Int
      BY <3>3, <2>1 DEF Total
    <3>5. Base(traf(k), v) \in Int
      BY <2>1 DEF Base
    <3> QED BY <2>3, <3>3, <3>4, <3>5
  <2> QED BY <2>2, <2>3
<1>4. step \in [1..n -> [V -> V]] /\ \A k \in 1..n, v \in V : step[k][v] = After(k, v)
  BY <1>3
<1>5. moof.start \in V
  OBVIOUS
<1> HIDE DEF step, n, V, After
<1>6. PICK g \in [0..n -> V] : g[0] = moof.start /\ \A k \in 1..n : g[k] = step[k][g[k - 1]]
  <2> DEFINE a == moof.start
  <2>1. a \in V
    BY <1>5
  <2> HIDE DEF a
  <2>2. \E g \in [0..n -> V] : MadeBy(g, n, a, step)
    BY <2>1, <1>1, <1>4, StepsMakeOne
  <2> QED BY <2>2 DEF MadeBy, a
<1>7. Ends(g)
  <2>1. \A k \in 0..n : k # 0 => k \in 1..n /\ k - 1 \in 0..n
    BY <1>1
  <2>2. \A k \in 1..n : g[k] = After(k, g[k - 1])
    BY <2>1, <1>4, <1>6
  <2>3. \A k \in 0..n : g[k] = IF k = 0 THEN moof.start ELSE After(k, g[k - 1])
    BY <2>1, <2>2, <1>6
  <2> QED BY <2>3
<1>8. Ends(f)
  BY <1>7
<1> HIDE DEF f
<1>9. f[0] = moof.start /\ \A k \in 1..n : f[k] = After(k, f[k - 1])
  <2>1. 0 \in 0..n /\ \A k \in 1..n : k \in 0..n /\ k # 0
    BY <1>1
  <2> QED BY <2>1, <1>8
<1>10. f[0] \in V /\ \A k \in 1..n : f[k - 1] \in V => f[k] \in V
  BY <1>3, <1>5, <1>9
<1>11. \A k \in 0..n : f[k] \in V
  BY <1>1, <1>10, StaysIn
<1>12. \A k \in 1..n : \A v : After(k, v) = EndAfter(k, v)
  BY DEF After, EndAfter
<1> QED BY <1>2, <1>9, <1>11, <1>12 DEF n, V

LEMMA RunMoved ==
  ASSUME NEW x \in Trafs, NEW base \in Int, NEW r \in Runs
  PROVE  PlacedRun(x, base, r) \in Runs
<1>1. r.data_offset \in Int /\ r.total_sample_size \in Nat /\ r.sample_count \in Nat
  BY DEF Runs
<1>2. x.default_sample_size \in Nat
  BY DEF Trafs
<1> DEFINE d == r.data_offset + base  t == Total(x, r)
<1>3. d \in Int
  BY <1>1
<1>4. t \in Nat
  <2>1. r.sample_count * x.default_sample_size \in Nat
    BY <1>1, <1>2
  <2> QED BY <2>1, <1>1 DEF Total
<1>5. PlacedRun(x, base, r) = [r EXCEPT !.data_offset = d, !.total_sample_size = t]
  BY DEF PlacedRun
<1> HIDE DEF d, t
<1> QED BY <1>3, <1>4, <1>5 DEF Runs

LEMMA TrafMoved ==
  ASSUME NEW x \in Trafs, NEW base \in Int
  PROVE  PlacedTraf(x, base) \in Trafs
<1> DEFINE m == Len(x.runs)  s == [j \in DOMAIN x.runs |-> PlacedRun(x, base, x.runs[j])]
<1>1. m \in Nat /\ DOMAIN x.runs = 1..m /\ \A j \in 1..m : x.runs[j] \in Runs
  <2>1. x.runs \in Seq(Runs)
    BY DEF Trafs
  <2> QED BY <2>1, LenProperties, ElementOfSeq
<1>2. \A j \in 1..m : PlacedRun(x, base, x.runs[j]) \in Runs
  BY <1>1, RunMoved
<1>3. s \in [1..m -> Runs]
  BY <1>1, <1>2
<1>4. PlacedTraf(x, base) = [x EXCEPT !.offset = base, !.runs = s]
  BY DEF PlacedTraf
<1> HIDE DEF m, s
<1>5. s \in Seq(Runs)
  BY <1>1, <1>3, FunctionIsSeq
<1> QED BY <1>4, <1>5 DEF Trafs

LEMMA PlacedType ==
  ASSUME moof.trafs \in Seq(Trafs), moof.start \in Nat
  PROVE  Placed \in Seq(Trafs)
<1> DEFINE n == Len(moof.trafs)
<1>1. n \in Nat /\ DOMAIN moof.trafs = 1..n
  BY TrafFacts
<1>2. ASSUME NEW k \in 1..n
      PROVE  PlacedTraf(moof.trafs[k], Base(moof.trafs[k], last_offset[k - 1])) \in Trafs
  <2> DEFINE x == moof.trafs[k]  o == Base(x, last_offset[k - 1])
  <2>1. x \in Trafs /\ x.offset \in Int
    BY TrafFacts
  <2>2. k - 1 \in 0..n
    BY <1>1
  <2>3. last_offset[k - 1] \in Int
    BY <2>2, EndsAreNumbers
  <2>4. o \in Int
    BY <2>1, <2>3 DEF Base
  <2> HIDE DEF x, o
  <2>5. PlacedTraf(x, o) \in Trafs
    BY <2>1, <2>4, TrafMoved
  <2> QED BY <2>5 DEF x, o
<1>3. Placed \in [1..n -> Trafs]
  BY <1>1, <1>2 DEF Placed
<1> HIDE DEF n
<1> QED BY <1>1, <1>3, FunctionIsSeq

-----------------------------------------------------------------------------
(* The reader, and what a step leaves alone *)

LEMMA ReaderMoves ==
  ASSUME ReaderOK
  PROVE  /\ \A o : reader' = SkippedTo(o) => ReaderOK'
         /\ \A o : reader' = [reader EXCEPT !.offset = o] => ReaderOK'
         /\ \A e : reader' = [reader EXCEPT !.error = e] => ReaderOK' /\ reader'.error = e
         /\ UNCHANGED reader => ReaderOK'
<1>1. ASSUME NEW o, reader' = SkippedTo(o) PROVE ReaderOK'
  BY <1>1 DEF SkippedTo, ReaderOK
<1>2. ASSUME NEW o, reader' = [reader EXCEPT !.offset = o] PROVE ReaderOK'
  <2>1. reader' = [offset |-> o, error |-> reader.error]
    BY <1>2 DEF ReaderOK
  <2> QED BY <2>1 DEF ReaderOK
<1>3. ASSUME NEW e, reader' = [reader EXCEPT !.error = e] PROVE ReaderOK' /\ reader'.error = e
  <2>1. reader' = [offset |-> reader.offset, error |-> e]
    BY <1>3 DEF ReaderOK
  <2> QED BY <2>1 DEF ReaderOK
<1>4. UNCHANGED reader => ReaderOK'
  BY DEF ReaderOK
<1> QED BY <1>1, <1>2, <1>3, <1>4

LEMMA Breaks ==
  ASSUME ReaderOK, NEW e \in ReaderErrors, Broken(e)
  PROVE  ReaderOK' /\ reader'.error = e /\ e # "OK"
<1>1. reader' = [reader EXCEPT !.error = e] /\ e # "OK"
  BY DEF Broken, ReaderErrors
<1> QED BY <1>1, ReaderMoves

LEMMA MovieKept ==
  ASSUME TablesInv, UNCHANGED <<file, movie>>
  PROVE  CursorsOK' /\ (HasChunk(cursor, track_index) => HasChunk(cursor, track_index)')
BY DEF TablesInv, movie, CursorsOK, CursorsIn, HasChunk, Tracks

LEMMA FragmentKept ==
  ASSUME UNCHANGED fragment
  PROVE  (FragmentOK => FragmentOK') /\ (RunOK => RunOK')
BY DEF fragment, FragmentOK, RunOK, TheTraf

(* A step of the demuxer once the file is open. *)
LEMMA Lands ==
  ASSUME TablesInv, UNCHANGED <<file, opened>>, opened,
         FoundOK', ReaderOK', FragmentOK', CursorsOK', pc' \in Places \ {"open"},
         pc' = "sample" => HasChunk(cursor, track_index)',
         pc' \in {"sample", "fragment"} => Ready',
         pc' \in {"check", "take"} => RunOK',
         pc' = "idle" => result' # "OK" \/ reader'.error # "OK" \/ Ready'
  PROVE  TablesInv'
<1>1. file' \in Files /\ opened' = TRUE /\ opened' \in BOOLEAN
  BY DEF TablesInv
<1>2. pc' # "open" /\ pc' \in Places
  OBVIOUS
<1>3. PacketInv'
  BY <1>1, <1>2 DEF PacketInv
<1> QED BY <1>1, <1>2, <1>3 DEF TablesInv

-----------------------------------------------------------------------------
(* The walk over the boxes *)

(* How a step leaves the walk, or goes on with it. *)
Returned ==
  \/ UNCHANGED caller
  \/ /\ pc = "open" /\ pc' = "idle"
     /\ (opened' = TRUE /\ (found_mdat' \/ reader'.error # "OK")) \/ opened' = opened
  \/ pc # "open" /\ pc' \in {"first_run", "next_run"} /\ opened' = opened

LEMMA ReturnsOK ==
  ASSUME InRoot, RootReturns, found_mdat' \/ reader'.error # "OK"
  PROVE  Returned
<1>1. CASE pc = "open"
  BY <1>1 DEF RootReturns, Returned
<1>2. CASE pc # "open"
  BY <1>2 DEF RootReturns, Returned, Go
<1> QED BY <1>1, <1>2

LEMMA ReturnsError ==
  ASSUME InRoot, NEW e, RootFails(e)
  PROVE  Returned
<1>1. CASE pc = "open"
  BY <1>1 DEF RootFails, Fail, Returned
<1>2. CASE pc # "open"
  BY <1>2 DEF RootFails, RootReturns, Returned, Go
<1> QED BY <1>1, <1>2

LEMMA BoxEnds ==
  ASSUME InRoot, AfterBox
  PROVE  Returned
<1>1. CASE found_moov' /\ found_mdat'
  <2>1. RootReturns /\ found_mdat'
    BY <1>1 DEF AfterBox
  <2> QED BY <2>1, ReturnsOK
<1>2. CASE ~(found_moov' /\ found_mdat')
  BY <1>2 DEF AfterBox, Returned
<1> QED BY <1>1, <1>2

LEMMA WalkStep ==
  ASSUME TablesInv, InRoot, UNCHANGED <<file, movie>>, Returned,
         FoundOK', ReaderOK', FragmentOK', found_moof' \/ (moof.trafs = <<>>)' \/ opened
  PROVE  TablesInv'
<1>1. pc \in {"open", "first_root", "next_root"} /\ pc # "idle" /\ opened \in BOOLEAN
  BY DEF InRoot, TablesInv
<1>2. (pc = "open" => ~opened) /\ (pc # "open" => opened)
  BY <1>1 DEF TablesInv, PacketInv
<1>3. CursorsOK' /\ file' \in Files
  BY MovieKept DEF TablesInv
<1>4. CASE UNCHANGED caller
  <2>1. pc' = pc /\ opened' = opened
    BY <1>4 DEF caller
  <2>2. PacketInv' /\ pc' \in Places /\ pc' # "sample" /\ opened' \in BOOLEAN
    BY <2>1, <1>1, <1>2 DEF PacketInv, Places
  <2> QED BY <2>2, <1>3 DEF TablesInv
<1>5. CASE pc = "open" /\ pc' = "idle"
  <2>1. ~opened /\ (found_moof' \/ (moof.trafs = <<>>)')
    BY <1>2, <1>5
  <2>2. CASE opened' = TRUE /\ (found_mdat' \/ reader'.error # "OK")
    <3>1. Ready' \/ reader'.error # "OK"
      BY <2>1, <2>2 DEF Ready
    <3>2. PacketInv' /\ pc' \in Places /\ pc' # "sample" /\ opened' \in BOOLEAN
      BY <3>1, <2>2, <1>5 DEF PacketInv, Places
    <3> QED BY <3>2, <1>3 DEF TablesInv
  <2>3. CASE opened' = opened
    <3>1. ~opened' /\ opened' \in BOOLEAN
      BY <2>1, <2>3, <1>1
    <3>2. PacketInv' /\ pc' \in Places /\ pc' # "sample"
      BY <3>1, <2>1, <1>5 DEF PacketInv, Places
    <3> QED BY <3>1, <3>2, <1>3 DEF TablesInv
  <2>4. UNCHANGED caller => pc' = pc
    BY DEF caller
  <2> QED BY <2>2, <2>3, <2>4, <1>5 DEF Returned
<1>6. CASE pc # "open" /\ pc' \in {"first_run", "next_run"} /\ opened' = opened
  <2>1. opened /\ pc' \in Places \ {"open"} /\ pc' \notin {"sample", "fragment", "check", "take", "idle"}
    BY <1>2, <1>6 DEF Places
  <2>2. UNCHANGED <<file, opened>>
    BY <1>6
  <2> QED BY <2>1, <2>2, <1>3, Lands
<1> QED BY <1>4, <1>5, <1>6 DEF Returned

LEMMA SkipBoxStep ==
  ASSUME TablesInv, ReadMoov \/ SkipBox
  PROVE  TablesInv'
<1>1. InRoot /\ AfterBox /\ reader' = SkippedTo(TheBox.end) /\ UNCHANGED <<file, movie, fragment, found_moof, found_mdat>>
  BY DEF ReadMoov, SkipBox, Box, found
<1>2. Returned /\ ReaderOK' /\ FragmentOK'
  BY <1>1, BoxEnds, ReaderMoves, FragmentKept DEF TablesInv
<1>3. FoundOK'
  BY <1>1 DEF ReadMoov, SkipBox, found, TablesInv, FoundOK
<1>4. found_moof' \/ (moof.trafs = <<>>)' \/ opened
  BY <1>1 DEF TablesInv, PacketInv, fragment
<1> QED BY <1>1, <1>2, <1>3, <1>4, WalkStep

LEMMA DataStep ==
  ASSUME TablesInv, ReadMdat
  PROVE  TablesInv'
<1>1. InRoot /\ found_mdat' = TRUE /\ UNCHANGED <<file, movie, fragment, found_moof, found_moov>>
  BY DEF ReadMdat, Box
<1>2. Returned
  <2>1. CASE found_moov \/ TheBox.size = 0
    <3>1. RootReturns
      BY <2>1 DEF ReadMdat
    <3> QED BY <3>1, <1>1, ReturnsOK
  <2>2. CASE ~(found_moov \/ TheBox.size = 0)
    BY <2>2 DEF ReadMdat, Returned
  <2> QED BY <2>1, <2>2
<1>3. ReaderOK'
  <2>1. ReaderOK
    BY DEF TablesInv
  <2>2. reader' = [reader EXCEPT !.offset = reader.offset + HEADER] \/ reader' = SkippedTo(TheBox.end)
    BY DEF ReadMdat
  <2> QED BY <2>1, <2>2, ReaderMoves
<1>4. FragmentOK' /\ FoundOK'
  BY <1>1, FragmentKept DEF TablesInv, FoundOK
<1>5. found_moof' \/ (moof.trafs = <<>>)' \/ opened
  BY <1>1 DEF TablesInv, PacketInv, fragment
<1> QED BY <1>1, <1>2, <1>3, <1>4, <1>5, WalkStep

LEMMA MoofBoxStep ==
  ASSUME TablesInv, ReadMoof
  PROVE  TablesInv'
<1>1. /\ InRoot /\ AfterBox /\ reader' = SkippedTo(TheBox.end) /\ UNCHANGED <<file, movie, found_moov, found_mdat>>
      /\ found_moof' = TRUE /\ moof' = [start |-> TheBox.start, trafs |-> trafs_of(TheBox)]
  BY DEF ReadMoof, Box
<1>2. TheBox \in file.boxes /\ file \in Files
  BY DEF ReadMoof, Box, TheBox, TablesInv
<1>3. Returned /\ ReaderOK' /\ FoundOK'
  BY <1>1, BoxEnds, ReaderMoves DEF TablesInv, FoundOK
<1>4. FragmentOK'
  <2>1. TheBox.start \in Nat /\ trafs_of(TheBox) \in Seq(Trafs)
    BY <1>2, FileFacts, FragmentType
  <2> QED BY <2>1, <1>1 DEF FragmentOK
<1> QED BY <1>1, <1>3, <1>4, WalkStep

LEMMA MemoryStep ==
  ASSUME TablesInv, MoofNoMemory
  PROVE  TablesInv'
<1>1. /\ InRoot /\ RootFails("XE_ENOMEM") /\ UNCHANGED <<file, movie, found_moov, found_mdat>>
      /\ found_moof' = TRUE
  BY DEF MoofNoMemory, Box
<1>2. TheBox \in file.boxes /\ file \in Files /\ ReaderOK
  BY DEF MoofNoMemory, Box, TheBox, TablesInv
<1>3. PICK p \in Parts(trafs_of(TheBox)) : moof' = [start |-> TheBox.start, trafs |-> p]
  BY DEF MoofNoMemory
<1>4. FragmentOK'
  <2>1. TheBox.start \in Nat /\ trafs_of(TheBox) \in Seq(Trafs)
    BY <1>2, FileFacts, FragmentType
  <2>2. p \in Seq(Trafs)
    BY <2>1, <1>3, PartsType
  <2> QED BY <2>1, <2>2, <1>3 DEF FragmentOK
<1>5. ReaderOK'
  <2>1. \E o : reader' = [reader EXCEPT !.offset = o]
    BY DEF MoofNoMemory
  <2> QED BY <2>1, <1>2, ReaderMoves
<1>6. Returned /\ FoundOK'
  BY <1>1, ReturnsError DEF TablesInv, FoundOK
<1> QED BY <1>1, <1>4, <1>5, <1>6, WalkStep

(* The walk ends without a box. *)
LEMMA WalkEnds ==
  ASSUME TablesInv, NoBox \/ RootStops \/ MoovNoMemory \/ (\E e \in ReaderErrors : RootBreaks(e))
  PROVE  TablesInv'
<1>1. InRoot /\ UNCHANGED <<file, movie, fragment, found_moof, found_mdat>> /\ FoundOK'
  BY DEF NoBox, RootStops, MoovNoMemory, RootBreaks, Box, found, FoundOK, TablesInv
<1>2. FragmentOK' /\ (found_moof' \/ (moof.trafs = <<>>)' \/ opened) /\ ReaderOK
  BY <1>1, FragmentKept DEF TablesInv, PacketInv, fragment
<1>3. Returned /\ ReaderOK'
  <2>1. CASE NoBox
    <3>1. reader' = [reader EXCEPT !.error = "XE_EOF"] /\ RootReturns
      BY <2>1 DEF NoBox
    <3>2. ReaderOK' /\ reader'.error # "OK"
      BY <3>1, <1>2, ReaderMoves
    <3> QED BY <3>1, <3>2, <1>1, ReturnsOK
  <2>2. CASE RootStops \/ MoovNoMemory
    <3>1. UNCHANGED reader /\ \E e : RootFails(e)
      BY <2>2 DEF RootStops, MoovNoMemory
    <3> QED BY <3>1, <1>1, <1>2, ReturnsError, ReaderMoves
  <2>3. ASSUME NEW e \in ReaderErrors, RootBreaks(e) PROVE Returned /\ ReaderOK'
    <3>1. Broken(e) /\ (RootReturns \/ RootFails(e))
      BY <2>3 DEF RootBreaks
    <3>2. ReaderOK' /\ reader'.error # "OK"
      BY <3>1, <1>2, Breaks
    <3> QED BY <3>1, <3>2, <1>1, ReturnsOK, ReturnsError
  <2> QED BY <2>1, <2>2, <2>3
<1> QED BY <1>1, <1>2, <1>3, WalkStep

LEMMA RootStep ==
  ASSUME TablesInv, ReadRoot
  PROVE  TablesInv'
BY SkipBoxStep, DataStep, MoofBoxStep, MemoryStep, WalkEnds DEF ReadRoot

-----------------------------------------------------------------------------
(* The samples of the movie *)

LEMMA CursorFacts ==
  ASSUME file \in Files, NEW c, CursorsIn(c), NEW t \in Tracks
  PROVE  /\ c[t] \in [chunk : Nat, sample : Nat, index : Nat]
         /\ c[t].chunk \in Nat /\ c[t].sample \in Nat /\ c[t].index \in Nat
         /\ Len(file.tracks[t].chunk_offset) \in Nat
         /\ c[t].chunk <= Len(file.tracks[t].chunk_offset)
         /\ HasChunk(c, t) =>
              /\ c[t].chunk < Len(file.tracks[t].chunk_offset)
              /\ c[t].index \in DOMAIN file.tracks[t].sample_chunk
              /\ ChunkOffset(c, t) \in Nat
<1>1. /\ c[t] \in [chunk : Nat, sample : Nat, index : Nat]
      /\ c[t].chunk <= Len(file.tracks[t].chunk_offset)
      /\ file.tracks[t].chunk_offset # <<>> => c[t].index \in DOMAIN file.tracks[t].sample_chunk
  BY DEF CursorsIn
<1>2. c[t].chunk \in Nat /\ c[t].sample \in Nat /\ c[t].index \in Nat
  BY <1>1
<1> DEFINE e == file.tracks[t].chunk_offset  k == c[t].chunk
<1>3. e \in Seq(Nat)
  <2>1. file.tracks[t] \in TrackTables
    BY FileFacts
  <2> QED BY <2>1 DEF TrackTables
<1>4. Len(e) \in Nat
  BY <1>3, LenProperties
<1>5. HasChunk(c, t) => k < Len(e) /\ e # <<>> /\ e[k + 1] \in Nat
  <2> SUFFICES ASSUME HasChunk(c, t) PROVE k < Len(e) /\ e # <<>> /\ e[k + 1] \in Nat
    OBVIOUS
  <2>1. k < Len(e) /\ k \in Nat
    BY <1>2 DEF HasChunk
  <2> HIDE DEF e, k
  <2>2. k + 1 \in 1..Len(e)
    BY <2>1, <1>4
  <2>3. e[k + 1] \in Nat
    BY <2>2, <1>3, ElementOfSeq
  <2>4. Len(e) # 0
    BY <2>1, <1>4
  <2>5. e # <<>>
    BY <2>4, <1>3, EmptySeq
  <2> QED BY <2>1, <2>3, <2>5
<1> QED BY <1>1, <1>2, <1>4, <1>5 DEF ChunkOffset

LEMMA ToChunkEnds ==
  ASSUME ReaderOK, NEW o, ToChunk(o)
  PROVE  /\ UNCHANGED opened /\ ReaderOK' /\ pc' \in {"sample", "fragment", "idle"}
         /\ pc' = "idle" => result' # "OK"
<1>1. ASSUME NEW e \in ReaderErrors, Broken(e), Go("sample") \/ Go("fragment") \/ Fail(e)
      PROVE  /\ UNCHANGED opened /\ ReaderOK' /\ pc' \in {"sample", "fragment", "idle"}
             /\ pc' = "idle" => result' # "OK"
  <2>1. ReaderOK' /\ e # "OK"
    BY <1>1, Breaks
  <2> QED BY <2>1, <1>1 DEF Go, Fail
<1>2. ASSUME Go("sample") \/ Go("fragment"), ReaderOK'
      PROVE  /\ UNCHANGED opened /\ ReaderOK' /\ pc' \in {"sample", "fragment", "idle"}
             /\ pc' = "idle" => result' # "OK"
  BY <1>2 DEF Go
<1>3. CASE o < reader.offset
  <2>1. Go("sample") /\ (reader' = [reader EXCEPT !.offset = o] \/ \E e \in ReaderErrors : Broken(e))
    BY <1>3 DEF ToChunk
  <2> QED BY <2>1, <1>1, <1>2, ReaderMoves
<1>4. CASE ~(o < reader.offset)
  <2>1. \/ reader' = SkippedTo(o) /\ (Go("sample") \/ Go("fragment"))
        \/ \E e \in ReaderErrors : Broken(e) /\ (Go("fragment") \/ Fail(e))
    BY <1>4 DEF ToChunk
  <2> QED BY <2>1, <1>1, <1>2, ReaderMoves
<1> QED BY <1>3, <1>4

LEMMA NextChunk ==
  ASSUME TablesInv, UNCHANGED file, NEW c, CursorsIn(c), moov_next_chunk(c)
  PROVE  /\ UNCHANGED opened /\ ReaderOK' /\ CursorsOK' /\ pc' \in {"sample", "fragment", "idle"}
         /\ pc' = "sample" => HasChunk(cursor, track_index)'
         /\ pc' = "idle" => result' # "OK"
<1> DEFINE left == {t \in Tracks : HasChunk(c, t)}
           offset == [t \in left |-> ChunkOffset(c, t)]
<1>1. file \in Files /\ ReaderOK /\ track_index \in Tracks
  BY DEF TablesInv, CursorsOK
<1>2. cursor' = c /\ UNCHANGED file
  BY DEF moov_next_chunk
<1>3. ASSUME track_index' \in Tracks PROVE CursorsOK'
  <2>1. CursorsIn(c)'
    BY <1>2 DEF CursorsIn, Tracks
  <2> QED BY <2>1, <1>2, <1>3 DEF CursorsOK, CursorsIn, Tracks
<1>4. CASE left = {}
  <2>1. Go("fragment") /\ UNCHANGED <<reader, track_index>>
    BY <1>4 DEF moov_next_chunk
  <2> QED BY <2>1, <1>1, <1>2, <1>3, ReaderMoves DEF Go, Tracks
<1>5. CASE left # {}
  <2>1. track_index' = Nearest(offset) /\ ToChunk(offset[track_index'])
    BY <1>5 DEF moov_next_chunk
  <2>2. Nearest(offset) \in left
    <3> DEFINE n == Len(file.tracks)
    <3>1. n \in Nat /\ Tracks = 1..n
      BY <1>1, FileFacts
    <3>2. \A t \in left : offset[t] \in Int
      BY <1>1, CursorFacts
    <3>3. DOMAIN offset = left /\ left \subseteq 1..n
      BY <3>1
    <3> HIDE DEF left, offset, n
    <3> QED BY <1>5, <3>1, <3>2, <3>3, NearestIsOne
  <2>3. track_index' \in Tracks /\ HasChunk(c, track_index')
    BY <2>1, <2>2
  <2>4. HasChunk(cursor, track_index)'
    BY <2>3, <1>2 DEF HasChunk
  <2> HIDE DEF offset, left
  <2>5. track_index' \in Tracks'
    BY <2>3, <1>2 DEF Tracks
  <2> QED BY <2>1, <2>3, <2>4, <1>1, <1>3, ToChunkEnds
<1> QED BY <1>4, <1>5

LEMMA AdvancedIn ==
  ASSUME file \in Files, CursorsIn(cursor), NEW t \in Tracks, HasChunk(cursor, t)
  PROVE  CursorsIn(Advanced(t))
<1> DEFINE e == file.tracks[t].sample_chunk
           next == cursor[t].index < Len(e) /\ cursor[t].chunk + 2 >= e[cursor[t].index + 1].first
           k == cursor[t].chunk + 1
           i == IF next THEN cursor[t].index + 1 ELSE cursor[t].index
           x == [cursor[t] EXCEPT !.chunk = k, !.index = i]
<1>1. /\ cursor[t] \in [chunk : Nat, sample : Nat, index : Nat]
      /\ cursor[t].chunk \in Nat /\ cursor[t].index \in Nat
      /\ Len(file.tracks[t].chunk_offset) \in Nat
      /\ cursor[t].chunk < Len(file.tracks[t].chunk_offset)
      /\ cursor[t].index \in DOMAIN e
  BY CursorFacts
<1>2. cursor \in [Tracks -> [chunk : Nat, sample : Nat, index : Nat]]
  BY DEF CursorsIn
<1>3. Advanced(t) = [cursor EXCEPT ![t] = x]
  BY <1>1, <1>2 DEF Advanced
<1>4. k \in Nat /\ k <= Len(file.tracks[t].chunk_offset)
  <2> DEFINE n == Len(file.tracks[t].chunk_offset)  c == cursor[t].chunk
  <2>1. n \in Nat /\ c \in Nat /\ c < n
    BY <1>1
  <2> HIDE DEF n, c
  <2>2. c + 1 \in Nat /\ c + 1 <= n
    BY <2>1
  <2> QED BY <2>2 DEF n, c
<1>5. i \in Nat /\ i \in DOMAIN e
  <2>1. e \in Seq([first : Nat, count : Nat])
    <3>1. file.tracks[t] \in TrackTables
      BY FileFacts
    <3> QED BY <3>1 DEF TrackTables
  <2>2. Len(e) \in Nat /\ DOMAIN e = 1..Len(e)
    BY <2>1, LenProperties
  <2>3. CASE next
    <3> DEFINE n == Len(e)  j == cursor[t].index
    <3>1. j < n /\ n \in Nat /\ j \in 1..n /\ i = j + 1
      BY <2>2, <2>3, <1>1
    <3>2. DOMAIN e = 1..n
      BY <2>2
    <3> HIDE DEF n, j, i, e
    <3> QED BY <3>1, <3>2
  <2>4. CASE ~next
    BY <2>4, <1>1
  <2> QED BY <2>3, <2>4
<1> HIDE DEF k, i
<1>6. x \in [chunk : Nat, sample : Nat, index : Nat] /\ x.chunk = k /\ x.index = i
  BY <1>1, <1>4, <1>5
<1> HIDE DEF x
<1>7. Advanced(t) \in [Tracks -> [chunk : Nat, sample : Nat, index : Nat]]
  BY <1>2, <1>3, <1>6
<1>8. ASSUME NEW u \in Tracks
      PROVE  /\ Advanced(t)[u].chunk <= Len(file.tracks[u].chunk_offset)
             /\ file.tracks[u].chunk_offset # <<>> =>
                  Advanced(t)[u].index \in DOMAIN file.tracks[u].sample_chunk
  <2>1. CASE u = t
    <3>1. Advanced(t)[u] = x
      BY <2>1, <1>2, <1>3
    <3> QED BY <3>1, <2>1, <1>4, <1>5, <1>6
  <2>2. CASE u # t
    <3>1. Advanced(t)[u] = cursor[u]
      BY <2>2, <1>2, <1>3
    <3> QED BY <3>1 DEF CursorsIn
  <2> QED BY <2>1, <2>2
<1> QED BY <1>7, <1>8 DEF CursorsIn

LEMMA IdleFacts ==
  ASSUME TablesInv, Reading, reader.error = "OK"
  PROVE  opened /\ Ready
BY DEF TablesInv, PacketInv, Reading

(* What moov_next_sample() leaves alone. *)
LEMMA MovieStep ==
  ASSUME TablesInv, opened, Ready, UNCHANGED <<file, opened, found, fragment>>,
         ReaderOK', CursorsOK', pc' \in {"sample", "fragment", "idle"},
         pc' = "sample" => HasChunk(cursor, track_index)',
         pc' = "idle" => result' # "OK" \/ Ready
  PROVE  TablesInv'
<1>1. FoundOK' /\ FragmentOK' /\ Ready'
  BY FragmentKept DEF TablesInv, FoundOK, found, Ready, fragment
<1>2. pc' \in Places \ {"open"} /\ pc' \notin {"check", "take"}
  BY DEF Places
<1> QED BY <1>1, <1>2, Lands

LEMMA IndexStep ==
  ASSUME TablesInv, BuildIndex
  PROVE  TablesInv'
<1>1. moov_next_chunk(cursor) /\ UNCHANGED <<file, found, fragment>> /\ opened /\ Ready
  BY IdleFacts DEF BuildIndex
<1>2. CursorsIn(cursor)
  BY DEF TablesInv, CursorsOK
<1>3. /\ UNCHANGED opened /\ ReaderOK' /\ CursorsOK' /\ pc' \in {"sample", "fragment", "idle"}
      /\ pc' = "sample" => HasChunk(cursor, track_index)'
      /\ pc' = "idle" => result' # "OK"
  <2> DEFINE c == cursor
  <2>1. CursorsIn(c) /\ moov_next_chunk(c) /\ UNCHANGED file
    BY <1>1, <1>2
  <2> HIDE DEF c
  <2> QED BY <2>1, NextChunk
<1>4. UNCHANGED <<file, opened, found, fragment>>
  BY <1>1, <1>3
<1> QED BY <1>1, <1>3, <1>4, MovieStep

LEMMA NextSampleStep ==
  ASSUME TablesInv, NextSample
  PROVE  TablesInv'
<1>1. UNCHANGED <<file, built_index, found, fragment>> /\ opened /\ Ready
  BY IdleFacts DEF NextSample
<1>2. file \in Files /\ CursorsIn(cursor) /\ track_index \in Tracks /\ ReaderOK
  BY DEF TablesInv, CursorsOK
<1>3. CASE HasChunk(cursor, track_index) /\ ~(cursor[track_index].sample < sample_end(track_index))
  <2>1. moov_next_chunk(Advanced(track_index))
    BY <1>3 DEF NextSample
  <2>2. CursorsIn(Advanced(track_index))
    BY <1>2, <1>3, AdvancedIn
  <2>3. UNCHANGED file
    BY <1>1
  <2> HIDE DEF Advanced
  <2>4. /\ UNCHANGED opened /\ ReaderOK' /\ CursorsOK' /\ pc' \in {"sample", "fragment", "idle"}
        /\ pc' = "sample" => HasChunk(cursor, track_index)'
        /\ pc' = "idle" => result' # "OK"
    BY <2>1, <2>2, <2>3, NextChunk
  <2>5. UNCHANGED <<file, opened, found, fragment>>
    BY <1>1, <2>4
  <2> QED BY <1>1, <2>4, <2>5, MovieStep
<1>4. CASE ~(HasChunk(cursor, track_index) /\ ~(cursor[track_index].sample < sample_end(track_index)))
  <2>1. /\ UNCHANGED <<reader, cursor, track_index>>
        /\ Go("fragment") \/ (HasChunk(cursor, track_index) /\ Go("sample"))
    BY <1>4 DEF NextSample
  <2>2. UNCHANGED <<file, movie>>
    BY <1>1, <2>1 DEF movie
  <2>3. ReaderOK'
    BY <2>1, <1>2, ReaderMoves
  <2>4. /\ UNCHANGED opened /\ pc' \in {"sample", "fragment"}
        /\ pc' = "sample" => HasChunk(cursor, track_index)
    BY <2>1 DEF Go
  <2>5. CursorsOK' /\ (pc' = "sample" => HasChunk(cursor, track_index)')
    BY <2>2, <2>4, MovieKept
  <2>6. UNCHANGED <<file, opened, found, fragment>> /\ pc' \in {"sample", "fragment", "idle"} /\ pc' # "idle"
    BY <1>1, <2>4
  <2> QED BY <1>1, <2>3, <2>5, <2>6, MovieStep
<1> QED BY <1>3, <1>4

LEMMA DeliverEnds ==
  ASSUME ReaderOK, NEW t, NEW size, NEW time, NEW duration, Deliver(t, size, time, duration)
  PROVE  UNCHANGED opened /\ ReaderOK' /\ pc' = "idle"
<1>1. CASE Fail("XE_ENOMEM") /\ UNCHANGED <<reader, output, failure>>
  BY <1>1, ReaderMoves DEF Fail
<1>2. CASE Fail(reader.error) /\ UNCHANGED <<reader, output, failure>>
  BY <1>2, ReaderMoves DEF Fail
<1>3. ASSUME NEW e \in ReaderErrors, Broken(e), Fail(e) PROVE UNCHANGED opened /\ ReaderOK' /\ pc' = "idle"
  BY <1>3, Breaks DEF Fail
<1>4. CASE reader' = [reader EXCEPT !.offset = reader.offset + size] /\ Go("idle")
  BY <1>4, ReaderMoves DEF Go
<1>5. Deliver(t, size, time, duration) =>
        \/ Fail("XE_ENOMEM") /\ UNCHANGED <<reader, output, failure>>
        \/ Fail(reader.error) /\ UNCHANGED <<reader, output, failure>>
        \/ \E e \in ReaderErrors : Broken(e) /\ Fail(e)
        \/ reader' = [reader EXCEPT !.offset = reader.offset + size] /\ Go("idle")
  BY DEF Deliver
<1> HIDE DEF Deliver
<1> QED BY <1>1, <1>2, <1>3, <1>4, <1>5

LEMMA TakeSampleStep ==
  ASSUME TablesInv, TakeSample
  PROVE  TablesInv'
<1>1. /\ file \in Files /\ CursorsIn(cursor) /\ track_index \in Tracks /\ ReaderOK /\ pc = "sample"
      /\ opened /\ Ready /\ UNCHANGED <<file, found, fragment, built_index, track_index>>
  BY DEF TablesInv, CursorsOK, PacketInv, TakeSample
<1>2. /\ FoundOK' /\ FragmentOK' /\ Ready'
  BY <1>1, FragmentKept DEF TablesInv, FoundOK, found, Ready, fragment
<1>3. \/ Go("hung") /\ UNCHANGED <<reader, cursor>>
      \/ /\ cursor' = [cursor EXCEPT ![track_index].sample = @ + 1]
         /\ \E size, time, duration : Deliver(track_index, size, time, duration)
  BY DEF TakeSample
<1>4. CASE Go("hung") /\ UNCHANGED <<reader, cursor>>
  <2>1. UNCHANGED <<file, movie>> /\ UNCHANGED opened /\ pc' = "hung"
    BY <1>1, <1>4 DEF movie, Go
  <2>2. ReaderOK' /\ CursorsOK' /\ pc' \in Places \ {"open"}
    BY <2>1, <1>1, <1>4, MovieKept, ReaderMoves DEF Places
  <2> QED BY <1>1, <1>2, <2>1, <2>2, Lands
<1>5. CASE /\ cursor' = [cursor EXCEPT ![track_index].sample = @ + 1]
           /\ \E size, time, duration : Deliver(track_index, size, time, duration)
  <2>1. UNCHANGED opened /\ ReaderOK' /\ pc' = "idle"
    BY <1>1, <1>5, DeliverEnds
  <2>2. cursor \in [Tracks -> [chunk : Nat, sample : Nat, index : Nat]]
    BY <1>1 DEF CursorsIn
  <2>3. cursor' \in [Tracks -> [chunk : Nat, sample : Nat, index : Nat]]
        /\ \A t \in Tracks : cursor'[t].chunk = cursor[t].chunk /\ cursor'[t].index = cursor[t].index
    BY <2>2, <1>1, <1>5
  <2>4. CursorsIn(cursor')
    BY <2>3, <1>1 DEF CursorsIn
  <2>5. CursorsOK'
    BY <2>4, <1>1 DEF CursorsOK, CursorsIn, Tracks
  <2>6. pc' \in Places \ {"open"} /\ pc' \notin {"sample", "fragment", "check", "take"}
    BY <2>1 DEF Places
  <2> QED BY <1>1, <1>2, <2>1, <2>5, <2>6, Lands
<1> QED BY <1>3, <1>4, <1>5

-----------------------------------------------------------------------------
(* The runs of the fragments *)

LEMMA SeekCases ==
  ASSUME NEW trafs, SeekRun(trafs),
         NEW l, l = {k \in DOMAIN trafs : trafs[k].run_index <= Len(trafs[k].runs)},
         NEW o, o = [k \in l |-> trafs[k].runs[trafs[k].run_index].data_offset]
  PROVE  IF l = {}
           THEN /\ reader' = SkippedTo(mdat_end)
                /\ Go(IF pc = "first_run" THEN "first_root" ELSE "next_root")
           ELSE /\ traf_index' = Nearest(o)
                /\ \/ Fail("XE_INVALID_DATA") /\ UNCHANGED reader
                   \/ /\ reader' = SkippedTo(o[Nearest(o)])
                      /\ IF reader'.error # "OK" THEN Fail(reader'.error)
                         ELSE Go(IF pc = "first_run" THEN "check" ELSE "take")
                   \/ \E e \in ReaderErrors : Broken(e) /\ Fail(e)
BY Zenon DEF SeekRun

LEMMA SeekEnds ==
  ASSUME ReaderOK, InRun, NEW trafs \in Seq(Trafs), (moof.trafs)' = trafs, SeekRun(trafs)
  PROVE  /\ UNCHANGED opened /\ ReaderOK'
         /\ pc' \in {"first_root", "next_root", "idle", "check", "take"}
         /\ pc' \in {"check", "take"} => RunOK'
         /\ pc' = "idle" => result' # "OK"
<1> DEFINE left == {k \in DOMAIN trafs : trafs[k].run_index <= Len(trafs[k].runs)}
           offset == [k \in left |-> trafs[k].runs[trafs[k].run_index].data_offset]
           nearest == Nearest(offset)
<1>0. IF left = {}
        THEN /\ reader' = SkippedTo(mdat_end)
             /\ Go(IF pc = "first_run" THEN "first_root" ELSE "next_root")
        ELSE /\ traf_index' = nearest
             /\ \/ Fail("XE_INVALID_DATA") /\ UNCHANGED reader
                \/ /\ reader' = SkippedTo(offset[nearest])
                   /\ IF reader'.error # "OK" THEN Fail(reader'.error)
                      ELSE Go(IF pc = "first_run" THEN "check" ELSE "take")
                \/ \E e \in ReaderErrors : Broken(e) /\ Fail(e)
  BY Zenon, SeekCases
<1>1. CASE left = {}
  <2>1. reader' = SkippedTo(mdat_end) /\ (Go("first_root") \/ Go("next_root"))
    <3>1. reader' = SkippedTo(mdat_end) /\ Go(IF pc = "first_run" THEN "first_root" ELSE "next_root")
      BY Zenon, <1>1, <1>0
    <3> QED BY <3>1 DEF Go
  <2>2. ReaderOK'
    BY <2>1, ReaderMoves
  <2> QED BY <2>1, <2>2 DEF Go
<1>2. CASE left # {}
  <2> DEFINE n == Len(trafs)
  <2>1. /\ n \in Nat /\ DOMAIN trafs = 1..n /\ left \subseteq 1..n
        /\ \A k \in left : trafs[k].run_index \in DOMAIN trafs[k].runs
    <3>1. n \in Nat /\ DOMAIN trafs = 1..n
      BY TrafFacts
    <3>2. ASSUME NEW k \in left PROVE trafs[k].run_index \in DOMAIN trafs[k].runs
      <4> DEFINE i == trafs[k].run_index  m == Len(trafs[k].runs)
      <4>1. i <= m /\ i \in Nat \ {0} /\ m \in Nat /\ DOMAIN trafs[k].runs = 1..m
        BY <3>1, TrafFacts
      <4> HIDE DEF i, m
      <4>2. i \in 1..m
        BY <4>1
      <4> QED BY <4>1, <4>2 DEF i
    <3> QED BY <3>1, <3>2
  <2>2. ASSUME NEW k \in left PROVE offset[k] \in Int
    <3> DEFINE i == trafs[k].run_index
    <3>1. i \in DOMAIN trafs[k].runs /\ k \in 1..n
      BY <2>1
    <3>2. trafs[k].runs[i] \in Runs
      BY <3>1, TrafFacts
    <3>3. trafs[k].runs[i].data_offset \in Int
      BY <3>2 DEF Runs
    <3> QED BY <3>3
  <2>3. nearest \in left
    <3>1. DOMAIN offset = left
      OBVIOUS
    <3> HIDE DEF left, offset, n
    <3>2. DOMAIN offset \subseteq 1..n /\ DOMAIN offset # {} /\ n \in Nat
      BY <3>1, <2>1, <1>2
    <3>3. \A k \in DOMAIN offset : offset[k] \in Int
      BY <3>1, <2>2
    <3>4. Nearest(offset) \in DOMAIN offset
      BY <3>2, <3>3, NearestIsOne
    <3> QED BY <3>1, <3>4
  <2>4. /\ traf_index' = nearest
        /\ \/ Fail("XE_INVALID_DATA") /\ UNCHANGED reader
           \/ /\ reader' = SkippedTo(offset[nearest])
              /\ (reader'.error # "OK" /\ Fail(reader'.error)) \/ Go("check") \/ Go("take")
           \/ \E e \in ReaderErrors : Broken(e) /\ Fail(e)
    <3>1. /\ traf_index' = nearest
          /\ \/ Fail("XE_INVALID_DATA") /\ UNCHANGED reader
             \/ /\ reader' = SkippedTo(offset[nearest])
                /\ IF reader'.error # "OK" THEN Fail(reader'.error)
                   ELSE Go(IF pc = "first_run" THEN "check" ELSE "take")
             \/ \E e \in ReaderErrors : Broken(e) /\ Fail(e)
      BY Zenon, <1>2, <1>0
    <3> HIDE DEF nearest, offset
    <3> QED BY <3>1 DEF Go
  <2> HIDE DEF nearest, offset
  <2>5. RunOK'
    <3>1. traf_index' = nearest /\ nearest \in DOMAIN trafs /\ trafs[nearest].run_index \in DOMAIN trafs[nearest].runs
      BY <2>1, <2>3, <2>4
    <3> HIDE DEF left
    <3> QED BY <3>1 DEF RunOK, TheTraf
  <2> HIDE DEF left
  <2>6. CASE Fail("XE_INVALID_DATA") /\ UNCHANGED reader
    BY <2>6, ReaderMoves DEF Fail
  <2>7. CASE /\ reader' = SkippedTo(offset[nearest])
             /\ (reader'.error # "OK" /\ Fail(reader'.error)) \/ Go("check") \/ Go("take")
    BY <2>5, <2>7, ReaderMoves DEF Fail, Go
  <2>8. ASSUME NEW e \in ReaderErrors, Broken(e), Fail(e)
        PROVE  UNCHANGED opened /\ ReaderOK' /\ pc' = "idle" /\ result' # "OK"
    <3>1. ReaderOK' /\ e # "OK"
      BY <2>8, Breaks
    <3> QED BY <3>1, <2>8 DEF Fail
  <2> QED BY <2>4, <2>6, <2>7, <2>8
<1> QED BY <1>1, <1>2

(* A step among the fragments. *)
LEMMA FragmentStep ==
  ASSUME TablesInv, opened, UNCHANGED <<file, movie, opened>>, FoundOK', ReaderOK', FragmentOK',
         pc' \in Places \ {"open", "sample", "fragment"},
         pc' \in {"check", "take"} => RunOK',
         pc' = "idle" => result' # "OK" \/ Ready'
  PROVE  TablesInv'
<1>1. CursorsOK'
  BY MovieKept
<1>2. pc' # "sample" /\ pc' # "fragment" /\ pc' \in Places \ {"open"} /\ UNCHANGED <<file, opened>>
  OBVIOUS
<1> QED BY <1>1, <1>2, Lands

LEMMA NewMoofStep ==
  ASSUME TablesInv, NewMoof
  PROVE  TablesInv'
<1>1. /\ InRun /\ ReaderOK /\ FragmentOK /\ UNCHANGED <<file, found_moov, movie>>
      /\ found_moof' = FALSE /\ found_mdat' = FALSE /\ opened
  BY DEF NewMoof, InRun, TablesInv, PacketInv
<1>2. FoundOK'
  BY <1>1 DEF TablesInv, FoundOK
<1>3. Placed \in Seq(Trafs)
  BY <1>1, PlacedType DEF FragmentOK
<1>4. CASE moof' = [moof EXCEPT !.trafs = Placed] /\ SeekRun(Placed)
  <2> DEFINE p == Placed
  <2>1. p \in Seq(Trafs) /\ moof' = [moof EXCEPT !.trafs = p] /\ SeekRun(p)
    BY <1>3, <1>4
  <2> HIDE DEF p
  <2>2. moof' = [start |-> moof.start, trafs |-> p] /\ moof.start \in Nat
    BY <2>1, <1>1 DEF FragmentOK
  <2>3. FragmentOK' /\ (moof.trafs)' = p
    BY <2>1, <2>2 DEF FragmentOK
  <2>4. /\ UNCHANGED opened /\ ReaderOK'
        /\ pc' \in {"first_root", "next_root", "idle", "check", "take"}
        /\ pc' \in {"check", "take"} => RunOK'
        /\ pc' = "idle" => result' # "OK"
    BY <1>1, <2>1, <2>3, SeekEnds
  <2>5. pc' \in Places \ {"open", "sample", "fragment"}
    BY <2>4 DEF Places
  <2>6. UNCHANGED <<file, movie, opened>>
    BY <1>1, <2>4
  <2> QED BY <1>1, <1>2, <2>3, <2>4, <2>5, <2>6, FragmentStep
<1>5. CASE Fail("XE_INVALID_DATA") /\ UNCHANGED <<moof, reader, traf_index, failure>>
  <2>1. UNCHANGED opened /\ pc' = "idle" /\ result' # "OK"
    BY <1>5 DEF Fail
  <2>2. ReaderOK' /\ FragmentOK'
    BY <1>1, <1>5, ReaderMoves DEF FragmentOK
  <2>3. pc' \in Places \ {"open", "sample", "fragment"} /\ pc' \notin {"check", "take"}
    BY <2>1 DEF Places
  <2>4. UNCHANGED <<file, movie, opened>>
    BY <1>1, <2>1
  <2> QED BY <1>1, <1>2, <2>1, <2>2, <2>3, <2>4, FragmentStep
<1>6. \/ moof' = [moof EXCEPT !.trafs = Placed] /\ SeekRun(Placed)
      \/ Fail("XE_INVALID_DATA") /\ UNCHANGED <<moof, reader, traf_index, failure>>
  <2> HIDE DEF Placed, SeekRun
  <2> QED BY DEF NewMoof
<1> QED BY <1>4, <1>5, <1>6

LEMMA SameMoofStep ==
  ASSUME TablesInv, SameMoof
  PROVE  TablesInv'
<1>1. /\ InRun /\ ReaderOK /\ FragmentOK /\ UNCHANGED <<file, found, movie, moof>> /\ SeekRun(moof.trafs)
      /\ opened
  BY DEF SameMoof, InRun, TablesInv, PacketInv
<1>2. FoundOK' /\ FragmentOK'
  BY <1>1 DEF TablesInv, FoundOK, FragmentOK, found
<1>3. moof.trafs \in Seq(Trafs) /\ (moof.trafs)' = moof.trafs
  BY <1>1 DEF FragmentOK
<1>4. /\ UNCHANGED opened /\ ReaderOK'
      /\ pc' \in {"first_root", "next_root", "idle", "check", "take"}
      /\ pc' \in {"check", "take"} => RunOK'
      /\ pc' = "idle" => result' # "OK"
  BY <1>1, <1>3, SeekEnds
<1>5. pc' \in Places \ {"open", "sample", "fragment"}
  BY <1>4 DEF Places
<1>6. UNCHANGED <<file, movie, opened>>
  BY <1>1, <1>4
<1> QED BY <1>1, <1>2, <1>4, <1>5, <1>6, FragmentStep

LEMMA NoRunStep ==
  ASSUME TablesInv, NoRun
  PROVE  TablesInv'
<1>1. /\ InRun /\ ReaderOK /\ UNCHANGED <<file, found, movie, fragment, reader, opened>>
      /\ pc' = "idle" /\ result' # "OK" /\ opened
  BY DEF NoRun, InRun, TablesInv, PacketInv, Fail
<1>2. FoundOK' /\ FragmentOK' /\ ReaderOK'
  BY <1>1, FragmentKept, ReaderMoves DEF TablesInv, FoundOK, found
<1>3. pc' \in Places \ {"open", "sample", "fragment"} /\ pc' \notin {"check", "take"}
  BY <1>1 DEF Places
<1>4. UNCHANGED <<file, movie, opened>>
  BY <1>1
<1> QED BY <1>1, <1>2, <1>3, <1>4, FragmentStep

LEMMA ReadFragmentStep ==
  ASSUME TablesInv, ReadFragment
  PROVE  TablesInv'
<1>1. /\ ReaderOK /\ UNCHANGED <<file, found, movie, fragment, reader>> /\ opened /\ Ready
  BY DEF ReadFragment, TablesInv, PacketInv
<1>2. FoundOK' /\ FragmentOK' /\ ReaderOK' /\ (RunOK => RunOK')
  BY <1>1, FragmentKept, ReaderMoves DEF TablesInv, FoundOK, found
<1>3. \/ Go("first_run")
      \/ Fail("XE_EOF")
      \/ Go("check") /\ RunOK
  BY <1>1 DEF ReadFragment, Ready
<1>4. /\ UNCHANGED opened /\ pc' \in {"first_run", "idle", "check"}
      /\ pc' = "check" => RunOK'
      /\ pc' = "idle" => result' # "OK"
  BY <1>2, <1>3 DEF Go, Fail
<1>5. pc' \in Places \ {"open", "sample", "fragment"} /\ pc' # "take"
  BY <1>4 DEF Places
<1>6. UNCHANGED <<file, movie, opened>>
  BY <1>1, <1>4
<1> QED BY <1>1, <1>2, <1>4, <1>5, <1>6, FragmentStep

(* A track fragment is replaced. *)
LEMMA TrafReplaced ==
  ASSUME FragmentOK, RunOK, NEW x \in Trafs, moof' = [moof EXCEPT !.trafs[traf_index] = x]
  PROVE  /\ FragmentOK' /\ (moof.trafs)' # <<>>
         /\ UNCHANGED traf_index /\ x.run_index \in DOMAIN x.runs => RunOK'
<1> DEFINE s == [moof.trafs EXCEPT ![traf_index] = x]
<1>1. moof.start \in Nat /\ moof.trafs \in Seq(Trafs) /\ traf_index \in DOMAIN moof.trafs
  BY DEF FragmentOK, RunOK
<1>2. moof' = [start |-> moof.start, trafs |-> s]
  BY DEF FragmentOK
<1>3. s \in Seq(Trafs) /\ s[traf_index] = x /\ DOMAIN s = DOMAIN moof.trafs
  <2>1. traf_index \in 1..Len(moof.trafs)
    BY <1>1, LenProperties
  <2> QED BY <2>1, <1>1, ExceptSeq
<1> HIDE DEF s
<1>4. FragmentOK'
  <2>1. (moof.trafs)' = s /\ (moof.start)' = moof.start
    BY <1>2
  <2>2. moof' = [start |-> (moof.start)', trafs |-> (moof.trafs)']
    BY <1>2, <2>1
  <2> QED BY <1>1, <1>3, <2>1, <2>2 DEF FragmentOK
<1>5. s # <<>>
  BY <1>1, <1>3
<1>6. ASSUME UNCHANGED traf_index, x.run_index \in DOMAIN x.runs PROVE RunOK'
  BY <1>1, <1>2, <1>3, <1>6 DEF RunOK, TheTraf
<1> QED BY <1>2, <1>4, <1>5, <1>6

LEMMA TheTrafFacts ==
  ASSUME FragmentOK, RunOK
  PROVE  /\ TheTraf \in Trafs /\ TheTraf.runs \in Seq(Runs) /\ TheTraf.run_index \in Nat \ {0}
         /\ DOMAIN TheTraf.runs = 1..Len(TheTraf.runs) /\ Len(TheTraf.runs) \in Nat
         /\ TheTraf.run_index \in DOMAIN TheTraf.runs
         /\ TheTraf.runs[TheTraf.run_index] \in Runs
<1>1. moof.trafs \in Seq(Trafs) /\ traf_index \in DOMAIN moof.trafs /\ TheTraf.run_index \in DOMAIN TheTraf.runs
  BY DEF FragmentOK, RunOK
<1>2. traf_index \in 1..Len(moof.trafs)
  BY <1>1, TrafFacts
<1> QED BY <1>1, <1>2, TrafFacts DEF TheTraf

LEMMA CheckRunStep ==
  ASSUME TablesInv, CheckRun
  PROVE  TablesInv'
<1>1. /\ ReaderOK /\ FragmentOK /\ UNCHANGED <<file, found, movie, reader, traf_index>> /\ opened /\ RunOK
  BY DEF CheckRun, TablesInv, PacketInv
<1>2. FoundOK' /\ ReaderOK'
  BY <1>1, ReaderMoves DEF TablesInv, FoundOK, found
<1> DEFINE x == [TheTraf EXCEPT !.run_index = TheTraf.run_index + 1]
<1>3. CASE moof' = [moof EXCEPT !.trafs[traf_index].run_index = @ + 1] /\ Go("next_run")
  <2>1. TheTraf \in Trafs /\ TheTraf.run_index \in Nat
    BY <1>1, TheTrafFacts
  <2>2. x \in Trafs
    BY <2>1 DEF Trafs
  <2>3. moof' = [moof EXCEPT !.trafs[traf_index] = x]
    BY <1>3 DEF TheTraf
  <2>4. FragmentOK'
    BY <1>1, <2>2, <2>3, TrafReplaced
  <2>5. pc' \in Places \ {"open", "sample", "fragment"} /\ pc' \notin {"check", "take", "idle"} /\ UNCHANGED opened
    BY <1>3 DEF Places, Go
  <2>6. UNCHANGED <<file, movie, opened>>
    BY <1>1, <2>5
  <2> QED BY <1>1, <1>2, <2>4, <2>5, <2>6, FragmentStep
<1>4. CASE Go("take") /\ UNCHANGED moof
  <2>1. FragmentOK' /\ RunOK'
    BY <1>1, <1>4, FragmentKept DEF fragment
  <2>2. pc' \in Places \ {"open", "sample", "fragment"} /\ pc' # "idle" /\ UNCHANGED opened
    BY <1>4 DEF Places, Go
  <2>3. UNCHANGED <<file, movie, opened>>
    BY <1>1, <2>2
  <2> QED BY <1>1, <1>2, <2>1, <2>2, <2>3, FragmentStep
<1> QED BY <1>3, <1>4 DEF CheckRun

LEMMA RunCounted ==
  ASSUME NEW u \in Runs
  PROVE  [u EXCEPT !.current_sample = u.current_sample + 1] \in Runs
<1>1. u.current_sample \in Nat
  BY DEF Runs
<1> DEFINE n == u.current_sample + 1
<1>2. n \in Nat
  BY <1>1
<1>3. [u EXCEPT !.current_sample = n] =
        [data_offset |-> u.data_offset, total_sample_size |-> u.total_sample_size,
         sample_count |-> u.sample_count, sample_duration |-> u.sample_duration,
         sample_size |-> u.sample_size, current_sample |-> n]
  <2> DEFINE names == {"data_offset", "total_sample_size", "sample_count", "sample_duration",
                       "sample_size", "current_sample"}
  <2>1. DOMAIN u = names /\ u = [f \in names |-> u[f]]
    BY DEF Runs
  <2> HIDE DEF n
  <2> QED BY <2>1
<1> HIDE DEF n
<1>4. [u EXCEPT !.current_sample = n] \in Runs
  BY <1>2, <1>3 DEF Runs
<1> QED BY <1>4 DEF n

LEMMA RunTaken ==
  ASSUME TakeFromRun
  PROVE  /\ pc = "take" /\ UNCHANGED <<file, found, mdat, movie, traf_index>>
         /\ moof' = [moof EXCEPT !.trafs[traf_index].runs[TheTraf.run_index].current_sample = @ + 1]
         /\ \E t, size, time, duration : Deliver(t, size, time, duration)
<1>1. pc = "take" /\ UNCHANGED <<file, found, mdat, movie, traf_index>>
  BY Zenon DEF TakeFromRun
<1>2. moof' = [moof EXCEPT !.trafs[traf_index].runs[TheTraf.run_index].current_sample = @ + 1]
  BY Zenon DEF TakeFromRun
<1>3. \E t, size, time, duration : Deliver(t, size, time, duration)
  BY Zenon DEF TakeFromRun
<1> QED BY <1>1, <1>2, <1>3

LEMMA TakeFromRunStep ==
  ASSUME TablesInv, TakeFromRun
  PROVE  TablesInv'
<1> DEFINE i == TheTraf.run_index
           r == [TheTraf.runs[i] EXCEPT !.current_sample = TheTraf.runs[i].current_sample + 1]
           s == [TheTraf.runs EXCEPT ![i] = r]
           x == [TheTraf EXCEPT !.runs = s]
<1>1. /\ ReaderOK /\ FragmentOK /\ UNCHANGED <<file, found, movie, traf_index>> /\ opened /\ RunOK
  BY RunTaken DEF TablesInv, PacketInv
<1>2. /\ moof' = [moof EXCEPT !.trafs[traf_index].runs[i].current_sample = @ + 1]
      /\ \E t, size, time, duration : Deliver(t, size, time, duration)
  BY RunTaken
<1>3. UNCHANGED opened /\ ReaderOK' /\ pc' = "idle"
  BY <1>1, <1>2, DeliverEnds
<1>4. FoundOK'
  BY <1>1 DEF TablesInv, FoundOK, found
<1>5. /\ TheTraf \in Trafs /\ TheTraf.runs \in Seq(Runs) /\ i \in 1..Len(TheTraf.runs)
      /\ i \in DOMAIN TheTraf.runs /\ TheTraf.runs[i] \in Runs
  BY <1>1, TheTrafFacts
<1>6. r \in Runs
  BY <1>5, RunCounted
<1>7. s \in Seq(Runs) /\ i \in DOMAIN s
  <2> HIDE DEF r, i
  <2> QED BY <1>5, <1>6, ExceptSeq
<1>8. x \in Trafs /\ x.run_index = i /\ x.runs = s
  <2>1. x \in Trafs /\ x.runs = s
    <3> HIDE DEF s, i
    <3> QED BY <1>5, <1>7, OtherRuns
  <2>2. x.run_index = i
    <3> HIDE DEF s
    <3> QED BY <1>5 DEF Trafs
  <2> QED BY <2>1, <2>2
<1>9. moof' = [moof EXCEPT !.trafs[traf_index] = x]
  BY <1>2 DEF TheTraf
<1>10. FragmentOK' /\ RunOK'
  <2>1. x.run_index \in DOMAIN x.runs /\ UNCHANGED traf_index
    BY <1>1, <1>7, <1>8
  <2> HIDE DEF x
  <2> QED BY <2>1, <1>1, <1>8, <1>9, TrafReplaced
<1>11. Ready' /\ pc' \in Places \ {"open", "sample", "fragment"} /\ pc' \notin {"check", "take"}
  BY <1>3, <1>10 DEF Ready, Places
<1>12. UNCHANGED <<file, movie, opened>>
  BY <1>1, <1>3
<1> QED BY <1>1, <1>3, <1>4, <1>10, <1>11, <1>12, FragmentStep

-----------------------------------------------------------------------------
(* The theorems *)

LEMMA OpenStep ==
  ASSUME TablesInv, Open
  PROVE  TablesInv'
<1>1. /\ UNCHANGED <<file, reader, found, movie, fragment, opened>> /\ pc' = "open" /\ ~opened
      /\ ReaderOK /\ (found_moof \/ moof.trafs = <<>>)
  BY DEF Open, Go, TablesInv, PacketInv
<1>2. UNCHANGED <<file, movie>>
  BY <1>1
<1>3. CursorsOK' /\ FragmentOK' /\ ReaderOK'
  BY <1>1, <1>2, MovieKept, FragmentKept, ReaderMoves DEF TablesInv
<1>4. FoundOK' /\ file' \in Files /\ opened' \in BOOLEAN /\ pc' \in Places /\ pc' # "sample"
  BY <1>1 DEF TablesInv, FoundOK, found, Places
<1>5. ~opened' /\ (found_moof' \/ (moof.trafs = <<>>)')
  BY <1>1 DEF found, fragment
<1>6. PacketInv'
  BY <1>1, <1>5 DEF PacketInv
<1> QED BY <1>3, <1>4, <1>6 DEF TablesInv

LEMMA ReaderFailedStep ==
  ASSUME TablesInv, ReaderFailed
  PROVE  TablesInv'
<1>1. /\ UNCHANGED <<file, reader, found, movie, fragment, opened>> /\ opened
      /\ pc' = "idle" /\ result' # "OK" /\ ReaderOK
  BY DEF ReaderFailed, Reading, Fail, TablesInv
<1>2. UNCHANGED <<file, movie, opened>>
  BY <1>1
<1>3. FragmentOK' /\ ReaderOK' /\ FoundOK'
  BY <1>1, FragmentKept, ReaderMoves DEF TablesInv, FoundOK, found
<1>4. pc' \in Places \ {"open", "sample", "fragment"} /\ pc' \notin {"check", "take"}
  BY <1>1 DEF Places
<1> QED BY <1>1, <1>2, <1>3, <1>4, FragmentStep

LEMMA TablesStep ==
  ASSUME TablesInv, [Next]_vars
  PROVE  TablesInv'
<1>1. CASE UNCHANGED vars
  <2>1. UNCHANGED <<file, movie>> /\ UNCHANGED fragment /\ UNCHANGED <<reader, found, caller>>
    BY <1>1 DEF vars
  <2>2. CursorsOK' /\ (HasChunk(cursor, track_index) => HasChunk(cursor, track_index)')
    BY <2>1, MovieKept
  <2>3. FragmentOK' /\ (RunOK => RunOK') /\ ReaderOK'
    BY <2>1, FragmentKept, ReaderMoves DEF TablesInv
  <2>4. FoundOK' /\ file' \in Files /\ opened' \in BOOLEAN /\ pc' \in Places
    BY <2>1 DEF TablesInv, FoundOK, found, caller
  <2>5. Ready => Ready'
    BY <2>1, <2>3 DEF Ready, found, fragment
  <2>6. PacketInv'
    BY <2>1, <2>3, <2>5 DEF TablesInv, PacketInv, caller, found, fragment
  <2>7. pc' = "sample" => HasChunk(cursor, track_index)'
    BY <2>1, <2>2 DEF TablesInv, caller
  <2> QED BY <2>2, <2>3, <2>4, <2>6, <2>7 DEF TablesInv
<1>2. CASE Open \/ ReadRoot \/ ReaderFailed
  BY <1>2, OpenStep, RootStep, ReaderFailedStep
<1>3. CASE BuildIndex \/ NextSample \/ TakeSample
  BY <1>3, IndexStep, NextSampleStep, TakeSampleStep
<1>4. CASE ReadFragment \/ NewMoof \/ SameMoof \/ NoRun \/ CheckRun \/ TakeFromRun
  BY <1>4, ReadFragmentStep, NewMoofStep, SameMoofStep, NoRunStep, CheckRunStep, TakeFromRunStep
<1> QED BY <1>1, <1>2, <1>3, <1>4 DEF Next

LEMMA TablesInit ==
  ASSUME Init
  PROVE  TablesInv
<1>1. /\ file \in Files /\ pc = "idle" /\ opened = FALSE
      /\ reader = [offset |-> 0, error |-> "OK"]
      /\ found_moov = FALSE /\ found_moof = FALSE /\ found_mdat = FALSE
      /\ cursor = [t \in Tracks |-> [chunk |-> 0, sample |-> 0, index |-> 1]]
      /\ track_index = 1
      /\ moof = [start |-> 0, trafs |-> <<>>]
  BY DEF Init
<1>2. CursorsOK
  <2>1. /\ track_index \in Tracks
        /\ \A t \in Tracks :
             /\ Len(file.tracks[t].chunk_offset) \in Nat
             /\ file.tracks[t].chunk_offset # <<>> => 1 \in DOMAIN file.tracks[t].sample_chunk
    BY <1>1, FileFacts
  <2>2. \A t \in Tracks : cursor[t] = [chunk |-> 0, sample |-> 0, index |-> 1]
    BY <1>1
  <2>3. cursor \in [Tracks -> [chunk : Nat, sample : Nat, index : Nat]]
    BY <1>1
  <2>4. \A t \in Tracks : cursor[t].chunk = 0 /\ cursor[t].index = 1
    BY <2>2
  <2>5. \A t \in Tracks : cursor[t].chunk <= Len(file.tracks[t].chunk_offset)
    BY <2>1, <2>4
  <2> QED BY <2>1, <2>3, <2>4, <2>5 DEF CursorsOK, CursorsIn
<1>3. FoundOK /\ ReaderOK
  BY <1>1 DEF FoundOK, ReaderOK
<1>4. FragmentOK /\ moof.trafs = <<>>
  <2>1. <<>> \in Seq(Trafs)
    BY EmptySeq
  <2> QED BY <1>1, <2>1 DEF FragmentOK
<1>5. PacketInv
  BY <1>1, <1>4 DEF PacketInv
<1> QED BY <1>1, <1>2, <1>3, <1>4, <1>5 DEF TablesInv, Places

(* read_root(), moov_next_sample() and next_run() keep the cursors of the  *)
(* movie in the tables, the index of the fragment in what read_moof() and  *)
(* next_run() have put there, and the sequence of calls such that no run   *)
(* is read before there is one.                                            *)
THEOREM IsomTablesAreKept == Spec => []TablesInv
<1>1. Init => TablesInv
  BY TablesInit
<1>2. TablesInv /\ [Next]_vars => TablesInv'
  BY TablesStep
<1> QED BY <1>1, <1>2, PTL DEF Spec

(* moov_next_sample() and read_packet() use the chunk, the entry of        *)
(* sample_chunk and the run that their cursors name without a check: each  *)
(* is there, in every file, whatever has failed before.                    *)
THEOREM IsomCursorsInTables == Spec => []CursorsInTables
<1>1. TablesInv => CursorsInTables
  <2> SUFFICES ASSUME TablesInv PROVE CursorsInTables
    OBVIOUS
  <2>1. file \in Files /\ CursorsIn(cursor) /\ track_index \in Tracks
    BY DEF TablesInv, CursorsOK
  <2>2. \A t \in Tracks :
          /\ cursor[t].chunk <= Len(file.tracks[t].chunk_offset)
          /\ HasChunk(cursor, t) => cursor[t].index \in DOMAIN file.tracks[t].sample_chunk
    <3> DEFINE c == cursor
    <3>1. CursorsIn(c)
      BY <2>1
    <3> HIDE DEF c
    <3>2. \A t \in Tracks :
            /\ c[t].chunk <= Len(file.tracks[t].chunk_offset)
            /\ HasChunk(c, t) => c[t].index \in DOMAIN file.tracks[t].sample_chunk
      BY <2>1, <3>1, CursorFacts
    <3> QED BY <3>2 DEF c
  <2>3. pc = "sample" => track_index \in Tracks /\ HasChunk(cursor, track_index)
    BY <2>1 DEF TablesInv
  <2>4. pc \in {"check", "take"} =>
          traf_index \in DOMAIN moof.trafs /\ TheTraf.run_index \in DOMAIN TheTraf.runs
    BY DEF TablesInv, PacketInv, RunOK
  <2> QED BY <2>2, <2>3, <2>4 DEF CursorsInTables
<1> QED BY <1>1, IsomTablesAreKept, PTL

-----------------------------------------------------------------------------
(* Totals and tables, as they are defined *)

(* The entries of a table of n, of which each adds to the one before. *)
MadeFromOne(f, n, a, step) == f[1] = a /\ \A k \in 2..n : f[k] = step[k][f[k - 1]]

LEMMA StepsFromOne ==
  ASSUME NEW n \in Nat \ {0}, NEW V, NEW a \in V, NEW step \in [1..n -> [V -> V]]
  PROVE  \E f \in [1..n -> V] : MadeFromOne(f, n, a, step)
<1> DEFINE m == n - 1
           next == [k \in 1..m |-> step[k + 1]]
<1>1. m \in Nat /\ \A k \in 1..m : k + 1 \in 1..n
  OBVIOUS
<1>2. next \in [1..m -> [V -> V]] /\ \A k \in 1..m : next[k] = step[k + 1]
  BY <1>1
<1> HIDE DEF next
<1>3. PICK g \in [0..m -> V] : MadeBy(g, m, a, next)
  BY <1>1, <1>2, StepsMakeOne
<1> DEFINE f == [k \in 1..n |-> g[k - 1]]
<1>4. \A k \in 1..n : k - 1 \in 0..m
  OBVIOUS
<1>5. f \in [1..n -> V]
  BY <1>4
<1>6. f[1] = a
  <2>1. 1 \in 1..n /\ 1 - 1 = 0
    OBVIOUS
  <2> QED BY <2>1, <1>3 DEF MadeBy
<1>7. ASSUME NEW k \in 2..n PROVE f[k] = step[k][f[k - 1]]
  <2>1. k \in 1..n /\ k - 1 \in 1..n /\ k - 1 \in 1..m /\ (k - 1) + 1 = k /\ (k - 1) - 1 \in Int
    OBVIOUS
  <2>2. g[k - 1] = next[k - 1][g[(k - 1) - 1]]
    BY <2>1, <1>3 DEF MadeBy
  <2>3. next[k - 1] = step[k]
    BY <2>1, <1>2
  <2>4. f[k] = g[k - 1] /\ f[k - 1] = g[(k - 1) - 1]
    BY <2>1
  <2> QED BY <2>2, <2>3, <2>4
<1> QED BY <1>5, <1>6, <1>7 DEF MadeFromOne

LEMMA SumSteps ==
  ASSUME NEW s \in Seq(Nat)
  PROVE  SumTo(s)[0] = 0 /\ \A k \in 1..Len(s) : SumTo(s)[k] = SumTo(s)[k - 1] + s[k]
<1> DEFINE n == Len(s)
           Sums(g) == g = [k \in 0..n |-> IF k = 0 THEN 0 ELSE g[k - 1] + s[k]]
           f == CHOOSE g : Sums(g)
           step == [k \in 1..n |-> [v \in Nat |-> v + s[k]]]
           zero == 0
<1>1. n \in Nat /\ \A k \in 1..n : s[k] \in Nat
  BY LenProperties, ElementOfSeq
<1>2. SumTo(s) = f
  BY DEF SumTo
<1>3. step \in [1..n -> [Nat -> Nat]] /\ zero \in Nat
  BY <1>1
<1>4. \A k \in 1..n, v \in Nat : step[k][v] = v + s[k]
  OBVIOUS
<1> HIDE DEF step, n, zero
<1>5. PICK g \in [0..n -> Nat] : g[0] = zero /\ \A k \in 1..n : g[k] = step[k][g[k - 1]]
  <2> DEFINE V == Nat
  <2>1. n \in Nat /\ zero \in V /\ step \in [1..n -> [V -> V]]
    BY <1>1, <1>3
  <2>2. V = Nat
    OBVIOUS
  <2> HIDE DEF V
  <2>3. \E g \in [0..n -> V] : MadeBy(g, n, zero, step)
    BY <2>1, StepsMakeOne
  <2> QED BY <2>2, <2>3 DEF MadeBy
<1>6. Sums(g)
  <2>1. \A k \in 0..n : k # 0 => k \in 1..n /\ k - 1 \in 0..n
    BY <1>1
  <2>2. \A k \in 0..n : g[k] = IF k = 0 THEN 0 ELSE g[k - 1] + s[k]
    BY <2>1, <1>4, <1>5 DEF zero
  <2> QED BY <2>2
<1>7. Sums(f)
  BY <1>6
<1> HIDE DEF f
<1>8. f[0] = 0 /\ \A k \in 1..n : f[k] = f[k - 1] + s[k]
  <2>1. 0 \in 0..n /\ \A k \in 1..n : k \in 0..n /\ k # 0
    BY <1>1
  <2> QED BY <2>1, <1>7
<1> QED BY <1>2, <1>8 DEF n

(* sample_to_chunk and time_to_sample as build_index() fills them. *)
(* A table of n entries that start from 0, of which each adds a number. *)
Adding(f, n, add) == f = [i \in 1..n |-> IF i = 1 THEN 0 ELSE f[i - 1] + add[i]]

LEMMA TableExists ==
  ASSUME NEW n \in Nat \ {0}, NEW add \in [1..n -> Int]
  PROVE  \E f : Adding(f, n, add)
<1> DEFINE step == [k \in 1..n |-> [v \in Int |-> v + add[k]]]
           zero == 0  V == Int
<1>1. \A k \in 1..n : k # 1 => k \in 2..n /\ k - 1 \in 1..n
  OBVIOUS
<1>2. step \in [1..n -> [V -> V]] /\ zero \in V /\ V = Int
  OBVIOUS
<1>3. \A k \in 2..n, v \in Int : step[k][v] = v + add[k]
  OBVIOUS
<1> HIDE DEF step, zero, V
<1>4. PICK g \in [1..n -> V] : MadeFromOne(g, n, zero, step)
  BY <1>2, StepsFromOne
<1>5. \A k \in 1..n : g[k] = IF k = 1 THEN 0 ELSE g[k - 1] + add[k]
  <2>1. \A k \in 1..n : g[k] \in Int
    BY <1>2, <1>4
  <2>2. ASSUME NEW k \in 1..n, k # 1 PROVE g[k] = g[k - 1] + add[k]
    <3>1. k \in 2..n /\ k - 1 \in 1..n
      BY <1>1, <2>2
    <3>2. g[k] = step[k][g[k - 1]] /\ g[k - 1] \in Int
      BY <3>1, <2>1, <1>4 DEF MadeFromOne
    <3> QED BY <3>1, <3>2, <1>3
  <2> QED BY <2>2, <1>4 DEF zero, MadeFromOne
<1>6. Adding(g, n, add)
  <2>1. g = [i \in 1..n |-> g[i]]
    OBVIOUS
  <2> QED BY <2>1, <1>5 DEF Adding
<1> QED BY <1>6

LEMMA TableFromOne ==
  ASSUME NEW n \in Nat \ {0}, NEW add \in [1..n -> Int], NEW f, Adding(f, n, add)
  PROVE  f[1] = 0 /\ (\A i \in 1..n : f[i] \in Int) /\ \A i \in 2..n : f[i] = f[i - 1] + add[i]
<1> DEFINE V == Int
<1>1. \A k \in 1..n : f[k] = IF k = 1 THEN 0 ELSE f[k - 1] + add[k]
  BY DEF Adding
<1>2. f[1] = 0
  BY <1>1
<1>3. \A k \in 2..n : f[k] = f[k - 1] + add[k]
  BY <1>1
<1>4. \A i \in 1..n : f[i] \in Int
  <2> DEFINE h == [k \in 0..n - 1 |-> f[k + 1]]  m == n - 1
  <2>1. h[0] = f[1] /\ m \in Nat
    OBVIOUS
  <2>2. ASSUME NEW k \in 1..m PROVE h[k] = h[k - 1] + add[k + 1] /\ add[k + 1] \in Int
    <3>1. k + 1 \in 2..n /\ k \in 0..n - 1 /\ k - 1 \in 0..n - 1 /\ (k + 1) - 1 = k /\ (k - 1) + 1 = k
      OBVIOUS
    <3>2. h[k] = f[k + 1] /\ h[k - 1] = f[k]
      BY <3>1
    <3>3. f[k + 1] = f[k] + add[k + 1]
      BY <3>1, <1>3
    <3> QED BY <3>1, <3>2, <3>3
  <2> HIDE DEF h
  <2>3. h[0] \in V
    BY <2>1, <1>2
  <2>4. ASSUME NEW k \in 1..m, h[k - 1] \in V PROVE h[k] \in V
    BY <2>2, <2>4
  <2> HIDE DEF V
  <2>5. \A k \in 0..m : h[k] \in V
    BY <2>1, <2>3, <2>4, StaysIn
  <2>6. \A i \in 1..n : i - 1 \in 0..m /\ h[i - 1] = f[i]
    BY DEF h
  <2> QED BY <2>5, <2>6 DEF V
<1> QED BY <1>2, <1>3, <1>4

(* sample_to_chunk as build_index() fills it. *)
LEMMA ChunkTable ==
  ASSUME NEW t, NEW e \in Seq([first : Nat, count : Nat]), e = file.tracks[t].sample_chunk,
         e # <<>>
  PROVE  /\ sample_to_chunk(t)[1] = 0
         /\ \A i \in DOMAIN e : sample_to_chunk(t)[i] \in Int
         /\ \A i \in 2..Len(e) : sample_to_chunk(t)[i]
              = sample_to_chunk(t)[i - 1] + (e[i].first - e[i - 1].first) * e[i - 1].count
<1> DEFINE n == Len(e)
           Add(i) == (e[i].first - e[i - 1].first) * e[i - 1].count
           add == [i \in 1..n |-> IF i = 1 THEN 0 ELSE Add(i)]
           f == sample_to_chunk(t)
<1>1. n \in Nat \ {0} /\ DOMAIN e = 1..n
  BY EmptySeq, LenProperties
<1>2. \A k \in 1..n : e[k].first \in Nat /\ e[k].count \in Nat
  <2>1. \A k \in 1..n : e[k] \in [first : Nat, count : Nat]
    BY ElementOfSeq
  <2> HIDE DEF n
  <2> QED BY <2>1
<1>3. \A k \in 1..n : k # 1 => Add(k) \in Int
  <2> SUFFICES ASSUME NEW k \in 1..n, k # 1 PROVE Add(k) \in Int
    OBVIOUS
  <2> HIDE DEF n
  <2>1. k - 1 \in 1..n
    BY <1>1
  <2> DEFINE x == e[k].first  y == e[k - 1].first  z == e[k - 1].count
  <2>2. x \in Nat /\ y \in Nat /\ z \in Nat
    BY <2>1, <1>2
  <2> HIDE DEF x, y, z
  <2>3. (x - y) * z \in Int
    BY <2>2
  <2> QED BY <2>3 DEF x, y, z
<1>4. add \in [1..n -> Int]
  <2> HIDE DEF n, Add
  <2> QED BY <1>3
<1> DEFINE Table(g) == g = [i \in 1..n |-> IF i = 1 THEN 0 ELSE g[i - 1] + Add(i)]
<1>5. f = CHOOSE g : Table(g)
  <2> HIDE DEF n
  <2> QED BY <1>1 DEF sample_to_chunk
<1>6. \A g : Table(g) <=> Adding(g, n, add)
  <2> HIDE DEF n, Add
  <2> QED BY DEF Adding
<1>7. Adding(f, n, add)
  <2> HIDE DEF n, Add, add, Table
  <2>1. \E g : Table(g)
    BY <1>1, <1>4, <1>6, TableExists
  <2> QED BY <2>1, <1>5, <1>6
<1> HIDE DEF f, add, n
<1>8. /\ f[1] = 0 /\ \A i \in 1..n : f[i] \in Int
      /\ \A i \in 2..n : f[i] = f[i - 1] + add[i]
  BY <1>1, <1>4, <1>7, TableFromOne
<1>9. \A i \in 2..n : add[i] = Add(i)
  <2> HIDE DEF Add
  <2> QED BY DEF add
<1> QED BY <1>1, <1>8, <1>9 DEF f, n

(* time_to_sample as build_index() fills it. *)
LEMMA TimeTable ==
  ASSUME NEW t, NEW e \in Seq([count : Nat, delta : Nat]), e = file.tracks[t].sample_time,
         e # <<>>
  PROVE  /\ time_to_sample(t) \in Seq(Nat) /\ Len(time_to_sample(t)) = Len(e)
         /\ time_to_sample(t)[1] = 0
         /\ \A i \in 1..Len(e) : time_to_sample(t)[i] \in Nat
         /\ \A i \in 2..Len(e) : time_to_sample(t)[i] = time_to_sample(t)[i - 1] + e[i - 1].count
<1> DEFINE n == Len(e)
           add == [i \in 1..n |-> IF i = 1 THEN 0 ELSE e[i - 1].count]
           f == time_to_sample(t)
           Table(g) == g = [i \in 1..n |-> IF i = 1 THEN 0 ELSE g[i - 1] + e[i - 1].count]
<1>1. n \in Nat \ {0} /\ DOMAIN e = 1..n
  BY EmptySeq, LenProperties
<1>2. \A k \in 1..n : e[k].count \in Nat
  <2>1. \A k \in 1..n : e[k] \in [count : Nat, delta : Nat]
    BY ElementOfSeq
  <2> HIDE DEF n
  <2> QED BY <2>1
<1>3. \A k \in 1..n : k # 1 => e[k - 1].count \in Nat
  <2> HIDE DEF n
  <2>1. \A k \in 1..n : k # 1 => k - 1 \in 1..n
    BY <1>1
  <2> QED BY <2>1, <1>2
<1>4. add \in [1..n -> Int] /\ \A k \in 1..n : add[k] \in Nat
  <2> HIDE DEF n
  <2>1. ASSUME NEW k \in 1..n PROVE (IF k = 1 THEN 0 ELSE e[k - 1].count) \in Nat
    BY <1>3
  <2>2. add \in [1..n -> Nat]
    BY <2>1
  <2> HIDE DEF add
  <2> QED BY <2>2
<1>5. f = CHOOSE g : Table(g)
  <2> HIDE DEF n
  <2> QED BY <1>1 DEF time_to_sample
<1>6. \A g : Table(g) <=> Adding(g, n, add)
  <2> HIDE DEF n
  <2> QED BY DEF Adding
<1>7. Adding(f, n, add)
  <2> HIDE DEF n, add, Table
  <2>1. \E g : Table(g)
    BY <1>1, <1>4, <1>6, TableExists
  <2> QED BY <2>1, <1>5, <1>6
<1>8. \A i \in 2..n : add[i] = e[i - 1].count
  <2> HIDE DEF n
  <2> QED OBVIOUS
<1> HIDE DEF f, add, n
<1>9. /\ f[1] = 0 /\ \A i \in 1..n : f[i] \in Int
      /\ \A i \in 2..n : f[i] = f[i - 1] + add[i]
  BY <1>1, <1>4, <1>7, TableFromOne
<1>10. \A i \in 1..n : f[i] \in Nat
  <2> DEFINE h == [k \in 0..n - 1 |-> f[k + 1]]  m == n - 1  V == Nat
  <2>1. h[0] = f[1] /\ m \in Nat
    BY <1>1
  <2>2. ASSUME NEW k \in 1..m PROVE h[k] = h[k - 1] + add[k + 1] /\ add[k + 1] \in Nat
    <3>1. k + 1 \in 2..n /\ k + 1 \in 1..n /\ k \in 0..n - 1 /\ k - 1 \in 0..n - 1
          /\ (k + 1) - 1 = k /\ (k - 1) + 1 = k
      BY <1>1
    <3>2. h[k] = f[k + 1] /\ h[k - 1] = f[k]
      BY <3>1
    <3>3. f[k + 1] = f[k] + add[k + 1]
      BY <3>1, <1>9
    <3> QED BY <3>1, <3>2, <3>3, <1>4
  <2> HIDE DEF h
  <2>3. h[0] \in V
    BY <2>1, <1>9
  <2>4. ASSUME NEW k \in 1..m, h[k - 1] \in V PROVE h[k] \in V
    <3> DEFINE x == h[k - 1]  y == add[k + 1]
    <3>1. h[k] = x + y /\ x \in Nat /\ y \in Nat
      BY <2>2, <2>4
    <3> HIDE DEF x, y
    <3> QED BY <3>1
  <2> HIDE DEF V
  <2>5. \A k \in 0..m : h[k] \in V
    BY <2>1, <2>3, <2>4, StaysIn
  <2>6. \A i \in 1..n : i - 1 \in 0..m /\ h[i - 1] = f[i]
    BY <1>1 DEF h
  <2> QED BY <2>5, <2>6 DEF V
<1>11. f \in Seq(Nat) /\ Len(f) = n
  <2>1. f = [i \in 1..n |-> f[i]]
    BY <1>7 DEF Adding
  <2>2. f \in [1..n -> Nat]
    BY <2>1, <1>10
  <2> QED BY <2>2, <1>1, FunctionIsSeq
<1> QED BY <1>8, <1>9, <1>10, <1>11 DEF f, n

(* bsearch() finds the first entry or none, and the first only when the    *)
(* value lies in front of the second.                                      *)
LEMMA SearchFinds ==
  ASSUME NEW n \in Nat \ {0}, NEW a, Len(a) = n, \A i \in 1..n : a[i] \in Nat,
         \A i \in 2..n : n >= 2 => a[2] <= a[i], NEW v \in Nat, Search(a, v) # None
  PROVE  Search(a, v) = 1 /\ (n >= 2 => v < a[2])
<1> DEFINE Mid(h) == (1 + h + 1) \div 2
           Finds(f) == f = [h \in 0..n |-> IF h <= 1 THEN h
                                           ELSE IF a[Mid(h)] > v THEN f[Mid(h) - 1] ELSE None]
           found1 == IF a[2] > v THEN 1 ELSE None
           g == [h \in 0..n |-> IF h <= 1 THEN h ELSE found1]
           f == CHOOSE f : Finds(f)
<1>1. Search(a, v) = f[n]
  BY Zenon DEF Search
<1>2. ASSUME NEW h \in 0..n, ~(h <= 1)
      PROVE  Mid(h) \in 2..n /\ Mid(h) - 1 \in 0..n /\ Mid(h) - 1 < h /\ (Mid(h) - 1 <= 1 => Mid(h) = 2)
             /\ n >= 2 /\ (Mid(h) = 2 => Mid(h) - 1 = 1) /\ Mid(h) \in 1..n
  <2>1. h >= 2 /\ h <= n /\ h \in Int
    BY <1>2
  <2> QED BY <2>1
<1> HIDE DEF Mid
<1>3. ASSUME NEW h \in 0..n, ~(h <= 1)
      PROVE  g[h] = IF a[Mid(h)] > v THEN g[Mid(h) - 1] ELSE None
  <2>1. /\ Mid(h) \in 2..n /\ Mid(h) - 1 \in 0..n /\ Mid(h) - 1 < h /\ (Mid(h) - 1 <= 1 => Mid(h) = 2)
        /\ n >= 2 /\ (Mid(h) = 2 => Mid(h) - 1 = 1) /\ Mid(h) \in 1..n
    BY <1>2, <1>3
  <2> DEFINE m == Mid(h)
  <2>2. a[m] \in Nat /\ a[2] \in Nat /\ a[2] <= a[m]
    <3>1. 2 \in 1..n
      BY <2>1
    <3> QED BY <2>1, <3>1
  <2>3. g[h] = found1
    BY <1>3
  <2>4. g[m - 1] = IF m - 1 <= 1 THEN m - 1 ELSE found1
    BY <2>1
  <2> HIDE DEF m, g
  <2>5. CASE a[m] > v
    <3>1. CASE m - 1 <= 1
      <4>1. m = 2 /\ m - 1 = 1
        BY <3>1, <2>1 DEF m
      <4>2. found1 = 1
        BY <4>1, <2>5
      <4> QED BY <4>1, <4>2, <2>3, <2>4, <2>5 DEF m
    <3>2. CASE ~(m - 1 <= 1)
      BY <3>2, <2>3, <2>4, <2>5 DEF m
    <3> QED BY <3>1, <3>2
  <2>6. CASE ~(a[m] > v)
    <3>1. ~(a[2] > v)
      BY <2>2, <2>6
    <3> QED BY <3>1, <2>3, <2>6 DEF m
  <2> QED BY <2>5, <2>6
<1>4. \A h \in 0..n : g[h] = IF h <= 1 THEN h ELSE IF a[Mid(h)] > v THEN g[Mid(h) - 1] ELSE None
  <2>1. \A h \in 0..n : h <= 1 => g[h] = h
    OBVIOUS
  <2> HIDE DEF g
  <2> QED BY <2>1, <1>3
<1>5. Finds(g)
  <2>1. g = [h \in 0..n |-> g[h]]
    OBVIOUS
  <2> HIDE DEF g
  <2> QED BY <2>1, <1>4
<1>6. Finds(f)
  <2> HIDE DEF Finds, g
  <2> QED BY <1>5
<1> HIDE DEF f
<1>7. \A h \in 0..n : f[h] = IF h <= 1 THEN h ELSE IF a[Mid(h)] > v THEN f[Mid(h) - 1] ELSE None
  BY <1>6
<1>12. g[n] = IF n <= 1 THEN n ELSE found1
  <2>1. n \in 0..n
    OBVIOUS
  <2> QED BY <2>1
<1> HIDE DEF g
<1>8. \A h \in 0..n : f[h] = g[h]
  <2> DEFINE W == {h \in 0..n : f[h] # g[h]}
  <2> SUFFICES ASSUME W # {} PROVE FALSE
    OBVIOUS
  <2>1. PICK h \in W : \A j \in W : h <= j
    <3>1. W \subseteq Nat
      OBVIOUS
    <3> HIDE DEF W
    <3> QED BY <3>1, LeastNumber
  <2> HIDE DEF Finds
  <2>2. h \in 0..n /\ f[h] # g[h]
    BY <2>1
  <2>3. ~(h <= 1)
    BY <2>2, <1>4, <1>7
  <2>4. Mid(h) - 1 \in 0..n /\ Mid(h) - 1 < h
    BY <2>2, <2>3, <1>2
  <2>5. Mid(h) - 1 \notin W
    BY <2>1, <2>4
  <2>6. f[Mid(h) - 1] = g[Mid(h) - 1]
    BY <2>4, <2>5
  <2> QED BY <2>2, <2>3, <2>6, <1>4, <1>7
<1>9. f[n] = g[n] /\ g[n] = IF n <= 1 THEN n ELSE found1
  <2>1. n \in 0..n
    OBVIOUS
  <2> QED BY <2>1, <1>8, <1>12
<1>10. CASE n <= 1
  BY <1>1, <1>9, <1>10
<1>11. CASE ~(n <= 1)
  <2>1. 2 \in 1..n
    BY <1>11
  <2>2. a[2] \in Nat
    BY <2>1
  <2> QED BY <2>2, <1>1, <1>9, <1>11
<1> QED BY <1>10, <1>11

(* Numbers that take the same steps. *)
StepAlike(f, g, n) == \A k \in 1..n : f[k - 1] = g[k - 1] => f[k] = g[k]

LEMMA SameSteps ==
  ASSUME NEW n \in Nat, NEW f, NEW g, f[0] = g[0], StepAlike(f, g, n)
  PROVE  \A k \in 0..n : f[k] = g[k]
<1> DEFINE h == [k \in 0..n |-> IF f[k] = g[k] THEN 1 ELSE 0]  V == {1}
<1>1. h[0] \in V
  OBVIOUS
<1>2. ASSUME NEW k \in 1..n, h[k - 1] \in V PROVE h[k] \in V
  <2>1. k \in 0..n /\ k - 1 \in 0..n
    OBVIOUS
  <2>2. f[k - 1] = g[k - 1]
    BY <2>1, <1>2
  <2> QED BY <2>1, <2>2 DEF StepAlike
<1> HIDE DEF h
<1>3. \A k \in 0..n : h[k] \in V
  BY <1>1, <1>2, StaysIn
<1> QED BY <1>3 DEF h

-----------------------------------------------------------------------------
(* The samples of a file that is laid out *)

LEMMA SampleTypes ==
  ASSUME NEW s \in Seq(FileSamples)
  PROVE  /\ Len(s) \in Nat /\ DOMAIN s = 1..Len(s)
         /\ \A m \in 1..Len(s) :
              /\ s[m].at \in Nat /\ s[m].size \in Nat \ {0}
              /\ s[m].duration \in Nat /\ s[m].time \in Nat /\ s[m].timed \in BOOLEAN
<1>1. Len(s) \in Nat /\ DOMAIN s = 1..Len(s)
  BY LenProperties
<1>2. \A m \in 1..Len(s) : s[m] \in FileSamples
  BY ElementOfSeq
<1> DEFINE n == Len(s)
<1> HIDE DEF n
<1>3. ASSUME NEW m \in 1..n
      PROVE  /\ s[m].at \in Nat /\ s[m].size \in Nat \ {0}
             /\ s[m].duration \in Nat /\ s[m].time \in Nat /\ s[m].timed \in BOOLEAN
  <2>1. s[m] \in FileSamples
    BY <1>2 DEF n
  <2> QED BY <2>1 DEF FileSamples
<1> QED BY <1>1, <1>3 DEF n

LEMMA SamplesOf ==
  ASSUME file \in Files, SamplesTyped(file), NEW t \in Tracks
  PROVE  file.samples[t] \in Seq(FileSamples)
<1>1. Tracks = 1..Len(file.tracks) /\ Len(file.samples) = Len(file.tracks)
  BY FileFacts DEF SamplesTyped
<1> DEFINE S == Seq(FileSamples)
<1>2. file.samples \in Seq(S) /\ t \in 1..Len(file.samples)
  BY <1>1 DEF SamplesTyped
<1> HIDE DEF S
<1>3. file.samples[t] \in S
  BY <1>2, ElementOfSeq
<1> QED BY <1>3 DEF S

LEMMA AdjacentGrows ==
  ASSUME NEW s \in Seq(FileSamples), NEW i \in 1..Len(s), NEW j \in 1..Len(s), Adjacent(s, i, j)
  PROVE  \A m \in i..j : s[i].at <= s[m].at
<1> DEFINE n == Len(s)  k == j - i  f == [x \in 0..k |-> s[i + x].at]  a == s[i].at
           V == {x \in Nat : a <= x}
<1>1. n \in Nat /\ \A m \in 1..n : s[m].at \in Nat /\ s[m].size \in Nat
  BY SampleTypes
<1> SUFFICES ASSUME i <= j PROVE \A m \in i..j : a <= s[m].at
  BY <1>1
<1>2. k \in Nat /\ a \in Nat
  BY <1>1
<1>3. f[0] \in V
  <2>1. 0 \in 0..k /\ i + 0 = i
    BY <1>1, <1>2
  <2>2. f[0] = a
    BY <2>1
  <2> HIDE DEF f, a
  <2> QED BY <2>2, <1>2
<1>4. ASSUME NEW x \in 1..k, f[x - 1] \in V PROVE f[x] \in V
  <2>1. i + x \in 1..n /\ i + (x - 1) \in 1..n /\ i + (x - 1) \in i..j - 1 /\ (i + (x - 1)) + 1 = i + x
        /\ x \in 0..k /\ x - 1 \in 0..k
    BY <1>1
  <2>2. f[x] = s[i + x].at /\ f[x - 1] = s[i + (x - 1)].at
    BY <2>1
  <2>3. s[i + x].at = s[i + (x - 1)].at + s[i + (x - 1)].size
    BY <2>1 DEF Adjacent, SampleEnd
  <2>4. s[i + (x - 1)].at \in Nat /\ s[i + (x - 1)].size \in Nat
    BY <2>1, <1>1
  <2> DEFINE p == s[i + (x - 1)].at  q == s[i + (x - 1)].size
  <2>5. f[x] = p + q /\ f[x - 1] = p /\ p \in Nat /\ q \in Nat
    BY <2>2, <2>3, <2>4
  <2> HIDE DEF p, q, f, a
  <2> QED BY <2>5, <1>2, <1>4
<1> HIDE DEF f, V
<1>5. \A x \in 0..k : f[x] \in V
  BY <1>2, <1>3, <1>4, StaysIn
<1>6. ASSUME NEW m \in i..j PROVE a <= s[m].at
  <2>1. m - i \in 0..k /\ i + (m - i) = m
    BY <1>1
  <2>2. f[m - i] = s[m].at
    BY <2>1 DEF f
  <2> QED BY <2>1, <2>2, <1>5 DEF V
<1> QED BY <1>6

NumChunks(t) == Len(file.tracks[t].chunk_offset)

LEMMA BeforeFacts ==
  ASSUME file \in Files, IsMovie(file), NEW t \in Tracks,
         NEW s, s = file.samples[t], NEW b, b = file.before[t], NEW n, n = NumChunks(t)
  PROVE  /\ n \in Nat /\ s \in Seq(FileSamples) /\ Len(s) \in Nat
         /\ b[1] = 0 /\ b[n + 1] = Len(s)
         /\ \A k \in 1..n + 1 : b[k] \in Nat /\ b[k] <= Len(s)
         /\ \A k \in 1..n :
              /\ b[k] < b[k + 1] /\ b[k + 1] <= Len(s)
              /\ s[b[k] + 1].at = file.tracks[t].chunk_offset[k]
              /\ Adjacent(s, b[k] + 1, b[k + 1])
<1>1. ChunksLaid(file.tracks[t], s, b)
  BY DEF IsMovie, Tracks
<1>2. n \in Nat /\ n = Len(file.tracks[t].chunk_offset)
  BY FileFacts DEF NumChunks
<1>3. s \in Seq(FileSamples) /\ Len(s) \in Nat
  BY SamplesOf, SampleTypes DEF IsMovie
<1>4. /\ b \in Seq(Nat) /\ Len(b) = n + 1 /\ b[1] = 0 /\ b[n + 1] = Len(s)
      /\ \A k \in 1..n :
              /\ b[k] < b[k + 1] /\ b[k + 1] <= Len(s)
              /\ s[b[k] + 1].at = file.tracks[t].chunk_offset[k]
              /\ Adjacent(s, b[k] + 1, b[k + 1])
  BY <1>1, <1>2 DEF ChunksLaid
<1>5. \A k \in 1..n + 1 : b[k] \in Nat
  BY <1>4, ElementOfSeq
<1>6. ASSUME NEW k \in 1..n + 1 PROVE b[k] <= Len(s)
  <2>1. CASE k = n + 1
    BY <2>1, <1>3, <1>4
  <2>2. CASE k # n + 1
    <3>1. k \in 1..n
      BY <2>2, <1>2
    <3>2. b[k] < b[k + 1] /\ b[k + 1] <= Len(s) /\ b[k] \in Nat /\ b[k + 1] \in Nat
      <4>1. k + 1 \in 1..n + 1
        BY <3>1, <1>2
      <4> QED BY <3>1, <4>1, <1>4, <1>5
    <3> DEFINE x == b[k]  y == b[k + 1]  z == Len(s)
    <3> HIDE DEF x, y, z
    <3>3. x < y /\ y <= z /\ x \in Nat /\ y \in Nat /\ z \in Nat
      BY <3>2, <1>3 DEF x, y, z
    <3>4. x <= z
      BY <3>3
    <3> QED BY <3>4 DEF x, z
  <2> QED BY <2>1, <2>2
<1> QED BY <1>2, <1>3, <1>4, <1>5, <1>6

(* The entries of the chunk table of a track, with b samples in front of   *)
(* each of its n chunks.                                                   *)
ChunkEntries(e, b, n) ==
  /\ e \in Seq([first : Nat, count : Nat]) /\ Len(e) \in Nat /\ DOMAIN e = 1..Len(e)
  /\ \A i \in 1..Len(e) : e[i].first \in Nat /\ e[i].count \in Nat
  /\ n # 0 => e[1].first = 1
  /\ \A i \in 1..Len(e) - 1 : e[i].first < e[i + 1].first
  /\ \A k \in 1..n : \A i \in 1..Len(e) : InEntry(e, i, k) => b[k + 1] = b[k] + e[i].count

LEMMA EntryFacts ==
  ASSUME file \in Files, IsMovie(file), NEW t \in Tracks
  PROVE  ChunkEntries(file.tracks[t].sample_chunk, file.before[t], NumChunks(t))
<1> DEFINE b == file.before[t]  n == NumChunks(t)  e == file.tracks[t].sample_chunk
<1>1. ChunksLaid(file.tracks[t], file.samples[t], b)
  BY DEF IsMovie, Tracks
<1>2. e \in Seq([first : Nat, count : Nat])
  <2>1. file.tracks[t] \in TrackTables
    BY FileFacts
  <2> QED BY <2>1 DEF TrackTables
<1>3. Len(e) \in Nat /\ DOMAIN e = 1..Len(e)
  BY <1>2, LenProperties
<1>4. \A i \in 1..Len(e) : e[i].first \in Nat /\ e[i].count \in Nat
  <2>1. \A i \in 1..Len(e) : e[i] \in [first : Nat, count : Nat]
    BY <1>2, ElementOfSeq
  <2> DEFINE m == Len(e)
  <2> HIDE DEF m
  <2>2. \A i \in 1..m : e[i].first \in Nat /\ e[i].count \in Nat
    BY <2>1 DEF m
  <2> QED BY <2>2 DEF m
<1>5. /\ n # 0 => e[1].first = 1
      /\ \A i \in 1..Len(e) - 1 : e[i].first < e[i + 1].first
      /\ \A k \in 1..n : \A i \in DOMAIN e : InEntry(e, i, k) => b[k + 1] = b[k] + e[i].count
  BY <1>1 DEF ChunksLaid, NumChunks
<1> QED BY <1>2, <1>3, <1>4, <1>5 DEF ChunkEntries

(* A chunk lies in the file. *)
LEMMA ChunkPlace ==
  ASSUME file \in Files, IsMovie(file), NEW t \in Tracks, NEW k \in 1..NumChunks(t)
  PROVE  /\ ChunkAt(file, t, k) \in Nat /\ ChunkEnd(file, t, k) \in Nat /\ file.end \in Nat
         /\ ChunkAt(file, t, k) < ChunkEnd(file, t, k) /\ ChunkEnd(file, t, k) <= file.end
         /\ \E b \in file.boxes : b.type = "mdat" /\ b.start + HEADER <= ChunkAt(file, t, k)
<1> DEFINE s == file.samples[t]  n == NumChunks(t)  b == file.before[t]  p == b[k] + 1  q == b[k + 1]
<1>1. /\ n \in Nat /\ s \in Seq(FileSamples) /\ Len(s) \in Nat
      /\ \A i \in 1..n + 1 : b[i] \in Nat /\ b[i] <= Len(s)
      /\ \A i \in 1..n :
              /\ b[i] < b[i + 1] /\ b[i + 1] <= Len(s)
              /\ s[b[i] + 1].at = file.tracks[t].chunk_offset[i]
              /\ Adjacent(s, b[i] + 1, b[i + 1])
  BY BeforeFacts
<1>2. /\ b[k] \in Nat /\ q \in Nat /\ b[k] < q /\ q <= Len(s) /\ Adjacent(s, p, q)
      /\ s[p].at = file.tracks[t].chunk_offset[k]
  <2>1. k \in 1..n + 1 /\ k + 1 \in 1..n + 1 /\ k \in 1..n
    <3> HIDE DEF n
    <3>1. k \in 1..n
      BY DEF n
    <3> QED BY <3>1, <1>1
  <2> HIDE DEF n, s, b
  <2> QED BY <2>1, <1>1
<1>3. p \in 1..Len(s) /\ q \in 1..Len(s) /\ q \in p..q
  <2> DEFINE x == b[k]  y == b[k + 1]  z == Len(s)
  <2>1. x \in Nat /\ y \in Nat /\ z \in Nat /\ x < y /\ y <= z
    BY <1>1, <1>2
  <2> HIDE DEF x, y, z
  <2>2. x + 1 \in 1..z /\ y \in 1..z /\ y \in x + 1..y
    BY <2>1
  <2> QED BY <2>2 DEF x, y, z
<1>4. s[p].at <= s[q].at
  <2> HIDE DEF s, p, q
  <2> QED BY <1>1, <1>2, <1>3, AdjacentGrows
<1>5. s[p].at \in Nat /\ s[q].at \in Nat /\ s[q].size \in Nat \ {0}
  <2> HIDE DEF s, p, q
  <2> QED BY <1>1, <1>3, SampleTypes
<1>6. ChunkAt(file, t, k) = s[p].at /\ ChunkEnd(file, t, k) = s[q].at + s[q].size
  BY <1>2 DEF ChunkAt, ChunkEnd, SampleEnd
<1>7. InMdat(file, ChunkAt(file, t, k), ChunkEnd(file, t, k))
  <2>1. k \in DOMAIN file.tracks[t].chunk_offset
    <3>1. file.tracks[t] \in TrackTables
      BY FileFacts
    <3>2. file.tracks[t].chunk_offset \in Seq(Nat)
      BY <3>1 DEF TrackTables
    <3> QED BY <3>2, LenProperties DEF NumChunks
  <2> QED BY <2>1 DEF IsMovie, Tracks
<1>8. PICK d \in file.boxes : /\ d.type = "mdat" /\ d.start + HEADER <= ChunkAt(file, t, k)
                              /\ ChunkEnd(file, t, k) <= d.end
  BY <1>7 DEF InMdat
<1>9. d.end \in Nat /\ d.end <= file.end /\ file.end \in Nat
  BY <1>8 DEF IsMovie, BoxesLaid
<1> DEFINE x == s[p].at  y == s[q].at  z == s[q].size
<1>10. /\ x \in Nat /\ y \in Nat /\ z \in Nat \ {0} /\ x <= y
       /\ ChunkAt(file, t, k) = x /\ ChunkEnd(file, t, k) = y + z
  BY <1>4, <1>5, <1>6
<1> HIDE DEF x, y, z
<1>11. x < y + z /\ y + z \in Nat /\ y + z <= file.end
  <2>1. y + z <= d.end
    BY <1>8, <1>10
  <2> QED BY <2>1, <1>9, <1>10
<1> QED BY <1>8, <1>9, <1>10, <1>11

-----------------------------------------------------------------------------
(* The cursor of a track in the chunks of a movie *)

(* The samples in front of the chunk of a track, and up to its end. *)
Behind(c, t) == file.before[t][c[t].chunk + 1]
EndOf(c, t) == file.before[t][c[t].chunk + 2]
Entry(c, t) == file.tracks[t].sample_chunk[c[t].index]

(* The entry is the one of the chunk, and the numbers that build_index()   *)
(* has computed are those of the samples.                                  *)
AtEntry(c, t) ==
  /\ InEntry(file.tracks[t].sample_chunk, c[t].index, c[t].chunk + 1)
  /\ Behind(c, t) = (c[t].chunk + 1 - Entry(c, t).first) * Entry(c, t).count
                      + sample_to_chunk(t)[c[t].index]

InChunk(c, t) ==
  /\ Behind(c, t) <= c[t].sample
  /\ ~HasChunk(c, t) => c[t].sample = Behind(c, t)
  /\ HasChunk(c, t) => c[t].sample <= EndOf(c, t) /\ AtEntry(c, t)

LEMMA CursorPlace ==
  ASSUME file \in Files, IsMovie(file), NEW c, CursorsIn(c), NEW t \in Tracks
  PROVE  /\ c[t].chunk \in Nat /\ c[t].sample \in Nat /\ c[t].index \in Nat
         /\ c[t].chunk + 1 \in 1..NumChunks(t) + 1 /\ Behind(c, t) \in Nat
         /\ Behind(c, t) <= Len(file.samples[t])
         /\ ~HasChunk(c, t) => Behind(c, t) = Len(file.samples[t])
         /\ HasChunk(c, t) =>
              /\ c[t].chunk + 1 \in 1..NumChunks(t) /\ c[t].chunk + 2 \in 1..NumChunks(t) + 1
              /\ EndOf(c, t) \in Nat /\ Behind(c, t) < EndOf(c, t)
              /\ EndOf(c, t) <= Len(file.samples[t])
              /\ c[t].index \in 1..Len(file.tracks[t].sample_chunk)
              /\ ChunkOffset(c, t) = ChunkAt(file, t, c[t].chunk + 1)
<1> DEFINE k == c[t].chunk  n == NumChunks(t)  b == file.before[t]  m == Len(file.samples[t])
<1>1. /\ k \in Nat /\ c[t].sample \in Nat /\ c[t].index \in Nat /\ k <= n
      /\ HasChunk(c, t) <=> k < n
      /\ HasChunk(c, t) => c[t].index \in DOMAIN file.tracks[t].sample_chunk
  BY CursorFacts DEF HasChunk, NumChunks
<1>2. /\ n \in Nat /\ m \in Nat /\ b[n + 1] = m
      /\ \A i \in 1..n + 1 : b[i] \in Nat /\ b[i] <= m
      /\ \A i \in 1..n : b[i] < b[i + 1] /\ b[i + 1] <= m
  BY BeforeFacts
<1>3. DOMAIN file.tracks[t].sample_chunk = 1..Len(file.tracks[t].sample_chunk)
  <2>1. ChunkEntries(file.tracks[t].sample_chunk, b, n)
    BY EntryFacts
  <2> QED BY <2>1 DEF ChunkEntries
<1>4. Behind(c, t) = b[k + 1] /\ EndOf(c, t) = b[k + 2]
  BY DEF Behind, EndOf
<1>5. ChunkOffset(c, t) = ChunkAt(file, t, k + 1)
  BY DEF ChunkOffset, ChunkAt
<1> HIDE DEF k, n, b, m
<1>6. k + 1 \in 1..n + 1 /\ (~(k < n) => k + 1 = n + 1)
  BY <1>1, <1>2
<1>7. k < n => k + 1 \in 1..n /\ k + 2 \in 1..n + 1 /\ (k + 1) + 1 = k + 2
  BY <1>1, <1>2
<1>8. k < n => b[k + 1] < b[k + 2] /\ b[k + 2] <= m /\ b[k + 2] \in Nat
  BY <1>2, <1>7
<1>9. b[k + 1] \in Nat /\ b[k + 1] <= m /\ (~(k < n) => b[k + 1] = m)
  BY <1>2, <1>6
<1>10. HasChunk(c, t) => c[t].index \in 1..Len(file.tracks[t].sample_chunk)
  BY <1>1, <1>3
<1>11. ~HasChunk(c, t) => b[k + 1] = m
  BY <1>1, <1>9
<1>12. HasChunk(c, t) => /\ k + 1 \in 1..n /\ k + 2 \in 1..n + 1
                         /\ b[k + 2] \in Nat /\ b[k + 1] < b[k + 2] /\ b[k + 2] <= m
  BY <1>1, <1>7, <1>8
<1> QED BY <1>1, <1>4, <1>5, <1>6, <1>9, <1>10, <1>11, <1>12 DEF k, n, b, m

(* Products of the numbers of chunks and samples. *)
LEMMA OneMore ==
  ASSUME NEW a \in Int, NEW b \in Int
  PROVE  a * b \in Int /\ (a + 1) * b = a * b + b /\ 0 * b = 0
OBVIOUS

(* moov_next_sample() finds the end of a chunk. *)
LEMMA SampleEndIsEnd ==
  ASSUME file \in Files, IsMovie(file), CursorsIn(cursor), NEW t \in Tracks, HasChunk(cursor, t),
         InChunk(cursor, t)
  PROVE  sample_end(t) = EndOf(cursor, t)
<1> DEFINE k == cursor[t].chunk  i == cursor[t].index  e == file.tracks[t].sample_chunk
           x == e[i].first  y == e[i].count  z == sample_to_chunk(t)[i]
           b == file.before[t]  n == NumChunks(t)
<1>1. k \in Nat /\ i \in 1..Len(e) /\ k + 1 \in 1..n
  BY CursorPlace
<1>2. /\ e \in Seq([first : Nat, count : Nat]) /\ Len(e) \in Nat /\ DOMAIN e = 1..Len(e)
      /\ \A j \in 1..Len(e) : e[j].first \in Nat /\ e[j].count \in Nat
      /\ n # 0 => e[1].first = 1
      /\ \A j \in 1..Len(e) - 1 : e[j].first < e[j + 1].first
      /\ \A l \in 1..n : \A j \in 1..Len(e) : InEntry(e, j, l) => b[l + 1] = b[l] + e[j].count
  <2>1. ChunkEntries(e, b, n)
    BY EntryFacts
  <2> HIDE DEF e, b, n, i, k
  <2> QED BY <2>1 DEF ChunkEntries
<1> HIDE DEF e, b, n
<1>3. x \in Nat /\ y \in Nat /\ e # <<>>
  <2> HIDE DEF e, i
  <2>1. Len(e) # 0
    BY <1>1, <1>2
  <2> QED BY <1>1, <1>2, <2>1, EmptySeq
<1>4. z \in Int
  <2>1. e = file.tracks[t].sample_chunk
    BY DEF e
  <2> HIDE DEF i
  <2> QED BY <2>1, <1>1, <1>2, <1>3, ChunkTable
<1>5. InEntry(e, i, k + 1) /\ b[k + 1] = (k + 1 - x) * y + z
  BY DEF InChunk, AtEntry, Behind, Entry, e, b
<1>6. b[(k + 1) + 1] = b[k + 1] + y
  <2> HIDE DEF i, k
  <2> QED BY <1>1, <1>2, <1>5
<1>7. sample_end(t) = (k - x + 1) * y + z + y
  BY DEF sample_end, e
<1>8. EndOf(cursor, t) = b[k + 2]
  BY DEF EndOf, b
<1> HIDE DEF k, i, x, y, z
<1>9. k - x + 1 = k + 1 - x /\ (k + 1) + 1 = k + 2
  BY <1>1, <1>3
<1> DEFINE p == (k + 1 - x) * y
<1>10. p \in Int
  BY <1>1, <1>3
<1>11. b[k + 2] = p + z + y
  <2>1. b[k + 1] = p + z
    BY <1>5
  <2> HIDE DEF p
  <2> QED BY <2>1, <1>6, <1>9
<1> QED BY <1>7, <1>8, <1>9, <1>11

(* Sums. *)
LEMMA EntrySums ==
  ASSUME NEW a \in Int, NEW x \in Nat, NEW y \in Nat, NEW z \in Int, NEW k \in Nat,
         a = (k + 1 - x) * y + z
  PROVE  a + y = (k + 2 - x) * y + z /\ (k + 2 - x) * y \in Int
<1> DEFINE q == k + 1 - x
<1>1. q \in Int /\ q + 1 = k + 2 - x /\ a = q * y + z
  OBVIOUS
<1> HIDE DEF q
<1>2. q * y \in Int /\ (q + 1) * y = q * y + y
  BY <1>1, OneMore
<1> DEFINE r == q * y
<1>3. r \in Int /\ a = r + z /\ (k + 2 - x) * y = r + y
  BY <1>1, <1>2
<1> HIDE DEF r
<1>4. a + y = (r + y) + z
  BY <1>3
<1> QED BY <1>3, <1>4

LEMMA EntryStarts ==
  ASSUME NEW b, NEW x \in Nat, NEW y \in Nat, NEW z \in Int, NEW k \in Nat,
         b = (k + 2 - x) * y + z, NEW u, u = k + 2, NEW v \in Nat, NEW w, w = z + (u - x) * y
  PROVE  b = (k + 2 - u) * v + w
<1> DEFINE r == (k + 2 - x) * y
<1>1. r \in Int /\ b = r + z /\ w = z + r
  OBVIOUS
<1>2. k + 2 - u = 0 /\ 0 * v = 0
  OBVIOUS
<1>3. (k + 2 - u) * v = 0
  BY <1>2
<1> HIDE DEF r
<1>4. b = w /\ w \in Int
  BY <1>1
<1> QED BY <1>3, <1>4

(* The table of the entries and the numbers that build_index() has of it.  *)
EntryTable(e, f, m) ==
  /\ Len(e) = m /\ \A l \in 1..m : e[l].first \in Nat /\ e[l].count \in Nat /\ f[l] \in Int
  /\ \A l \in 1..m - 1 : e[l].first < e[l + 1].first
  /\ \A l \in 2..m : f[l] = f[l - 1] + (e[l].first - e[l - 1].first) * e[l - 1].count

LEMMA TwoEntries ==
  ASSUME NEW e, NEW f, NEW m \in Nat, EntryTable(e, f, m), NEW i \in 1..m
  PROVE  /\ e[i].first \in Nat /\ e[i].count \in Nat /\ f[i] \in Int /\ Len(e) = m
         /\ i < m => /\ i + 1 \in 1..m /\ e[i].first < e[i + 1].first
                     /\ f[i + 1] = f[i] + (e[i + 1].first - e[i].first) * e[i].count
<1>1. i < m => i + 1 \in 2..m /\ i + 1 \in 1..m /\ i \in 1..m - 1 /\ (i + 1) - 1 = i
  OBVIOUS
<1> QED BY <1>1 DEF EntryTable

(* The entry of the next chunk, with k chunks in front of the last one.    *)
LEMMA NextEntry ==
  ASSUME NEW e, NEW f, NEW m \in Nat, EntryTable(e, f, m),
         NEW i \in 1..m, NEW k \in Nat, InEntry(e, i, k + 1), NEW a \in Int,
         a = (k + 1 - e[i].first) * e[i].count + f[i], NEW b, b = a + e[i].count,
         NEW j, j = IF i < m /\ k + 2 >= e[i + 1].first THEN i + 1 ELSE i
  PROVE  InEntry(e, j, k + 2) /\ b = (k + 2 - e[j].first) * e[j].count + f[j]
<1> DEFINE x == e[i].first  y == e[i].count  z == f[i]
           u == e[i + 1].first  v == e[i + 1].count  w == f[i + 1]
<1>1. x \in Nat /\ y \in Nat /\ z \in Int /\ Len(e) = m
  BY TwoEntries
<1>2. x <= k + 1 /\ (i < m => k + 1 < u)
  BY <1>1 DEF InEntry
<1>3. b = (k + 2 - x) * y + z
  <2>1. a = (k + 1 - x) * y + z /\ b = a + y
    OBVIOUS
  <2> HIDE DEF x, y, z
  <2> QED BY <2>1, <1>1, EntrySums
<1>4. CASE i < m /\ k + 2 >= u
  <2>1. j = i + 1 /\ i + 1 \in 1..m
    BY <1>4
  <2>2. w = z + (u - x) * y
    BY <1>4, TwoEntries
  <2>3. u \in Nat /\ v \in Nat /\ (i + 1 < m => u < e[(i + 1) + 1].first /\ e[(i + 1) + 1].first \in Nat)
    <3> DEFINE l == i + 1
    <3>1. l \in 1..m
      BY <2>1
    <3> HIDE DEF l
    <3>2. /\ e[l].first \in Nat /\ e[l].count \in Nat
          /\ l < m => e[l].first < e[l + 1].first /\ l + 1 \in 1..m
      BY <3>1, TwoEntries
    <3>3. l < m => e[l + 1].first \in Nat
      BY <3>2, TwoEntries
    <3> QED BY <3>2, <3>3 DEF l
  <2>4. e[j].first = u /\ e[j].count = v /\ f[j] = w
    BY <2>1
  <2> HIDE DEF u, v, w, x, y, z
  <2>5. u = k + 2
    BY <1>2, <1>4, <2>3
  <2>6. b = (k + 2 - u) * v + w
    BY <1>1, <1>3, <2>2, <2>3, <2>5, EntryStarts
  <2>7. InEntry(e, j, k + 2)
    <3>1. e[j].first <= k + 2
      BY <2>4, <2>5
    <3>2. j < m => k + 2 < e[j + 1].first
      BY <2>1, <2>3, <2>5
    <3> QED BY <3>1, <3>2, <1>1 DEF InEntry
  <2> QED BY <2>4, <2>6, <2>7
<1>5. CASE ~(i < m /\ k + 2 >= u)
  <2>1. j = i
    BY <1>5
  <2>2. i < m => u \in Nat
    <3> DEFINE l == i + 1
    <3>1. i < m => l \in 1..m
      OBVIOUS
    <3> HIDE DEF l
    <3>2. i < m => e[l].first \in Nat
      BY <3>1, TwoEntries
    <3> QED BY <3>2 DEF l
  <2> HIDE DEF u
  <2>3. i < m => k + 2 < u
    BY <2>2, <1>5
  <2>4. x <= k + 2
    <3> HIDE DEF x
    <3> QED BY <1>1, <1>2
  <2>5. InEntry(e, j, k + 2)
    BY <2>1, <2>3, <2>4, <1>1 DEF InEntry, u
  <2> QED BY <2>1, <2>5, <1>3
<1> QED BY <1>4, <1>5

(* A chunk that is used up is left for the next. *)
LEMMA AdvancedInChunk ==
  ASSUME file \in Files, IsMovie(file), CursorsIn(cursor), NEW t \in Tracks, HasChunk(cursor, t),
         InChunk(cursor, t), cursor[t].sample = EndOf(cursor, t)
  PROVE  /\ InChunk(Advanced(t), t) /\ Advanced(t)[t].sample = Behind(Advanced(t), t)
         /\ Advanced(t)[t].sample = cursor[t].sample /\ Advanced(t)[t].chunk = cursor[t].chunk + 1
         /\ \A u \in Tracks : u # t => Advanced(t)[u] = cursor[u]
<1> DEFINE k == cursor[t].chunk  i == cursor[t].index  e == file.tracks[t].sample_chunk
           f == sample_to_chunk(t)  b == file.before[t]  n == NumChunks(t)
           next == i < Len(e) /\ k + 2 >= e[i + 1].first
           j == IF next THEN i + 1 ELSE i
           c == Advanced(t)
<1>1. k \in Nat /\ i \in 1..Len(e) /\ k + 1 \in 1..n
  BY CursorPlace
<1>2. /\ e \in Seq([first : Nat, count : Nat]) /\ Len(e) \in Nat /\ DOMAIN e = 1..Len(e)
      /\ \A l \in 1..Len(e) : e[l].first \in Nat /\ e[l].count \in Nat
      /\ n # 0 => e[1].first = 1
      /\ \A l \in 1..Len(e) - 1 : e[l].first < e[l + 1].first
      /\ \A l \in 1..n : \A m \in 1..Len(e) : InEntry(e, m, l) => b[l + 1] = b[l] + e[m].count
  <2>1. ChunkEntries(e, b, n)
    BY EntryFacts
  <2> HIDE DEF e, b, n, i, k
  <2> QED BY <2>1 DEF ChunkEntries
<1> HIDE DEF e, b, n, f
<1>3. e # <<>>
  <2> HIDE DEF e, i
  <2>1. Len(e) # 0
    BY <1>1, <1>2
  <2> QED BY <1>2, <2>1, EmptySeq
<1>4. EntryTable(e, f, Len(e))
  <2>1. e = file.tracks[t].sample_chunk
    BY DEF e
  <2>2. /\ \A l \in 1..Len(e) : f[l] \in Int
        /\ \A l \in 2..Len(e) : f[l] = f[l - 1] + (e[l].first - e[l - 1].first) * e[l - 1].count
    BY <2>1, <1>2, <1>3, ChunkTable DEF f
  <2> QED BY <2>2, <1>2 DEF EntryTable
<1>5. /\ InEntry(e, i, k + 1) /\ b[k + 1] = (k + 1 - e[i].first) * e[i].count + f[i]
      /\ b[k + 1] \in Int
  <2>1. Behind(cursor, t) \in Nat
    BY CursorPlace
  <2> QED BY <2>1 DEF InChunk, AtEntry, Behind, Entry, e, b, f
<1>6. cursor \in [Tracks -> [chunk : Nat, sample : Nat, index : Nat]]
  BY DEF CursorsIn
<1>7. /\ c[t].chunk = k + 1 /\ c[t].sample = cursor[t].sample /\ c[t].index = j
      /\ \A u \in Tracks : u # t => c[u] = cursor[u]
  BY <1>6 DEF Advanced, e
<1>8. cursor[t].sample = b[k + 2]
  BY DEF EndOf, b
<1>9. HasChunk(c, t) <=> k + 1 < n
  BY <1>7 DEF HasChunk, NumChunks, n
<1> HIDE DEF c, k
<1>10. CursorsIn(c)
  BY AdvancedIn DEF c
<1>11. Behind(c, t) = b[k + 2] /\ (k + 1) + 1 = k + 2
  BY <1>7, <1>1 DEF Behind, b
<1>12. b[k + 2] = b[k + 1] + e[i].count
  BY <1>1, <1>2, <1>5, <1>11
<1>13. InEntry(e, j, k + 2) /\ b[k + 2] = (k + 2 - e[j].first) * e[j].count + f[j]
  <2> DEFINE m == Len(e)  a1 == b[k + 1]  b1 == b[k + 2]
  <2>1. /\ EntryTable(e, f, m) /\ m \in Nat /\ i \in 1..m /\ k \in Nat /\ InEntry(e, i, k + 1)
        /\ a1 \in Int /\ a1 = (k + 1 - e[i].first) * e[i].count + f[i] /\ b1 = a1 + e[i].count
        /\ j = IF i < m /\ k + 2 >= e[i + 1].first THEN i + 1 ELSE i
    BY <1>1, <1>2, <1>4, <1>5, <1>12
  <2> HIDE DEF m, a1, b1, i, j
  <2>2. InEntry(e, j, k + 2) /\ b1 = (k + 2 - e[j].first) * e[j].count + f[j]
    BY <2>1, NextEntry
  <2> QED BY <2>2 DEF b1
<1>14. AtEntry(c, t)
  <2>1. c[t].chunk + 1 = k + 2 /\ Entry(c, t) = e[j] /\ c[t].index = j
    BY <1>1, <1>7 DEF Entry, e
  <2>2. Behind(c, t) = b[k + 2]
    BY <1>11
  <2> HIDE DEF j
  <2>3. InEntry(e, c[t].index, c[t].chunk + 1)
    BY <2>1, <1>13
  <2>4. Behind(c, t) = (c[t].chunk + 1 - Entry(c, t).first) * Entry(c, t).count + f[c[t].index]
    <3>1. /\ c[t].chunk + 1 - Entry(c, t).first = k + 2 - e[j].first
          /\ Entry(c, t).count = e[j].count /\ f[c[t].index] = f[j]
      <4>1. j \in 1..Len(e)
        <5>1. CASE next
          <6>1. i + 1 \in 1..Len(e)
            <7> DEFINE m == Len(e)
            <7>1. i < m /\ i \in 1..m /\ m \in Nat
              BY <1>1, <1>2, <5>1
            <7> HIDE DEF m, i
            <7>2. i + 1 \in 1..m
              BY <7>1
            <7> QED BY <7>2 DEF m
          <6> QED BY <6>1, <5>1 DEF j
        <5>2. CASE ~next
          BY <5>2, <1>1 DEF j
        <5> QED BY <5>1, <5>2
      <4>2. e[j].first \in Nat
        BY <4>1, <1>2
      <4>3. c[t].chunk = k + 1 /\ k \in Nat
        BY <1>1, <1>7
      <4> QED BY <2>1, <4>2, <4>3
    <3>2. Behind(c, t) = (k + 2 - e[j].first) * e[j].count + f[j]
      <4> HIDE DEF e, f, b
      <4> QED BY <2>2, <1>13
    <3> DEFINE p == c[t].chunk + 1 - Entry(c, t).first  q == Entry(c, t).count
    <3> DEFINE p1 == k + 2 - e[j].first  q1 == e[j].count
    <3>3. p = p1 /\ q = q1
      BY <3>1
    <3>4. Behind(c, t) = p1 * q1 + f[j]
      BY <3>2
    <3> HIDE DEF p, q, p1, q1
    <3>5. Behind(c, t) = p * q + f[c[t].index]
      BY <3>1, <3>3, <3>4
    <3> QED BY <3>5 DEF p, q
  <2> QED BY <2>3, <2>4 DEF AtEntry, e, f
<1>15. HasChunk(c, t) => c[t].sample <= EndOf(c, t)
  <2> SUFFICES ASSUME HasChunk(c, t) PROVE c[t].sample <= EndOf(c, t)
    OBVIOUS
  <2>1. Behind(c, t) \in Nat /\ EndOf(c, t) \in Nat /\ Behind(c, t) < EndOf(c, t)
    BY <1>10, CursorPlace
  <2> QED BY <2>1, <1>7, <1>8, <1>11
<1>16. Behind(c, t) <= c[t].sample /\ c[t].sample = Behind(c, t)
  <2>1. Behind(c, t) \in Nat
    BY <1>10, CursorPlace
  <2> QED BY <2>1, <1>7, <1>8, <1>11
<1>17. InChunk(c, t)
  BY <1>14, <1>15, <1>16 DEF InChunk
<1> QED BY <1>7, <1>16, <1>17 DEF c, k

-----------------------------------------------------------------------------
(* Remainders *)

LEMMA Remainder ==
  ASSUME NEW W \in Nat \ {0}, NEW x \in Nat
  PROVE  /\ x % W \in Nat /\ x % W < W /\ x \div W \in Nat /\ x = W * (x \div W) + (x % W)
OBVIOUS

LEMMA SameRemainder ==
  ASSUME NEW W \in Nat \ {0}, NEW p \in Int, NEW q \in Int, NEW r \in Nat, NEW s \in Nat,
         r < W, s < W, W * p + r = W * q + s
  PROVE  r = s
<1>1. W * p - W * q = W * (p - q)
  OBVIOUS
<1> DEFINE d == p - q  x == W * p  y == W * q  z == W * d
<1>2. x \in Int /\ y \in Int /\ z \in Int /\ d \in Int /\ x - y = z /\ x + r = y + s
  BY <1>1
<1>3. d > 0 => z >= W
  <2> HIDE DEF d
  <2> QED BY <1>2
<1>4. d < 0 => z <= -W
  <2> HIDE DEF d
  <2> QED BY <1>2
<1>5. d = 0 => z = 0
  OBVIOUS
<1> HIDE DEF x, y, z, d
<1> QED BY <1>2, <1>3, <1>4, <1>5

LEMMA SmallRemainder ==
  ASSUME NEW W \in Nat \ {0}, NEW x \in Nat, x < W
  PROVE  x % W = x
<1> DEFINE p == x \div W  r == x % W  q == 0
<1>1. p \in Nat /\ r \in Nat /\ r < W /\ x = W * p + r
  BY Remainder
<1>2. W * q + x = x /\ q \in Int
  OBVIOUS
<1>3. W * p + r = W * q + x
  BY <1>1, <1>2
<1> HIDE DEF p, r, q
<1>4. r = x
  BY <1>1, <1>2, <1>3, SameRemainder
<1> QED BY <1>4 DEF r

LEMMA RemainderAdds ==
  ASSUME NEW W \in Nat \ {0}, NEW a \in Nat, NEW x \in Nat
  PROVE  (a + (x % W)) % W = (a + x) % W
<1> DEFINE r == x % W  p == x \div W  b == a + r  c == a + x
           u == b % W  v == c % W  l == b \div W  m == c \div W
<1>1. r \in Nat /\ r < W /\ p \in Nat /\ x = W * p + r
  BY Remainder
<1>2. b \in Nat /\ c \in Nat
  BY <1>1
<1>3. u \in Nat /\ u < W /\ l \in Nat /\ b = W * l + u
  <2> HIDE DEF b
  <2> QED BY <1>2, Remainder
<1>4. v \in Nat /\ v < W /\ m \in Nat /\ c = W * m + v
  <2> HIDE DEF c
  <2> QED BY <1>2, Remainder
<1> DEFINE y == W * p  z == W * l  w == W * m
<1>5. y \in Int /\ z \in Int /\ w \in Int /\ c = b + y
  <2>1. x = y + r /\ y \in Int
    BY <1>1
  <2>2. z \in Int /\ w \in Int
    BY <1>3, <1>4
  <2> HIDE DEF y, r, z, w
  <2> QED BY <2>1, <2>2, <1>1
<1>6. W * (l + p) = z + y
  <2> HIDE DEF l, p
  <2> QED BY <1>1, <1>3
<1>7. z + y + u = w + v
  <2>1. b = z + u /\ c = w + v
    BY <1>3, <1>4
  <2> HIDE DEF y, z, w, b, c, u, v
  <2> QED BY <2>1, <1>3, <1>4, <1>5
<1> DEFINE q == l + p
<1>8. W * q + u = W * m + v /\ q \in Int
  <2>1. W * q = z + y /\ W * m = w
    BY <1>6
  <2>2. q \in Int
    <3> HIDE DEF l, p
    <3> QED BY <1>1, <1>3
  <2> HIDE DEF q, z, y, w, u, v
  <2> QED BY <2>1, <2>2, <1>7
<1> HIDE DEF q, u, v, m
<1>9. u = v
  <2>1. u \in Nat /\ u < W /\ v \in Nat /\ v < W /\ m \in Int /\ q \in Int /\ W * q + u = W * m + v
    BY <1>3, <1>4, <1>8
  <2> QED BY <2>1, SameRemainder
<1> QED BY <1>9 DEF u, v

(* The time of a sample that is computed in a word. *)
LEMMA TimeInWord ==
  ASSUME NEW a \in Nat, NEW x \in Nat
  PROVE  /\ (a + (x % Word)) % Word = (a + x) % Word
         /\ a + x < Word => a + (x % Word) = a + x
<1>1. Word \in Nat \ {0}
  BY WordAssumption
<1>2. a + x < Word => x % Word = x
  <2>1. a + x < Word => x < Word
    BY <1>1
  <2> QED BY <1>1, <2>1, SmallRemainder
<1> QED BY <1>1, <1>2, RemainderAdds

-----------------------------------------------------------------------------
(* The time of a sample of a movie *)

LEMMA TimeFacts ==
  ASSUME file \in Files, IsMovie(file), NEW t \in Tracks, Len(file.samples[t]) # 0
  PROVE  /\ file.tracks[t].sample_time \in Seq([count : Nat, delta : Nat])
         /\ file.tracks[t].sample_time # <<>> /\ Len(file.tracks[t].sample_time) \in Nat \ {0}
         /\ file.tracks[t].sample_time[1].count \in Nat
         /\ file.tracks[t].sample_time[1].delta \in Nat
         /\ \A m \in 1..file.tracks[t].sample_time[1].count :
              file.samples[t][m].duration = file.tracks[t].sample_time[1].delta
         /\ Len(file.tracks[t].sample_time) = 1 =>
              file.tracks[t].sample_time[1].count = Len(file.samples[t])
         /\ file.samples[t][1].time = 0 /\ InTime(file.samples[t], 1, Len(file.samples[t]))
<1> DEFINE e == file.tracks[t].sample_time  s == file.samples[t]
           count == [i \in DOMAIN e |-> e[i].count]  upto == SumTo(count)
<1>1. e \in Seq([count : Nat, delta : Nat])
  <2>1. file.tracks[t] \in TrackTables
    BY FileFacts
  <2> QED BY <2>1 DEF TrackTables
<1>2. /\ upto[Len(e)] = Len(s)
      /\ \A i \in DOMAIN e : \A m \in upto[i - 1] + 1..upto[i] : s[m].duration = e[i].delta
      /\ s # <<>> => s[1].time = 0
      /\ InTime(s, 1, Len(s))
  <2>1. TimesLaid(file.tracks[t], s)
    BY DEF IsMovie, Tracks
  <2> QED BY Zenon, <2>1 DEF TimesLaid
<1>3. s \in Seq(FileSamples) /\ s # <<>>
  <2>1. s \in Seq(FileSamples)
    BY SamplesOf DEF IsMovie
  <2> QED BY <2>1, EmptySeq
<1> HIDE DEF e, s
<1>4. Len(e) \in Nat /\ DOMAIN e = 1..Len(e)
  BY <1>1, LenProperties
<1>5. \A i \in 1..Len(e) : e[i].count \in Nat /\ e[i].delta \in Nat
  <2>1. \A i \in 1..Len(e) : e[i] \in [count : Nat, delta : Nat]
    BY <1>1, ElementOfSeq
  <2> DEFINE n == Len(e)
  <2> HIDE DEF n
  <2>2. \A i \in 1..n : e[i].count \in Nat /\ e[i].delta \in Nat
    BY <2>1 DEF n
  <2> QED BY <2>2 DEF n
<1>6. count \in Seq(Nat) /\ Len(count) = Len(e) /\ \A i \in 1..Len(e) : count[i] = e[i].count
  <2> DEFINE n == Len(e)
  <2>1. count \in [1..n -> Nat] /\ n \in Nat
    BY <1>4, <1>5
  <2>2. \A i \in 1..n : count[i] = e[i].count
    BY <1>4
  <2> HIDE DEF n, count
  <2>3. count \in Seq(Nat) /\ Len(count) = n
    BY <2>1, FunctionIsSeq
  <2> QED BY <2>2, <2>3 DEF n
<1> HIDE DEF count
<1>7. upto[0] = 0 /\ \A k \in 1..Len(e) : upto[k] = upto[k - 1] + count[k]
  BY <1>6, SumSteps
<1> HIDE DEF upto
<1>8. Len(e) \in Nat \ {0} /\ e # <<>>
  <2>1. Len(s) # 0
    BY DEF s
  <2>2. Len(e) # 0
    BY <2>1, <1>2, <1>7
  <2> QED BY <2>2, <1>1, <1>4, EmptySeq
<1>9. 1 \in 1..Len(e) /\ 1 \in DOMAIN e
  BY <1>4, <1>8
<1>10. upto[1] = e[1].count
  <2>1. upto[1] = upto[1 - 1] + count[1] /\ count[1] = e[1].count /\ count[1] \in Nat
    BY <1>5, <1>6, <1>7, <1>9
  <2>2. 1 - 1 = 0
    OBVIOUS
  <2> QED BY <2>1, <2>2, <1>7
<1>11. \A m \in 1..e[1].count : s[m].duration = e[1].delta
  <2>1. \A m \in upto[1 - 1] + 1..upto[1] : s[m].duration = e[1].delta
    BY <1>2, <1>9
  <2>2. upto[1 - 1] + 1 = 1
    BY <1>7
  <2> QED BY <2>1, <2>2, <1>10
<1>12. Len(e) = 1 => e[1].count = Len(s)
  BY <1>2, <1>10
<1> QED BY <1>1, <1>2, <1>3, <1>5, <1>8, <1>9, <1>11, <1>12 DEF e, s

LEMMA SampleTime ==
  ASSUME file \in Files, IsMovie(file), NEW t \in Tracks, NEW n \in Nat,
         n < Len(file.samples[t]), Search(time_to_sample(t), n) # None
  PROVE  /\ Search(time_to_sample(t), n) = 1 /\ time_to_sample(t)[1] = 0
         /\ file.tracks[t].sample_time[1].delta \in Nat
         /\ file.samples[t][n + 1].duration = file.tracks[t].sample_time[1].delta
         /\ file.samples[t][n + 1].time = n * file.tracks[t].sample_time[1].delta
<1> DEFINE e == file.tracks[t].sample_time  s == file.samples[t]  a == time_to_sample(t)
           m == Len(e)  d == e[1].delta  c == e[1].count
<1>0. s \in Seq(FileSamples) /\ Len(s) \in Nat
  BY SamplesOf, SampleTypes DEF IsMovie
<1>1. /\ e \in Seq([count : Nat, delta : Nat]) /\ e # <<>> /\ m \in Nat \ {0} /\ c \in Nat /\ d \in Nat
      /\ \A j \in 1..c : s[j].duration = d
      /\ m = 1 => c = Len(s)
      /\ s[1].time = 0 /\ InTime(s, 1, Len(s))
  <2>1. Len(s) # 0
    BY <1>0
  <2> QED BY <2>1, TimeFacts
<1>2. /\ Len(a) = m /\ a[1] = 0 /\ \A i \in 1..m : a[i] \in Nat
      /\ \A i \in 2..m : a[i] = a[i - 1] + e[i - 1].count
  <2>1. e = file.tracks[t].sample_time
    OBVIOUS
  <2> HIDE DEF e
  <2> QED BY <2>1, <1>1, TimeTable
<1> HIDE DEF e, s, a
<1>3. \A i \in 2..m : m >= 2 => a[2] <= a[i]
  <2> SUFFICES ASSUME m >= 2 PROVE \A i \in 2..m : a[2] <= a[i]
    OBVIOUS
  <2> DEFINE k == m - 2  f == [x \in 0..k |-> a[x + 2]]  b == a[2]  V == {x \in Nat : b <= x}
  <2>1. k \in Nat /\ b \in Nat
    <3>1. 2 \in 1..m
      BY <1>1
    <3> QED BY <3>1, <1>1, <1>2
  <2>2. f[0] \in V
    <3>1. f[0] = b
      BY <2>1
    <3> HIDE DEF f, b
    <3> QED BY <3>1, <2>1
  <2>3. ASSUME NEW x \in 1..k, f[x - 1] \in V PROVE f[x] \in V
    <3>1. x + 2 \in 2..m /\ (x + 2) - 1 = x + 1 /\ x + 1 \in 1..m /\ (x - 1) + 2 = x + 1
          /\ x \in 0..k /\ x - 1 \in 0..k
      BY <1>1
    <3>2. f[x] = a[x + 2] /\ f[x - 1] = a[x + 1]
      BY <3>1
    <3>3. a[x + 2] = a[x + 1] + e[x + 1].count /\ a[x + 1] \in Nat
      BY <3>1, <1>2
    <3>4. e[x + 1].count \in Nat
      <4>1. e[x + 1] \in [count : Nat, delta : Nat]
        BY <3>1, <1>1, ElementOfSeq
      <4> QED BY <4>1
    <3> DEFINE p == a[x + 1]  q == e[x + 1].count
    <3>5. f[x] = p + q /\ f[x - 1] = p /\ p \in Nat /\ q \in Nat
      BY <3>2, <3>3, <3>4
    <3> HIDE DEF p, q, f, b
    <3> QED BY <3>5, <2>1, <2>3
  <2> HIDE DEF f, V
  <2>4. \A x \in 0..k : f[x] \in V
    BY <2>1, <2>2, <2>3, StaysIn
  <2>5. ASSUME NEW i \in 2..m PROVE a[2] <= a[i]
    <3>1. i - 2 \in 0..k /\ (i - 2) + 2 = i
      BY <1>1
    <3>2. f[i - 2] = a[i]
      BY <3>1 DEF f
    <3> QED BY <3>1, <3>2, <2>4 DEF V
  <2> QED BY <2>5
<1>4. Search(a, n) = 1 /\ (m >= 2 => n < a[2])
  <2> HIDE DEF m
  <2>1. Search(a, n) # None
    BY DEF a
  <2> QED BY <2>1, <1>1, <1>2, <1>3, SearchFinds
<1>5. n < c
  <2>1. CASE m = 1
    BY <2>1, <1>1 DEF s
  <2>2. CASE m # 1
    <3>1. m >= 2 /\ 2 \in 2..m /\ 2 - 1 = 1
      <4>1. m \in Nat \ {0} /\ m # 1
        BY <2>2, <1>1
      <4> HIDE DEF m
      <4> QED BY <4>1
    <3>2. a[2] = a[2 - 1] + e[2 - 1].count
      BY <3>1, <1>2
    <3>3. a[2] = c
      <4>1. a[2] = a[1] + c /\ a[1] = 0
        BY <3>1, <3>2, <1>2
      <4> HIDE DEF c
      <4> QED BY <4>1, <1>1
    <3> QED BY <3>1, <3>3, <1>4
  <2> QED BY <2>1, <2>2
<1> HIDE DEF c, d, m
<1>6. s[n + 1].duration = d
  <2>1. n + 1 \in 1..c
    BY <1>1, <1>5
  <2> QED BY <2>1, <1>1
<1>7. s[n + 1].time = n * d
  <2> DEFINE f == [x \in 0..n |-> s[x + 1].time]  g == [x \in 0..n |-> x * d]
  <2>1. f[0] = g[0]
    <3>1. f[0] = s[1].time /\ g[0] = 0 * d /\ 0 * d = 0
      BY <1>1
    <3> HIDE DEF f, g
    <3> QED BY <3>1, <1>1
  <2>2. ASSUME NEW x \in 1..n, f[x - 1] = g[x - 1] PROVE f[x] = g[x]
    <3>1. x \in 0..n /\ x - 1 \in 0..n /\ (x - 1) + 1 = x /\ x \in 1..Len(s) - 1 /\ x \in 1..c
      BY <1>0, <1>5, <1>1 DEF s
    <3>2. f[x] = s[x + 1].time /\ f[x - 1] = s[x].time /\ g[x] = x * d /\ g[x - 1] = (x - 1) * d
      BY <3>1
    <3>3. s[x + 1].time = s[x].time + s[x].duration
      BY <3>1, <1>1 DEF InTime
    <3>4. s[x].duration = d
      BY <3>1, <1>1
    <3> DEFINE y == x - 1  p == y * d
    <3>5. y \in Int /\ y + 1 = x
      OBVIOUS
    <3> HIDE DEF y
    <3>6. p \in Int /\ (y + 1) * d = p + d
      BY <3>5, <1>1, OneMore
    <3>7. s[x].time = p
      BY <3>2, <2>2 DEF y
    <3> HIDE DEF p, f, g
    <3> QED BY <3>2, <3>3, <3>4, <3>5, <3>6, <3>7
  <2> HIDE DEF f, g
  <2>3. \A x \in 0..n : f[x] = g[x]
    <3>1. StepAlike(f, g, n)
      BY <2>2 DEF StepAlike
    <3> QED BY <2>1, <3>1, SameSteps
  <2>4. n \in 0..n
    OBVIOUS
  <2>5. f[n] = g[n]
    BY <2>3, <2>4
  <2> QED BY <2>4, <2>5 DEF f, g
<1> QED BY <1>1, <1>2, <1>4, <1>6, <1>7 DEF a, s, e, d

-----------------------------------------------------------------------------
(* What holds of the packets of every file *)

(* The bytes, the duration and the time that the packet of a sample has to *)
(* have.                                                                   *)
SampleIs(s, at, size, time, duration) ==
  /\ at = s.at /\ size = s.size /\ duration = s.duration
  /\ s.timed => time % Word = s.time % Word /\ (s.time < Word => time = s.time)

AllDelivered == \A t \in Tracks : delivered[t] = Len(file.samples[t])

ReaderIn ==
  /\ reader.offset \in Nat /\ file.end \in Nat /\ reader.offset <= file.end
  /\ reader.error \in {"OK"} \cup ReaderErrors

OutputInv ==
  /\ delivered \in [Tracks -> Nat] /\ \A t \in Tracks : delivered[t] <= Len(file.samples[t])
  /\ packet.track # 0 => packet.track \in Tracks
  /\ packet.track # 0 /\ failure # "unread" =>
       SampleIs(file.samples[packet.track][delivered[packet.track]], packet.at, packet.size,
                packet.time, packet.duration)

(* The reader is at the end of the file only when all has been delivered.  *)
EndInv ==
  /\ failure = "none" /\ reader.error = "XE_EOF" => AllDelivered
  /\ EndIsTheEnd

Untouched ==
  /\ reader = [offset |-> 0, error |-> "OK"] /\ failure = "none"
  /\ ~found_moov /\ ~found_moof /\ ~found_mdat /\ ~built_index

CallInv ==
  /\ pc # "idle" => result = "OK"
  /\ failure \in {"none", "truncated", "unread"}
  /\ pc = "idle" /\ ~opened /\ result = "OK" => Untouched

SamplesInv == ReaderIn /\ OutputInv /\ EndInv /\ CallInv

LEMMA TableKept ==
  ASSUME UNCHANGED file, NEW t
  PROVE  sample_to_chunk(t)' = sample_to_chunk(t) /\ Tracks' = Tracks
BY DEF sample_to_chunk, Tracks

LEMMA AllKept ==
  ASSUME UNCHANGED <<file, delivered>>, AllDelivered
  PROVE  AllDelivered'
BY DEF AllDelivered, Tracks

LEMMA OutputKept ==
  ASSUME SamplesInv, UNCHANGED <<file, output>>, failure' # "unread" => failure # "unread"
  PROVE  OutputInv'
<1>1. OutputInv /\ Tracks' = Tracks /\ file' = file /\ packet' = packet /\ delivered' = delivered
  BY DEF SamplesInv, Tracks, output
<1> QED BY <1>1 DEF OutputInv

(* How the reader fails. *)
LEMMA BreaksOff ==
  ASSUME SamplesInv, ReaderOK, NEW e \in ReaderErrors, Broken(e), UNCHANGED file
  PROVE  /\ ReaderIn' /\ reader'.offset = reader.offset /\ reader'.error = e /\ reader.error = "OK"
         /\ failure' \in {"none", "truncated", "unread"}
         /\ failure' = "unread" <=> failure = "unread"
         /\ failure' = "none" => failure = "none" /\ reader'.error = "XE_EXTERNAL" /\ e = "XE_EXTERNAL"
<1>1. reader' = [reader EXCEPT !.error = e] /\ reader.error = "OK"
  BY DEF Broken
<1>2. reader' = [offset |-> reader.offset, error |-> e]
  BY <1>1 DEF ReaderOK
<1>3. ReaderIn'
  BY <1>2 DEF SamplesInv, ReaderIn
<1>4. failure' = IF e = "XE_EOF" /\ failure = "none" THEN "truncated" ELSE failure
  BY DEF Broken
<1>5. failure \in {"none", "truncated", "unread"} /\ e \in {"XE_EOF", "XE_EXTERNAL"}
  BY DEF SamplesInv, CallInv, ReaderErrors
<1> QED BY <1>1, <1>2, <1>3, <1>4, <1>5

LEMMA SkipsTo ==
  ASSUME ReaderIn, UNCHANGED file, NEW o \in Nat, reader.offset <= o, o <= file.end,
         reader' = SkippedTo(o)
  PROVE  /\ ReaderIn' /\ reader' = [offset |-> o, error |-> "OK"]
         /\ reader'.offset = o /\ reader'.error = "OK"
<1>1. o >= reader.offset
  BY DEF ReaderIn
<1>2. reader' = [offset |-> o, error |-> "OK"]
  BY <1>1 DEF SkippedTo
<1> QED BY <1>2 DEF ReaderIn

LEMMA SkipsIn ==
  ASSUME ReaderIn, UNCHANGED file, NEW o \in Nat, o <= file.end, ReaderOK,
         reader' = [reader EXCEPT !.offset = o]
  PROVE  /\ ReaderIn' /\ reader' = [offset |-> o, error |-> reader.error]
         /\ reader'.offset = o /\ reader'.error = reader.error
<1>1. reader' = [offset |-> o, error |-> reader.error]
  BY DEF ReaderOK
<1> QED BY <1>1 DEF ReaderIn

(* The end of a call, with an error of the reader or for want of memory.   *)
LEMMA FailEnds ==
  ASSUME NEW e, result' = e, e = "XE_ENOMEM" \/ (e = reader'.error /\ e \in ReaderErrors),
         failure' = "none" /\ reader'.error = "XE_EOF" => AllDelivered'
  PROVE  EndInv'
<1>1. (result = "XE_EOF")' => \/ (failure # "none")'
                             \/ AllDelivered'
  BY DEF ReaderErrors
<1>2. e \in {"XE_ENOMEM", "XE_EOF", "XE_EXTERNAL"}
  BY DEF ReaderErrors
<1>3. EndIsTheEnd'
  BY <1>1, <1>2 DEF EndIsTheEnd, AllDelivered
<1> QED BY <1>3 DEF EndInv

LEMMA GoesOnEnds ==
  ASSUME result' = "OK", failure' = "none" /\ reader'.error = "XE_EOF" => AllDelivered'
  PROVE  EndInv'
BY DEF EndInv, EndIsTheEnd

(* A sample is read into a packet. *)
LEMMA DeliverStep ==
  ASSUME SamplesInv, ReaderOK, UNCHANGED file, result = "OK", NEW t \in Tracks, t # 0,
         delivered[t] < Len(file.samples[t]), Len(file.samples[t]) \in Nat,
         NEW size \in Nat, NEW time, NEW duration,
         reader.error = "OK" /\ failure # "unread" =>
           SampleIs(file.samples[t][delivered[t] + 1], reader.offset, size, time, duration),
         Deliver(t, size, time, duration)
  PROVE  /\ ReaderIn' /\ OutputInv' /\ EndInv' /\ pc' = "idle" /\ UNCHANGED opened
         /\ failure' \in {"none", "truncated", "unread"}
         /\ failure' = "unread" <=> failure = "unread"
         /\ reader'.offset >= reader.offset
         /\ result' = "OK" =>
              /\ UNCHANGED failure /\ reader.error = "OK"
              /\ reader'.offset = reader.offset + size /\ reader'.error = "OK"
              /\ delivered' = [delivered EXCEPT ![t] = @ + 1]
         /\ result' # "OK" => UNCHANGED output
<1> DEFINE Done ==
         /\ ReaderIn' /\ OutputInv' /\ EndInv' /\ pc' = "idle" /\ UNCHANGED opened
         /\ failure' \in {"none", "truncated", "unread"}
         /\ failure' = "unread" <=> failure = "unread"
         /\ reader'.offset >= reader.offset
         /\ result' = "OK" =>
              /\ UNCHANGED failure /\ reader.error = "OK"
              /\ reader'.offset = reader.offset + size /\ reader'.error = "OK"
              /\ delivered' = [delivered EXCEPT ![t] = @ + 1]
         /\ result' # "OK" => UNCHANGED output
<1> SUFFICES Done
  OBVIOUS
<1> DEFINE Ends(e) == Fail(e) /\ UNCHANGED <<reader, output, failure>>
           Breaks1 == (\E e \in ReaderErrors : Broken(e) /\ Fail(e)) /\ UNCHANGED output
           Comes == /\ reader.error = "OK" /\ reader.offset + size <= file.end
                    /\ reader' = [reader EXCEPT !.offset = reader.offset + size]
                    /\ packet' = [track |-> t, at |-> reader.offset, size |-> size, time |-> time,
                                  duration |-> duration]
                    /\ delivered' = [delivered EXCEPT ![t] = delivered[t] + 1]
                    /\ Go("idle") /\ UNCHANGED failure
<1>1. Ends("XE_ENOMEM") \/ (reader.error # "OK" /\ Ends(reader.error)) \/ Breaks1 \/ Comes
  BY DEF Deliver
<1> HIDE DEF Deliver
<1>2. /\ failure \in {"none", "truncated", "unread"} /\ ReaderIn
      /\ failure = "none" /\ reader.error = "XE_EOF" => AllDelivered
      /\ reader.offset \in Nat
  BY DEF SamplesInv, CallInv, EndInv, ReaderIn
<1>3. ASSUME NEW e, Ends(e), e = "XE_ENOMEM" \/ (e = reader.error /\ e # "OK")
      PROVE  Done
  <2>1. UNCHANGED <<reader, packet, delivered, failure, file>> /\ result' = e /\ pc' = "idle" /\ UNCHANGED opened
    BY <1>3 DEF Fail, output
  <2>2. ReaderIn' /\ reader'.offset >= reader.offset
    BY <2>1, <1>2 DEF ReaderIn
  <2>3. OutputInv'
    BY <2>1, OutputKept DEF output
  <2>4. e = "XE_ENOMEM" \/ (e = reader'.error /\ e \in ReaderErrors)
    BY <1>2, <1>3, <2>1 DEF ReaderIn
  <2>5. failure' = "none" /\ reader'.error = "XE_EOF" => AllDelivered'
    BY <2>1, <1>2, AllKept
  <2>6. EndInv'
    BY <2>1, <2>4, <2>5, FailEnds
  <2>7. result' # "OK"
    BY <2>1, <2>4 DEF ReaderErrors
  <2> QED BY <2>1, <2>2, <2>3, <2>6, <2>7, <1>2 DEF output
<1>4. ASSUME NEW e \in ReaderErrors, Broken(e), Fail(e), UNCHANGED output
      PROVE  Done
  <2>1. /\ ReaderIn' /\ reader'.offset = reader.offset /\ reader'.error = e
        /\ failure' \in {"none", "truncated", "unread"}
        /\ failure' = "unread" <=> failure = "unread"
        /\ failure' = "none" => e = "XE_EXTERNAL"
    BY <1>4, BreaksOff
  <2>2. OutputInv'
    BY <1>4, <2>1, OutputKept
  <2>3. pc' = "idle" /\ result' = e /\ UNCHANGED opened
    BY <1>4 DEF Fail
  <2>4. EndInv'
    BY <2>1, <2>3, FailEnds
  <2>5. reader'.offset >= reader.offset /\ result' # "OK"
    BY <2>1, <2>3, <1>2 DEF ReaderErrors
  <2> QED BY <2>1, <2>2, <2>3, <2>4, <2>5, <1>4
<1>5. CASE Comes
  <2> DEFINE o == reader.offset + size
  <2>1. /\ reader.error = "OK" /\ o <= file.end /\ reader' = [reader EXCEPT !.offset = o]
        /\ pc' = "idle" /\ result' = "OK" /\ UNCHANGED <<opened, failure>>
    BY <1>5 DEF Go
  <2>2. o \in Nat /\ o >= reader.offset
    BY <1>2
  <2> HIDE DEF o
  <2>3. ReaderIn' /\ reader'.offset = o /\ reader'.error = "OK"
    BY <2>1, <2>2, <1>2, SkipsIn
  <2>4. EndInv'
    BY <2>1, <2>3, GoesOnEnds
  <2>5. OutputInv'
    <3>1. /\ delivered' = [delivered EXCEPT ![t] = delivered[t] + 1]
          /\ packet' = [track |-> t, at |-> reader.offset, size |-> size, time |-> time,
                        duration |-> duration]
      BY <1>5
    <3>2. delivered \in [Tracks -> Nat] /\ \A u \in Tracks : delivered[u] <= Len(file.samples[u])
      BY DEF SamplesInv, OutputInv
    <3> DEFINE d == delivered[t]  n == Len(file.samples[t])
    <3>3. d \in Nat /\ n \in Nat /\ d < n
      BY <3>2
    <3>4. /\ delivered' \in [Tracks -> Nat] /\ delivered'[t] = d + 1
          /\ \A u \in Tracks : u # t => delivered'[u] = delivered[u]
      BY <3>1, <3>2
    <3>5. d + 1 <= n
      <4> HIDE DEF d, n
      <4> QED BY <3>3
    <3>6. \A u \in Tracks : delivered'[u] <= Len(file.samples[u])
      <4> HIDE DEF d
      <4> QED BY <3>2, <3>4, <3>5
    <3>7. failure' # "unread" => SampleIs(file.samples[t][d + 1], reader.offset, size, time, duration)
      BY <2>1
    <3> HIDE DEF d
    <3>9. Tracks' = Tracks /\ file' = file
      BY DEF Tracks
    <3>10. packet'.track = t /\ packet'.at = reader.offset /\ packet'.size = size /\ packet'.time = time
           /\ packet'.duration = duration
      BY <3>1
    <3>11. delivered'[packet'.track] = d + 1
      BY <3>4, <3>10
    <3>12. failure' # "unread" => SampleIs(file'.samples[packet'.track][delivered'[packet'.track]],
                                           packet'.at, packet'.size, packet'.time, packet'.duration)
      BY <3>7, <3>9, <3>10, <3>11
    <3>13. packet'.track \in Tracks' /\ delivered' \in [Tracks' -> Nat]
      BY <3>4, <3>9, <3>10
    <3>14. \A u \in Tracks' : delivered'[u] <= Len(file'.samples[u])
      BY <3>6, <3>9
    <3> QED BY <3>12, <3>13, <3>14 DEF OutputInv
  <2> QED BY <2>1, <2>2, <2>3, <2>4, <2>5, <1>2, <1>5 DEF o
<1>6. ASSUME Breaks1 PROVE Done
  <2> HIDE DEF Done
  <2> QED BY <1>4, <1>6
<1> HIDE DEF Ends, Breaks1, Comes, Done
<1>7. \A e : e = "XE_ENOMEM" \/ (e = reader.error /\ e # "OK") => (Ends(e) => Done)
  BY <1>3
<1> QED BY <1>1, <1>5, <1>6, <1>7

-----------------------------------------------------------------------------
(* The movie: the inductive invariant *)

LaidMovie == file \in Files /\ IsMovie(file) /\ (file.streamable => InOrder(file))

(* Where the next sample of a track lies, if its chunk is the one that is  *)
(* read.                                                                   *)
PlaceOf(c, t) ==
  IF c[t].sample < EndOf(c, t) THEN file.samples[t][c[t].sample + 1].at
                               ELSE ChunkEnd(file, t, c[t].chunk + 1)

(* The chunks that no sample has been read from lie behind o. *)
AllAhead(c, o) == \A t \in Tracks : HasChunk(c, t) => o <= ChunkOffset(c, t)
OthersAhead(c, t) ==
  \A u \in Tracks : u # t /\ HasChunk(c, u) =>
    ChunkEnd(file, t, c[t].chunk + 1) <= ChunkOffset(c, u)

AtPlace ==
  /\ HasChunk(cursor, track_index)
  /\ reader.error = "OK" => reader.offset = PlaceOf(cursor, track_index)
  /\ file.streamable => OthersAhead(cursor, track_index)

(* The walk of open() stops before it has found both. *)
Walked(c) == /\ c.end <= reader.offset
             /\ c.type = "moov" => found_moov
             /\ c.type = "mdat" => found_mdat
MovieWalk ==
  /\ ~(found_moov /\ found_mdat)
  /\ \A c \in file.boxes : c.start >= reader.offset \/ Walked(c)
  /\ file.streamable => ~found_mdat

(* The samples that are counted and those that have been delivered are the *)
(* same, until a sample gets lost with an error.                           *)
AllInChunks ==
  /\ \A t \in Tracks : InChunk(cursor, t) /\ delivered[t] = cursor[t].sample
  /\ \A t \in Tracks : t # track_index \/ ~built_index => cursor[t].sample = Behind(cursor, t)

MovieGoesOn ==
  /\ AllInChunks
  /\ pc = "sample" => built_index /\ cursor[track_index].sample < EndOf(cursor, track_index)
  /\ built_index /\ pc \in {"idle", "sample"} => AtPlace
  /\ pc = "fragment" /\ failure = "none" => AllDelivered
  /\ pc = "open" => MovieWalk
  /\ file.streamable /\ pc = "idle" /\ opened /\ ~built_index /\ reader.error = "OK" =>
       AllAhead(cursor, reader.offset)

MoviePlaces ==
  /\ pc \in {"idle", "open", "sample", "fragment", "hung"}
  /\ ~found_moof /\ moof.trafs = <<>> /\ failure # "unread"
  /\ built_index \in BOOLEAN /\ (built_index => opened)

MovieInv == SamplesInv /\ MoviePlaces /\ (result = "OK" => MovieGoesOn)

Forward == file.streamable => reader'.offset >= reader.offset

-----------------------------------------------------------------------------
(* What a step leaves alone *)

LEMMA CursorSame ==
  ASSUME UNCHANGED file, NEW c, cursor' = c, NEW t
  PROVE  /\ InChunk(cursor, t)' <=> InChunk(c, t)
         /\ HasChunk(cursor, t)' <=> HasChunk(c, t)
         /\ Behind(cursor, t)' = Behind(c, t) /\ EndOf(cursor, t)' = EndOf(c, t)
         /\ ChunkOffset(cursor, t)' = ChunkOffset(c, t) /\ PlaceOf(cursor, t)' = PlaceOf(c, t)
<1>1. /\ HasChunk(cursor, t)' <=> HasChunk(c, t)
      /\ Behind(cursor, t)' = Behind(c, t) /\ EndOf(cursor, t)' = EndOf(c, t)
      /\ ChunkOffset(cursor, t)' = ChunkOffset(c, t) /\ Entry(cursor, t)' = Entry(c, t)
  BY DEF HasChunk, Behind, EndOf, ChunkOffset, Entry
<1>2. sample_to_chunk(t)' = sample_to_chunk(t)
  BY TableKept
<1>3. AtEntry(cursor, t)' <=> AtEntry(c, t)
  BY <1>1, <1>2 DEF AtEntry, InEntry
<1>4. InChunk(cursor, t)' <=> InChunk(c, t)
  BY <1>1, <1>3 DEF InChunk
<1>5. PlaceOf(cursor, t)' = PlaceOf(c, t)
  BY <1>1 DEF PlaceOf, ChunkEnd, SampleEnd
<1> QED BY <1>1, <1>4, <1>5

LEMMA ChunksSame ==
  ASSUME UNCHANGED <<file, delivered, movie>>, AllInChunks
  PROVE  AllInChunks'
<1>1. cursor' = cursor /\ built_index' = built_index /\ track_index' = track_index
  BY DEF movie
<1>2. Tracks' = Tracks /\ delivered' = delivered
  BY DEF Tracks
<1>3. ASSUME NEW t \in Tracks
      PROVE  InChunk(cursor, t)' /\ delivered'[t] = cursor'[t].sample
  BY <1>1, <1>2, <1>3, CursorSame DEF AllInChunks
<1>4. ASSUME NEW t \in Tracks, t # track_index' \/ ~built_index'
      PROVE  cursor'[t].sample = Behind(cursor, t)'
  BY <1>1, <1>2, <1>4, CursorSame DEF AllInChunks
<1> QED BY <1>2, <1>3, <1>4 DEF AllInChunks

LEMMA AheadSame ==
  ASSUME UNCHANGED file, NEW c, cursor' = c, NEW o, reader'.offset = o
  PROVE  AllAhead(cursor, reader.offset)' <=> AllAhead(c, o)
<1>1. \A t : /\ HasChunk(cursor, t)' <=> HasChunk(c, t)
             /\ ChunkOffset(cursor, t)' = ChunkOffset(c, t)
  BY CursorSame
<1> QED BY <1>1, TableKept DEF AllAhead

LEMMA OthersSame ==
  ASSUME UNCHANGED file, NEW c, cursor' = c, NEW t, track_index' = t
  PROVE  OthersAhead(cursor, track_index)' <=> OthersAhead(c, t)
<1>1. \A u : /\ HasChunk(cursor, u)' <=> HasChunk(c, u)
             /\ ChunkOffset(cursor, u)' = ChunkOffset(c, u)
  BY CursorSame
<1>2. Tracks' = Tracks
  BY DEF Tracks
<1> QED BY <1>1, <1>2 DEF OthersAhead

LEMMA PlaceSame ==
  ASSUME UNCHANGED <<file, reader, movie>>, AtPlace
  PROVE  AtPlace'
<1>1. cursor' = cursor /\ track_index' = track_index
  BY DEF movie
<1>2. /\ HasChunk(cursor, track_index)' <=> HasChunk(cursor, track_index)
      /\ PlaceOf(cursor, track_index)' = PlaceOf(cursor, track_index)
  BY <1>1 DEF HasChunk, PlaceOf, EndOf
<1>3. OthersAhead(cursor, track_index)' <=> OthersAhead(cursor, track_index)
  BY <1>1, OthersSame
<1> QED BY <1>2, <1>3 DEF AtPlace

(* Steps that end a call with an error. *)
LEMMA MovieEnds ==
  ASSUME MovieInv, UNCHANGED <<file, output, moof, found_moof, opened>>,
         built_index' \in BOOLEAN, built_index' => opened,
         ReaderIn', EndInv', pc' = "idle", result' # "OK", failure' \in {"none", "truncated"}
  PROVE  MovieInv'
<1>1. failure # "unread" /\ failure' # "unread" /\ ~found_moof' /\ (moof.trafs)' = <<>>
  BY DEF MovieInv, MoviePlaces
<1>2. OutputInv'
  BY <1>1, OutputKept DEF MovieInv
<1>3. CallInv'
  BY DEF CallInv
<1>4. MoviePlaces'
  BY <1>1 DEF MoviePlaces
<1> QED BY <1>2, <1>3, <1>4 DEF MovieInv, SamplesInv

(* Steps after which the demuxer goes on. *)
LEMMA MovieGoes ==
  ASSUME MovieInv, UNCHANGED <<file, output, moof, found_moof>>,
         built_index' \in BOOLEAN, built_index' => opened', opened' \/ pc' # "idle",
         ReaderIn', failure' \in {"none", "truncated"},
         failure' = "none" /\ reader'.error = "XE_EOF" => AllDelivered', result' = "OK",
         pc' \in {"idle", "open", "sample", "fragment", "hung"}, MovieGoesOn'
  PROVE  MovieInv'
<1>1. failure # "unread" /\ failure' # "unread" /\ ~found_moof' /\ (moof.trafs)' = <<>>
  BY DEF MovieInv, MoviePlaces
<1>2. OutputInv'
  BY <1>1, OutputKept DEF MovieInv
<1>3. CallInv'
  BY DEF CallInv
<1>4. MoviePlaces'
  BY <1>1 DEF MoviePlaces
<1>5. EndInv'
  BY GoesOnEnds
<1> QED BY <1>2, <1>3, <1>4, <1>5 DEF MovieInv, SamplesInv

LEMMA MovieFacts ==
  ASSUME MovieInv
  PROVE  /\ ReaderIn /\ failure \in {"none", "truncated"} /\ SamplesInv
         /\ failure = "none" /\ reader.error = "XE_EOF" => AllDelivered
         /\ pc # "idle" => result = "OK"
         /\ result = "OK" => MovieGoesOn /\ AllInChunks
BY DEF MovieInv, SamplesInv, MoviePlaces, CallInv, EndInv, MovieGoesOn

-----------------------------------------------------------------------------
(* The walk over the boxes of a file that is laid out *)

LEMMA BoxFacts ==
  ASSUME file \in Files, BoxesLaid(file), NEW b \in file.boxes
  PROVE  /\ b.start \in Nat /\ b.end \in Nat /\ file.end \in Nat
         /\ b.start < b.end /\ b.start + HEADER <= b.end /\ b.end <= file.end
         /\ \A c \in file.boxes : b # c => b.end <= c.start \/ c.end <= b.start
<1>1. b.start \in Nat
  BY FileFacts
<1>2. /\ b.end \in Nat /\ file.end \in Nat /\ b.start + HEADER <= b.end /\ b.end <= file.end
      /\ \A c \in file.boxes : b # c => b.end <= c.start \/ c.end <= b.start
  BY DEF BoxesLaid
<1>3. b.start < b.end
  BY <1>1, <1>2 DEF HEADER
<1> QED BY <1>1, <1>2, <1>3

LEMMA TheBoxIs ==
  ASSUME file \in Files, BoxesLaid(file), NEW type, Box(type)
  PROVE  /\ InRoot /\ reader.error = "OK"
         /\ TheBox \in file.boxes /\ TheBox.start = reader.offset /\ TheBox.type = type
         /\ \A c \in file.boxes : c # TheBox => TheBox.end <= c.start \/ c.end <= TheBox.start
<1>1. PICK b \in file.boxes : b.start = reader.offset /\ b.type = type
  BY DEF Box
<1>2. TheBox \in file.boxes /\ TheBox.start = reader.offset
  BY <1>1 DEF TheBox
<1>3. TheBox = b
  <2> DEFINE x == TheBox
  <2>1. x \in file.boxes /\ x.start = b.start
    BY <1>1, <1>2
  <2> HIDE DEF x
  <2>2. x # b => x.end <= b.start \/ b.end <= x.start
    BY <2>1, BoxFacts
  <2>3. x.start < x.end /\ b.start < b.end /\ x.start \in Nat /\ x.end \in Nat /\ b.end \in Nat
    BY <2>1, BoxFacts
  <2>4. x = b
    BY <2>1, <2>2, <2>3
  <2> QED BY <2>4 DEF x
<1>4. InRoot /\ reader.error = "OK"
  BY DEF Box
<1>5. \A c \in file.boxes : c # TheBox => TheBox.end <= c.start \/ c.end <= TheBox.start
  <2> DEFINE x == TheBox
  <2>1. x \in file.boxes
    BY <1>2
  <2> HIDE DEF x
  <2>2. \A c \in file.boxes : c # x => x.end <= c.start \/ c.end <= x.start
    BY <2>1, BoxFacts
  <2> QED BY <2>2 DEF x
<1> QED BY <1>1, <1>2, <1>3, <1>4, <1>5

(* Behind a box lie the boxes that lie behind its start, or in front of it *)
(* those in front.                                                         *)
LEMMA BoxBehind ==
  ASSUME file \in Files, BoxesLaid(file), NEW b \in file.boxes, NEW c \in file.boxes, c # b,
         c.start >= b.start
  PROVE  c.start >= b.end
<1>1. /\ b.start \in Nat /\ b.end \in Nat
      /\ b.end <= c.start \/ c.end <= b.start
  BY BoxFacts
<1>2. c.start \in Nat /\ c.end \in Nat /\ c.start < c.end
  BY BoxFacts
<1> QED BY <1>1, <1>2

LEMMA MovieIs ==
  ASSUME LaidMovie
  PROVE  /\ file \in Files /\ IsMovie(file) /\ BoxesLaid(file) /\ SamplesTyped(file)
         /\ \A b \in file.boxes : b.type # "moof"
         /\ file.streamable => InOrder(file)
BY DEF LaidMovie, IsMovie

(* The data of the chunks lies in the boxes that the walk has not passed.  *)
LEMMA AheadOfWalk ==
  ASSUME LaidMovie, CursorsIn(cursor), NEW o \in Nat,
         \A c \in file.boxes : c.type = "mdat" => c.start + HEADER >= o
  PROVE  AllAhead(cursor, o)
<1> SUFFICES ASSUME NEW t \in Tracks, HasChunk(cursor, t) PROVE o <= ChunkOffset(cursor, t)
  BY DEF AllAhead
<1> DEFINE k == cursor[t].chunk + 1
<1>1. k \in 1..NumChunks(t) /\ ChunkOffset(cursor, t) = ChunkAt(file, t, k)
  BY MovieIs, CursorPlace
<1> HIDE DEF k
<1>2. /\ ChunkAt(file, t, k) \in Nat
      /\ \E b \in file.boxes : b.type = "mdat" /\ b.start + HEADER <= ChunkAt(file, t, k)
  BY <1>1, MovieIs, ChunkPlace
<1>3. PICK b \in file.boxes : b.type = "mdat" /\ b.start + HEADER <= ChunkAt(file, t, k)
  BY <1>2
<1>4. b.start \in Nat /\ b.start + HEADER >= o
  BY <1>3, MovieIs, BoxFacts
<1> QED BY <1>1, <1>2, <1>3, <1>4 DEF HEADER

-----------------------------------------------------------------------------
(* The walk of open() in a movie *)

LEMMA MovieRoot ==
  ASSUME TablesInv, MovieInv, InRoot
  PROVE  /\ pc = "open" /\ ~opened /\ opened \in BOOLEAN /\ ~built_index /\ result = "OK"
         /\ MovieWalk /\ AllInChunks
         /\ ReaderOK /\ FoundOK /\ CursorsIn(cursor)
<1>1. pc = "open"
  BY DEF InRoot, MovieInv, MoviePlaces
<1>2. ~opened /\ opened \in BOOLEAN /\ ReaderOK /\ FoundOK /\ CursorsIn(cursor)
  BY <1>1 DEF TablesInv, PacketInv, CursorsOK
<1>3. ~built_index /\ result = "OK"
  BY <1>1, <1>2, MovieFacts DEF MovieInv, MoviePlaces
<1>4. MovieWalk /\ AllInChunks
  BY <1>1, <1>3, MovieFacts DEF MovieGoesOn
<1> QED BY <1>1, <1>2, <1>3, <1>4

LEMMA MovieReturns ==
  ASSUME TablesInv, MovieInv, InRoot, RootReturns,
         UNCHANGED <<file, movie, output, moof, found_moof>>,
         ReaderIn', failure' \in {"none", "truncated"},
         failure' = "none" /\ reader'.error = "XE_EOF" => AllDelivered',
         file.streamable /\ reader'.error = "OK" => AllAhead(cursor, reader'.offset)
  PROVE  MovieInv'
<1>1. pc = "open" /\ ~opened /\ ~built_index /\ AllInChunks
  BY MovieRoot
<1>2. built_index' = built_index /\ cursor' = cursor /\ built_index \in BOOLEAN
  BY DEF movie, MovieInv, MoviePlaces
<1>3. pc' = "idle" /\ ((result' = "OK" /\ opened' = TRUE) \/ (result' = "XE_ENOMEM" /\ UNCHANGED opened))
  BY <1>1 DEF RootReturns
<1>4. CASE result' = "OK" /\ opened' = TRUE
  <2>1. AllInChunks'
    BY <1>1, ChunksSame DEF output
  <2>2. (file.streamable /\ reader.error = "OK" => AllAhead(cursor, reader.offset))'
    <3> DEFINE o == reader'.offset  c == cursor
    <3>1. cursor' = c /\ reader'.offset = o
      BY <1>2
    <3>2. file.streamable /\ reader'.error = "OK" => AllAhead(c, o)
      OBVIOUS
    <3> HIDE DEF o, c
    <3>3. AllAhead(cursor, reader.offset)' <=> AllAhead(c, o)
      BY <3>1, AheadSame
    <3> QED BY <3>2, <3>3
  <2>3. MovieGoesOn'
    BY <2>1, <2>2, <1>1, <1>2, <1>3 DEF MovieGoesOn
  <2> QED BY <2>3, <1>1, <1>2, <1>3, <1>4, MovieGoes
<1>5. CASE result' = "XE_ENOMEM" /\ UNCHANGED opened
  <2> DEFINE e == "XE_ENOMEM"
  <2>1. result' = e /\ e = "XE_ENOMEM"
    BY <1>5
  <2> HIDE DEF e
  <2>2. EndInv'
    BY <2>1, FailEnds
  <2>3. result' # "OK"
    BY <1>5
  <2> QED BY <2>2, <2>3, <1>1, <1>2, <1>3, <1>5, MovieEnds
<1> QED BY <1>3, <1>4, <1>5

(* The walk ends with an error. *)
LEMMA MovieRootFails ==
  ASSUME TablesInv, MovieInv, InRoot, NEW e, RootFails(e),
         UNCHANGED <<file, movie, output, moof, found_moof>>,
         ReaderIn', failure' \in {"none", "truncated"},
         e = "XE_ENOMEM" \/ (e = reader'.error /\ e \in ReaderErrors),
         failure' = "none" /\ reader'.error = "XE_EOF" => AllDelivered'
  PROVE  MovieInv'
<1>1. pc = "open" /\ ~built_index
  BY MovieRoot
<1>2. built_index' = built_index /\ built_index \in BOOLEAN
  BY DEF movie, MovieInv, MoviePlaces
<1>3. pc' = "idle" /\ result' = e /\ UNCHANGED opened
  BY <1>1 DEF RootFails, Fail
<1>4. EndInv' /\ result' # "OK"
  BY <1>3, FailEnds DEF ReaderErrors
<1> QED BY <1>1, <1>2, <1>3, <1>4, MovieEnds

(* The walk goes on. *)
LEMMA MovieWalksOn ==
  ASSUME TablesInv, MovieInv, InRoot, UNCHANGED <<file, movie, output, moof, found_moof, failure>>,
         UNCHANGED caller, ReaderIn', reader'.error = "OK", MovieWalk'
  PROVE  MovieInv'
<1>1. pc = "open" /\ ~opened /\ ~built_index /\ AllInChunks /\ result = "OK"
  BY MovieRoot
<1>2. built_index' = built_index /\ built_index \in BOOLEAN
  BY DEF movie, MovieInv, MoviePlaces
<1>3. pc' = "open" /\ opened' = opened /\ result' = "OK"
  BY <1>1 DEF caller
<1>4. AllInChunks'
  BY <1>1, ChunksSame DEF output
<1>5. MovieGoesOn'
  BY <1>1, <1>2, <1>3, <1>4 DEF MovieGoesOn
<1>6. failure' \in {"none", "truncated"}
  BY MovieFacts
<1> QED BY <1>1, <1>2, <1>3, <1>5, <1>6, MovieGoes

LEMMA MovieAfterBox ==
  ASSUME TablesInv, MovieInv, LaidMovie, NEW type, Box(type),
         UNCHANGED <<file, movie, output, moof, found_moof, failure>>,
         reader' = SkippedTo(TheBox.end), AfterBox,
         type = "moov" => found_moov', type = "mdat" => found_mdat',
         found_moov => found_moov', found_mdat => found_mdat', file.streamable => ~found_mdat'
  PROVE  MovieInv' /\ Forward
<1> DEFINE b == TheBox
<1>1. /\ InRoot /\ reader.error = "OK" /\ b \in file.boxes /\ b.start = reader.offset /\ b.type = type
      /\ \A c \in file.boxes : c # b => b.end <= c.start \/ c.end <= b.start
  BY MovieIs, TheBoxIs
<1>2. MovieWalk /\ ReaderIn /\ failure \in {"none", "truncated"}
  BY <1>1, MovieRoot, MovieFacts
<1>3. reader' = SkippedTo(b.end)
  OBVIOUS
<1> HIDE DEF b
<1>4. b.start \in Nat /\ b.end \in Nat /\ b.start < b.end /\ b.end <= file.end
  BY <1>1, MovieIs, BoxFacts
<1>5. reader.offset <= b.end
  BY <1>1, <1>4
<1>6. ReaderIn' /\ reader'.offset = b.end /\ reader'.error = "OK"
  BY <1>2, <1>3, <1>4, <1>5, SkipsTo
<1>7. Forward
  BY <1>5, <1>6 DEF Forward
<1>8. ASSUME NEW c \in file.boxes
      PROVE  c.start >= b.end \/ (c.end <= b.end /\ (c.type = "moov" => found_moov')
                                                 /\ (c.type = "mdat" => found_mdat'))
  <2>1. CASE c = b
    BY <2>1, <1>1, <1>4
  <2>2. CASE c # b /\ c.start >= reader.offset
    BY <2>2, <1>1, MovieIs, BoxBehind
  <2>3. CASE Walked(c)
    <3>1. /\ c.end <= reader.offset /\ (c.type = "moov" => found_moov)
          /\ (c.type = "mdat" => found_mdat) /\ c.end \in Nat
      BY <2>3, MovieIs, BoxFacts DEF Walked
    <3>2. c.end <= b.end
      BY <3>1, <1>1, <1>4
    <3> QED BY <3>1, <3>2
  <2> QED BY <2>1, <2>2, <2>3, <1>2 DEF MovieWalk
<1>9. CASE found_moov' /\ found_mdat'
  <2>1. RootReturns /\ ~file.streamable
    BY <1>9 DEF AfterBox
  <2>2. MovieInv'
    BY <2>1, <1>1, <1>2, <1>6, MovieReturns
  <2> QED BY <2>2, <1>7
<1>10. CASE ~(found_moov' /\ found_mdat')
  <2>1. UNCHANGED caller
    BY <1>10 DEF AfterBox
  <2>2. MovieWalk'
    <3>1. (\A c \in file.boxes : c.start >= reader.offset \/ Walked(c))'
      BY <1>6, <1>8 DEF Walked
    <3> QED BY <3>1, <1>10 DEF MovieWalk
  <2>3. MovieInv'
    BY <2>1, <2>2, <1>1, <1>6, MovieWalksOn
  <2> QED BY <2>3, <1>7
<1> QED BY <1>9, <1>10

LEMMA MovieMoov ==
  ASSUME TablesInv, MovieInv, LaidMovie, ReadMoov
  PROVE  MovieInv' /\ Forward
<1> DEFINE type == "moov"
<1>1. /\ Box(type) /\ found_moov' = TRUE /\ reader' = SkippedTo(TheBox.end) /\ AfterBox
      /\ UNCHANGED <<file, movie, output, moof, found_moof, failure>> /\ UNCHANGED found_mdat
  BY DEF ReadMoov, fragment
<1>2. InRoot
  BY <1>1 DEF Box
<1>3. file.streamable => ~found_mdat'
  BY <1>1, <1>2, MovieRoot DEF MovieWalk
<1> HIDE DEF type
<1>5. /\ type = "moov" => found_moov'
      /\ type = "mdat" => found_mdat'
      /\ found_moov => found_moov'
      /\ found_mdat => found_mdat'
  BY <1>1 DEF type
<1> QED BY <1>1, <1>3, <1>5, MovieAfterBox

LEMMA MovieOther ==
  ASSUME TablesInv, MovieInv, LaidMovie, SkipBox
  PROVE  MovieInv' /\ Forward
<1> DEFINE type == "other"
<1>1. /\ Box(type) /\ reader' = SkippedTo(TheBox.end) /\ AfterBox
      /\ UNCHANGED <<file, movie, output, moof, found_moof, failure>>
      /\ UNCHANGED <<found_mdat, found_moov>>
  BY DEF SkipBox, fragment, found
<1>2. InRoot
  BY <1>1 DEF Box
<1>3. file.streamable => ~found_mdat'
  BY <1>1, <1>2, MovieRoot DEF MovieWalk
<1>5. /\ type = "moov" => found_moov'
      /\ type = "mdat" => found_mdat'
      /\ found_moov => found_moov'
      /\ found_mdat => found_mdat'
  BY <1>1
<1> HIDE DEF type
<1> QED BY <1>1, <1>3, <1>5, MovieAfterBox

(* The data of a movie for streaming lies behind the tables. *)
LEMMA MovieFound ==
  ASSUME LaidMovie, file.streamable, NEW b \in file.boxes, b.type = "mdat", b.start = reader.offset,
         \A c \in file.boxes : c.start >= reader.offset \/ Walked(c)
  PROVE  found_moov
<1>1. PICK c \in file.boxes : c.type = "moov"
  BY DEF LaidMovie, IsMovie
<1>2. c.end <= b.start
  BY <1>1 DEF LaidMovie, InOrder
<1>3. c.start < c.end /\ c.start \in Nat /\ c.end \in Nat /\ b.start \in Nat
  BY <1>1, MovieIs, BoxFacts
<1>4. ~(c.start >= reader.offset)
  BY <1>2, <1>3
<1> QED BY <1>1, <1>4 DEF Walked

LEMMA MovieMdat ==
  ASSUME TablesInv, MovieInv, LaidMovie, ReadMdat
  PROVE  MovieInv' /\ Forward
<1> DEFINE type == "mdat"
<1>1. /\ Box(type) /\ found_mdat' = TRUE
      /\ UNCHANGED <<file, movie, output, moof, found_moof, failure>> /\ UNCHANGED found_moov
      /\ reader' = IF found_moov \/ TheBox.size = 0
                     THEN [reader EXCEPT !.offset = reader.offset + HEADER] ELSE SkippedTo(TheBox.end)
      /\ IF found_moov \/ TheBox.size = 0 THEN RootReturns ELSE UNCHANGED caller
  BY DEF ReadMdat, fragment
<1>2. /\ InRoot /\ reader.error = "OK" /\ TheBox \in file.boxes /\ TheBox.start = reader.offset
      /\ TheBox.type = "mdat"
      /\ \A c \in file.boxes : c # TheBox => TheBox.end <= c.start \/ c.end <= TheBox.start
  BY <1>1, MovieIs, TheBoxIs
<1>3. /\ MovieWalk /\ ReaderIn /\ failure \in {"none", "truncated"} /\ ReaderOK /\ FoundOK
      /\ CursorsIn(cursor)
  BY <1>2, MovieRoot, MovieFacts
<1>4. file.streamable => found_moov
  <2> DEFINE b == TheBox
  <2>1. b \in file.boxes /\ b.type = "mdat" /\ b.start = reader.offset
    BY <1>2
  <2> HIDE DEF b
  <2> QED BY <2>1, <1>3, MovieFound DEF MovieWalk
<1>5. CASE found_moov \/ TheBox.size = 0
  <2> DEFINE o == reader.offset + HEADER  b == TheBox
  <2>1. RootReturns /\ reader' = [reader EXCEPT !.offset = o]
    BY <1>1, <1>5
  <2>2. b \in file.boxes /\ b.start = reader.offset
    BY <1>2
  <2> HIDE DEF b
  <2>3. o \in Nat /\ o <= b.end /\ b.end <= file.end /\ b.end \in Nat /\ reader.offset \in Nat
        /\ file.end \in Nat
    BY <2>2, MovieIs, BoxFacts DEF HEADER
  <2>4. o >= reader.offset /\ o <= file.end
    BY <2>3 DEF HEADER
  <2>5. \A c \in file.boxes : c.type = "mdat" /\ file.streamable => c.start + HEADER >= o
    <3> SUFFICES ASSUME NEW c \in file.boxes, c.type = "mdat", file.streamable
                 PROVE  c.start + HEADER >= o
      OBVIOUS
    <3>1. c.start >= reader.offset
      BY <1>3 DEF MovieWalk, Walked
    <3>2. c.start \in Nat
      BY MovieIs, BoxFacts
    <3> QED BY <3>1, <3>2, <2>3 DEF o, HEADER
  <2> HIDE DEF o
  <2>6. ReaderIn' /\ reader'.offset = o /\ reader'.error = reader.error
    BY <2>1, <2>3, <2>4, <1>1, <1>3, SkipsIn
  <2>7. file.streamable => AllAhead(cursor, o)
    BY <2>3, <2>5, <1>3, AheadOfWalk
  <2>8. MovieInv'
    BY <2>1, <2>6, <2>7, <1>1, <1>2, <1>3, MovieReturns
  <2>9. Forward
    BY <2>4, <2>6 DEF Forward
  <2> QED BY <2>8, <2>9
<1>6. CASE ~(found_moov \/ TheBox.size = 0)
  <2>1. reader' = SkippedTo(TheBox.end) /\ UNCHANGED caller /\ ~found_moov
    BY <1>1, <1>6
  <2>2. AfterBox /\ (file.streamable => ~found_mdat')
    BY <2>1, <1>1, <1>4 DEF AfterBox
  <2>3. /\ type = "moov" => found_moov'
        /\ type = "mdat" => found_mdat'
        /\ found_moov => found_moov'
        /\ found_mdat => found_mdat'
    BY <1>1
  <2> HIDE DEF type
  <2> QED BY <2>1, <2>2, <2>3, <1>1, MovieAfterBox
<1> QED BY <1>5, <1>6

(* The end of the file comes behind the tables and the data. *)
LEMMA MovieNoBox ==
  ASSUME TablesInv, MovieInv, LaidMovie
  PROVE  ~NoBox
<1> SUFFICES ASSUME NoBox PROVE FALSE
  OBVIOUS
<1>1. InRoot /\ reader.offset = file.end
  BY DEF NoBox
<1>2. MovieWalk
  BY <1>1, MovieRoot
<1>3. ASSUME NEW b \in file.boxes PROVE Walked(b)
  <2>1. b.start < b.end /\ b.end <= file.end /\ b.start \in Nat /\ b.end \in Nat /\ file.end \in Nat
    BY MovieIs, BoxFacts
  <2> QED BY <2>1, <1>1, <1>2 DEF MovieWalk
<1>4. PICK b \in file.boxes : b.type = "moov"
  BY DEF LaidMovie, IsMovie
<1>5. PICK c \in file.boxes : c.type = "mdat"
  BY DEF LaidMovie, IsMovie
<1> QED BY <1>2, <1>3, <1>4, <1>5 DEF Walked, MovieWalk

LEMMA MovieRootBreaks ==
  ASSUME TablesInv, MovieInv, LaidMovie, NEW e \in ReaderErrors, RootBreaks(e)
  PROVE  MovieInv' /\ Forward
<1>1. /\ InRoot /\ Broken(e) /\ UNCHANGED <<file, movie, output, moof, found_moof>>
      /\ RootReturns \/ RootFails(e)
  BY DEF RootBreaks, found, fragment
<1>2. ReaderOK /\ SamplesInv /\ failure \in {"none", "truncated"} /\ ReaderIn
  BY <1>1, MovieRoot, MovieFacts
<1>3. /\ ReaderIn' /\ reader'.offset = reader.offset /\ reader'.error = e
      /\ failure' \in {"none", "truncated", "unread"}
      /\ failure' = "unread" <=> failure = "unread"
      /\ failure' = "none" => e = "XE_EXTERNAL"
  BY <1>1, <1>2, BreaksOff
<1>4. /\ failure' \in {"none", "truncated"} /\ reader'.error # "OK"
      /\ ~(failure' = "none" /\ reader'.error = "XE_EOF")
  BY <1>2, <1>3 DEF ReaderErrors
<1>5. MovieInv'
  <2>1. CASE RootReturns
    BY <2>1, <1>1, <1>3, <1>4, MovieReturns
  <2>2. CASE RootFails(e)
    BY <2>2, <1>1, <1>3, <1>4, MovieRootFails
  <2> QED BY <2>1, <2>2, <1>1
<1> QED BY <1>2, <1>3, <1>5 DEF Forward, ReaderIn

LEMMA MovieRootStops ==
  ASSUME TablesInv, MovieInv, LaidMovie, RootStops \/ MoovNoMemory
  PROVE  MovieInv' /\ Forward
<1>1. /\ InRoot /\ UNCHANGED <<file, movie, output, moof, found_moof, reader, failure>>
      /\ \E e : /\ RootFails(e)
                /\ e = "XE_ENOMEM" \/ (e = reader.error /\ e # "OK")
  BY DEF RootStops, MoovNoMemory, Box, found, fragment
<1>2. /\ SamplesInv /\ failure \in {"none", "truncated"} /\ ReaderIn
      /\ failure = "none" /\ reader.error = "XE_EOF" => AllDelivered
  BY MovieFacts
<1>3. ReaderIn' /\ failure' \in {"none", "truncated"}
  BY <1>1, <1>2 DEF ReaderIn
<1>4. failure' = "none" /\ reader'.error = "XE_EOF" => AllDelivered'
  <2>1. UNCHANGED <<file, delivered>>
    BY <1>1 DEF output
  <2> QED BY <2>1, <1>1, <1>2, AllKept
<1>5. PICK e : RootFails(e) /\ (e = "XE_ENOMEM" \/ (e = reader.error /\ e # "OK"))
  BY <1>1
<1>6. e = "XE_ENOMEM" \/ (e = reader'.error /\ e \in ReaderErrors)
  BY <1>1, <1>2, <1>5 DEF ReaderIn
<1>7. MovieInv'
  BY <1>1, <1>3, <1>4, <1>5, <1>6, MovieRootFails
<1> QED BY <1>1, <1>2, <1>7 DEF Forward, ReaderIn

LEMMA MovieRootStep ==
  ASSUME TablesInv, MovieInv, LaidMovie, ReadRoot
  PROVE  MovieInv' /\ Forward
<1>1. ~ReadMoof /\ ~MoofNoMemory
  BY MovieIs DEF ReadMoof, MoofNoMemory, Box
<1> QED BY <1>1, MovieMoov, MovieMdat, MovieOther, MovieNoBox, MovieRootStops, MovieRootBreaks
        DEF ReadRoot

-----------------------------------------------------------------------------
(* The samples of a movie *)

(* All chunks are used up, or have not been begun. *)
AllBegin(c) ==
  \A t \in Tracks : InChunk(c, t) /\ delivered[t] = c[t].sample /\ c[t].sample = Behind(c, t)

LEMMA AllBegun ==
  ASSUME UNCHANGED <<file, delivered>>, NEW c, cursor' = c, AllBegin(c)
  PROVE  AllInChunks'
<1>1. Tracks' = Tracks /\ delivered' = delivered
  BY DEF Tracks
<1>2. ASSUME NEW t \in Tracks
      PROVE  InChunk(cursor, t)' /\ delivered'[t] = cursor'[t].sample /\ cursor'[t].sample = Behind(cursor, t)'
  <2>1. InChunk(cursor, t)' <=> InChunk(c, t)
    BY CursorSame
  <2>2. Behind(cursor, t)' = Behind(c, t)
    BY CursorSame
  <2> QED BY <2>1, <2>2, <1>1 DEF AllBegin
<1> QED BY <1>1, <1>2 DEF AllInChunks

LEMMA AtPlaceThen ==
  ASSUME UNCHANGED file, NEW c, cursor' = c, NEW t, track_index' = t, HasChunk(c, t),
         reader'.error = "OK" => reader'.offset = PlaceOf(c, t),
         file.streamable => OthersAhead(c, t)
  PROVE  AtPlace' /\ EndOf(cursor, track_index)' = EndOf(c, t)
<1>1. OthersAhead(cursor, track_index)' <=> OthersAhead(c, t)
  BY OthersSame
<1>2. /\ HasChunk(cursor, track_index)' <=> HasChunk(c, t)
      /\ PlaceOf(cursor, track_index)' = PlaceOf(c, t)
      /\ EndOf(cursor, track_index)' = EndOf(c, t)
  BY DEF HasChunk, PlaceOf, EndOf
<1> QED BY <1>1, <1>2 DEF AtPlace

(* The first sample of a chunk is what the reader is led to. *)
LEMMA FirstOfChunk ==
  ASSUME LaidMovie, NEW c, CursorsIn(c), NEW t \in Tracks, HasChunk(c, t),
         c[t].sample = Behind(c, t)
  PROVE  /\ c[t].sample < EndOf(c, t) /\ PlaceOf(c, t) = ChunkOffset(c, t)
         /\ ChunkOffset(c, t) \in Nat /\ file.end \in Nat /\ ChunkOffset(c, t) <= file.end
<1> DEFINE k == c[t].chunk + 1  s == file.samples[t]  b == file.before[t]  n == NumChunks(t)
<1>1. /\ k \in 1..NumChunks(t) /\ Behind(c, t) < EndOf(c, t)
      /\ ChunkOffset(c, t) = ChunkAt(file, t, k)
  BY MovieIs, CursorPlace
<1>2. s[b[k] + 1].at = file.tracks[t].chunk_offset[k]
  <2>1. file \in Files /\ IsMovie(file)
    BY MovieIs
  <2>2. \A l \in 1..n : s[b[l] + 1].at = file.tracks[t].chunk_offset[l]
    <3>1. s = file.samples[t] /\ b = file.before[t] /\ n = NumChunks(t)
      OBVIOUS
    <3> HIDE DEF k, s, b, n
    <3> QED BY <2>1, <3>1, BeforeFacts
  <2> HIDE DEF s, b
  <2> QED BY <2>2, <1>1
<1>3. Behind(c, t) = b[k]
  BY DEF Behind
<1>4. PlaceOf(c, t) = ChunkAt(file, t, k)
  BY <1>1, <1>2, <1>3 DEF PlaceOf, ChunkAt
<1> HIDE DEF k
<1>5. /\ ChunkAt(file, t, k) \in Nat /\ ChunkEnd(file, t, k) \in Nat /\ file.end \in Nat
      /\ ChunkAt(file, t, k) < ChunkEnd(file, t, k) /\ ChunkEnd(file, t, k) <= file.end
  BY <1>1, MovieIs, ChunkPlace
<1> QED BY <1>1, <1>4, <1>5

LEMMA ChunkNumbers ==
  ASSUME file \in Files, NEW t \in Tracks
  PROVE  DOMAIN file.tracks[t].chunk_offset = 1..NumChunks(t) /\ NumChunks(t) \in Nat
<1>1. file.tracks[t] \in TrackTables
  BY FileFacts
<1>2. file.tracks[t].chunk_offset \in Seq(Nat)
  BY <1>1 DEF TrackTables
<1> QED BY <1>2, LenProperties DEF NumChunks

(* The other chunks lie behind the nearest one. *)
LEMMA NearestAhead ==
  ASSUME LaidMovie, file.streamable, NEW c, CursorsIn(c), NEW t \in Tracks, HasChunk(c, t),
         AllAhead(c, ChunkOffset(c, t))
  PROVE  OthersAhead(c, t)
<1> SUFFICES ASSUME NEW u \in Tracks, u # t, HasChunk(c, u)
             PROVE  ChunkEnd(file, t, c[t].chunk + 1) <= ChunkOffset(c, u)
  BY DEF OthersAhead
<1> DEFINE k == c[t].chunk + 1  l == c[u].chunk + 1
<1>1. /\ k \in 1..NumChunks(t) /\ ChunkOffset(c, t) = ChunkAt(file, t, k)
      /\ l \in 1..NumChunks(u) /\ ChunkOffset(c, u) = ChunkAt(file, u, l)
  BY MovieIs, CursorPlace
<1> HIDE DEF k, l
<1>2. /\ ChunkAt(file, t, k) \in Nat /\ ChunkEnd(file, t, k) \in Nat
      /\ ChunkAt(file, t, k) < ChunkEnd(file, t, k)
  BY <1>1, MovieIs, ChunkPlace
<1>3. /\ ChunkAt(file, u, l) \in Nat /\ ChunkEnd(file, u, l) \in Nat
      /\ ChunkAt(file, u, l) < ChunkEnd(file, u, l)
  BY <1>1, MovieIs, ChunkPlace
<1>4. ChunkEnd(file, t, k) <= ChunkAt(file, u, l) \/ ChunkEnd(file, u, l) <= ChunkAt(file, t, k)
  <2>1. k \in DOMAIN file.tracks[t].chunk_offset /\ l \in DOMAIN file.tracks[u].chunk_offset
    BY <1>1, MovieIs, ChunkNumbers
  <2> QED BY <2>1, MovieIs DEF InOrder, Tracks
<1>5. ChunkOffset(c, t) <= ChunkOffset(c, u)
  BY DEF AllAhead
<1>6. ChunkEnd(file, t, k) <= ChunkAt(file, u, l)
  BY <1>1, <1>2, <1>3, <1>4, <1>5
<1> QED BY <1>1, <1>6 DEF k

LEMMA MovieAtChunk ==
  ASSUME MovieInv, UNCHANGED <<file, output, moof, found_moof>>, opened', built_index' = TRUE,
         NEW c, cursor' = c, AllBegin(c), NEW t, track_index' = t, HasChunk(c, t),
         c[t].sample < EndOf(c, t), reader'.error = "OK" => reader'.offset = PlaceOf(c, t),
         file.streamable => OthersAhead(c, t),
         ReaderIn', failure' \in {"none", "truncated"},
         failure' = "none" /\ reader'.error = "XE_EOF" => AllDelivered',
         pc' = "sample", result' = "OK"
  PROVE  MovieInv'
<1>1. AllInChunks'
  BY AllBegun DEF output
<1>2. AtPlace' /\ EndOf(cursor, track_index)' = EndOf(c, t)
  BY AtPlaceThen
<1>3. (cursor[track_index].sample < EndOf(cursor, track_index))'
  BY <1>2
<1>4. MovieGoesOn'
  BY <1>1, <1>2, <1>3 DEF MovieGoesOn
<1> QED BY <1>4, MovieGoes

(* The samples are used up, or the stream has ended. *)
LEMMA MovieToFragment ==
  ASSUME MovieInv, UNCHANGED <<file, output, moof, found_moof>>, opened',
         built_index' \in BOOLEAN, AllInChunks',
         ReaderIn', failure' \in {"none", "truncated"}, failure' = "none" => AllDelivered',
         pc' = "fragment", result' = "OK"
  PROVE  MovieInv'
<1>1. MovieGoesOn'
  BY DEF MovieGoesOn
<1> QED BY <1>1, MovieGoes

LEMMA MovieNextChunk ==
  ASSUME TablesInv, MovieInv, LaidMovie, Reading, reader.error = "OK",
         UNCHANGED <<file, output, moof, found_moof>>, built_index' = TRUE,
         NEW c, CursorsIn(c), AllBegin(c), file.streamable => AllAhead(c, reader.offset),
         moov_next_chunk(c)
  PROVE  MovieInv' /\ Forward
<1> DEFINE left == {t \in Tracks : HasChunk(c, t)}
           offset == [t \in left |-> ChunkOffset(c, t)]
           x == Nearest(offset)  o == ChunkOffset(c, x)
<1>1. /\ file \in Files /\ ReaderOK /\ ReaderIn /\ SamplesInv /\ opened
      /\ failure \in {"none", "truncated"} /\ result = "OK" /\ reader.offset \in Nat
  BY MovieFacts DEF TablesInv, Reading, ReaderIn
<1>2. cursor' = c
  BY DEF moov_next_chunk
<1>3. AllInChunks'
  BY <1>2, AllBegun DEF output
<1>4. CASE left = {}
  <2>1. Go("fragment") /\ UNCHANGED <<reader, track_index, failure>>
    BY <1>4 DEF moov_next_chunk
  <2>2. AllDelivered
    <3>1. ASSUME NEW t \in Tracks PROVE delivered[t] = Len(file.samples[t])
      <4>1. ~HasChunk(c, t)
        BY <1>4
      <4>2. Behind(c, t) = Len(file.samples[t])
        BY <4>1, MovieIs, CursorPlace
      <4> QED BY <4>2 DEF AllBegin
    <3> QED BY <3>1 DEF AllDelivered
  <2>3. AllDelivered' /\ ReaderIn' /\ pc' = "fragment" /\ result' = "OK" /\ opened'
    BY <2>1, <2>2, <1>1, AllKept DEF output, ReaderIn, Go
  <2>4. MovieInv'
    BY <2>1, <2>3, <1>1, <1>3, MovieToFragment
  <2> QED BY <2>1, <2>4, <1>1 DEF Forward
<1>5. CASE left # {}
  <2>1. track_index' = x /\ ToChunk(offset[track_index'])
    BY <1>5 DEF moov_next_chunk
  <2>2. x \in left /\ \A y \in left : offset[x] <= offset[y]
    <3> DEFINE n == Len(file.tracks)
    <3>1. n \in Nat /\ Tracks = 1..n
      BY <1>1, FileFacts
    <3>2. \A t \in left : offset[t] \in Int
      BY <1>1, CursorFacts
    <3>3. DOMAIN offset = left /\ left \subseteq 1..n
      BY <3>1
    <3> HIDE DEF left, offset, n
    <3> QED BY <1>5, <3>1, <3>2, <3>3, NearestIsOne
  <2>3. offset[x] = o /\ x \in Tracks /\ HasChunk(c, x) /\ \A y \in left : o <= ChunkOffset(c, y)
    BY <2>2
  <2>4. ToChunk(o)
    BY <2>1, <2>3
  <2> HIDE DEF x, offset
  <2>5. AllAhead(c, o)
    BY <2>3 DEF AllAhead
  <2>6. /\ c[x].sample < EndOf(c, x) /\ PlaceOf(c, x) = o
        /\ o \in Nat /\ file.end \in Nat /\ o <= file.end
    <3>1. c[x].sample = Behind(c, x)
      BY <2>3 DEF AllBegin
    <3> QED BY <2>3, <3>1, FirstOfChunk
  <2>7. file.streamable => OthersAhead(c, x)
    BY <2>3, <2>5, NearestAhead
  <2>8. file.streamable => reader.offset <= o
    BY <2>3 DEF AllAhead
  <2> HIDE DEF o, left
  <2> DEFINE Lands1 == /\ ReaderIn' /\ failure' \in {"none", "truncated"} /\ UNCHANGED opened
                       /\ failure' = "none" /\ reader'.error = "XE_EOF" => AllDelivered'
                       /\ pc' = "sample" /\ result' = "OK" /\ Forward
                       /\ reader'.error = "OK" => reader'.offset = o
  <2>9. ASSUME Lands1 PROVE MovieInv' /\ Forward
    <3>1. /\ ReaderIn' /\ failure' \in {"none", "truncated"} /\ opened' /\ Forward
          /\ failure' = "none" /\ reader'.error = "XE_EOF" => AllDelivered'
          /\ pc' = "sample" /\ result' = "OK"
          /\ reader'.error = "OK" => reader'.offset = PlaceOf(c, x)
      BY <2>9, <2>6, <1>1
    <3> HIDE DEF Lands1
    <3> QED BY <3>1, <2>1, <2>3, <2>6, <2>7, <1>2, MovieAtChunk
  <2>10. ASSUME NEW e \in ReaderErrors, Broken(e)
         PROVE  /\ ReaderIn' /\ reader'.offset = reader.offset /\ reader'.error = e
                /\ failure' \in {"none", "truncated"} /\ (failure' = "none" => e = "XE_EXTERNAL")
                /\ Forward /\ e # "OK"
    <3>1. /\ ReaderIn' /\ reader'.offset = reader.offset /\ reader'.error = e
          /\ failure' \in {"none", "truncated", "unread"}
          /\ failure' = "unread" <=> failure = "unread"
          /\ failure' = "none" => e = "XE_EXTERNAL"
      BY <2>10, <1>1, BreaksOff
    <3> QED BY <3>1, <1>1 DEF Forward, ReaderErrors
  <2>11. CASE o < reader.offset
    <3>1. /\ Go("sample") /\ ~file.streamable
          /\ (reader' = [reader EXCEPT !.offset = o] /\ UNCHANGED failure) \/ \E e \in ReaderErrors : Broken(e)
      BY <2>4, <2>6, <2>8, <2>11, <1>1 DEF ToChunk
    <3>2. pc' = "sample" /\ result' = "OK" /\ UNCHANGED opened /\ Forward
      BY <3>1, <1>1 DEF Go, Forward
    <3>3. CASE reader' = [reader EXCEPT !.offset = o] /\ UNCHANGED failure
      <4>1. ReaderIn' /\ reader'.offset = o /\ reader'.error = "OK"
        BY <3>3, <2>6, <1>1, SkipsIn
      <4> QED BY <2>9, <3>2, <3>3, <4>1, <1>1
    <3>4. ASSUME NEW e \in ReaderErrors, Broken(e) PROVE MovieInv' /\ Forward
      <4>1. Lands1
        BY <3>2, <3>4, <2>10
      <4> QED BY <4>1, <2>9
    <3> QED BY <3>1, <3>3, <3>4
  <2>12. CASE ~(o < reader.offset)
    <3>1. \/ /\ reader' = SkippedTo(o) /\ UNCHANGED failure
             /\ Go(IF reader'.error = "OK" THEN "sample" ELSE "fragment")
          \/ \E e \in ReaderErrors :
               Broken(e) /\ (IF e = "XE_EOF" THEN Go("fragment") ELSE Fail(e))
      BY <2>12, <2>4 DEF ToChunk
    <3>2. CASE /\ reader' = SkippedTo(o) /\ UNCHANGED failure
               /\ Go(IF reader'.error = "OK" THEN "sample" ELSE "fragment")
      <4>1. reader.offset <= o
        BY <2>6, <2>12, <1>1
      <4>2. ReaderIn' /\ reader'.offset = o /\ reader'.error = "OK"
        BY <4>1, <3>2, <2>6, <1>1, SkipsTo
      <4>3. pc' = "sample" /\ result' = "OK" /\ UNCHANGED opened /\ Forward
        BY <4>1, <4>2, <3>2, <1>1, <2>6 DEF Go, Forward
      <4> QED BY <2>9, <3>2, <4>2, <4>3, <1>1
    <3>3. ASSUME NEW e \in ReaderErrors, Broken(e), IF e = "XE_EOF" THEN Go("fragment") ELSE Fail(e)
          PROVE  MovieInv' /\ Forward
      <4>1. /\ ReaderIn' /\ reader'.offset = reader.offset /\ reader'.error = e
            /\ failure' \in {"none", "truncated"} /\ (failure' = "none" => e = "XE_EXTERNAL")
            /\ Forward /\ e # "OK"
        BY <3>3, <2>10
      <4>2. CASE e = "XE_EOF"
        <5>1. pc' = "fragment" /\ result' = "OK" /\ opened'
          BY <4>2, <3>3, <1>1 DEF Go
        <5>2. MovieInv'
          BY <4>1, <4>2, <5>1, <1>3, MovieToFragment
        <5> QED BY <4>1, <5>2
      <4>3. CASE e # "XE_EOF"
        <5>1. pc' = "idle" /\ result' = e /\ UNCHANGED opened
          BY <4>3, <3>3 DEF Fail
        <5>2. EndInv'
          BY <4>1, <4>3, <5>1, FailEnds
        <5>3. MovieInv'
          BY <4>1, <5>1, <5>2, <1>1, MovieEnds
        <5> QED BY <4>1, <5>3
      <4> QED BY <4>2, <4>3
    <3> QED BY <3>1, <3>2, <3>3
  <2> QED BY <2>11, <2>12
<1> QED BY <1>4, <1>5

-----------------------------------------------------------------------------
(* The calls of read_packet() in a movie *)

LEMMA ChunkAlike ==
  ASSUME NEW c, NEW d, NEW t, c[t] = d[t]
  PROVE  /\ InChunk(c, t) <=> InChunk(d, t)
         /\ HasChunk(c, t) <=> HasChunk(d, t)
         /\ Behind(c, t) = Behind(d, t) /\ ChunkOffset(c, t) = ChunkOffset(d, t)
<1>1. /\ HasChunk(c, t) <=> HasChunk(d, t)
      /\ Behind(c, t) = Behind(d, t) /\ EndOf(c, t) = EndOf(d, t)
      /\ ChunkOffset(c, t) = ChunkOffset(d, t) /\ Entry(c, t) = Entry(d, t)
  BY DEF HasChunk, Behind, EndOf, ChunkOffset, Entry
<1>2. AtEntry(c, t) <=> AtEntry(d, t)
  BY <1>1 DEF AtEntry
<1> QED BY <1>1, <1>2 DEF InChunk

LEMMA MovieOpen ==
  ASSUME TablesInv, MovieInv, LaidMovie, Open
  PROVE  MovieInv' /\ Forward
<1>1. /\ pc = "idle" /\ ~opened /\ result = "OK" /\ pc' = "open" /\ UNCHANGED <<result, opened>>
      /\ UNCHANGED <<file, reader, failure, movie, output, moof, found_moof, found_moov, found_mdat>>
  BY DEF Open, Go, found, fragment
<1>2. SamplesInv /\ ReaderIn /\ MovieGoesOn /\ AllInChunks /\ failure \in {"none", "truncated"}
  BY <1>1, MovieFacts
<1>3. Untouched
  BY <1>1, <1>2 DEF SamplesInv, CallInv
<1>4. MovieWalk'
  <2>1. ~found_moov' /\ ~found_mdat' /\ reader'.offset = 0
    BY <1>1, <1>3 DEF Untouched
  <2>2. \A c \in file'.boxes : c.start >= 0
    BY <1>1, MovieIs, BoxFacts
  <2> QED BY <2>1, <2>2 DEF MovieWalk
<1>5. AllInChunks'
  BY <1>1, <1>2, ChunksSame DEF output
<1>6. ~built_index' /\ built_index' \in BOOLEAN
  BY <1>1, <1>3 DEF movie, Untouched, MovieInv, MoviePlaces
<1>7. MovieGoesOn'
  BY <1>1, <1>4, <1>5, <1>6 DEF MovieGoesOn
<1>8. ReaderIn' /\ reader'.error = "OK"
  BY <1>1, <1>2, <1>3 DEF ReaderIn, Untouched
<1>9. failure' \in {"none", "truncated"} /\ result' = "OK" /\ pc' = "open"
  BY <1>1, <1>2
<1>10. MovieInv'
  BY <1>1, <1>6, <1>7, <1>8, <1>9, MovieGoes
<1> QED BY <1>1, <1>2, <1>10 DEF Forward, ReaderIn

LEMMA MovieReaderFailed ==
  ASSUME TablesInv, MovieInv, LaidMovie, ReaderFailed
  PROVE  MovieInv' /\ Forward
<1>1. /\ reader.error # "OK" /\ pc' = "idle" /\ result' = reader.error /\ UNCHANGED opened
      /\ UNCHANGED <<file, reader, failure, movie, output, moof, found_moof>>
  BY DEF ReaderFailed, Fail, found, fragment
<1>2. /\ ReaderIn /\ failure \in {"none", "truncated"}
      /\ failure = "none" /\ reader.error = "XE_EOF" => AllDelivered
  BY MovieFacts
<1>3. ReaderIn' /\ reader'.error \in ReaderErrors /\ failure' \in {"none", "truncated"}
  BY <1>1, <1>2 DEF ReaderIn
<1>4. failure' = "none" /\ reader'.error = "XE_EOF" => AllDelivered'
  BY <1>1, <1>2, AllKept DEF output
<1>5. EndInv' /\ result' # "OK"
  BY <1>1, <1>3, <1>4, FailEnds DEF ReaderErrors
<1>6. built_index' \in BOOLEAN /\ (built_index' => opened)
  BY <1>1 DEF movie, MovieInv, MoviePlaces
<1>7. MovieInv'
  BY <1>1, <1>3, <1>5, <1>6, MovieEnds
<1> QED BY <1>1, <1>2, <1>7 DEF Forward, ReaderIn

LEMMA MovieIndex ==
  ASSUME TablesInv, MovieInv, LaidMovie, BuildIndex
  PROVE  MovieInv' /\ Forward
<1> DEFINE c == cursor
<1>1. /\ Reading /\ reader.error = "OK" /\ ~built_index /\ built_index' = TRUE
      /\ moov_next_chunk(c) /\ UNCHANGED <<file, output, moof, found_moof>>
  BY DEF BuildIndex, found, fragment
<1>2. MovieGoesOn /\ AllInChunks
  BY <1>1, MovieFacts DEF Reading
<1>3. AllBegin(c)
  BY <1>1, <1>2 DEF AllInChunks, AllBegin
<1>4. CursorsIn(c)
  BY DEF TablesInv, CursorsOK
<1>5. file.streamable => AllAhead(c, reader.offset)
  BY <1>1, <1>2 DEF MovieGoesOn, Reading
<1> HIDE DEF c
<1> QED BY <1>1, <1>3, <1>4, <1>5, MovieNextChunk

(* The samples of a chunk are used up. *)
LEMMA NextBegin ==
  ASSUME LaidMovie, CursorsIn(cursor), AllInChunks, built_index, NEW t \in Tracks, t = track_index,
         HasChunk(cursor, t), cursor[t].sample = EndOf(cursor, t)
  PROVE  AllBegin(Advanced(t)) /\ CursorsIn(Advanced(t))
<1> DEFINE c == Advanced(t)
<1>1. /\ InChunk(c, t) /\ c[t].sample = Behind(c, t) /\ c[t].sample = cursor[t].sample
      /\ \A u \in Tracks : u # t => c[u] = cursor[u]
  BY MovieIs, AdvancedInChunk DEF AllInChunks
<1>2. CursorsIn(c)
  BY MovieIs, AdvancedIn
<1> HIDE DEF c
<1>3. ASSUME NEW u \in Tracks
      PROVE  InChunk(c, u) /\ delivered[u] = c[u].sample /\ c[u].sample = Behind(c, u)
  <2>1. CASE u = t
    BY <2>1, <1>1 DEF AllInChunks
  <2>2. CASE u # t
    <3>1. InChunk(cursor, u) /\ delivered[u] = cursor[u].sample /\ cursor[u].sample = Behind(cursor, u)
      BY <2>2 DEF AllInChunks
    <3>2. c[u] = cursor[u]
      BY <2>2, <1>1
    <3> QED BY <3>1, <3>2, ChunkAlike
  <2> QED BY <2>1, <2>2
<1>4. AllBegin(c)
  BY <1>3 DEF AllBegin
<1> QED BY <1>2, <1>4 DEF c

LEMMA NextAhead ==
  ASSUME LaidMovie, file.streamable, CursorsIn(cursor), AllInChunks, NEW t \in Tracks,
         HasChunk(cursor, t), cursor[t].sample = EndOf(cursor, t), OthersAhead(cursor, t)
  PROVE  AllAhead(Advanced(t), ChunkEnd(file, t, cursor[t].chunk + 1))
<1> DEFINE c == Advanced(t)  k == cursor[t].chunk  o == ChunkEnd(file, t, k + 1)  n == NumChunks(t)
<1>1. /\ c[t].chunk = k + 1 /\ \A u \in Tracks : u # t => c[u] = cursor[u]
  BY MovieIs, AdvancedInChunk DEF AllInChunks
<1>2. CursorsIn(c)
  BY MovieIs, AdvancedIn
<1>3. k \in Nat /\ k + 1 \in 1..n /\ n \in Nat
  BY MovieIs, CursorPlace, ChunkNumbers
<1> HIDE DEF c
<1>4. ASSUME NEW u \in Tracks, u # t, HasChunk(c, u) PROVE o <= ChunkOffset(c, u)
  <2>1. c[u] = cursor[u]
    BY <1>1, <1>4
  <2>2. HasChunk(cursor, u) /\ ChunkOffset(c, u) = ChunkOffset(cursor, u)
    BY <2>1, <1>4, ChunkAlike
  <2> QED BY <2>2, <1>4 DEF OthersAhead
<1>5. ASSUME HasChunk(c, t) PROVE o <= ChunkOffset(c, t)
  <2> DEFINE l == c[t].chunk + 1
  <2>1. l \in 1..n /\ ChunkOffset(c, t) = ChunkAt(file, t, l)
    BY <1>2, <1>5, MovieIs, CursorPlace
  <2>2. l = (k + 1) + 1
    BY <1>1
  <2> HIDE DEF k, l, n
  <2>3. k + 1 \in 1..n - 1
    BY <2>1, <2>2, <1>3
  <2>4. \A j \in 1..n - 1 : ChunkEnd(file, t, j) <= ChunkAt(file, t, j + 1)
    BY MovieIs DEF InOrder, Tracks, n, NumChunks
  <2> QED BY <2>1, <2>2, <2>3, <2>4
<1>6. AllAhead(c, o)
  BY <1>4, <1>5 DEF AllAhead
<1> QED BY <1>6 DEF c

LEMMA MovieNextSample ==
  ASSUME TablesInv, MovieInv, LaidMovie, NextSample
  PROVE  MovieInv' /\ Forward
<1> DEFINE t == track_index
<1>1. /\ Reading /\ reader.error = "OK" /\ built_index
      /\ UNCHANGED <<file, built_index, output, moof, found_moof>>
  BY DEF NextSample, found, fragment
<1>2. MovieGoesOn /\ AllInChunks /\ ReaderIn /\ failure \in {"none", "truncated"}
  BY <1>1, MovieFacts DEF Reading
<1>3. AtPlace /\ HasChunk(cursor, t) /\ reader.offset = PlaceOf(cursor, t)
      /\ (file.streamable => OthersAhead(cursor, t))
  BY <1>1, <1>2 DEF MovieGoesOn, Reading, AtPlace
<1>4. CursorsIn(cursor) /\ t \in Tracks /\ opened /\ result = "OK"
  BY <1>1 DEF TablesInv, CursorsOK, Reading
<1>5. sample_end(t) = EndOf(cursor, t) /\ InChunk(cursor, t)
  BY <1>2, <1>3, <1>4, MovieIs, SampleEndIsEnd DEF AllInChunks
<1>6. CASE cursor[t].sample < EndOf(cursor, t)
  <2>1. pc' = "sample" /\ UNCHANGED <<result, opened, reader, cursor, track_index, failure>>
    BY <1>3, <1>5, <1>6 DEF NextSample, Go
  <2>2. UNCHANGED movie
    BY <2>1, <1>1 DEF movie
  <2>3. AllInChunks'
    BY <2>2, <1>1, <1>2, ChunksSame DEF output
  <2>4. AtPlace'
    BY <2>1, <2>2, <1>1, <1>3, PlaceSame
  <2>5. (cursor[track_index].sample < EndOf(cursor, track_index))'
    <3>1. EndOf(cursor, track_index)' = EndOf(cursor, track_index)
      BY <2>1, <1>1 DEF EndOf
    <3> QED BY <3>1, <2>1, <1>6
  <2>6. MovieGoesOn'
    BY <2>1, <2>3, <2>4, <2>5, <1>1 DEF MovieGoesOn
  <2>7. ReaderIn' /\ failure' \in {"none", "truncated"} /\ reader'.error = "OK" /\ result' = "OK" /\ opened'
    BY <2>1, <1>1, <1>2, <1>4 DEF ReaderIn
  <2>8. MovieInv'
    BY <2>1, <2>6, <2>7, <1>1, MovieGoes
  <2> QED BY <2>1, <2>8, <1>2 DEF Forward, ReaderIn
<1>7. CASE ~(cursor[t].sample < EndOf(cursor, t))
  <2>1. moov_next_chunk(Advanced(t))
    BY <1>3, <1>5, <1>7 DEF NextSample
  <2>2. cursor[t].sample = EndOf(cursor, t)
    <3>1. cursor[t].sample \in Nat /\ EndOf(cursor, t) \in Nat
      BY <1>3, <1>4, MovieIs, CursorPlace
    <3>2. cursor[t].sample <= EndOf(cursor, t)
      BY <1>3, <1>5 DEF InChunk
    <3> QED BY <3>1, <3>2, <1>7
  <2>3. reader.offset = ChunkEnd(file, t, cursor[t].chunk + 1)
    BY <1>3, <1>7 DEF PlaceOf
  <2>4. /\ AllBegin(Advanced(t)) /\ CursorsIn(Advanced(t))
        /\ file.streamable => AllAhead(Advanced(t), reader.offset)
    <3>1. t = track_index
      OBVIOUS
    <3> HIDE DEF t
    <3>2. AllBegin(Advanced(t)) /\ CursorsIn(Advanced(t))
      BY <3>1, <2>2, <1>1, <1>2, <1>3, <1>4, NextBegin
    <3>3. file.streamable => AllAhead(Advanced(t), reader.offset)
      BY <2>2, <2>3, <1>2, <1>3, <1>4, NextAhead
    <3> QED BY <3>2, <3>3
  <2> DEFINE c == Advanced(t)
  <2>5. /\ moov_next_chunk(c) /\ CursorsIn(c) /\ AllBegin(c) /\ built_index' = TRUE
        /\ file.streamable => AllAhead(c, reader.offset)
    <3>1. built_index \in BOOLEAN
      BY DEF MovieInv, MoviePlaces
    <3> QED BY <3>1, <2>1, <2>4, <1>1
  <2> HIDE DEF c
  <2> QED BY <2>5, <1>1, MovieNextChunk
<1> QED BY <1>6, <1>7

LEMMA MovieReadFragment ==
  ASSUME TablesInv, MovieInv, LaidMovie, ReadFragment
  PROVE  MovieInv' /\ Forward
<1>1. ~found_moof /\ moof.trafs = <<>> /\ pc = "fragment"
  BY DEF MovieInv, MoviePlaces, ReadFragment
<1>2. /\ pc' = "idle" /\ result' = "XE_EOF" /\ UNCHANGED opened
      /\ UNCHANGED <<file, reader, failure, movie, output, moof, found_moof>>
  BY <1>1 DEF ReadFragment, Fail, found, fragment
<1>3. /\ ReaderIn /\ failure \in {"none", "truncated"} /\ MovieGoesOn
  BY <1>1, MovieFacts
<1>4. ReaderIn' /\ failure' \in {"none", "truncated"}
  BY <1>2, <1>3 DEF ReaderIn
<1>5. failure' = "none" => AllDelivered'
  <2>1. failure = "none" => AllDelivered
    BY <1>1, <1>3 DEF MovieGoesOn
  <2> QED BY <2>1, <1>2, AllKept DEF output
<1>6. EndInv'
  BY <1>2, <1>5 DEF EndInv, EndIsTheEnd, AllDelivered
<1>7. built_index' \in BOOLEAN /\ (built_index' => opened)
  BY <1>2 DEF movie, MovieInv, MoviePlaces
<1>8. MovieInv'
  BY <1>2, <1>4, <1>6, <1>7, MovieEnds
<1> QED BY <1>2, <1>3, <1>8 DEF Forward, ReaderIn

(* The sample that is read has been counted. *)
Counted(t) == [cursor EXCEPT ![t].sample = @ + 1]

LEMMA SampleCounted ==
  ASSUME LaidMovie, CursorsIn(cursor), NEW t \in Tracks, HasChunk(cursor, t), InChunk(cursor, t),
         cursor[t].sample < EndOf(cursor, t), NEW c,
         c = Counted(t)
  PROVE  /\ InChunk(c, t) /\ HasChunk(c, t) /\ c[t].sample = cursor[t].sample + 1
         /\ c[t].chunk = cursor[t].chunk
         /\ \A u \in Tracks : u # t => c[u] = cursor[u]
         /\ PlaceOf(c, t) = SampleEnd(file.samples[t], cursor[t].sample + 1)
<1> DEFINE n == cursor[t].sample  s == file.samples[t]  x == Behind(cursor, t)  y == EndOf(cursor, t)
           k == cursor[t].chunk
<1>1. cursor \in [Tracks -> [chunk : Nat, sample : Nat, index : Nat]]
  BY DEF CursorsIn
<1>2. /\ c[t].chunk = k /\ c[t].sample = n + 1 /\ c[t].index = cursor[t].index
      /\ \A u \in Tracks : u # t => c[u] = cursor[u]
  BY <1>1 DEF Counted
<1>3. n \in Nat /\ x \in Nat /\ y \in Nat /\ k + 1 \in 1..NumChunks(t) /\ x <= n /\ n < y
  BY MovieIs, CursorPlace DEF InChunk
<1>4. /\ HasChunk(c, t) <=> HasChunk(cursor, t)
      /\ Behind(c, t) = x /\ EndOf(c, t) = y /\ Entry(c, t) = Entry(cursor, t)
  BY <1>2 DEF HasChunk, Behind, EndOf, Entry
<1>5. AtEntry(c, t)
  BY <1>2, <1>4 DEF InChunk, AtEntry
<1>6. InChunk(c, t)
  <2>1. x <= n + 1 /\ n + 1 <= y
    BY <1>3
  <2> QED BY <2>1, <1>2, <1>4, <1>5 DEF InChunk
<1>7. PlaceOf(c, t) = SampleEnd(s, n + 1)
  <2>1. CASE n + 1 < y
    <3>1. PlaceOf(c, t) = s[(n + 1) + 1].at
      BY <2>1, <1>2, <1>4 DEF PlaceOf
    <3>2. Adjacent(s, x + 1, y)
      <4> DEFINE b == file.before[t]  m == NumChunks(t)
      <4>1. s = file.samples[t] /\ b = file.before[t] /\ m = NumChunks(t) /\ x = b[k + 1] /\ y = b[k + 2]
        BY DEF Behind, EndOf
      <4>2. (k + 1) + 1 = k + 2
        BY MovieIs, CursorPlace
      <4> HIDE DEF b, m, s, x, y
      <4>3. \A l \in 1..m : Adjacent(s, b[l] + 1, b[l + 1])
        <5> HIDE DEF k
        <5> QED BY <4>1, MovieIs, BeforeFacts
      <4>4. Adjacent(s, b[k + 1] + 1, b[(k + 1) + 1])
        BY <4>1, <4>3, <1>3
      <4> QED BY <4>1, <4>2, <4>4
    <3>3. n + 1 \in x + 1..y - 1
      <4> HIDE DEF n, x, y
      <4> QED BY <2>1, <1>3
    <3> QED BY <3>1, <3>2, <3>3 DEF Adjacent
  <2>2. CASE ~(n + 1 < y)
    <3>1. n + 1 = y
      <4> HIDE DEF n, y
      <4> QED BY <2>2, <1>3
    <3>2. PlaceOf(c, t) = ChunkEnd(file, t, k + 1)
      BY <2>2, <1>2, <1>4 DEF PlaceOf
    <3>3. ChunkEnd(file, t, k + 1) = SampleEnd(s, y)
      <4>1. (k + 1) + 1 = k + 2
        BY MovieIs, CursorPlace
      <4> QED BY <4>1 DEF ChunkEnd, EndOf
    <3> QED BY <3>1, <3>2, <3>3
  <2> QED BY <2>1, <2>2
<1> QED BY <1>2, <1>4, <1>6, <1>7

(* The time of a sample is computed in a word. *)
LEMMA WordTime ==
  ASSUME NEW a \in Nat, NEW x \in Nat, NEW time, time = a + (x % Word), NEW s, s = a + x
  PROVE  time % Word = s % Word /\ (s < Word => time = s)
<1>1. /\ (a + (x % Word)) % Word = (a + x) % Word
      /\ a + x < Word => a + (x % Word) = a + x
  BY TimeInWord
<1> DEFINE u == a + (x % Word)  v == a + x
<1>2. u % Word = v % Word /\ (v < Word => u = v) /\ time = u /\ s = v
  BY <1>1
<1> HIDE DEF u, v
<1> QED BY <1>2

(* The size and the time that moov_next_sample() computes for the n-th     *)
(* sample, which is in the entry i of the times.                           *)
SizeOf(t, n) ==
  IF file.tracks[t].sample_size # 0 THEN file.tracks[t].sample_size
                                    ELSE file.tracks[t].sample_sizes[n + 1]
DeltaOf(t, i) == file.tracks[t].sample_time[i].delta
TimeOf(t, i, n) ==
  (((n - time_to_sample(t)[i]) * DeltaOf(t, i)) % Word)
    + (IF i > 1 THEN sample_to_time(t)[i - 1] ELSE 0)

LEMMA TimeIsRight ==
  ASSUME file \in Files, IsMovie(file), NEW t \in Tracks, NEW n \in Nat,
         n < Len(file.samples[t]), NEW i, i = Search(time_to_sample(t), n), i # None
  PROVE  /\ DeltaOf(t, i) = file.samples[t][n + 1].duration
         /\ LET w == file.samples[t][n + 1].time
            IN  /\ TimeOf(t, i, n) % Word = w % Word
                /\ w < Word => TimeOf(t, i, n) = w
<1> DEFINE d == DeltaOf(t, i)  w == file.samples[t][n + 1].time  x == n * d  zero == 0
           a == time_to_sample(t)  time == TimeOf(t, i, n)
<1>1. i = 1 /\ a[i] = 0 /\ d \in Nat /\ w = x /\ d = file.samples[t][n + 1].duration
  BY SampleTime DEF DeltaOf
<1>2. time = (((n - 0) * d) % Word) + 0
  BY <1>1 DEF TimeOf
<1> HIDE DEF d, w, a, time
<1>3. n - 0 = n /\ x \in Nat /\ zero \in Nat
  <2>1. d \in Nat
    BY <1>1
  <2>2. x \in Nat
    BY <2>1
  <2> QED BY <2>2
<1>4. (x % Word) \in Nat
  <2> HIDE DEF x
  <2>1. Word \in Nat \ {0}
    BY WordAssumption
  <2> QED BY <2>1, <1>3, Remainder
<1>5. time = (x % Word) + 0
  BY <1>2, <1>3
<1>6. time = zero + (x % Word)
  <2> DEFINE r == x % Word
  <2>1. time = r + 0 /\ r \in Nat
    BY <1>4, <1>5
  <2> HIDE DEF r
  <2>2. time = zero + r
    BY <2>1
  <2> QED BY <2>2 DEF r
<1>7. w = zero + x
  <2>1. w = x
    BY <1>1
  <2> HIDE DEF x
  <2> QED BY <2>1, <1>3
<1> HIDE DEF zero, x
<1>8. time % Word = w % Word /\ (w < Word => time = w)
  BY <1>3, <1>6, <1>7, WordTime
<1> QED BY <1>1, <1>8 DEF d, w, time

LEMMA MovieSample ==
  ASSUME LaidMovie, CursorsIn(cursor), NEW t \in Tracks, HasChunk(cursor, t), InChunk(cursor, t),
         cursor[t].sample < EndOf(cursor, t), NEW n, n = cursor[t].sample,
         reader.error = "OK" => reader.offset = PlaceOf(cursor, t),
         NEW i, i = Search(time_to_sample(t), n), i # None
  PROVE  /\ SizeOf(t, n) \in Nat /\ SizeOf(t, n) = file.samples[t][n + 1].size
         /\ n \in Nat /\ n < Len(file.samples[t]) /\ Len(file.samples[t]) \in Nat
         /\ reader.error = "OK" =>
              SampleIs(file.samples[t][n + 1], reader.offset, SizeOf(t, n), TimeOf(t, i, n), DeltaOf(t, i))
<1> DEFINE s == file.samples[t]  len == Len(s)  z == s[n + 1]  y == EndOf(cursor, t)
<1>1. s \in Seq(FileSamples) /\ len \in Nat /\ DOMAIN s = 1..len
  BY MovieIs, SamplesOf, SampleTypes
<1>2. n \in Nat /\ n < len
  <2>1. n \in Nat /\ y \in Nat /\ y <= len /\ n < y
    BY MovieIs, CursorPlace
  <2> HIDE DEF y, len
  <2> QED BY <2>1, <1>1
<1>3. n + 1 \in 1..len /\ n + 1 \in DOMAIN s
  <2> HIDE DEF len, s
  <2> QED BY <1>1, <1>2
<1>4. z.size \in Nat
  <2> DEFINE m == n + 1
  <2>1. m \in 1..len
    BY <1>3
  <2> HIDE DEF m, s
  <2>2. s[m].size \in Nat
    BY <2>1, <1>1, SampleTypes
  <2> QED BY <2>2 DEF m
<1>5. SizeOf(t, n) = z.size
  <2>1. SizesLaid(file.tracks[t], s)
    BY MovieIs DEF IsMovie, Tracks
  <2> HIDE DEF s
  <2> QED BY <2>1, <1>3 DEF SizesLaid, SizeOf
<1>6. /\ z.duration = DeltaOf(t, i) /\ TimeOf(t, i, n) % Word = z.time % Word
      /\ z.time < Word => TimeOf(t, i, n) = z.time
  <2>1. file \in Files /\ IsMovie(file)
    BY MovieIs
  <2> QED BY <2>1, <1>2, TimeIsRight
<1>7. reader.error = "OK" => reader.offset = z.at
  BY DEF PlaceOf
<1>8. reader.error = "OK" =>
        SampleIs(z, reader.offset, SizeOf(t, n), TimeOf(t, i, n), DeltaOf(t, i))
  <2> HIDE DEF z
  <2> QED BY <1>5, <1>6, <1>7 DEF SampleIs
<1> QED BY <1>1, <1>2, <1>4, <1>5, <1>8

LEMMA MovieTakeSample ==
  ASSUME TablesInv, MovieInv, LaidMovie, TakeSample
  PROVE  MovieInv' /\ Forward
<1> DEFINE t == track_index
           n == cursor[t].sample
           size == SizeOf(t, n)
           i == Search(time_to_sample(t), n)
           c == Counted(t)
           duration == DeltaOf(t, i)
           time == TimeOf(t, i, n)
<1>1. /\ pc = "sample" /\ UNCHANGED <<file, built_index, track_index, moof, found_moof>>
      /\ IF i = None
           THEN Go("hung") /\ UNCHANGED <<reader, cursor, output, failure>>
           ELSE cursor' = c /\ Deliver(t, size, time, duration)
  BY Zenon DEF TakeSample, fragment, found, SizeOf, DeltaOf, TimeOf, Counted
<1>2. /\ ReaderIn /\ failure \in {"none", "truncated"} /\ SamplesInv /\ result = "OK"
      /\ failure = "none" /\ reader.error = "XE_EOF" => AllDelivered
      /\ MovieGoesOn /\ AllInChunks
  BY <1>1, MovieFacts
<1>3. /\ built_index /\ n < EndOf(cursor, t) /\ AtPlace
  BY <1>1, <1>2 DEF MovieGoesOn
<1>4. /\ HasChunk(cursor, t) /\ (reader.error = "OK" => reader.offset = PlaceOf(cursor, t))
      /\ file.streamable => OthersAhead(cursor, t)
  BY <1>3 DEF AtPlace
<1>5. CursorsIn(cursor) /\ t \in Tracks /\ opened /\ ReaderOK /\ t # 0
  <2>1. CursorsIn(cursor) /\ t \in Tracks /\ opened /\ ReaderOK
    BY <1>1 DEF TablesInv, CursorsOK, PacketInv
  <2>2. t # 0
    BY <2>1, MovieIs, FileFacts
  <2> QED BY <2>1, <2>2
<1>6. InChunk(cursor, t) /\ delivered[t] = n
  BY <1>2, <1>5 DEF AllInChunks
<1>7. built_index' \in BOOLEAN /\ built_index' /\ opened
  BY <1>1, <1>3, <1>5 DEF MovieInv, MoviePlaces
<1>8. CASE i = None
  <2>1. pc' = "hung" /\ UNCHANGED <<result, opened, reader, cursor, output, failure>>
    BY <1>1, <1>8 DEF Go
  <2>2. UNCHANGED movie
    BY <2>1, <1>1 DEF movie
  <2>3. AllInChunks' /\ (failure' = "none" /\ reader'.error = "XE_EOF" => AllDelivered')
    BY <2>1, <2>2, <1>1, <1>2, ChunksSame, AllKept DEF output
  <2>4. MovieGoesOn'
    BY <2>1, <2>3 DEF MovieGoesOn
  <2>5. ReaderIn' /\ failure' \in {"none", "truncated"} /\ result' = "OK" /\ opened'
    BY <2>1, <1>1, <1>2, <1>5 DEF ReaderIn
  <2>6. MovieInv'
    BY <2>1, <2>3, <2>4, <2>5, <1>1, <1>7, MovieGoes
  <2> QED BY <2>1, <2>6, <1>2 DEF Forward, ReaderIn
<1>9. CASE i # None
  <2>1. cursor' = c /\ Deliver(t, size, time, duration)
    BY <1>1, <1>9
  <2>2. /\ size \in Nat /\ size = file.samples[t][n + 1].size
        /\ n \in Nat /\ n < Len(file.samples[t]) /\ Len(file.samples[t]) \in Nat
        /\ reader.error = "OK" =>
              SampleIs(file.samples[t][n + 1], reader.offset, size, time, duration)
    <3>1. /\ n = cursor[t].sample /\ i = Search(time_to_sample(t), n) /\ size = SizeOf(t, n)
          /\ time = TimeOf(t, i, n) /\ duration = DeltaOf(t, i)
      OBVIOUS
    <3>2. cursor[t].sample < EndOf(cursor, t)
      BY <1>3
    <3> HIDE DEF n, i, size, time, duration, t
    <3>3. /\ SizeOf(t, n) \in Nat /\ SizeOf(t, n) = file.samples[t][n + 1].size
          /\ n \in Nat /\ n < Len(file.samples[t]) /\ Len(file.samples[t]) \in Nat
          /\ reader.error = "OK" =>
              SampleIs(file.samples[t][n + 1], reader.offset, SizeOf(t, n), TimeOf(t, i, n), DeltaOf(t, i))
      BY <3>1, <3>2, <1>4, <1>5, <1>6, <1>9, MovieSample
    <3> QED BY <3>1, <3>3
  <2>3. c = Counted(t)
    OBVIOUS
  <2>4. n = cursor[t].sample /\ t = track_index
    OBVIOUS
  <2> HIDE DEF n, size, time, duration, c, i, t
  <2>5. /\ ReaderIn' /\ OutputInv' /\ EndInv' /\ pc' = "idle" /\ UNCHANGED opened
        /\ failure' \in {"none", "truncated", "unread"}
        /\ failure' = "unread" <=> failure = "unread"
        /\ reader'.offset >= reader.offset
        /\ result' = "OK" =>
             /\ UNCHANGED failure /\ reader.error = "OK"
             /\ reader'.offset = reader.offset + size /\ reader'.error = "OK"
             /\ delivered' = [delivered EXCEPT ![t] = @ + 1]
        /\ result' # "OK" => UNCHANGED output
    <3>1. /\ delivered[t] < Len(file.samples[t])
          /\ reader.error = "OK" /\ failure # "unread" =>
               SampleIs(file.samples[t][delivered[t] + 1], reader.offset, size, time, duration)
      BY <2>2, <1>6
    <3> QED BY <3>1, <2>1, <2>2, <1>1, <1>2, <1>5, DeliverStep
  <2>6. failure' \in {"none", "truncated"}
    BY <2>5, <1>2
  <2>7. CASE result' # "OK"
    <3>1. MovieInv'
      BY <2>5, <2>6, <2>7, <1>1, <1>7, MovieEnds
    <3> QED BY <3>1, <2>5 DEF Forward
  <2>8. CASE result' = "OK"
    <3>1. /\ InChunk(c, t) /\ HasChunk(c, t) /\ c[t].sample = n + 1 /\ c[t].chunk = cursor[t].chunk
          /\ \A u \in Tracks : u # t => c[u] = cursor[u]
          /\ PlaceOf(c, t) = SampleEnd(file.samples[t], n + 1)
      <4>1. cursor[t].sample < EndOf(cursor, t)
        BY <1>3, <2>4
      <4> QED BY <4>1, <2>3, <2>4, <1>4, <1>5, <1>6, SampleCounted
    <3>2. /\ delivered'[t] = delivered[t] + 1 /\ \A u \in Tracks : u # t => delivered'[u] = delivered[u]
      <4>1. delivered \in [Tracks -> Nat]
        BY <1>2 DEF SamplesInv, OutputInv
      <4> QED BY <4>1, <2>5, <2>8, <1>5
    <3>3. ASSUME NEW u \in Tracks
          PROVE  /\ InChunk(c, u) /\ delivered'[u] = c[u].sample
                 /\ u # t => c[u].sample = Behind(c, u)
      <4>1. CASE u = t
        BY <4>1, <3>1, <3>2, <1>6, <2>4
      <4>2. CASE u # t
        <5>1. InChunk(cursor, u) /\ delivered[u] = cursor[u].sample /\ cursor[u].sample = Behind(cursor, u)
          BY <4>2, <2>4, <1>2 DEF AllInChunks
        <5>2. c[u] = cursor[u] /\ delivered'[u] = delivered[u]
          BY <4>2, <3>1, <3>2
        <5> QED BY <5>1, <5>2, ChunkAlike
      <4> QED BY <4>1, <4>2
    <3>4. AllInChunks'
      <4>1. \A u : /\ InChunk(cursor, u)' <=> InChunk(c, u)
                   /\ Behind(cursor, u)' = Behind(c, u)
        BY <2>1, <1>1, CursorSame
      <4>2. Tracks' = Tracks /\ track_index' = t /\ built_index' /\ cursor' = c
        BY <2>1, <2>4, <1>1, <1>7 DEF Tracks
      <4> QED BY <4>1, <4>2, <3>3 DEF AllInChunks
    <3>5. AtPlace'
      <4>1. reader'.offset = PlaceOf(c, t)
        <5> DEFINE z == file.samples[t][n + 1]
        <5>1. reader.offset = z.at /\ size = z.size
          BY <2>2, <2>5, <2>8 DEF SampleIs
        <5>2. SampleEnd(file.samples[t], n + 1) = z.at + z.size
          BY DEF SampleEnd
        <5> HIDE DEF z
        <5> QED BY <5>1, <5>2, <3>1, <2>5, <2>8
      <4>2. file.streamable => OthersAhead(c, t)
        <5> SUFFICES ASSUME file.streamable, NEW u \in Tracks, u # t, HasChunk(c, u)
                     PROVE  ChunkEnd(file, t, c[t].chunk + 1) <= ChunkOffset(c, u)
          BY DEF OthersAhead
        <5>1. c[u] = cursor[u]
          BY <3>1
        <5>2. HasChunk(cursor, u) /\ ChunkOffset(cursor, u) = ChunkOffset(c, u)
          BY <5>1, ChunkAlike
        <5> QED BY <5>2, <3>1, <1>4 DEF OthersAhead
      <4>3. cursor' = c /\ track_index' = t
        BY <2>1, <2>4, <1>1
      <4> QED BY <4>1, <4>2, <4>3, <3>1, <1>1, AtPlaceThen
    <3>6. MovieGoesOn'
      BY <3>4, <3>5, <2>5, <1>7 DEF MovieGoesOn
    <3>7. MovieInv'
      <4>1. CallInv'
        BY <2>5, <2>8, <1>7 DEF CallInv
      <4>2. MoviePlaces'
        BY <2>5, <2>6, <1>1, <1>7 DEF MovieInv, MoviePlaces
      <4> QED BY <4>1, <4>2, <3>6, <2>5 DEF MovieInv, SamplesInv
    <3> QED BY <3>7, <2>5 DEF Forward
  <2> QED BY <2>7, <2>8
<1> QED BY <1>8, <1>9

LEMMA SamplesStutter ==
  ASSUME SamplesInv, UNCHANGED vars
  PROVE  SamplesInv' /\ Forward
<1>1. /\ UNCHANGED <<file, output, reader, failure, found_moov, found_moof, found_mdat>>
      /\ UNCHANGED <<pc, result, opened, built_index, delivered>>
  BY DEF vars, caller, found, movie, output
<1>2. ReaderIn /\ OutputInv /\ EndInv /\ CallInv
  BY DEF SamplesInv
<1>3. ReaderIn' /\ OutputInv' /\ Forward
  BY <1>1, <1>2, OutputKept DEF ReaderIn, Forward
<1>4. EndIsTheEnd'
  BY <1>1, <1>2, TableKept DEF EndInv, EndIsTheEnd, Tracks
<1>5. CallInv'
  BY <1>1, <1>2 DEF CallInv, Untouched
<1>6. (failure = "none" /\ reader.error = "XE_EOF" => AllDelivered)'
  BY <1>1, <1>2, AllKept DEF EndInv
<1> QED BY <1>3, <1>4, <1>5, <1>6 DEF EndInv, SamplesInv

LEMMA MovieStutters ==
  ASSUME MovieInv, LaidMovie, UNCHANGED vars
  PROVE  MovieInv' /\ Forward
<1>1. /\ UNCHANGED <<file, output, moof, found_moof, movie, reader, failure, found_moov, found_mdat>>
      /\ UNCHANGED <<pc, result, opened, found, built_index, cursor, track_index, delivered>>
  BY DEF vars, caller, found, fragment, movie, output
<1>2. MoviePlaces' /\ SamplesInv' /\ Forward
  BY <1>1, SamplesStutter DEF MovieInv, MoviePlaces
<1>3. (result = "OK" => MovieGoesOn)'
  <2> SUFFICES ASSUME result' = "OK" PROVE MovieGoesOn'
    OBVIOUS
  <2>1. MovieGoesOn
    BY <1>1 DEF MovieInv
  <2>2. AllInChunks'
    BY <1>1, <2>1, ChunksSame DEF MovieGoesOn
  <2>3. EndOf(cursor, track_index)' = EndOf(cursor, track_index)
    BY <1>1 DEF EndOf
  <2>4. AtPlace => AtPlace'
    BY <1>1, PlaceSame
  <2>5. AllDelivered => AllDelivered'
    BY <1>1, AllKept
  <2>6. MovieWalk => MovieWalk'
    BY <1>1 DEF MovieWalk, Walked
  <2>7. AllAhead(cursor, reader.offset) => AllAhead(cursor, reader.offset)'
    BY <1>1, AheadSame
  <2> QED BY <1>1, <2>1, <2>2, <2>3, <2>4, <2>5, <2>6, <2>7 DEF MovieGoesOn
<1> QED BY <1>2, <1>3 DEF MovieInv

LEMMA MovieNever ==
  ASSUME MovieInv
  PROVE  ~NewMoof /\ ~SameMoof /\ ~NoRun /\ ~CheckRun /\ ~TakeFromRun
BY DEF MovieInv, MoviePlaces, NewMoof, SameMoof, NoRun, CheckRun, TakeFromRun, InRun

(* The file is one and the same. *)
LEMMA FileStays ==
  ASSUME [Next]_vars
  PROVE  file' = file
BY Zenon DEF Next, vars, Open, ReadRoot, ReadMoov, ReadMdat, SkipBox, ReadMoof, NoBox, RootStops,
   MoofNoMemory, MoovNoMemory, RootBreaks, ReaderFailed, BuildIndex, NextSample, TakeSample,
   ReadFragment, NewMoof, SameMoof, NoRun, CheckRun, TakeFromRun

LEMMA MovieSteps ==
  ASSUME TablesInv, MovieInv, LaidMovie, [Next]_vars
  PROVE  MovieInv' /\ LaidMovie' /\ Forward
<1>1. MovieInv' /\ Forward
  BY MovieNever, MovieOpen, MovieRootStep, MovieReaderFailed, MovieIndex, MovieNextSample,
     MovieTakeSample, MovieReadFragment, MovieStutters DEF Next
<1>2. file' = file
  BY FileStays
<1> QED BY <1>1, <1>2 DEF LaidMovie

(* Before a file is opened nothing has been read. *)
LEMMA SamplesBegin ==
  ASSUME Init, SamplesTyped(file), file.end \in Nat
  PROVE  SamplesInv
<1>1. /\ file \in Files /\ pc = "idle" /\ result = "OK" /\ opened = FALSE
      /\ reader = [offset |-> 0, error |-> "OK"]
      /\ found_moov = FALSE /\ found_moof = FALSE /\ found_mdat = FALSE /\ built_index = FALSE
      /\ packet = NoPacket /\ delivered = [t \in Tracks |-> 0] /\ failure = "none"
  BY DEF Init
<1>2. ReaderIn
  BY <1>1 DEF ReaderIn
<1>3. OutputInv
  <2>1. \A t \in Tracks : Len(file.samples[t]) \in Nat
    <3> SUFFICES ASSUME NEW t \in Tracks PROVE Len(file.samples[t]) \in Nat
      OBVIOUS
    <3>1. file.samples[t] \in Seq(FileSamples)
      BY <1>1, SamplesOf
    <3> QED BY <3>1, SampleTypes
  <2>2. \A t \in Tracks : delivered[t] <= Len(file.samples[t])
    BY <1>1, <2>1
  <2>3. delivered \in [Tracks -> Nat] /\ packet.track = 0
    BY <1>1 DEF NoPacket
  <2> QED BY <2>2, <2>3 DEF OutputInv
<1>4. EndInv
  BY <1>1 DEF EndInv, EndIsTheEnd
<1>5. CallInv
  BY <1>1 DEF CallInv, Untouched
<1> QED BY <1>2, <1>3, <1>4, <1>5 DEF SamplesInv

LEMMA MovieBegins ==
  ASSUME Init, LaidMovie
  PROVE  MovieInv
<1>1. /\ file \in Files /\ pc = "idle" /\ result = "OK" /\ opened = FALSE /\ found_moof = FALSE
      /\ built_index = FALSE /\ failure = "none" /\ moof.trafs = <<>>
      /\ cursor = [t \in Tracks |-> [chunk |-> 0, sample |-> 0, index |-> 1]]
      /\ delivered = [t \in Tracks |-> 0] /\ track_index = 1
  BY DEF Init
<1>2. SamplesInv
  BY MovieIs, SamplesBegin DEF BoxesLaid
<1>3. CursorsIn(cursor)
  BY <1>1, TablesInit DEF TablesInv, CursorsOK
<1>4. ASSUME NEW t \in Tracks
      PROVE  InChunk(cursor, t) /\ delivered[t] = cursor[t].sample /\ cursor[t].sample = Behind(cursor, t)
  <2> DEFINE b == file.before[t]  n == NumChunks(t)  e == file.tracks[t].sample_chunk
  <2>1. cursor[t].chunk = 0 /\ cursor[t].sample = 0 /\ cursor[t].index = 1 /\ delivered[t] = 0
    BY <1>1
  <2>2. Behind(cursor, t) = 0
    <3>1. b[1] = 0
      BY MovieIs, BeforeFacts
    <3> QED BY <2>1, <3>1 DEF Behind
  <2>3. HasChunk(cursor, t) => EndOf(cursor, t) \in Nat /\ 1 \in 1..Len(e) /\ n # 0
    <3> SUFFICES ASSUME HasChunk(cursor, t) PROVE EndOf(cursor, t) \in Nat /\ 1 \in 1..Len(e) /\ n # 0
      OBVIOUS
    <3>1. EndOf(cursor, t) \in Nat /\ cursor[t].index \in 1..Len(e) /\ cursor[t].chunk + 1 \in 1..n
      BY <1>3, MovieIs, CursorPlace
    <3> HIDE DEF n
    <3> QED BY <3>1, <2>1
  <2>4. HasChunk(cursor, t) => AtEntry(cursor, t)
    <3> SUFFICES ASSUME HasChunk(cursor, t) PROVE AtEntry(cursor, t)
      OBVIOUS
    <3>1. ChunkEntries(e, b, n)
      BY MovieIs, EntryFacts
    <3>2. 1 \in 1..Len(e) /\ n # 0
      BY <2>3
    <3> HIDE DEF e, b, n
    <3>3. /\ e \in Seq([first : Nat, count : Nat]) /\ Len(e) \in Nat /\ e[1].first = 1
          /\ e[1].count \in Nat /\ (1 < Len(e) => e[1].first < e[1 + 1].first)
      BY <3>1, <3>2 DEF ChunkEntries
    <3>4. InEntry(e, 1, 1)
      BY <3>3 DEF InEntry
    <3>5. sample_to_chunk(t)[1] = 0
      <4>1. e = file.tracks[t].sample_chunk
        BY DEF e
      <4>2. e # <<>>
        BY <3>2, <3>3, EmptySeq
      <4> QED BY <4>1, <4>2, <3>3, ChunkTable
    <3>6. (0 + 1 - Entry(cursor, t).first) * Entry(cursor, t).count + 0 = 0
      <4>1. Entry(cursor, t).first = 1 /\ Entry(cursor, t).count \in Nat
        BY <2>1, <3>3 DEF Entry, e
      <4> QED BY <4>1
    <3>7. InEntry(e, cursor[t].index, cursor[t].chunk + 1)
      BY <2>1, <3>4
    <3> QED BY <2>1, <2>2, <3>5, <3>6, <3>7 DEF AtEntry, e
  <2>5. InChunk(cursor, t)
    BY <2>1, <2>2, <2>3, <2>4 DEF InChunk
  <2> QED BY <2>1, <2>2, <2>5
<1>5. AllInChunks
  BY <1>4 DEF AllInChunks
<1>6. MovieGoesOn
  BY <1>1, <1>5 DEF MovieGoesOn
<1>7. MoviePlaces
  BY <1>1 DEF MoviePlaces
<1> QED BY <1>2, <1>6, <1>7 DEF MovieInv

-----------------------------------------------------------------------------
(* Fragments: the inductive invariant *)

LaidFragments == file \in Files /\ IsFragmented(file)

(* The current run of a track fragment, and its samples that have been     *)
(* read.                                                                   *)
HasRun(T) == T.run_index \in DOMAIN T.runs
Current(T) == T.runs[T.run_index]
Read(T) == IF HasRun(T) THEN Current(T).current_sample ELSE 0

(* A track fragment T has been read, up to done samples of its track, from *)
(* F of the file, or from a part of it.                                    *)
RunsOf(T, F) ==
  /\ T.track = F.track /\ T.run_index \in 1..Len(T.runs) + 1 /\ Len(T.runs) <= Len(F.runs)
  /\ \A i \in DOMAIN T.runs :
       /\ T.runs[i].sample_count = F.runs[i].count
       /\ T.runs[i].sample_size \in {<<>>, F.runs[i].sizes}
       /\ i > T.run_index => T.runs[i].current_sample = 0
CountOf(T, F, done) ==
  /\ done = F.before[T.run_index] + Read(T)
  /\ HasRun(T) => Read(T) <= Current(T).sample_count

(* Those of a fragment, of which one (x) may have been begun. *)
CountsOf(trafs, m, d, x) ==
  /\ Len(trafs) <= Len(m.trafs)
  /\ \A k \in DOMAIN trafs :
       /\ RunsOf(trafs[k], m.trafs[k]) /\ CountOf(trafs[k], m.trafs[k], d[m.trafs[k].track])
       /\ k # x => Read(trafs[k]) = 0

(* The runs have the offsets of their samples, and the tables of the file. *)
RunOf(r, R, f, F, i) ==
  /\ r.data_offset = RunAt(f, F, i) /\ r.sample_size = R.sizes
  /\ DOMAIN r.sample_duration = DOMAIN R.durations
  /\ \A n \in DOMAIN R.durations : r.sample_duration[n] = SumTo(R.durations)[n]
TrafOf(T, f, F) ==
  /\ T.start_time = F.time /\ Len(T.runs) = Len(F.runs)
  /\ T.default_sample_size = Default(f.tracks[F.track], F, "default_sample_size")
  /\ T.default_sample_duration = Default(f.tracks[F.track], F, "default_sample_duration")
  /\ \A i \in DOMAIN T.runs : RunOf(T.runs[i], F.runs[i], f, F, i)

FragmentOf(trafs, f, m, d) ==
  /\ Len(trafs) = Len(m.trafs)
  /\ \A k \in DOMAIN trafs : TrafOf(trafs[k], f, m.trafs[k])
  /\ \A t \in DOMAIN f.tracks : (\A k \in DOMAIN m.trafs : m.trafs[k].track # t) => d[t] = m.before[t]

(* Where the next sample of a track fragment lies, if its run is the one   *)
(* that is read; and the runs that lie behind.                             *)
NextAt(T, f, F) ==
  IF Read(T) < Current(T).sample_count
    THEN f.samples[F.track][F.before[T.run_index] + Read(T) + 1].at
    ELSE RunEnd(f, F, T.run_index)
RunsBehind(trafs, o, x) ==
  \A k \in DOMAIN trafs : k # x /\ HasRun(trafs[k]) => o <= Current(trafs[k]).data_offset

(* The walk is at a box that is no data, with d samples delivered. *)
Reached(f, o, d) ==
  \/ o = 0 /\ \A t \in DOMAIN f.tracks : d[t] = 0
  \/ \E c \in f.boxes : /\ c.type # "moof" /\ c.end = o
                        /\ \A t \in DOMAIN f.tracks : d[t] = c.after[t]
MoovPassed(f, o) == \A b \in f.boxes : b.type = "moov" => b.end <= o

DataOf(f, m, b) ==
  /\ m \in f.boxes /\ m.type = "moof" /\ b \in f.boxes /\ b.type = "mdat" /\ b.start = m.end
  /\ FragmentLaid(f, m, b)

(* Between the fragments. *)
Walking ==
  /\ InRoot \/ (pc = "idle" /\ ~opened)
  /\ ~found_moof /\ ~found_mdat /\ (found_moov <=> MoovPassed(file, reader.offset))
  /\ Reached(file, reader.offset, delivered)
  /\ pc \in {"first_root", "next_root"} =>
       found_moov /\ mdat_end \in Nat /\ mdat_end <= reader.offset

(* The fragment m has been read, ... *)
Loaded(m) ==
  /\ found_moov /\ found_moof /\ moof = [start |-> m.start, trafs |-> trafs_of(m)]
  /\ \A t \in Tracks : delivered[t] = m.before[t]
InFront(m, b) ==
  DataOf(file, m, b) /\ Loaded(m) /\ InRoot /\ ~found_mdat /\ reader.offset = m.end

(* ... and its data found, ... *)
InBox(b) == mdat_start = b.start + HEADER /\ mdat_size = b.size /\ mdat_end = b.start + b.size
AtData(m, b) ==
  /\ DataOf(file, m, b) /\ Loaded(m) /\ InBox(b)
  /\ pc \in {"idle", "fragment", "first_run", "next_run"} /\ opened /\ found_mdat
  /\ reader.offset = mdat_start

(* ... and its runs are being read, ... *)
RunsIn(trafs, m, b, x) ==
  /\ DataOf(file, m, b) /\ InBox(b)
  /\ CountsOf(trafs, m, delivered, x) /\ FragmentOf(trafs, file, m, delivered)
InRuns(m, b) ==
  /\ RunsIn(moof.trafs, m, b, traf_index)
  /\ pc \in {"idle", "fragment", "check", "take"} /\ opened
  /\ found_moov /\ ~found_moof /\ ~found_mdat
  /\ traf_index \in DOMAIN moof.trafs /\ HasRun(TheTraf)
  /\ reader.offset = NextAt(TheTraf, file, m.trafs[traf_index])
  /\ RunsBehind(moof.trafs, RunEnd(file, m.trafs[traf_index], TheTraf.run_index), traf_index)
  /\ pc = "take" => Read(TheTraf) < Current(TheTraf).sample_count

(* ... and one has been read to its end. *)
Seeks(trafs, m, b) ==
  /\ RunsIn(trafs, m, b, 0) /\ RunsBehind(trafs, reader.offset, 0)
  /\ mdat_start <= reader.offset /\ (b.size # 0 => reader.offset <= b.end)
AfterRun(m, b) ==
  /\ pc = "next_run" /\ opened /\ found_moov /\ ~found_moof /\ ~found_mdat
  /\ Seeks(moof.trafs, m, b)

(* A part of a fragment, for which memory was short. *)
InPart(m) ==
  /\ m \in file.boxes /\ (\E b \in file.boxes : DataOf(file, m, b))
  /\ failure = "unread" /\ ~found_mdat /\ opened
  /\ mdat_end \in Nat /\ mdat_end < reader.offset
  /\ pc \in {"idle", "fragment", "first_run", "next_run", "check", "take"}
  /\ CountsOf(moof.trafs, m, delivered, IF pc \in {"first_run", "next_run"} THEN 0 ELSE traf_index)
  /\ pc = "take" => Read(TheTraf) < Current(TheTraf).sample_count

FragmentGoesOn ==
  \/ failure = "none" /\ Walking
  \/ failure = "none" /\ \E m, b \in file.boxes :
       InFront(m, b) \/ AtData(m, b) \/ InRuns(m, b) \/ AfterRun(m, b)
  \/ \E m \in file.boxes : InPart(m)

FragmentInv ==
  /\ SamplesInv
  /\ pc \notin {"sample", "hung"} /\ (pc \in {"fragment", "check", "take"} => reader.error = "OK")
  /\ result = "OK" /\ reader.error = "OK" => FragmentGoesOn

-----------------------------------------------------------------------------
(* What a fragment consists of *)

LEMMA FragmentIs ==
  ASSUME LaidFragments
  PROVE  /\ file \in Files /\ BoxesLaid(file) /\ SamplesTyped(file) /\ IsFragmented(file)
         /\ file.end \in Nat /\ \A t \in Tracks : file.tracks[t].chunk_offset = <<>>
BY DEF LaidFragments, IsFragmented, BoxesLaid, Tracks

(* A track fragment of the file, and the samples of its track. *)
FileTraf(F, s) ==
  /\ F \in FileTrafs /\ F.track \in Tracks /\ F.time \in Nat
  /\ F.runs \in Seq(FileRuns) /\ F.before \in Seq(Nat)
  /\ Len(F.runs) \in Nat /\ DOMAIN F.runs = 1..Len(F.runs) /\ Len(F.before) \in Nat
  /\ s = file.samples[F.track] /\ s \in Seq(FileSamples) /\ Len(s) \in Nat
  /\ file.tracks[F.track] \in TrackTables

LEMMA TrafsOfFile ==
  ASSUME file \in Files, SamplesTyped(file), NEW m \in file.boxes
  PROVE  /\ m.trafs \in Seq(FileTrafs) /\ Len(m.trafs) \in Nat /\ DOMAIN m.trafs = 1..Len(m.trafs)
         /\ \A k \in DOMAIN m.trafs : FileTraf(m.trafs[k], file.samples[m.trafs[k].track])
<1>1. m.trafs \in Seq(FileTrafs) /\ Len(m.trafs) \in Nat /\ DOMAIN m.trafs = 1..Len(m.trafs)
      /\ \A k \in DOMAIN m.trafs : m.trafs[k].track \in Tracks
  BY FileFacts, LenProperties
<1>2. ASSUME NEW k \in DOMAIN m.trafs PROVE FileTraf(m.trafs[k], file.samples[m.trafs[k].track])
  <2> DEFINE F == m.trafs[k]
  <2>1. F \in FileTrafs /\ F.track \in Tracks
    BY <1>1, ElementOfSeq
  <2>2. file.samples[F.track] \in Seq(FileSamples) /\ file.tracks[F.track] \in TrackTables
    BY <2>1, SamplesOf, FileFacts
  <2> HIDE DEF F
  <2>3. F.time \in Nat /\ F.runs \in Seq(FileRuns) /\ F.before \in Seq(Nat)
    BY <2>1 DEF FileTrafs
  <2>4. /\ Len(F.runs) \in Nat /\ DOMAIN F.runs = 1..Len(F.runs) /\ Len(F.before) \in Nat
        /\ Len(file.samples[F.track]) \in Nat
    BY <2>2, <2>3, LenProperties
  <2>5. FileTraf(F, file.samples[F.track])
    BY <2>1, <2>2, <2>3, <2>4 DEF FileTraf
  <2> QED BY <2>5 DEF F
<1> QED BY <1>1, <1>2

(* A run, and its place. *)
FileRun(F, s, i) ==
  /\ F.runs[i] \in FileRuns /\ F.runs[i].count \in Nat \ {0} /\ F.runs[i].sizes \in Seq(Nat)
  /\ F.runs[i].durations \in Seq(Nat) /\ F.runs[i].offset \in Int
  /\ i \in Nat \ {0} /\ F.before[i] \in Nat /\ F.before[i + 1] = F.before[i] + F.runs[i].count
  /\ F.before[i + 1] \in Nat /\ F.before[i + 1] <= Len(s)
  /\ Adjacent(s, F.before[i] + 1, F.before[i + 1])

LEMMA RunsOfFile ==
  ASSUME NEW F, NEW s, FileTraf(F, s), Len(F.before) = Len(F.runs) + 1, NEW i \in DOMAIN F.runs,
         RunLaid(file, F, i)
  PROVE  /\ FileRun(F, s, i) /\ RunAt(file, F, i) \in Nat /\ RunEnd(file, F, i) \in Nat
         /\ RunAt(file, F, i) < RunEnd(file, F, i)
<1> DEFINE n == Len(F.runs)  R == F.runs[i]  b == F.before
<1>1. n \in Nat /\ i \in 1..n /\ F.runs \in Seq(FileRuns) /\ b \in Seq(Nat) /\ Len(b) = n + 1
      /\ s = file.samples[F.track] /\ s \in Seq(FileSamples) /\ Len(s) \in Nat
  BY DEF FileTraf
<1>2. R.count > 0 /\ b[i + 1] = b[i] + R.count /\ b[i + 1] <= Len(s) /\ Adjacent(s, b[i] + 1, b[i + 1])
  BY <1>1 DEF RunLaid
<1>3. R \in FileRuns
  BY <1>1, ElementOfSeq
<1> HIDE DEF n, R, b
<1>4. i \in Nat \ {0} /\ i \in 1..n + 1 /\ i + 1 \in 1..n + 1
  <2>1. n \in Nat /\ i \in 1..n
    BY <1>1
  <2> QED BY <2>1
<1>5. b[i] \in Nat /\ b[i + 1] \in Nat
  <2>1. i \in 1..Len(b) /\ i + 1 \in 1..Len(b)
    BY <1>1, <1>4
  <2> QED BY <2>1, <1>1, ElementOfSeq
<1>6. R.count \in Nat \ {0} /\ R.sizes \in Seq(Nat) /\ R.durations \in Seq(Nat) /\ R.offset \in Int
  BY <1>2, <1>3 DEF FileRuns
<1>7. FileRun(F, s, i)
  BY <1>2, <1>3, <1>4, <1>5, <1>6 DEF FileRun, R, b
<1> DEFINE x == b[i] + 1  y == b[i + 1]
<1>8. x \in 1..Len(s) /\ y \in 1..Len(s) /\ y \in x..y
  <2> DEFINE p == b[i]  q == R.count  w == Len(s)
  <2>1. p \in Nat /\ q \in Nat \ {0} /\ y = p + q /\ y <= w /\ w \in Nat /\ x = p + 1
    BY <1>1, <1>2, <1>5, <1>6
  <2> HIDE DEF p, q, w, x, y
  <2>2. x \in 1..w /\ y \in 1..w /\ y \in x..y
    BY <2>1
  <2> QED BY <2>2 DEF w
<1>9. /\ RunAt(file, F, i) = s[x].at /\ RunEnd(file, F, i) = s[y].at + s[y].size
      /\ Adjacent(s, x, y)
  BY <1>1, <1>2 DEF RunAt, RunEnd, SampleEnd, b
<1> HIDE DEF x, y
<1>10. s[x].at \in Nat /\ s[y].at \in Nat /\ s[y].size \in Nat \ {0}
  BY <1>1, <1>8, SampleTypes
<1>11. s[x].at <= s[y].at
  BY <1>1, <1>8, <1>9, AdjacentGrows
<1> QED BY <1>7, <1>9, <1>10, <1>11

(* The k-th track fragment of a fragment whose data is in a box. *)
LEMMA FragmentTraf ==
  ASSUME file \in Files, SamplesTyped(file), NEW m, NEW b, DataOf(file, m, b),
         NEW k \in DOMAIN m.trafs, NEW F, F = m.trafs[k]
  PROVE  /\ FileTraf(F, file.samples[F.track]) /\ Len(F.before) = Len(F.runs) + 1
         /\ F.before[1] = m.before[F.track] /\ F.before[Len(F.runs) + 1] = m.after[F.track]
         /\ \A l \in DOMAIN m.trafs : l # k => m.trafs[l].track # F.track
         /\ \A i \in DOMAIN F.runs :
              /\ RunLaid(file, F, i) /\ FileRun(F, file.samples[F.track], i)
              /\ RunAt(file, F, i) \in Nat /\ RunEnd(file, F, i) \in Nat
              /\ RunAt(file, F, i) < RunEnd(file, F, i)
              /\ b.start + HEADER <= RunAt(file, F, i) /\ RunEnd(file, F, i) <= b.end
              /\ i + 1 \in DOMAIN F.runs => RunEnd(file, F, i) <= RunAt(file, F, i + 1)
<1>1. m \in file.boxes /\ FragmentLaid(file, m, b)
  BY DEF DataOf
<1>2. FileTraf(F, file.samples[F.track])
  BY <1>1, TrafsOfFile
<1>3. TrafLaid(file, m, k) /\ (\A l \in DOMAIN m.trafs : l # k => m.trafs[l].track # F.track)
      /\ \A i \in DOMAIN F.runs : b.start + HEADER <= RunAt(file, F, i) /\ RunEnd(file, F, i) <= b.end
  BY <1>1 DEF FragmentLaid
<1> DEFINE n == Len(F.runs)
<1>4. /\ Len(F.before) = n + 1
      /\ F.before[1] = m.before[F.track] /\ F.before[n + 1] = m.after[F.track]
      /\ \A i \in 1..n : RunLaid(file, F, i)
      /\ \A i \in 1..n - 1 : RunEnd(file, F, i) <= RunAt(file, F, i + 1)
  BY <1>3 DEF TrafLaid
<1>5. n \in Nat /\ DOMAIN F.runs = 1..n
  BY <1>2 DEF FileTraf
<1>6. ASSUME NEW i \in DOMAIN F.runs
      PROVE  /\ RunLaid(file, F, i) /\ FileRun(F, file.samples[F.track], i)
             /\ RunAt(file, F, i) \in Nat /\ RunEnd(file, F, i) \in Nat
             /\ RunAt(file, F, i) < RunEnd(file, F, i)
             /\ i + 1 \in DOMAIN F.runs => RunEnd(file, F, i) <= RunAt(file, F, i + 1)
  <2>1. RunLaid(file, F, i)
    BY <1>4, <1>5
  <2>2. i + 1 \in DOMAIN F.runs => i \in 1..n - 1
    BY <1>5
  <2> QED BY <2>1, <2>2, <1>2, <1>4, RunsOfFile
<1> QED BY <1>2, <1>3, <1>4, <1>6

(* The data of one track fragment does not overlap with that of another.   *)
LEMMA DataApart ==
  ASSUME file \in Files, SamplesTyped(file), NEW m, NEW b, DataOf(file, m, b),
         NEW k \in DOMAIN m.trafs, NEW i \in DOMAIN m.trafs[k].runs,
         NEW l \in DOMAIN m.trafs, NEW j \in DOMAIN m.trafs[l].runs, k # l,
         RunAt(file, m.trafs[k], i) <= RunAt(file, m.trafs[l], j)
  PROVE  RunEnd(file, m.trafs[k], i) <= RunAt(file, m.trafs[l], j)
<1> DEFINE F == m.trafs[k]  G == m.trafs[l]
<1>1. \/ RunEnd(file, F, i) <= RunAt(file, G, j)
      \/ RunEnd(file, G, j) <= RunAt(file, F, i)
  BY DEF DataOf, FragmentLaid
<1>2. RunAt(file, F, i) \in Nat /\ RunEnd(file, F, i) \in Nat /\ RunAt(file, F, i) < RunEnd(file, F, i)
  BY FragmentTraf
<1>3. RunAt(file, G, j) \in Nat /\ RunEnd(file, G, j) \in Nat /\ RunAt(file, G, j) < RunEnd(file, G, j)
  BY FragmentTraf
<1> QED BY <1>1, <1>2, <1>3

-----------------------------------------------------------------------------
(* The lengths and the times of the samples of a run *)

(* z[k] is the total of the sizes, or of the durations, of the k samples   *)
(* from the one behind x.                                                  *)
SizesTo(z, s, x, n) ==
  z[0] = 0 /\ (\A k \in 0..n : z[k] \in Nat) /\ \A k \in 1..n : z[k] = z[k - 1] + s[x + k].size
DurationsTo(z, s, x, n) ==
  z[0] = 0 /\ (\A k \in 0..n : z[k] \in Nat) /\ \A k \in 1..n : z[k] = z[k - 1] + s[x + k].duration

LEMMA Lengths ==
  ASSUME NEW s \in Seq(FileSamples), NEW x \in Nat, NEW n \in Nat \ {0}, x + n <= Len(s),
         Adjacent(s, x + 1, x + n), NEW z, SizesTo(z, s, x, n)
  PROVE  s[x + 1].at + z[n] = SampleEnd(s, x + n)
<1> DEFINE a == s[x + 1].at
           f == [k \in 0..n |-> IF k = 0 THEN a ELSE SampleEnd(s, x + k)]
           g == [k \in 0..n |-> a + z[k]]
           w == Len(s)
<1>1. w \in Nat /\ \A m \in 1..w : s[m].at \in Nat /\ s[m].size \in Nat
  BY SampleTypes
<1>2. x + n <= w /\ 1 \in 1..n /\ x + 1 \in 1..w
  BY <1>1
<1>3. a \in Nat
  BY <1>1, <1>2
<1>0. w \in Nat
  BY <1>1
<1> HIDE DEF a, w
<1>4. \A k \in 0..n : z[k] \in Nat
  BY DEF SizesTo
<1>5. f[0] = g[0]
  <2>1. 0 \in 0..n /\ z[0] = 0
    BY DEF SizesTo
  <2> QED BY <2>1, <1>3
<1>6. ASSUME NEW k \in 1..n, f[k - 1] = g[k - 1] PROVE f[k] = g[k]
  <2>1. k \in 0..n /\ k - 1 \in 0..n /\ k # 0 /\ k \in Nat \ {0} /\ x + k \in 1..w
    BY <1>2, <1>0
  <2>2. f[k] = SampleEnd(s, x + k) /\ g[k] = a + z[k] /\ g[k - 1] = a + z[k - 1]
    BY <2>1
  <2>3. z[k] = z[k - 1] + s[x + k].size /\ z[k - 1] \in Nat /\ z[k] \in Nat
    BY <2>1, <1>4 DEF SizesTo
  <2>4. s[x + k].at = f[k - 1]
    <3>1. CASE k = 1
      BY <3>1, <2>1 DEF a
    <3>2. CASE k # 1
      <4>1. k - 1 # 0 /\ x + (k - 1) \in x + 1..(x + n) - 1 /\ (x + (k - 1)) + 1 = x + k
        BY <3>2, <2>1
      <4>2. s[(x + (k - 1)) + 1].at = SampleEnd(s, x + (k - 1))
        BY <4>1 DEF Adjacent
      <4> QED BY <4>1, <4>2, <2>1
    <3> QED BY <3>1, <3>2
  <2>5. s[x + k].at \in Nat /\ s[x + k].size \in Nat
    BY <2>1, <1>1
  <2> DEFINE p == s[x + k].at  q == s[x + k].size
  <2>6. p = a + z[k - 1] /\ SampleEnd(s, x + k) = p + q /\ z[k] = z[k - 1] + q
        /\ p \in Nat /\ q \in Nat
    BY <2>2, <2>3, <2>4, <2>5, <1>6 DEF SampleEnd
  <2>7. f[k] = p + q /\ g[k] = a + z[k]
    BY <2>2, <2>6
  <2> DEFINE u == z[k]  v == z[k - 1]
  <2>8. p = a + v /\ u = v + q /\ u \in Nat /\ v \in Nat /\ g[k] = a + u
    BY <2>3, <2>6, <2>7
  <2> HIDE DEF p, q, f, g, u, v
  <2>9. a + u = p + q
    BY <2>6, <2>8, <1>3
  <2> QED BY <2>7, <2>8, <2>9
<1>7. n \in Nat /\ StepAlike(f, g, n)
  BY <1>6 DEF StepAlike
<1> HIDE DEF f, g
<1>8. \A k \in 0..n : f[k] = g[k]
  BY <1>5, <1>7, SameSteps
<1>9. n \in 0..n /\ n # 0
  OBVIOUS
<1> QED BY <1>8, <1>9 DEF f, g, a

Timed(s, x, n) == x + n <= Len(s) /\ InTime(s, x + 1, x + n)
TimesTo(z, s, x, n) == \A k \in 0..n - 1 : s[x + k + 1].time = s[x + 1].time + z[k]

LEMMA Times ==
  ASSUME NEW s \in Seq(FileSamples), NEW x \in Nat, NEW n \in Nat \ {0}, Timed(s, x, n),
         NEW z, DurationsTo(z, s, x, n)
  PROVE  TimesTo(z, s, x, n)
<1> USE DEF Timed
<1> DEFINE a == s[x + 1].time  h == n - 1
           f == [k \in 0..h |-> s[x + k + 1].time]
           g == [k \in 0..h |-> a + z[k]]
           w == Len(s)
<1>1. w \in Nat /\ \A m \in 1..w : s[m].time \in Nat /\ s[m].duration \in Nat
  BY SampleTypes
<1>2. x + n <= w /\ x + 1 \in 1..w /\ h \in Nat
  BY <1>1
<1>3. a \in Nat
  BY <1>1, <1>2
<1>0. w \in Nat
  BY <1>1
<1> HIDE DEF a, w
<1>4. \A k \in 0..n : z[k] \in Nat
  BY DEF DurationsTo
<1>5. f[0] = g[0]
  <2>1. 0 \in 0..h /\ z[0] = 0 /\ x + 0 + 1 = x + 1
    BY <1>2 DEF DurationsTo
  <2>2. f[0] = s[x + 1].time /\ g[0] = a + 0
    BY <2>1
  <2> QED BY <2>2, <1>3 DEF a
<1>6. ASSUME NEW k \in 1..h, f[k - 1] = g[k - 1] PROVE f[k] = g[k]
  <2>1. /\ k \in 0..h /\ k - 1 \in 0..h /\ k \in 1..n /\ k - 1 \in 0..n /\ k \in 0..n /\ x + k \in 1..w
        /\ x + k \in x + 1..(x + n) - 1 /\ x + (k - 1) + 1 = x + k
    BY <1>2, <1>0
  <2>2. f[k] = s[x + k + 1].time /\ f[k - 1] = s[x + k].time /\ g[k] = a + z[k] /\ g[k - 1] = a + z[k - 1]
    BY <2>1
  <2>3. z[k] = z[k - 1] + s[x + k].duration /\ z[k - 1] \in Nat /\ z[k] \in Nat
    BY <2>1, <1>4 DEF DurationsTo
  <2>4. s[(x + k) + 1].time = s[x + k].time + s[x + k].duration
    BY <2>1 DEF InTime
  <2>5. s[x + k].time \in Nat /\ s[x + k].duration \in Nat
    BY <2>1, <1>1
  <2> DEFINE p == s[x + k].time  q == s[x + k].duration
  <2>6. p = a + z[k - 1] /\ f[k] = p + q /\ z[k] = z[k - 1] + q /\ g[k] = a + z[k] /\ p \in Nat /\ q \in Nat
    BY <2>2, <2>3, <2>4, <2>5, <1>6
  <2> DEFINE u == z[k]  v == z[k - 1]
  <2>8. p = a + v /\ u = v + q /\ u \in Nat /\ v \in Nat /\ g[k] = a + u
    BY <2>3, <2>6
  <2> HIDE DEF p, q, f, g, u, v
  <2>9. a + u = p + q
    BY <2>6, <2>8, <1>3
  <2> QED BY <2>6, <2>8, <2>9
<1>7. StepAlike(f, g, h)
  BY <1>6 DEF StepAlike
<1> HIDE DEF f, g, h
<1>9. h \in Nat
  BY <1>2 DEF h
<1>8. \A k \in 0..h : f[k] = g[k]
  BY <1>9, <1>5, <1>7, SameSteps
<1> QED BY <1>8 DEF f, g, a, h, TimesTo

(* A number of samples that are alike. *)
Alike(d, n) == [k \in 0..n |-> k * d]

LEMMA AlikeGrow ==
  ASSUME NEW d \in Nat, NEW n \in Nat
  PROVE  /\ Alike(d, n)[0] = 0 /\ \A k \in 0..n : Alike(d, n)[k] = k * d /\ Alike(d, n)[k] \in Nat
         /\ \A k \in 1..n : Alike(d, n)[k] = Alike(d, n)[k - 1] + d
<1>1. ASSUME NEW k \in 0..n PROVE Alike(d, n)[k] = k * d /\ Alike(d, n)[k] \in Nat
  <2>1. k \in Nat
    OBVIOUS
  <2>2. k * d \in Nat
    BY <2>1
  <2> QED BY <2>2 DEF Alike
<1>2. Alike(d, n)[0] = 0
  <2>1. 0 \in 0..n /\ 0 * d = 0
    OBVIOUS
  <2> QED BY <2>1 DEF Alike
<1>3. ASSUME NEW k \in 1..n PROVE Alike(d, n)[k] = Alike(d, n)[k - 1] + d
  <2>1. k \in 0..n /\ k - 1 \in 0..n /\ k - 1 \in Int /\ (k - 1) + 1 = k
    OBVIOUS
  <2> DEFINE j == k - 1
  <2>2. j \in Int /\ d \in Int /\ j + 1 = k
    BY <2>1
  <2>3. Alike(d, n)[k] = k * d /\ Alike(d, n)[j] = j * d
    BY <2>1, <1>1
  <2> HIDE DEF j
  <2>4. (j + 1) * d = j * d + d
    BY <2>2, OneMore
  <2> QED BY <2>2, <2>3, <2>4 DEF j
<1> QED BY <1>1, <1>2, <1>3

-----------------------------------------------------------------------------
(* The tables of a run give the bytes and the times of its samples *)

LEMMA DefaultsAre ==
  ASSUME NEW F, NEW s, FileTraf(F, s)
  PROVE  /\ Default(file.tracks[F.track], F, "default_sample_size") \in Nat
         /\ Default(file.tracks[F.track], F, "default_sample_duration") \in Nat
<1> DEFINE track == file.tracks[F.track]
<1>1. F \in FileTrafs /\ track \in TrackTables
  BY DEF FileTraf
<1> HIDE DEF track
<1>2. track.default_sample_size \in Nat /\ track.default_sample_duration \in Nat
  BY <1>1 DEF TrackTables
<1>3. F.default_sample_size \in Nat \cup {None} /\ F.default_sample_duration \in Nat \cup {None}
  BY <1>1 DEF FileTrafs
<1>4. Default(track, F, "default_sample_size") \in Nat
  BY <1>2, <1>3 DEF Default
<1>5. Default(track, F, "default_sample_duration") \in Nat
  BY <1>2, <1>3 DEF Default
<1> QED BY <1>4, <1>5 DEF track

(* What a run of the file says about its samples. *)
RunTables(F, s, i, size, duration) ==
  LET R == F.runs[i]
  IN  /\ R.sizes = <<>> \/ Len(R.sizes) = R.count
      /\ R.durations = <<>> \/ Len(R.durations) = R.count
      /\ \A n \in 1..R.count :
           /\ s[F.before[i] + n].size = IF R.sizes # <<>> THEN R.sizes[n] ELSE size
           /\ s[F.before[i] + n].duration = IF R.durations # <<>> THEN R.durations[n] ELSE duration
           /\ s[F.before[i] + n].timed => i = 1
      /\ i = 1 => /\ s[F.before[i] + 1].time = F.time
                  /\ InTime(s, F.before[i] + 1, F.before[i] + R.count)

LEMMA TablesOfRun ==
  ASSUME NEW F, NEW s, FileTraf(F, s), NEW i, FileRun(F, s, i), RunLaid(file, F, i)
  PROVE  RunTables(F, s, i, Default(file.tracks[F.track], F, "default_sample_size"),
                   Default(file.tracks[F.track], F, "default_sample_duration"))
<1>1. s = file.samples[F.track] /\ F.before[i + 1] = F.before[i] + F.runs[i].count
  BY DEF FileTraf, FileRun
<1> DEFINE size == Default(file.tracks[F.track], F, "default_sample_size")
           duration == Default(file.tracks[F.track], F, "default_sample_duration")
           R == F.runs[i]  x == F.before[i]  S == file.samples[F.track]
<1>2. /\ R.sizes = <<>> \/ Len(R.sizes) = R.count
      /\ R.durations = <<>> \/ Len(R.durations) = R.count
      /\ \A n \in 1..R.count :
           /\ S[x + n].size = IF R.sizes # <<>> THEN R.sizes[n] ELSE size
           /\ S[x + n].duration = IF R.durations # <<>> THEN R.durations[n] ELSE duration
           /\ S[x + n].timed => i = 1
      /\ i = 1 => S[x + 1].time = F.time /\ InTime(S, x + 1, F.before[i + 1])
  BY Zenon DEF RunLaid
<1>3. S = s /\ F.before[i + 1] = x + R.count
  BY <1>1
<1>4. R = F.runs[i] /\ x = F.before[i]
  OBVIOUS
<1> HIDE DEF size, duration, S, R, x
<1>5. RunTables(F, s, i, size, duration)
  BY <1>2, <1>3, <1>4 DEF RunTables
<1> QED BY <1>5 DEF size, duration

(* The totals of a table are those of the samples. *)
LEMMA TotalsOf ==
  ASSUME NEW F, NEW s, NEW i, FileRun(F, s, i), NEW size, NEW duration,
         RunTables(F, s, i, size, duration), NEW R, R = F.runs[i], NEW x, x = F.before[i],
         NEW c, c = R.count
  PROVE  /\ R.sizes # <<>> => Len(R.sizes) = c /\ SizesTo(SumTo(R.sizes), s, x, c)
         /\ R.sizes = <<>> /\ size \in Nat => SizesTo(Alike(size, c), s, x, c)
         /\ R.durations # <<>> => Len(R.durations) = c /\ DurationsTo(SumTo(R.durations), s, x, c)
         /\ R.durations = <<>> /\ duration \in Nat => DurationsTo(Alike(duration, c), s, x, c)
<1>1. c \in Nat /\ R.sizes \in Seq(Nat) /\ R.durations \in Seq(Nat)
  BY DEF FileRun
<1>2. /\ R.sizes = <<>> \/ Len(R.sizes) = c
      /\ R.durations = <<>> \/ Len(R.durations) = c
      /\ \A n \in 1..c :
           /\ s[x + n].size = IF R.sizes # <<>> THEN R.sizes[n] ELSE size
           /\ s[x + n].duration = IF R.durations # <<>> THEN R.durations[n] ELSE duration
  BY DEF RunTables
<1>3. ASSUME R.sizes # <<>> PROVE SizesTo(SumTo(R.sizes), s, x, c)
  <2> DEFINE t == R.sizes
  <2>1. t \in Seq(Nat) /\ Len(t) = c /\ \A n \in 1..c : s[x + n].size = t[n]
    BY <1>1, <1>2, <1>3
  <2> HIDE DEF t
  <2>2. SumTo(t)[0] = 0 /\ \A k \in 1..Len(t) : SumTo(t)[k] = SumTo(t)[k - 1] + t[k]
    BY <2>1, SumSteps
  <2>3. \A k \in 0..Len(t) : SumTo(t)[k] \in Nat
    BY <2>1, SumIsNumber
  <2>4. SizesTo(SumTo(t), s, x, c)
    BY <2>1, <2>2, <2>3 DEF SizesTo
  <2> QED BY <2>4 DEF t
<1>4. ASSUME R.durations # <<>> PROVE DurationsTo(SumTo(R.durations), s, x, c)
  <2> DEFINE t == R.durations
  <2>1. t \in Seq(Nat) /\ Len(t) = c /\ \A n \in 1..c : s[x + n].duration = t[n]
    BY <1>1, <1>2, <1>4
  <2> HIDE DEF t
  <2>2. SumTo(t)[0] = 0 /\ \A k \in 1..Len(t) : SumTo(t)[k] = SumTo(t)[k - 1] + t[k]
    BY <2>1, SumSteps
  <2>3. \A k \in 0..Len(t) : SumTo(t)[k] \in Nat
    BY <2>1, SumIsNumber
  <2>4. DurationsTo(SumTo(t), s, x, c)
    BY <2>1, <2>2, <2>3 DEF DurationsTo
  <2> QED BY <2>4 DEF t
<1>5. ASSUME R.sizes = <<>>, size \in Nat PROVE SizesTo(Alike(size, c), s, x, c)
  <2>1. \A n \in 1..c : s[x + n].size = size
    BY <1>2, <1>5
  <2>2. /\ Alike(size, c)[0] = 0 /\ \A k \in 0..c : Alike(size, c)[k] \in Nat
        /\ \A k \in 1..c : Alike(size, c)[k] = Alike(size, c)[k - 1] + size
    BY <1>1, <1>5, AlikeGrow
  <2> QED BY <2>1, <2>2 DEF SizesTo
<1>6. ASSUME R.durations = <<>>, duration \in Nat PROVE DurationsTo(Alike(duration, c), s, x, c)
  <2>1. \A n \in 1..c : s[x + n].duration = duration
    BY <1>2, <1>6
  <2>2. /\ Alike(duration, c)[0] = 0 /\ \A k \in 0..c : Alike(duration, c)[k] \in Nat
        /\ \A k \in 1..c : Alike(duration, c)[k] = Alike(duration, c)[k - 1] + duration
    BY <1>1, <1>6, AlikeGrow
  <2> QED BY <2>1, <2>2 DEF DurationsTo
<1> QED BY <1>2, <1>3, <1>4, <1>5, <1>6

(* A run that has been read ends where its last sample does. *)
LEMMA RunTotal ==
  ASSUME NEW F, NEW s, FileTraf(F, s), NEW i, FileRun(F, s, i), RunLaid(file, F, i), NEW T,
         T.default_sample_size = Default(file.tracks[F.track], F, "default_sample_size"),
         NEW r, r = Run(F.runs[i])
  PROVE  RunAt(file, F, i) + Total(T, r) = RunEnd(file, F, i) /\ Total(T, r) \in Nat
<1> DEFINE R == F.runs[i]  x == F.before[i]  c == R.count  size == T.default_sample_size
           duration == Default(file.tracks[F.track], F, "default_sample_duration")
<1>1. /\ c \in Nat \ {0} /\ x \in Nat /\ F.before[i + 1] = x + c /\ x + c <= Len(s)
      /\ Adjacent(s, x + 1, x + c) /\ R.sizes \in Seq(Nat)
  BY DEF FileRun
<1>2. s = file.samples[F.track] /\ s \in Seq(FileSamples)
  BY DEF FileTraf
<1>3. RunTables(F, s, i, size, duration) /\ size \in Nat
  BY TablesOfRun, DefaultsAre
<1>4. RunAt(file, F, i) = s[x + 1].at /\ RunEnd(file, F, i) = SampleEnd(s, x + c)
  BY <1>1, <1>2 DEF RunAt, RunEnd
<1>5. r.sample_size = R.sizes /\ r.total_sample_size = SumTo(R.sizes)[Len(R.sizes)] /\ r.sample_count = c
  BY DEF Run
<1>6. R = F.runs[i] /\ x = F.before[i] /\ c = R.count
  OBVIOUS
<1> HIDE DEF R, x, c, size, duration
<1>7. /\ R.sizes # <<>> => Len(R.sizes) = c /\ SizesTo(SumTo(R.sizes), s, x, c)
      /\ R.sizes = <<>> => SizesTo(Alike(size, c), s, x, c)
  BY <1>3, <1>6, TotalsOf
<1>8. CASE R.sizes # <<>>
  <2>1. SizesTo(SumTo(R.sizes), s, x, c) /\ Len(R.sizes) = c
    BY <1>7, <1>8
  <2>2. s[x + 1].at + SumTo(R.sizes)[c] = SampleEnd(s, x + c)
    BY <1>1, <1>2, <2>1, Lengths
  <2>3. SumTo(R.sizes)[c] \in Nat
    BY <1>1, <2>1 DEF SizesTo
  <2>4. Total(T, r) = SumTo(R.sizes)[c]
    BY <1>5, <1>8, <2>1 DEF Total
  <2> QED BY <1>4, <2>2, <2>3, <2>4
<1>9. CASE R.sizes = <<>>
  <2>1. SizesTo(Alike(size, c), s, x, c)
    BY <1>7, <1>9
  <2>2. s[x + 1].at + Alike(size, c)[c] = SampleEnd(s, x + c)
    BY <1>1, <1>2, <2>1, Lengths
  <2>3. Alike(size, c)[c] = c * size /\ Alike(size, c)[c] \in Nat
    <3>1. c \in 0..c /\ c \in Nat
      BY <1>1
    <3> QED BY <3>1, <1>3, AlikeGrow
  <2>4. SumTo(R.sizes)[Len(R.sizes)] = 0
    <3>1. Len(R.sizes) = 0
      BY <1>9
    <3> QED BY <3>1, <1>1, SumSteps
  <2>5. Total(T, r) = c * size
    <3>1. r.sample_size = <<>> /\ r.total_sample_size = 0 /\ r.sample_count = c
      BY <1>5, <1>9, <2>4
    <3> QED BY <3>1 DEF Total, size
  <2> QED BY <1>4, <2>2, <2>3, <2>5
<1> QED BY <1>8, <1>9

-----------------------------------------------------------------------------
(* What read_packet() makes of the sample n + 1 of a run *)

SizeIn(T, r, n) ==
  IF r.sample_size # <<>> THEN r.sample_size[n + 1] ELSE T.default_sample_size
TimeIn(T, r, n) ==
  T.start_time + (IF n = 0 THEN 0
                  ELSE IF r.sample_duration # <<>> THEN r.sample_duration[n]
                  ELSE (T.default_sample_duration * n) % Word)
DurationIn(T, r, n) ==
  IF r.sample_duration # <<>>
    THEN r.sample_duration[n + 1] - (IF n = 0 THEN 0 ELSE r.sample_duration[n])
    ELSE T.default_sample_duration

NthOf(F, s, i, n) == s[F.before[i] + n + 1]

TakenFrom(T, r, F, s, i, size, duration, n) ==
  /\ s \in Seq(FileSamples) /\ FileRun(F, s, i) /\ RunTables(F, s, i, size, duration)
  /\ T.start_time = F.time /\ F.time \in Nat
  /\ T.default_sample_size = size /\ T.default_sample_duration = duration /\ duration \in Nat
  /\ r.sample_duration \in Seq(Nat) /\ RunOf(r, F.runs[i], file, F, i)
  /\ n \in Nat /\ n < F.runs[i].count
TimesRight(T, r, n, v) ==
  /\ DurationIn(T, r, n) = v.duration
  /\ v.timed => /\ TimeIn(T, r, n) % Word = v.time % Word
                /\ v.time < Word => TimeIn(T, r, n) = v.time

(* Durations that are given. *)
LEMMA GivenTimes ==
  ASSUME NEW F, NEW s, NEW i, NEW size, NEW duration, NEW T, NEW r, NEW n,
         TakenFrom(T, r, F, s, i, size, duration, n), F.runs[i].durations # <<>>
  PROVE  TimesRight(T, r, n, NthOf(F, s, i, n))
<1> DEFINE R == F.runs[i]
<1>a. /\ s \in Seq(FileSamples) /\ FileRun(F, s, i) /\ RunTables(F, s, i, size, duration)
      /\ T.start_time = F.time /\ F.time \in Nat
      /\ r.sample_duration \in Seq(Nat) /\ RunOf(r, R, file, F, i) /\ n \in Nat /\ n < R.count
  BY DEF TakenFrom
<1>b. R = F.runs[i] /\ R.durations # <<>>
  OBVIOUS
<1> HIDE DEF R
<1> DEFINE x == F.before[i]  z == SumTo(R.durations)  c == R.count  d == r.sample_duration
<1>1. c \in Nat \ {0} /\ x \in Nat /\ x + c <= Len(s) /\ c = R.count
  BY <1>a, <1>b DEF FileRun
<1>2. Len(R.durations) = c /\ DurationsTo(z, s, x, c)
  BY <1>a, <1>b, TotalsOf
<1>3. DOMAIN d = DOMAIN R.durations /\ \A k \in DOMAIN R.durations : d[k] = z[k]
  BY <1>a DEF RunOf
<1>4. DOMAIN R.durations = 1..c
  <2>1. R.durations \in Seq(Nat)
    BY <1>a, <1>b DEF FileRun
  <2> QED BY <2>1, <1>2, LenProperties
<1> HIDE DEF z, c, d, x
<1>5. d # <<>>
  <2>1. 1 \in DOMAIN d
    BY <1>1, <1>3, <1>4
  <2> QED BY <2>1
<1>6. n + 1 \in 1..c /\ (n # 0 => n \in 1..c) /\ n + 1 \in Nat /\ (n + 1) - 1 = n /\ x + (n + 1) = x + n + 1
      /\ n \in 0..c /\ n \in 0..c - 1 /\ x + n + 1 \in 1..Len(s)
  <2> DEFINE w == Len(s)
  <2>1. c \in Nat \ {0} /\ x \in Nat /\ x + c <= w /\ w \in Nat /\ n < c /\ n \in Nat
    BY <1>1, <1>a, SampleTypes DEF c
  <2> HIDE DEF w
  <2>2. n + 1 \in 1..c /\ n \in 0..c /\ n + 1 \in Nat /\ (n + 1) - 1 = n
    BY <2>1
  <2>3. n # 0 => n \in 1..c
    BY <2>1
  <2>4. n \in 0..c - 1
    BY <2>1
  <2>5. x + (n + 1) = x + n + 1 /\ x + n + 1 \in 1..w
    BY <2>1
  <2> QED BY <2>2, <2>3, <2>4, <2>5 DEF w
<1>7. z[0] = 0 /\ z[n + 1] = z[n] + s[x + n + 1].duration /\ z[n] \in Nat
  BY <1>2, <1>6 DEF DurationsTo
<1>8. s[x + n + 1].duration \in Nat /\ s[x + n + 1].time \in Nat
  <2>1. x + n + 1 \in 1..Len(s)
    BY <1>6
  <2> QED BY <2>1, <1>a, SampleTypes
<1>9. d[n + 1] = z[n + 1] /\ (IF n = 0 THEN 0 ELSE d[n]) = z[n]
  BY <1>3, <1>4, <1>6, <1>7
<1>10. DurationIn(T, r, n) = s[x + n + 1].duration
  <2>1. DurationIn(T, r, n) = d[n + 1] - (IF n = 0 THEN 0 ELSE d[n])
    BY <1>5 DEF DurationIn, d
  <2>2. DurationIn(T, r, n) = z[n + 1] - z[n]
    BY <2>1, <1>9
  <2> DEFINE p == z[n]  q == s[x + n + 1].duration
  <2>3. z[n + 1] = p + q /\ z[n] = p /\ p \in Nat /\ q \in Nat
    BY <1>7, <1>8
  <2>4. DurationIn(T, r, n) = (p + q) - p
    BY <2>2, <2>3
  <2> HIDE DEF p, q
  <2>5. (p + q) - p = q
    BY <2>3
  <2> QED BY <2>4, <2>5 DEF q
<1>11. ASSUME s[x + n + 1].timed PROVE TimeIn(T, r, n) = s[x + n + 1].time
  <2>1. i = 1
    BY <1>6, <1>11, <1>a, <1>b DEF RunTables, c, x
  <2>2. s[x + 1].time = F.time /\ InTime(s, x + 1, x + c)
    BY <2>1, <1>a, <1>b DEF RunTables, c, x
  <2>3. s[x + n + 1].time = s[x + 1].time + z[n]
    <3>1. Timed(s, x, c)
      BY <1>1, <2>2 DEF Timed
    <3>2. TimesTo(z, s, x, c)
      BY <1>1, <1>2, <3>1, <1>a, Times
    <3> QED BY <3>2, <1>6 DEF TimesTo
  <2>4. TimeIn(T, r, n) = F.time + (IF n = 0 THEN 0 ELSE d[n])
    BY <1>5, <1>a DEF TimeIn, d
  <2> QED BY <2>2, <2>3, <2>4, <1>9, <1>7
<1> QED BY <1>10, <1>11 DEF x, NthOf, TimesRight

(* Durations that are all the same. *)
LEMMA DefaultTimes ==
  ASSUME NEW F, NEW s, NEW i, NEW size, NEW duration, NEW T, NEW r, NEW n,
         TakenFrom(T, r, F, s, i, size, duration, n), F.runs[i].durations = <<>>
  PROVE  TimesRight(T, r, n, NthOf(F, s, i, n))
<1> DEFINE R == F.runs[i]
<1>a. /\ s \in Seq(FileSamples) /\ FileRun(F, s, i) /\ RunTables(F, s, i, size, duration)
      /\ T.start_time = F.time /\ F.time \in Nat /\ duration \in Nat
      /\ T.default_sample_duration = duration
      /\ r.sample_duration \in Seq(Nat) /\ RunOf(r, R, file, F, i) /\ n \in Nat /\ n < R.count
  BY DEF TakenFrom
<1>b. R = F.runs[i] /\ R.durations = <<>>
  OBVIOUS
<1> HIDE DEF R
<1>c. r.sample_duration = <<>>
  <2> DEFINE d == r.sample_duration  w == Len(d)
  <2>1. d \in Seq(Nat) /\ DOMAIN d = {}
    BY <1>a, <1>b DEF RunOf
  <2> HIDE DEF d
  <2>2. w \in Nat /\ 1..w = {}
    BY <2>1, LenProperties
  <2> HIDE DEF w
  <2>3. w = 0
    BY <2>2
  <2> QED BY <2>1, <2>3, EmptySeq DEF d, w
<1> DEFINE x == F.before[i]  c == R.count  z == Alike(duration, c)
<1>1. c \in Nat \ {0} /\ x \in Nat /\ x + c <= Len(s) /\ c = R.count
  BY <1>a, <1>b DEF FileRun
<1>2. DurationsTo(z, s, x, c)
  BY <1>a, <1>b, TotalsOf
<1>3. \A k \in 0..c : z[k] = k * duration
  BY <1>1, <1>a, AlikeGrow
<1> HIDE DEF z, c, x
<1>4. n \in 0..c /\ n + 1 \in 1..c /\ n \in 0..c - 1 /\ x + (n + 1) = x + n + 1
  <2> DEFINE w == Len(s)
  <2>1. c \in Nat \ {0} /\ x \in Nat /\ x + c <= w /\ w \in Nat /\ n < c /\ n \in Nat
    BY <1>1, <1>a, SampleTypes DEF c
  <2> HIDE DEF w
  <2>2. n + 1 \in 1..c /\ n \in 0..c /\ n + 1 \in Nat /\ (n + 1) - 1 = n
    BY <2>1
  <2>3. n # 0 => n \in 1..c
    BY <2>1
  <2>4. n \in 0..c - 1
    BY <2>1
  <2>5. x + (n + 1) = x + n + 1 /\ x + n + 1 \in 1..w
    BY <2>1
  <2> QED BY <2>2, <2>3, <2>4, <2>5 DEF w
<1>5. DurationIn(T, r, n) = s[x + n + 1].duration
  <2>1. s[x + (n + 1)].duration = duration
    BY <1>4, <1>a, <1>b DEF RunTables, c, x
  <2> QED BY <1>4, <2>1, <1>a, <1>c DEF DurationIn
<1>6. ASSUME s[x + n + 1].timed
      PROVE  LET w == s[x + n + 1].time
             IN  TimeIn(T, r, n) % Word = w % Word /\ (w < Word => TimeIn(T, r, n) = w)
  <2> DEFINE w == s[x + n + 1].time  time == TimeIn(T, r, n)  y == n * duration  a == F.time
  <2>1. i = 1
    BY <1>4, <1>6, <1>a, <1>b DEF RunTables, c, x
  <2>2. s[x + 1].time = F.time /\ InTime(s, x + 1, x + c)
    BY <2>1, <1>a, <1>b DEF RunTables, c, x
  <2>3. w = s[x + 1].time + z[n]
    <3>1. Timed(s, x, c)
      BY <1>1, <2>2 DEF Timed
    <3>2. TimesTo(z, s, x, c)
      BY <1>1, <1>2, <3>1, <1>a, Times
    <3> QED BY <3>2, <1>4 DEF TimesTo
  <2>4. w = a + y
    BY <2>2, <2>3, <1>3, <1>4
  <2>5. time = a + (IF n = 0 THEN 0 ELSE (duration * n) % Word)
    BY <1>a, <1>c DEF TimeIn
  <2>6. y \in Nat /\ duration * n = y /\ (n = 0 => y = 0) /\ a \in Nat
    BY <1>a, OneMore
  <2>7. Word \in Nat \ {0}
    BY WordAssumption
  <2> HIDE DEF w, time, y, a
  <2>8. time = a + (y % Word)
    <3>1. CASE n # 0
      BY <3>1, <2>5, <2>6
    <3>2. CASE n = 0
      <4>1. y = 0 /\ time = a + 0
        BY <3>2, <2>5, <2>6
      <4>2. y < Word
        BY <4>1, <2>7
      <4>3. y % Word = y
        BY <2>6, <2>7, <4>2, SmallRemainder
      <4> QED BY <4>1, <4>3
    <3> QED BY <3>1, <3>2
  <2>9. time % Word = w % Word /\ (w < Word => time = w)
    BY <2>4, <2>6, <2>8, WordTime
  <2> QED BY <2>9 DEF w, time
<1> QED BY <1>5, <1>6 DEF x, NthOf, TimesRight

LEMMA SizeIsNumber ==
  ASSUME NEW T \in Trafs, NEW r \in Runs, NEW sizes \in Seq(Nat), NEW c \in Nat,
         sizes = <<>> \/ Len(sizes) = c, r.sample_size \in {<<>>, sizes}, NEW n \in Nat, n < c
  PROVE  SizeIn(T, r, n) \in Nat
<1>1. CASE r.sample_size = <<>>
  <2>1. T.default_sample_size \in Nat
    BY DEF Trafs
  <2> QED BY <2>1, <1>1 DEF SizeIn
<1>2. CASE r.sample_size # <<>>
  <2>1. r.sample_size = sizes /\ Len(sizes) = c
    BY <1>2
  <2>2. n + 1 \in 1..Len(sizes)
    BY <2>1
  <2>3. sizes[n + 1] \in Nat
    BY <2>2, ElementOfSeq
  <2> QED BY <2>1, <2>3, <1>2 DEF SizeIn
<1> QED BY <1>1, <1>2

LEMMA SizeIsRight ==
  ASSUME NEW F, NEW s, NEW i, FileRun(F, s, i), NEW size, NEW duration,
         RunTables(F, s, i, size, duration), NEW T, T.default_sample_size = size,
         NEW r, r.sample_size = F.runs[i].sizes, NEW n \in Nat, n < F.runs[i].count
  PROVE  SizeIn(T, r, n) = NthOf(F, s, i, n).size
<1> DEFINE x == F.before[i]  c == F.runs[i].count  t == F.runs[i].sizes
<1>1. c \in Nat \ {0} /\ x \in Nat
  BY DEF FileRun
<1>2. \A k \in 1..c : s[x + k].size = IF t # <<>> THEN t[k] ELSE size
  BY DEF RunTables
<1>3. n < c
  OBVIOUS
<1> HIDE DEF c, x, t
<1>4. n + 1 \in 1..c /\ x + (n + 1) = x + n + 1
  BY <1>1, <1>3
<1>5. s[x + n + 1].size = IF t # <<>> THEN t[n + 1] ELSE size
  BY <1>2, <1>4
<1> QED BY <1>5 DEF SizeIn, x, t, NthOf

LEMMA RunSample ==
  ASSUME NEW F, NEW s, FileTraf(F, s), NEW i, FileRun(F, s, i), RunLaid(file, F, i),
         NEW T, T.start_time = F.time,
         T.default_sample_size = Default(file.tracks[F.track], F, "default_sample_size"),
         T.default_sample_duration = Default(file.tracks[F.track], F, "default_sample_duration"),
         NEW r \in Runs, RunOf(r, F.runs[i], file, F, i), NEW n \in Nat, n < F.runs[i].count
  PROVE  SampleIs(NthOf(F, s, i, n), NthOf(F, s, i, n).at,
                  SizeIn(T, r, n), TimeIn(T, r, n), DurationIn(T, r, n))
<1> DEFINE R == F.runs[i]  size == T.default_sample_size  duration == T.default_sample_duration
           w == NthOf(F, s, i, n)
<1>1. RunTables(F, s, i, size, duration)
  BY TablesOfRun
<1>2. duration \in Nat
  BY DefaultsAre
<1>3. s \in Seq(FileSamples) /\ F.time \in Nat
  BY DEF FileTraf
<1>4. r.sample_duration \in Seq(Nat) /\ r.sample_size = R.sizes /\ DOMAIN r.sample_duration = DOMAIN R.durations
  BY DEF Runs, RunOf
<1>5. TakenFrom(T, r, F, s, i, size, duration, n)
  BY <1>1, <1>2, <1>3, <1>4 DEF TakenFrom
<1>6. r.sample_size = R.sizes /\ n < R.count /\ R = F.runs[i] /\ T.default_sample_size = size
  BY <1>4
<1> HIDE DEF R, size, duration
<1>7. SizeIn(T, r, n) = w.size
  BY <1>1, <1>6, SizeIsRight
<1>8. TimesRight(T, r, n, w)
  BY <1>5, GivenTimes, DefaultTimes
<1> QED BY <1>7, <1>8 DEF SampleIs, TimesRight

-----------------------------------------------------------------------------
(* A new fragment *)

LEMMA RunMade ==
  ASSUME NEW R \in FileRuns
  PROVE  /\ Run(R).sample_count = R.count /\ Run(R).sample_size = R.sizes
         /\ Run(R).current_sample = 0 /\ Run(R).data_offset = IF R.offset = None THEN 0 ELSE R.offset
         /\ DOMAIN Run(R).sample_duration = DOMAIN R.durations
         /\ \A n \in DOMAIN R.durations : Run(R).sample_duration[n] = SumTo(R.durations)[n]
BY DEF Run

(* read_traf() has read F, and next_run() has moved its offsets. *)
Made(T, F) ==
  /\ T.track = F.track /\ T.run_index = 1 /\ T.start_time = F.time
  /\ T.explicit_base_offset <=> F.base = "explicit"
  /\ T.default_base_is_moof <=> F.base = "moof"
  /\ F.base = "explicit" => T.offset = F.offset
  /\ T.default_sample_size = Default(file.tracks[F.track], F, "default_sample_size")
  /\ T.default_sample_duration = Default(file.tracks[F.track], F, "default_sample_duration")
  /\ Len(T.runs) = Len(F.runs) /\ \A i \in DOMAIN F.runs : T.runs[i] = Run(F.runs[i])

LEMMA TrafMade ==
  ASSUME NEW F, NEW s, FileTraf(F, s)
  PROVE  Made(Traf(F), F)
<1> DEFINE default(name) == IF F[name] = None THEN file.tracks[F.track][name] ELSE F[name]
<1>1. \A name : default(name) = Default(file.tracks[F.track], F, name)
  BY DEF Default
<1>2. /\ Traf(F).track = F.track /\ Traf(F).run_index = 1 /\ Traf(F).start_time = F.time
      /\ Traf(F).explicit_base_offset = (F.base = "explicit")
      /\ Traf(F).default_base_is_moof = (F.base = "moof")
      /\ Traf(F).offset = IF F.base = "explicit" THEN F.offset ELSE 0
      /\ Traf(F).default_sample_size = default("default_sample_size")
      /\ Traf(F).default_sample_duration = default("default_sample_duration")
      /\ Traf(F).runs = [k \in DOMAIN F.runs |-> Run(F.runs[k])]
  BY DEF Traf
<1> HIDE DEF default
<1>3. Len(Traf(F).runs) = Len(F.runs) /\ \A i \in DOMAIN F.runs : Traf(F).runs[i] = Run(F.runs[i])
  <2>1. DOMAIN F.runs = 1..Len(F.runs) /\ Len(F.runs) \in Nat /\ F.runs \in Seq(FileRuns)
    BY DEF FileTraf
  <2> DEFINE n == Len(F.runs)  g == Traf(F).runs
  <2>2. \A k \in 1..n : F.runs[k] \in FileRuns
    BY <2>1, ElementOfSeq
  <2>3. g = [k \in 1..n |-> Run(F.runs[k])]
    BY <1>2, <2>1
  <2>4. n \in Nat
    BY <2>1
  <2> HIDE DEF n, g
  <2>5. g \in [1..n -> Runs]
    BY <2>2, <2>3, RunType
  <2>6. Len(g) = n
    BY <2>4, <2>5, FunctionIsSeq
  <2> QED BY <2>1, <2>3, <2>6 DEF n, g
<1> QED BY <1>1, <1>2, <1>3 DEF Made

OffsetOf(R) == IF R.offset = None THEN 0 ELSE R.offset

(* The data of the first k track fragments ends where the last run of the  *)
(* k-th one does.                                                          *)
EndRight(m, k) ==
  m.trafs[k].runs # <<>> => last_offset[k] = RunEnd(file, m.trafs[k], Len(m.trafs[k].runs))

(* The fragment m has been read. *)
MoofOf(m) == moof = [start |-> m.start, trafs |-> trafs_of(m)]

LEMMA PartLength ==
  ASSUME file \in Files, SamplesTyped(file), NEW m \in file.boxes
  PROVE  Len(trafs_of(m)) = Len(m.trafs)
<1> DEFINE p == trafs_of(m)  q == m.trafs
<1>1. p \in Seq(Trafs) /\ q \in Seq(FileTrafs) /\ DOMAIN p = DOMAIN q
  BY FragmentType, TrafsOfFile DEF trafs_of
<1> HIDE DEF p, q
<1>2. Len(p) \in Nat /\ Len(q) \in Nat /\ 1..Len(p) = 1..Len(q)
  BY <1>1, LenProperties
<1> DEFINE x == Len(p)  y == Len(q)
<1>3. x \in Nat /\ y \in Nat /\ 1..x = 1..y
  BY <1>2
<1> HIDE DEF x, y
<1>4. x = y
  <2>1. x # 0 => x \in 1..y
    BY <1>3
  <2>2. y # 0 => y \in 1..x
    BY <1>3
  <2> QED BY <1>3, <2>1, <2>2
<1> QED BY <1>4 DEF x, y, p, q

LEMMA MoofMade ==
  ASSUME file \in Files, SamplesTyped(file), NEW m \in file.boxes, MoofOf(m)
  PROVE  /\ moof.start = m.start /\ moof.start \in Nat /\ moof.trafs = trafs_of(m)
         /\ moof.trafs \in Seq(Trafs) /\ Len(moof.trafs) = Len(m.trafs)
         /\ DOMAIN moof.trafs = DOMAIN m.trafs
         /\ \A k \in DOMAIN m.trafs : Made(moof.trafs[k], m.trafs[k])
<1>1. moof.start = m.start /\ moof.trafs = trafs_of(m)
  BY DEF MoofOf
<1>2. m.start \in Nat /\ trafs_of(m) \in Seq(Trafs)
  BY FileFacts, FragmentType
<1>3. DOMAIN trafs_of(m) = DOMAIN m.trafs /\ \A k \in DOMAIN m.trafs : trafs_of(m)[k] = Traf(m.trafs[k])
  BY DEF trafs_of
<1>4. \A k \in DOMAIN m.trafs : Made(Traf(m.trafs[k]), m.trafs[k])
  BY TrafsOfFile, TrafMade
<1>5. Len(trafs_of(m)) = Len(m.trafs)
  BY PartLength
<1> QED BY <1>1, <1>2, <1>3, <1>4, <1>5

(* What the fragment of the file says about its k-th part. *)
LEMMA TrafPlace ==
  ASSUME NEW m, NEW b, DataOf(file, m, b), NEW k \in DOMAIN m.trafs
  PROVE  /\ m.trafs[k].base = "none" /\ k > 1 => m.trafs[k - 1].runs # <<>>
         /\ \A i \in 1..Len(m.trafs[k].runs) :
              RunAt(file, m.trafs[k], i) = BaseLaid(file, m, k) + OffsetOf(m.trafs[k].runs[i])
<1>1. TrafLaid(file, m, k)
  BY DEF DataOf, FragmentLaid
<1> QED BY <1>1 DEF TrafLaid, OffsetOf

LEMMA BaseRight ==
  ASSUME file \in Files, SamplesTyped(file), NEW m, NEW b, DataOf(file, m, b), MoofOf(m),
         NEW k \in DOMAIN m.trafs, NEW e, k = 1 => e = m.start,
         k > 1 /\ m.trafs[k - 1].runs # <<>> => e = RunEnd(file, m.trafs[k - 1], Len(m.trafs[k - 1].runs))
  PROVE  Base(moof.trafs[k], e) = BaseLaid(file, m, k)
<1> DEFINE F == m.trafs[k]  T == moof.trafs[k]
<1>1. m \in file.boxes
  BY DEF DataOf
<1>2. Made(T, F) /\ moof.start = m.start /\ k \in Nat \ {0}
  <2>1. DOMAIN m.trafs = 1..Len(m.trafs) /\ Len(m.trafs) \in Nat
    BY <1>1, TrafsOfFile
  <2> DEFINE n == Len(m.trafs)
  <2>2. k \in 1..n /\ n \in Nat
    BY <2>1
  <2> HIDE DEF n
  <2>3. k \in Nat \ {0}
    BY <2>2
  <2> QED BY <2>3, <1>1, MoofMade
<1>3. F.base = "none" /\ k > 1 => m.trafs[k - 1].runs # <<>>
  BY TrafPlace
<1>4. F \in FileTrafs
  BY <1>1, TrafsOfFile DEF FileTraf
<1>5. F.base \in {"explicit", "moof", "none"}
  BY <1>4 DEF FileTrafs
<1>6. BaseLaid(file, m, k) = IF F.base = "explicit" THEN F.offset
                             ELSE IF F.base = "moof" \/ k = 1 THEN m.start
                             ELSE RunEnd(file, m.trafs[k - 1], Len(m.trafs[k - 1].runs))
  BY DEF BaseLaid
<1>7. Base(T, e) = IF F.base = "explicit" THEN F.offset ELSE IF F.base = "moof" THEN m.start ELSE e
  BY <1>2, <1>5 DEF Base, Made
<1>8. k = 1 \/ k > 1
  BY <1>2
<1> QED BY <1>3, <1>5, <1>6, <1>7, <1>8

LEMMA EndIsRight ==
  ASSUME file \in Files, SamplesTyped(file), NEW m, NEW b, DataOf(file, m, b), MoofOf(m),
         NEW k \in DOMAIN m.trafs, NEW e, e \in Int, Base(moof.trafs[k], e) = BaseLaid(file, m, k),
         last_offset[k] = EndAfter(k, e)
  PROVE  EndRight(m, k)
<1> SUFFICES ASSUME m.trafs[k].runs # <<>>
             PROVE  last_offset[k] = RunEnd(file, m.trafs[k], Len(m.trafs[k].runs))
  BY DEF EndRight
<1> DEFINE F == m.trafs[k]  T == moof.trafs[k]  n == Len(F.runs)  s == file.samples[F.track]
<1>1. m \in file.boxes
  BY DEF DataOf
<1>2. Made(T, F) /\ FileTraf(F, s)
  BY <1>1, MoofMade, TrafsOfFile
<1>3. n \in 1..n /\ n \in DOMAIN F.runs /\ F.runs # <<>>
  <2>1. F.runs \in Seq(FileRuns) /\ n \in Nat /\ DOMAIN F.runs = 1..n
    BY <1>2 DEF FileTraf
  <2> DEFINE g == F.runs
  <2>2. g \in Seq(FileRuns) /\ g # <<>>
    BY <2>1
  <2> HIDE DEF g
  <2>3. Len(g) # 0
    BY <2>2, EmptySeq
  <2>4. n # 0
    BY <2>3 DEF g
  <2> HIDE DEF n
  <2>5. n \in 1..n
    BY <2>1, <2>4
  <2> QED BY <2>1, <2>5
<1>4. RunLaid(file, F, n) /\ FileRun(F, s, n) /\ RunAt(file, F, n) \in Nat
  BY <1>1, <1>3, FragmentTraf
<1> DEFINE r == Run(F.runs[n])  o == OffsetOf(F.runs[n])  a == BaseLaid(file, m, k)  t == Total(T, r)
           x == RunAt(file, F, n)  y == RunEnd(file, F, n)
<1>5. /\ Len(T.runs) = n /\ T.runs[n] = r
      /\ T.default_sample_size = Default(file.tracks[F.track], F, "default_sample_size")
  BY <1>2, <1>3 DEF Made
<1>6. r.data_offset = o
  BY DEF Run, OffsetOf
<1>7. x = a + o
  BY <1>3, TrafPlace
<1>8. x + t = y /\ t \in Nat
  BY <1>2, <1>4, <1>5, RunTotal
<1>9. T.runs # <<>>
  <2>1. T.runs = <<>> => Len(T.runs) = 0
    OBVIOUS
  <2>2. n \in Nat /\ n # 0
    <3> HIDE DEF n
    <3> QED BY <1>3
  <2> QED BY <2>1, <2>2, <1>5
<1>10. last_offset[k] = Base(T, e) + r.data_offset + t
  <2>1. EndAfter(k, e) = IF T.runs = <<>> THEN e
          ELSE Base(T, e) + T.runs[Len(T.runs)].data_offset + Total(T, T.runs[Len(T.runs)])
    BY DEF EndAfter
  <2> QED BY <2>1, <1>5, <1>9
<1>11. last_offset[k] = (a + o) + t
  BY <1>10, <1>6
<1> HIDE DEF r, o, a, t, x, y
<1>12. last_offset[k] = y
  BY <1>7, <1>8, <1>11
<1> QED BY <1>12 DEF y

(* next_run() knows where the offsets of the runs start. *)
LEMMA BasesAreRight ==
  ASSUME file \in Files, SamplesTyped(file), NEW m, NEW b, DataOf(file, m, b), MoofOf(m)
  PROVE  \A k \in DOMAIN m.trafs : /\ Base(moof.trafs[k], last_offset[k - 1]) = BaseLaid(file, m, k)
                                   /\ BaseLaid(file, m, k) \in Int
<1> DEFINE n == Len(m.trafs)  h == [k \in 0..n |-> k = 0 \/ EndRight(m, k)]  V == {TRUE}
<1>1. m \in file.boxes
  BY DEF DataOf
<1>2. n \in Nat /\ DOMAIN m.trafs = 1..n
  BY <1>1, TrafsOfFile
<1>3. /\ \A k \in 0..n : last_offset[k] \in Int
      /\ last_offset[0] = m.start
      /\ \A k \in 1..n : last_offset[k] = EndAfter(k, last_offset[k - 1])
  <2>1. moof.trafs \in Seq(Trafs) /\ moof.start \in Nat /\ moof.start = m.start /\ Len(moof.trafs) = n
    BY <1>1, MoofMade
  <2> HIDE DEF n
  <2> QED BY <2>1, EndsAreNumbers
<1> HIDE DEF n
<1>4. ASSUME NEW k \in 1..n, h[k - 1] \in V
      PROVE  Base(moof.trafs[k], last_offset[k - 1]) = BaseLaid(file, m, k) /\ h[k] \in V
  <2>1. k \in DOMAIN m.trafs /\ k - 1 \in 0..n /\ k \in 0..n /\ k \in Nat /\ k # 0
    BY <1>2
  <2> DEFINE e == last_offset[k - 1]
  <2>2. e \in Int /\ last_offset[k] = EndAfter(k, e)
    BY <2>1, <1>3
  <2>3. k = 1 => e = m.start
    BY <1>3
  <2>4. k > 1 /\ m.trafs[k - 1].runs # <<>> => e = RunEnd(file, m.trafs[k - 1], Len(m.trafs[k - 1].runs))
    <3>1. k > 1 => k - 1 # 0
      BY <2>1
    <3>2. k > 1 => EndRight(m, k - 1)
      BY <3>1, <2>1, <1>4
    <3> QED BY <3>2 DEF EndRight
  <2> HIDE DEF e
  <2>5. Base(moof.trafs[k], e) = BaseLaid(file, m, k)
    BY <2>1, <2>3, <2>4, BaseRight
  <2>6. EndRight(m, k)
    BY <2>1, <2>2, <2>5, EndIsRight
  <2> QED BY <2>1, <2>5, <2>6 DEF e
<1>5. h[0] \in V
  <2> DEFINE z == 0
  <2>1. z \in 0..n /\ z = 0
    BY <1>2
  <2> HIDE DEF z
  <2>2. h[z] \in V
    BY <2>1
  <2> QED BY <2>1, <2>2
<1> HIDE DEF h
<1>6. \A k \in 0..n : h[k] \in V
  <2>1. \A k \in 1..n : h[k - 1] \in V => h[k] \in V
    BY <1>4
  <2> HIDE DEF V
  <2> QED BY <1>2, <1>5, <2>1, StaysIn
<1>7. \A k \in 1..n : Base(moof.trafs[k], last_offset[k - 1]) = BaseLaid(file, m, k)
  <2> SUFFICES ASSUME NEW k \in 1..n PROVE Base(moof.trafs[k], last_offset[k - 1]) = BaseLaid(file, m, k)
    OBVIOUS
  <2>1. k - 1 \in 0..n
    BY <1>2
  <2> QED BY <2>1, <1>4, <1>6
<1>8. ASSUME NEW k \in 1..n PROVE Base(moof.trafs[k], last_offset[k - 1]) \in Int
  <2>1. last_offset[k - 1] \in Int
    <3>1. k - 1 \in 0..n
      BY <1>2
    <3> QED BY <3>1, <1>3
  <2>2. moof.trafs \in Seq(Trafs) /\ moof.start \in Nat /\ k \in 1..Len(moof.trafs)
    BY <1>1, MoofMade DEF n
  <2>3. moof.trafs[k].offset \in Int
    BY <2>2, TrafFacts
  <2> QED BY <2>1, <2>2, <2>3 DEF Base
<1> QED BY <1>2, <1>7, <1>8

(* A run of a fragment, of which nothing has been read.                    *)
FreshRun(r, F, i) ==
  /\ RunOf(r, F.runs[i], file, F, i) /\ r.sample_count = F.runs[i].count /\ r.current_sample = 0
  /\ r.data_offset + r.total_sample_size = RunEnd(file, F, i)
Fresh(T, F) ==
  /\ T.track = F.track /\ T.run_index = 1 /\ T.start_time = F.time
  /\ T.default_sample_size = Default(file.tracks[F.track], F, "default_sample_size")
  /\ T.default_sample_duration = Default(file.tracks[F.track], F, "default_sample_duration")
  /\ Len(T.runs) = Len(F.runs) /\ \A i \in DOMAIN F.runs : FreshRun(T.runs[i], F, i)

LEMMA RunPlaced ==
  ASSUME NEW F, NEW s, FileTraf(F, s), NEW i, FileRun(F, s, i), RunLaid(file, F, i), NEW T,
         T.default_sample_size = Default(file.tracks[F.track], F, "default_sample_size"),
         NEW r \in Runs, r = Run(F.runs[i]), NEW a \in Int, RunAt(file, F, i) \in Nat,
         RunAt(file, F, i) = a + OffsetOf(F.runs[i])
  PROVE  FreshRun(PlacedRun(T, a, r), F, i)
<1> DEFINE R == F.runs[i]  p == PlacedRun(T, a, r)  x == RunAt(file, F, i)
<1>1. R \in FileRuns
  BY DEF FileRun
<1>2. /\ r.sample_count = R.count /\ r.sample_size = R.sizes /\ r.current_sample = 0
      /\ r.data_offset = OffsetOf(R) /\ DOMAIN r.sample_duration = DOMAIN R.durations
      /\ \A n \in DOMAIN R.durations : r.sample_duration[n] = SumTo(R.durations)[n]
  BY <1>1, RunMade DEF OffsetOf
<1>3. x + Total(T, r) = RunEnd(file, F, i) /\ Total(T, r) \in Nat
  BY RunTotal
<1>4. /\ p.data_offset = r.data_offset + a /\ p.total_sample_size = Total(T, r)
      /\ p.sample_count = r.sample_count /\ p.sample_size = r.sample_size
      /\ p.current_sample = r.current_sample /\ p.sample_duration = r.sample_duration
  BY DEF PlacedRun, Runs
<1> HIDE DEF p, x
<1>5. p.data_offset = x
  <2> DEFINE o == OffsetOf(R)
  <2>1. o \in Int
    BY <1>1 DEF OffsetOf, FileRuns
  <2>2. p.data_offset = o + a /\ x = a + o
    BY <1>2, <1>4 DEF x
  <2> HIDE DEF o
  <2> QED BY <2>1, <2>2
<1>6. RunOf(p, R, file, F, i)
  BY <1>2, <1>4, <1>5 DEF RunOf, x
<1> QED BY <1>2, <1>3, <1>4, <1>5, <1>6 DEF FreshRun, p

LEMMA PlacedAre ==
  ASSUME file \in Files, SamplesTyped(file), NEW m, NEW b, DataOf(file, m, b), MoofOf(m)
  PROVE  /\ Placed \in Seq(Trafs) /\ Len(Placed) = Len(m.trafs) /\ DOMAIN Placed = DOMAIN m.trafs
         /\ \A k \in DOMAIN m.trafs : Fresh(Placed[k], m.trafs[k])
<1>1. m \in file.boxes
  BY DEF DataOf
<1>2. /\ moof.trafs \in Seq(Trafs) /\ moof.start \in Nat /\ Len(moof.trafs) = Len(m.trafs)
      /\ DOMAIN moof.trafs = DOMAIN m.trafs
  BY <1>1, MoofMade
<1>3. Placed \in Seq(Trafs)
  BY <1>2, PlacedType
<1>4. DOMAIN Placed = DOMAIN m.trafs
  BY <1>2 DEF Placed
<1>5. Len(Placed) = Len(m.trafs)
  <2> DEFINE p == Placed  q == moof.trafs
  <2>1. p \in Seq(Trafs) /\ q \in Seq(Trafs) /\ DOMAIN p = DOMAIN q /\ q = moof.trafs /\ p = Placed
    BY <1>2, <1>3, <1>4
  <2> HIDE DEF p, q
  <2>2. Len(p) \in Nat /\ Len(q) \in Nat /\ 1..Len(p) = 1..Len(q)
    BY <2>1, LenProperties
  <2> DEFINE x == Len(p)  y == Len(q)
  <2>3. x \in Nat /\ y \in Nat /\ 1..x = 1..y
    BY <2>2
  <2> HIDE DEF x, y
  <2>4. x = y
    <3>1. x # 0 => x \in 1..y
      BY <2>3
    <3>2. y # 0 => y \in 1..x
      BY <2>3
    <3> QED BY <2>3, <3>1, <3>2
  <2> QED BY <2>4, <2>1, <1>2 DEF x, y
<1>6. ASSUME NEW k \in DOMAIN m.trafs PROVE Fresh(Placed[k], m.trafs[k])
  <2> DEFINE F == m.trafs[k]  T == moof.trafs[k]  a == BaseLaid(file, m, k)  P == PlacedTraf(T, a)
             s == file.samples[F.track]
  <2>1. Placed[k] = P
    <3>1. Placed[k] = PlacedTraf(T, Base(T, last_offset[k - 1]))
      BY <1>2 DEF Placed
    <3>2. Base(T, last_offset[k - 1]) = a
      BY BasesAreRight
    <3> QED BY <3>1, <3>2
  <2>2. a \in Int
    BY BasesAreRight
  <2>3. T \in Trafs /\ DOMAIN T.runs = 1..Len(T.runs) /\ \A i \in 1..Len(T.runs) : T.runs[i] \in Runs
    <3>1. k \in 1..Len(moof.trafs)
      BY <1>2, TrafFacts
    <3> QED BY <3>1, <1>2, TrafFacts
  <2>4. Made(T, F) /\ FileTraf(F, s)
    BY <1>1, MoofMade, TrafsOfFile
  <2>5. /\ P.track = T.track /\ P.run_index = T.run_index /\ P.start_time = T.start_time
        /\ P.default_sample_size = T.default_sample_size
        /\ P.default_sample_duration = T.default_sample_duration
        /\ P.runs = [j \in DOMAIN T.runs |-> PlacedRun(T, a, T.runs[j])]
    BY <2>3 DEF PlacedTraf, Trafs
  <2>6. Len(T.runs) = Len(F.runs) /\ \A i \in DOMAIN F.runs : T.runs[i] = Run(F.runs[i])
    BY <2>4 DEF Made
  <2>7. Len(F.runs) \in Nat /\ DOMAIN F.runs = 1..Len(F.runs)
    BY <2>4 DEF FileTraf
  <2>8. DOMAIN T.runs = DOMAIN F.runs
    BY <2>3, <2>6, <2>7
  <2>9. ASSUME NEW i \in DOMAIN F.runs PROVE FreshRun(P.runs[i], F, i)
    <3>1. P.runs[i] = PlacedRun(T, a, T.runs[i]) /\ T.runs[i] = Run(F.runs[i]) /\ T.runs[i] \in Runs
      BY <2>3, <2>5, <2>6, <2>8
    <3>2. FileRun(F, s, i) /\ RunLaid(file, F, i) /\ RunAt(file, F, i) \in Nat
      BY FragmentTraf
    <3>3. T.default_sample_size = Default(file.tracks[F.track], F, "default_sample_size")
      BY <2>4 DEF Made
    <3>4. RunAt(file, F, i) = a + OffsetOf(F.runs[i])
      BY <2>7, TrafPlace
    <3> HIDE DEF a, T, P
    <3>5. FreshRun(PlacedRun(T, a, T.runs[i]), F, i)
      BY <2>2, <2>4, <3>1, <3>2, <3>3, <3>4, RunPlaced
    <3> QED BY <3>1, <3>5
  <2>10. Len(P.runs) = Len(F.runs)
    <3> DEFINE n == Len(F.runs)  g == P.runs
    <3>1. n \in Nat /\ g = [j \in 1..n |-> PlacedRun(T, a, T.runs[j])]
      BY <2>5, <2>7, <2>8
    <3>2. \A j \in 1..n : PlacedRun(T, a, T.runs[j]) \in Runs
      BY <2>2, <2>3, <2>6, RunMoved
    <3> HIDE DEF n, g, P, T, a, F
    <3>3. g \in [1..n -> Runs]
      BY <3>1, <3>2
    <3>4. Len(g) = n
      BY <3>1, <3>3, FunctionIsSeq
    <3> QED BY <3>4 DEF n, g
  <2> HIDE DEF P
  <2>11. Fresh(P, F)
    BY <2>4, <2>5, <2>9, <2>10 DEF Fresh, Made
  <2> QED BY <2>1, <2>11
<1> QED BY <1>3, <1>4, <1>5, <1>6

(* The runs of a new fragment. *)
LEMMA PlacedIs ==
  ASSUME file \in Files, SamplesTyped(file), BoxesLaid(file), NEW m, NEW b, DataOf(file, m, b), Loaded(m), InBox(b)
  PROVE  /\ Placed \in Seq(Trafs) /\ RunsIn(Placed, m, b, 0) /\ RunsBehind(Placed, mdat_start, 0)
         /\ \A k \in DOMAIN Placed : \A j \in DOMAIN Placed[k].runs : InData(Placed[k].runs[j])
<1>1. m \in file.boxes /\ b \in file.boxes /\ b.start \in Nat
      /\ b.type = "mdat" /\ MoofOf(m) /\ \A t \in Tracks : delivered[t] = m.before[t]
  BY FileFacts DEF DataOf, Loaded, MoofOf
<1>2. /\ Placed \in Seq(Trafs) /\ Len(Placed) = Len(m.trafs) /\ DOMAIN Placed = DOMAIN m.trafs
      /\ \A k \in DOMAIN m.trafs : Fresh(Placed[k], m.trafs[k])
  BY <1>1, PlacedAre
<1>3. ASSUME NEW k \in DOMAIN m.trafs
      PROVE  /\ FileTraf(m.trafs[k], file.samples[m.trafs[k].track])
             /\ DOMAIN Placed[k].runs = DOMAIN m.trafs[k].runs
             /\ Len(Placed[k].runs) = Len(m.trafs[k].runs)
             /\ \A i \in DOMAIN m.trafs[k].runs : FreshRun(Placed[k].runs[i], m.trafs[k], i)
  <2>1. FileTraf(m.trafs[k], file.samples[m.trafs[k].track]) /\ Fresh(Placed[k], m.trafs[k])
    BY <1>1, <1>2, TrafsOfFile
  <2>2. k \in 1..Len(Placed) /\ DOMAIN Placed[k].runs = 1..Len(Placed[k].runs)
    BY <1>2, TrafFacts
  <2> QED BY <2>1, <2>2 DEF Fresh, FileTraf
<1>4. FragmentOf(Placed, file, m, delivered)
  <2>1. ASSUME NEW k \in DOMAIN Placed PROVE TrafOf(Placed[k], file, m.trafs[k])
    <3>1. k \in DOMAIN m.trafs /\ Fresh(Placed[k], m.trafs[k])
      BY <1>2
    <3> QED BY <3>1, <1>3 DEF Fresh, TrafOf, FreshRun
  <2> QED BY <2>1, <1>1, <1>2 DEF FragmentOf, Tracks
<1>5. ASSUME NEW k \in DOMAIN Placed
      PROVE  /\ RunsOf(Placed[k], m.trafs[k]) /\ Read(Placed[k]) = 0
             /\ CountOf(Placed[k], m.trafs[k], delivered[m.trafs[k].track])
  <2> DEFINE P == Placed[k]  F == m.trafs[k]  n == Len(F.runs)
  <2>1. k \in DOMAIN m.trafs /\ Fresh(P, F)
    BY <1>2
  <2>2. /\ FileTraf(F, file.samples[F.track]) /\ DOMAIN P.runs = DOMAIN F.runs
        /\ Len(P.runs) = n /\ \A i \in DOMAIN F.runs : FreshRun(P.runs[i], F, i)
    BY <2>1, <1>3
  <2>3. n \in Nat /\ P.run_index = 1
    BY <2>1, <2>2 DEF FileTraf, Fresh
  <2>4. 1 \in 1..n + 1
    <3> HIDE DEF n
    <3> QED BY <2>3
  <2>5. P.run_index \in 1..Len(P.runs) + 1 /\ Len(P.runs) <= Len(F.runs)
    BY <2>2, <2>3, <2>4
  <2>6. \A i \in DOMAIN P.runs :
          /\ P.runs[i].sample_count = F.runs[i].count /\ P.runs[i].sample_size = F.runs[i].sizes
          /\ P.runs[i].current_sample = 0
    BY <2>2 DEF FreshRun, RunOf
  <2>7. RunsOf(P, F)
    BY <2>1, <2>5, <2>6 DEF RunsOf, Fresh
  <2>8. Read(P) = 0
    BY <2>6 DEF Read, HasRun, Current
  <2>9. delivered[F.track] = F.before[1] /\ F.before[1] \in Nat
    <3>1. F.before[1] = m.before[F.track] /\ Len(F.before) = n + 1 /\ F.before \in Seq(Nat) /\ F.track \in Tracks
      BY <2>1, <2>2, FragmentTraf DEF FileTraf
    <3>2. F.before[1] \in Nat
      <4> DEFINE g == F.before  i == 1
      <4>1. i \in 1..Len(g) /\ g \in Seq(Nat)
        BY <3>1, <2>4
      <4> HIDE DEF g, i
      <4>2. g[i] \in Nat
        BY <4>1, ElementOfSeq
      <4> QED BY <4>2 DEF g, i
    <3> QED BY <3>1, <3>2, <1>1
  <2>10. HasRun(P) => Current(P).sample_count \in Nat
    <3>1. \A i \in DOMAIN F.runs : F.runs[i].count \in Nat
      BY <2>1, FragmentTraf DEF FileRun
    <3> QED BY <3>1, <2>2, <2>6 DEF HasRun, Current
  <2>11. CountOf(P, F, delivered[F.track])
    BY <2>3, <2>8, <2>9, <2>10 DEF CountOf
  <2> QED BY <2>7, <2>8, <2>11
<1>6. CountsOf(Placed, m, delivered, 0)
  <2>1. Len(Placed) <= Len(m.trafs)
    <3>1. Len(m.trafs) \in Nat
      BY <1>1, TrafsOfFile
    <3> QED BY <3>1, <1>2
  <2> QED BY <2>1, <1>5 DEF CountsOf
<1>7. ASSUME NEW k \in DOMAIN Placed, NEW j \in DOMAIN Placed[k].runs
      PROVE  InData(Placed[k].runs[j]) /\ mdat_start <= Placed[k].runs[j].data_offset
  <2> DEFINE F == m.trafs[k]  r == Placed[k].runs[j]
  <2>1. k \in DOMAIN m.trafs /\ j \in DOMAIN F.runs /\ FreshRun(r, F, j)
    BY <1>2, <1>3
  <2>2. /\ b.start + HEADER <= RunAt(file, F, j) /\ RunEnd(file, F, j) <= b.end
        /\ RunAt(file, F, j) \in Nat
    BY <2>1, FragmentTraf
  <2>3. r.data_offset = RunAt(file, F, j) /\ r.data_offset + r.total_sample_size = RunEnd(file, F, j)
    BY <2>1 DEF FreshRun, RunOf
  <2>4. mdat_start = b.start + HEADER /\ mdat_size = b.size /\ mdat_end = b.start + b.size
    BY DEF InBox
  <2>5. b.size # 0 => b.end = b.start + b.size
    BY <1>1 DEF BoxesLaid
  <2> QED BY <2>2, <2>3, <2>4, <2>5 DEF InData, HEADER
<1>8. RunsBehind(Placed, mdat_start, 0)
  BY <1>7 DEF RunsBehind, HasRun, Current
<1> QED BY <1>2, <1>4, <1>6, <1>7, <1>8 DEF RunsIn

-----------------------------------------------------------------------------
(* The steps of the demuxer in a fragmented movie *)

LEMMA FragmentFacts ==
  ASSUME FragmentInv
  PROVE  /\ SamplesInv /\ ReaderIn /\ failure \in {"none", "truncated", "unread"}
         /\ failure = "none" /\ reader.error = "XE_EOF" => AllDelivered
         /\ pc # "idle" => result = "OK"
         /\ pc \in {"fragment", "check", "take"} => reader.error = "OK"
         /\ result = "OK" /\ reader.error = "OK" => FragmentGoesOn
BY DEF FragmentInv, SamplesInv, CallInv, EndInv

(* Steps that end a call with an error. *)
LEMMA FragmentEnds ==
  ASSUME FragmentInv, UNCHANGED <<file, output>>, ReaderIn', EndInv', pc' = "idle", result' # "OK",
         failure' \in {"none", "truncated", "unread"}, failure' # "unread" => failure # "unread"
  PROVE  FragmentInv'
<1>1. OutputInv'
  BY OutputKept DEF FragmentInv
<1>2. CallInv'
  BY DEF CallInv
<1> QED BY <1>1, <1>2 DEF FragmentInv, SamplesInv

(* Steps that go on, with an error of the reader, ... *)
LEMMA FragmentErrs ==
  ASSUME FragmentInv, UNCHANGED <<file, output>>, ReaderIn', result' = "OK", reader'.error # "OK",
         opened' \/ pc' # "idle", pc' \notin {"sample", "hung", "fragment", "check", "take"},
         failure' = "none" /\ reader'.error = "XE_EOF" => AllDelivered',
         failure' \in {"none", "truncated", "unread"}, failure' # "unread" => failure # "unread"
  PROVE  FragmentInv'
<1>1. OutputInv'
  BY OutputKept DEF FragmentInv
<1>2. CallInv'
  BY DEF CallInv
<1>3. EndInv'
  BY GoesOnEnds
<1> QED BY <1>1, <1>2, <1>3 DEF FragmentInv, SamplesInv

(* ... or without. *)
LEMMA FragmentGoes ==
  ASSUME FragmentInv, UNCHANGED <<file, output>>, ReaderIn', result' = "OK", reader'.error = "OK",
         opened' \/ pc' # "idle", pc' \notin {"sample", "hung"}, FragmentGoesOn',
         failure' \in {"none", "truncated", "unread"}, failure' # "unread" => failure # "unread"
  PROVE  FragmentInv'
<1>1. OutputInv'
  BY OutputKept DEF FragmentInv
<1>2. CallInv'
  BY DEF CallInv
<1>3. EndInv'
  BY GoesOnEnds
<1> QED BY <1>1, <1>2, <1>3 DEF FragmentInv, SamplesInv

-----------------------------------------------------------------------------
(* The boxes of a fragmented movie *)

LEMMA SameStart ==
  ASSUME file \in Files, BoxesLaid(file), NEW b \in file.boxes, NEW c \in file.boxes,
         b.start = c.start \/ b.end = c.end
  PROVE  b = c
<1>1. /\ b.start \in Nat /\ b.end \in Nat /\ b.start < b.end
      /\ b # c => b.end <= c.start \/ c.end <= b.start
  BY BoxFacts
<1>2. c.start \in Nat /\ c.end \in Nat /\ c.start < c.end
  BY BoxFacts
<1> QED BY <1>1, <1>2

(* What the boxes say about the numbers of samples in front of them. *)
LEMMA BoxCounts ==
  ASSUME LaidFragments, NEW b \in file.boxes
  PROVE  /\ \A t \in Tracks :
              /\ b.start = 0 => b.before[t] = 0
              /\ b.end = file.end => b.after[t] = Len(file.samples[t])
              /\ b.type # "moof" => b.after[t] = b.before[t]
         /\ \A c \in file.boxes : c.start = b.end => c.before = b.after
         /\ b.type = "moof" => \E d \in file.boxes : DataOf(file, b, d)
         /\ b.type = "mdat" => \E c \in file.boxes : c.type = "moof" /\ c.end = b.start
BY DEF LaidFragments, IsFragmented, Tracks, DataOf

LEMMA MoovIs ==
  ASSUME LaidFragments
  PROVE  \E b \in file.boxes : /\ b.type = "moov"
                               /\ \A c \in file.boxes : /\ c.type = "moov" => c = b
                                                        /\ c.type = "moof" => b.end <= c.start
BY DEF LaidFragments, IsFragmented

LEMMA ReachedBox ==
  ASSUME LaidFragments, NEW o, NEW d, Reached(file, o, d), NEW b \in file.boxes, b.start = o
  PROVE  b.type # "mdat" /\ \A t \in Tracks : d[t] = b.before[t]
<1>1. file \in Files /\ BoxesLaid(file)
  BY FragmentIs
<1>2. CASE o = 0 /\ \A t \in DOMAIN file.tracks : d[t] = 0
  <2>1. \A t \in Tracks : d[t] = b.before[t]
    BY <1>2, BoxCounts DEF Tracks
  <2>2. b.type # "mdat"
    <3> SUFFICES ASSUME b.type = "mdat" PROVE FALSE
      OBVIOUS
    <3>1. PICK c \in file.boxes : c.end = b.start
      BY BoxCounts
    <3>2. c.end \in Nat /\ c.start \in Nat /\ c.start < c.end
      BY <1>1, BoxFacts
    <3> QED BY <3>1, <3>2, <1>2
  <2> QED BY <2>1, <2>2
<1>3. ASSUME NEW c \in file.boxes, c.type # "moof", c.end = o,
             \A t \in DOMAIN file.tracks : d[t] = c.after[t]
      PROVE  b.type # "mdat" /\ \A t \in Tracks : d[t] = b.before[t]
  <2>1. b.before = c.after
    BY <1>3, BoxCounts
  <2>2. b.type # "mdat"
    <3> SUFFICES ASSUME b.type = "mdat" PROVE FALSE
      OBVIOUS
    <3>1. PICK e \in file.boxes : e.type = "moof" /\ e.end = b.start
      BY BoxCounts
    <3>2. e = c
      BY <3>1, <1>1, <1>3, SameStart
    <3> QED BY <3>1, <3>2, <1>3
  <2> QED BY <2>1, <2>2, <1>3 DEF Tracks
<1> QED BY <1>2, <1>3 DEF Reached

LEMMA ReachedNext ==
  ASSUME LaidFragments, NEW d, NEW b \in file.boxes, b.type # "moof",
         \A t \in Tracks : d[t] = b.before[t]
  PROVE  Reached(file, b.end, d)
<1>1. \A t \in Tracks : d[t] = b.after[t]
  BY BoxCounts
<1> QED BY <1>1 DEF Reached, Tracks

LEMMA ReachedEnd ==
  ASSUME LaidFragments, NEW d, Reached(file, file.end, d)
  PROVE  \A t \in Tracks : d[t] = Len(file.samples[t])
<1>1. file.end # 0
  <2>1. PICK b \in file.boxes : b.type = "moov"
    BY MoovIs
  <2>2. b.start \in Nat /\ b.start < b.end /\ b.end \in Nat /\ b.end <= file.end /\ file.end \in Nat
    BY FragmentIs, BoxFacts
  <2> QED BY <2>2
<1>2. PICK c \in file.boxes : c.end = file.end /\ \A t \in DOMAIN file.tracks : d[t] = c.after[t]
  BY <1>1 DEF Reached
<1> QED BY <1>2, BoxCounts DEF Tracks

(* The walk passes the tables at their box. *)
LEMMA MoovAt ==
  ASSUME LaidFragments, NEW b \in file.boxes
  PROVE  /\ b.type = "moov" => MoovPassed(file, b.end) /\ ~MoovPassed(file, b.start)
         /\ b.type = "moof" => MoovPassed(file, b.start) /\ MoovPassed(file, b.end)
         /\ b.type # "moov" => (MoovPassed(file, b.end) <=> MoovPassed(file, b.start))
<1>1. file \in Files /\ BoxesLaid(file)
  BY FragmentIs
<1>2. b.start \in Nat /\ b.end \in Nat /\ b.start < b.end
  BY <1>1, BoxFacts
<1>3. PICK v \in file.boxes : /\ v.type = "moov"
                              /\ \A c \in file.boxes : /\ c.type = "moov" => c = v
                                                       /\ c.type = "moof" => v.end <= c.start
  BY MoovIs
<1>4. v.start \in Nat /\ v.end \in Nat /\ v.start < v.end /\ (v # b => v.end <= b.start \/ b.end <= v.start)
  BY <1>1, BoxFacts
<1>5. \A o : MoovPassed(file, o) <=> v.end <= o
  BY <1>3 DEF MoovPassed
<1>6. b.type = "moov" => v = b
  BY <1>3
<1>7. b.type # "moov" => v # b
  BY <1>3
<1>8. b.type = "moof" => v.end <= b.start
  BY <1>3
<1>9. MoovPassed(file, b.start) <=> v.end <= b.start
  BY <1>5
<1>10. MoovPassed(file, b.end) <=> v.end <= b.end
  BY <1>5
<1> HIDE DEF MoovPassed
<1>11. b.type = "moov" => MoovPassed(file, b.end) /\ ~MoovPassed(file, b.start)
  BY <1>2, <1>6, <1>9, <1>10
<1>12. b.type = "moof" => MoovPassed(file, b.start) /\ MoovPassed(file, b.end)
  BY <1>2, <1>4, <1>8, <1>9, <1>10
<1>13. b.type # "moov" => (v.end <= b.end <=> v.end <= b.start)
  BY <1>2, <1>4, <1>7
<1> QED BY <1>9, <1>10, <1>11, <1>12, <1>13

-----------------------------------------------------------------------------
(* The walk over the boxes of a fragmented movie *)

LEMMA FragmentRoot ==
  ASSUME TablesInv, FragmentInv, InRoot
  PROVE  /\ result = "OK" /\ ReaderOK /\ FoundOK /\ opened \in BOOLEAN /\ pc # "idle"
         /\ pc = "open" => ~opened
         /\ pc # "open" => opened /\ pc \in {"first_root", "next_root"}
         /\ reader.error = "OK" =>
              failure = "none" /\ (Walking \/ \E m, b \in file.boxes : InFront(m, b))
<1>1. pc \in {"open", "first_root", "next_root"} /\ pc # "idle"
  BY DEF InRoot
<1>2. /\ ReaderOK /\ FoundOK /\ opened \in BOOLEAN /\ (pc = "open" => ~opened)
      /\ (pc # "open" => opened)
  BY <1>1 DEF TablesInv, PacketInv
<1>3. result = "OK" /\ (reader.error = "OK" => FragmentGoesOn)
  BY <1>1, FragmentFacts
<1>4. \A m, b : ~AtData(m, b) /\ ~InRuns(m, b) /\ ~AfterRun(m, b)
  BY <1>1 DEF AtData, InRuns, AfterRun
<1>5. \A m : ~InPart(m)
  BY <1>1 DEF InPart
<1>6. FragmentGoesOn => failure = "none" /\ (Walking \/ \E m, b \in file.boxes : InFront(m, b))
  BY <1>4, <1>5 DEF FragmentGoesOn
<1> QED BY <1>1, <1>2, <1>3, <1>6

(* The walk ends with an error of the reader. *)
LEMMA FragmentReturns ==
  ASSUME TablesInv, FragmentInv, InRoot, RootReturns, UNCHANGED <<file, output>>, ReaderIn',
         reader'.error # "OK", failure' = "none" /\ reader'.error = "XE_EOF" => AllDelivered',
         failure' \in {"none", "truncated", "unread"}, failure' # "unread" => failure # "unread"
  PROVE  FragmentInv'
<1>1. result = "OK" /\ (pc # "open" => opened)
  BY FragmentRoot
<1>2. CASE pc = "open"
  <2>1. pc' = "idle" /\ ((result' = "OK" /\ opened' = TRUE) \/ (result' = "XE_ENOMEM" /\ UNCHANGED opened))
    BY <1>2 DEF RootReturns
  <2>2. CASE result' = "OK" /\ opened' = TRUE
    <3>1. opened' \/ pc' # "idle"
      BY <2>2
    <3>2. pc' \notin {"sample", "hung", "fragment", "check", "take"}
      BY <2>1
    <3> QED BY <3>1, <3>2, <2>2, FragmentErrs
  <2>3. CASE result' = "XE_ENOMEM"
    <3> DEFINE e == "XE_ENOMEM"
    <3>1. result' = e /\ e = "XE_ENOMEM"
      BY <2>3
    <3> HIDE DEF e
    <3>2. EndInv'
      BY <3>1, FailEnds
    <3> QED BY <3>2, <2>1, <2>3, FragmentEnds
  <2> QED BY <2>1, <2>2, <2>3
<1>3. CASE pc # "open"
  <2>1. pc' \in {"first_run", "next_run"} /\ result' = "OK" /\ opened'
    BY <1>1, <1>3 DEF RootReturns, Go
  <2>2. pc' \notin {"sample", "hung", "fragment", "check", "take"} /\ (opened' \/ pc' # "idle")
    BY <2>1
  <2> QED BY <2>1, <2>2, FragmentErrs
<1> QED BY <1>2, <1>3

LEMMA FragmentFails ==
  ASSUME FragmentInv, NEW e, Fail(e), UNCHANGED <<file, output>>, ReaderIn',
         e = "XE_ENOMEM" \/ (e = reader'.error /\ e \in ReaderErrors),
         failure' = "none" /\ reader'.error = "XE_EOF" => AllDelivered',
         failure' \in {"none", "truncated", "unread"}, failure' # "unread" => failure # "unread"
  PROVE  FragmentInv'
<1>1. pc' = "idle" /\ result' = e
  BY DEF Fail
<1>2. EndInv'
  BY <1>1, FailEnds
<1>3. result' # "OK"
  BY <1>1 DEF ReaderErrors
<1> QED BY <1>1, <1>2, <1>3, FragmentEnds

LEMMA FragmentRootFails ==
  ASSUME TablesInv, FragmentInv, InRoot, NEW e, RootFails(e), UNCHANGED <<file, output>>, ReaderIn',
         e = "XE_ENOMEM" \/ (e = reader'.error /\ e \in ReaderErrors),
         pc # "open" => reader'.error # "OK",
         failure' = "none" /\ reader'.error = "XE_EOF" => AllDelivered',
         failure' \in {"none", "truncated", "unread"}, failure' # "unread" => failure # "unread"
  PROVE  FragmentInv'
<1>1. CASE pc = "open"
  <2>1. Fail(e)
    BY <1>1 DEF RootFails
  <2> QED BY <2>1, FragmentFails
<1>2. CASE pc # "open"
  <2>1. RootReturns
    BY <1>2 DEF RootFails
  <2> QED BY <2>1, <1>2, FragmentReturns
<1> QED BY <1>1, <1>2

LEMMA FragmentRootBreaks ==
  ASSUME TablesInv, FragmentInv, LaidFragments, NEW e \in ReaderErrors, RootBreaks(e)
  PROVE  FragmentInv' /\ Forward
<1>1. /\ InRoot /\ Broken(e) /\ UNCHANGED <<file, output>>
      /\ RootReturns \/ RootFails(e)
  BY DEF RootBreaks
<1>2. ReaderOK /\ SamplesInv /\ ReaderIn
  BY <1>1, FragmentRoot, FragmentFacts
<1>3. /\ ReaderIn' /\ reader'.offset = reader.offset /\ reader'.error = e
      /\ failure' \in {"none", "truncated", "unread"}
      /\ failure' = "unread" <=> failure = "unread"
      /\ failure' = "none" => e = "XE_EXTERNAL"
  BY <1>1, <1>2, BreaksOff
<1>4. reader'.error # "OK" /\ ~(failure' = "none" /\ reader'.error = "XE_EOF")
  BY <1>3 DEF ReaderErrors
<1>5. FragmentInv'
  <2>1. CASE RootReturns
    BY <2>1, <1>1, <1>3, <1>4, FragmentReturns
  <2>2. CASE RootFails(e)
    BY <2>2, <1>1, <1>3, <1>4, FragmentRootFails
  <2> QED BY <2>1, <2>2, <1>1
<1> QED BY <1>2, <1>3, <1>5 DEF Forward, ReaderIn

LEMMA FragmentRootStops ==
  ASSUME TablesInv, FragmentInv, LaidFragments, RootStops
  PROVE  FragmentInv' /\ Forward
<1> DEFINE e == reader.error
<1>1. InRoot /\ UNCHANGED <<file, output, reader, failure>> /\ RootFails(e) /\ e # "OK"
  BY DEF RootStops
<1>2. /\ ReaderIn /\ failure \in {"none", "truncated", "unread"}
      /\ failure = "none" /\ reader.error = "XE_EOF" => AllDelivered
  BY FragmentFacts
<1>3. ReaderIn' /\ e = reader'.error /\ e \in ReaderErrors
  BY <1>1, <1>2 DEF ReaderIn
<1>4. failure' = "none" /\ reader'.error = "XE_EOF" => AllDelivered'
  <2>1. UNCHANGED <<file, delivered>>
    BY <1>1 DEF output
  <2> QED BY <2>1, <1>1, <1>2, AllKept
<1>5. reader'.error # "OK"
  BY <1>1
<1> HIDE DEF e
<1>6. FragmentInv'
  BY <1>1, <1>2, <1>3, <1>4, <1>5, FragmentRootFails
<1> QED BY <1>1, <1>2, <1>6 DEF Forward, ReaderIn

-----------------------------------------------------------------------------
(* Boxes *)

LEMMA FragmentBox ==
  ASSUME TablesInv, FragmentInv, LaidFragments, NEW type, Box(type)
  PROVE  /\ InRoot /\ reader.error = "OK" /\ failure = "none" /\ ReaderIn
         /\ TheBox \in file.boxes /\ TheBox.start = reader.offset /\ TheBox.type = type
         /\ TheBox.start \in Nat /\ TheBox.end \in Nat /\ TheBox.start < TheBox.end
         /\ TheBox.start + HEADER <= TheBox.end /\ TheBox.end <= file.end
         /\ \/ /\ Walking /\ type # "mdat" /\ \A t \in Tracks : delivered[t] = TheBox.before[t]
               /\ type = "moov" => ~found_moov
               /\ type = "moof" => found_moov
            \/ type = "mdat" /\ \E m \in file.boxes : InFront(m, TheBox)
<1>1. file \in Files /\ BoxesLaid(file)
  BY FragmentIs
<1> DEFINE x == TheBox
<1>2. /\ InRoot /\ reader.error = "OK" /\ x \in file.boxes /\ x.start = reader.offset /\ x.type = type
  BY <1>1, TheBoxIs
<1>3. failure = "none" /\ ReaderIn /\ (Walking \/ \E m, b \in file.boxes : InFront(m, b))
  BY <1>2, FragmentRoot, FragmentFacts
<1> HIDE DEF x
<1>4. /\ x.start \in Nat /\ x.end \in Nat /\ x.start < x.end /\ x.start + HEADER <= x.end
      /\ x.end <= file.end
  BY <1>1, <1>2, BoxFacts
<1>5. CASE Walking
  <2>1. Reached(file, reader.offset, delivered) /\ (found_moov <=> MoovPassed(file, reader.offset))
    BY <1>5 DEF Walking
  <2> DEFINE o == reader.offset
  <2>2. x.start = o /\ Reached(file, o, delivered)
    BY <1>2, <2>1
  <2> HIDE DEF o
  <2>3. x.type # "mdat" /\ \A t \in Tracks : delivered[t] = x.before[t]
    BY <1>2, <2>2, ReachedBox
  <2>4. (type = "moov" => ~found_moov) /\ (type = "moof" => found_moov)
    BY <1>2, <2>1, MoovAt
  <2> QED BY <1>2, <1>3, <1>4, <1>5, <2>3, <2>4 DEF x
<1>6. ASSUME NEW m \in file.boxes, NEW b \in file.boxes, InFront(m, b)
      PROVE  x = b /\ b.type = "mdat"
  <2>1. b.start = m.end /\ b.type = "mdat" /\ reader.offset = m.end
    BY <1>6 DEF InFront, DataOf
  <2>2. b.start = x.start
    BY <2>1, <1>2
  <2> QED BY <2>1, <2>2, <1>1, <1>2, SameStart
<1>7. CASE \E m, b \in file.boxes : InFront(m, b)
  <2>1. PICK m \in file.boxes, b \in file.boxes : InFront(m, b)
    BY <1>7
  <2>2. x = b /\ x.type = "mdat" /\ type = "mdat"
    BY <2>1, <1>2, <1>6
  <2> QED BY <2>1, <2>2, <1>2, <1>3, <1>4 DEF x
<1> QED BY <1>3, <1>5, <1>7

(* The walk goes on. *)
LEMMA FragmentWalksOn ==
  ASSUME TablesInv, FragmentInv, LaidFragments, NEW type, Box(type), type \in {"moov", "other"},
         UNCHANGED <<file, output, failure, found_moof, found_mdat, mdat>>,
         reader' = SkippedTo(TheBox.end), AfterBox,
         found_moov' = IF type = "moov" THEN TRUE ELSE found_moov
  PROVE  FragmentInv' /\ Forward
<1> DEFINE x == TheBox
<1>1. /\ InRoot /\ reader.error = "OK" /\ failure = "none" /\ ReaderIn
      /\ x \in file.boxes /\ x.start = reader.offset /\ x.type = type
      /\ x.start \in Nat /\ x.end \in Nat /\ x.start < x.end /\ x.end <= file.end
      /\ Walking /\ \A t \in Tracks : delivered[t] = x.before[t]
  BY FragmentBox
<1>2. reader' = SkippedTo(x.end)
  OBVIOUS
<1> HIDE DEF x
<1>3. reader.offset <= x.end
  BY <1>1
<1>4. ReaderIn' /\ reader'.offset = x.end /\ reader'.error = "OK"
  BY <1>1, <1>2, <1>3, SkipsTo
<1>5. ~found_moof /\ ~found_mdat /\ (found_moov <=> MoovPassed(file, reader.offset))
      /\ (pc \in {"first_root", "next_root"} =>
            found_moov /\ mdat_end \in Nat /\ mdat_end <= reader.offset)
  BY <1>1 DEF Walking
<1>6. UNCHANGED caller
  BY <1>5 DEF AfterBox
<1>7. pc' = pc /\ result' = result /\ opened' = opened
  BY <1>6 DEF caller
<1>8. result = "OK" /\ pc # "idle" /\ pc \in {"open", "first_root", "next_root"}
  BY <1>1, FragmentRoot DEF InRoot
<1>9. found_moov' <=> MoovPassed(file, x.end)
  BY <1>1, <1>5, MoovAt
<1>10. Reached(file, x.end, delivered)
  BY <1>1, ReachedNext
<1>11. Walking'
  <2>1. delivered' = delivered /\ file' = file /\ mdat_end' = mdat_end
    BY DEF output, mdat
  <2>2. Reached(file, reader.offset, delivered)'
    BY <2>1, <1>4, <1>10 DEF Reached
  <2>3. (found_moov <=> MoovPassed(file, reader.offset))'
    BY <2>1, <1>4, <1>9 DEF MoovPassed
  <2>4. pc' \in {"first_root", "next_root"} => found_moov' /\ mdat_end' \in Nat /\ mdat_end' <= reader'.offset
    <3> SUFFICES ASSUME pc' \in {"first_root", "next_root"}
                 PROVE  found_moov' /\ mdat_end' \in Nat /\ mdat_end' <= reader'.offset
      OBVIOUS
    <3>1. found_moov /\ mdat_end \in Nat /\ mdat_end <= reader.offset /\ reader.offset \in Nat
      BY <1>1, <1>5, <1>7
    <3>2. mdat_end <= x.end
      BY <3>1, <1>1, <1>3
    <3> QED BY <3>1, <3>2, <2>1, <1>1, <1>4
  <2>5. InRoot'
    BY <1>1, <1>7 DEF InRoot
  <2> QED BY <2>2, <2>3, <2>4, <2>5, <1>5 DEF Walking
<1>12. FragmentGoesOn'
  BY <1>1, <1>11 DEF FragmentGoesOn
<1>13. FragmentInv'
  BY <1>1, <1>4, <1>7, <1>8, <1>12, FragmentGoes
<1> QED BY <1>3, <1>4, <1>13 DEF Forward

LEMMA FragmentMoov ==
  ASSUME TablesInv, FragmentInv, LaidFragments, ReadMoov
  PROVE  FragmentInv' /\ Forward
<1> DEFINE type == "moov"
<1>1. /\ Box(type) /\ type \in {"moov", "other"} /\ found_moov' = IF type = "moov" THEN TRUE ELSE found_moov
      /\ UNCHANGED <<file, output, failure, found_moof, found_mdat, mdat>>
      /\ reader' = SkippedTo(TheBox.end) /\ AfterBox
  BY DEF ReadMoov
<1> HIDE DEF type
<1> QED BY <1>1, FragmentWalksOn

LEMMA FragmentOther ==
  ASSUME TablesInv, FragmentInv, LaidFragments, SkipBox
  PROVE  FragmentInv' /\ Forward
<1> DEFINE type == "other"
<1>1. /\ Box(type) /\ type \in {"moov", "other"} /\ found_moov' = IF type = "moov" THEN TRUE ELSE found_moov
      /\ UNCHANGED <<file, output, failure, found_moof, found_mdat, mdat>>
      /\ reader' = SkippedTo(TheBox.end) /\ AfterBox
  BY DEF SkipBox, found
<1> HIDE DEF type
<1> QED BY <1>1, FragmentWalksOn

LEMMA FragmentSame ==
  ASSUME UNCHANGED file, NEW m
  PROVE  /\ trafs_of(m)' = trafs_of(m) /\ Tracks' = Tracks
         /\ \A b : DataOf(file, m, b) => DataOf(file, m, b)'
BY Zenon DEF trafs_of, Traf, Tracks, DataOf, FragmentLaid

(* The fragment is read, ... *)
LEMMA FragmentMoof ==
  ASSUME TablesInv, FragmentInv, LaidFragments, ReadMoof
  PROVE  FragmentInv' /\ Forward
<1> DEFINE type == "moof"
<1>0. PICK x : x = TheBox
  OBVIOUS
<1>1. /\ Box(type) /\ type = "moof" /\ found_moof' = TRUE /\ reader' = SkippedTo(x.end) /\ AfterBox
      /\ moof' = [start |-> x.start, trafs |-> trafs_of(x)]
      /\ UNCHANGED <<file, found_moov, found_mdat, output, failure, delivered>>
  BY <1>0 DEF ReadMoof, output
<1> HIDE DEF type
<1>2. /\ InRoot /\ reader.error = "OK" /\ failure = "none" /\ ReaderIn
      /\ x \in file.boxes /\ x.start = reader.offset /\ x.type = type
      /\ x.start \in Nat /\ x.end \in Nat /\ x.start < x.end /\ x.end <= file.end
      /\ Walking /\ found_moov /\ \A t \in Tracks : delivered[t] = x.before[t]
  BY <1>0, <1>1, FragmentBox
<1>3. x.type = "moof"
  BY <1>1, <1>2
<1>4. reader.offset <= x.end
  BY <1>2
<1>5. ReaderIn' /\ reader'.offset = x.end /\ reader'.error = "OK"
  BY <1>1, <1>2, <1>4, SkipsTo
<1>6. ~found_mdat'
  BY <1>1, <1>2 DEF Walking
<1>7. pc' = pc /\ result' = result /\ opened' = opened
  BY <1>1, <1>6 DEF AfterBox, caller
<1>8. result = "OK" /\ pc # "idle" /\ pc \in {"open", "first_root", "next_root"}
  BY <1>2, FragmentRoot DEF InRoot
<1>9. PICK b \in file.boxes : DataOf(file, x, b)
  BY <1>2, <1>3, BoxCounts
<1>10. trafs_of(x)' = trafs_of(x) /\ Tracks' = Tracks /\ DataOf(file, x, b)'
  BY <1>1, <1>9, FragmentSame
<1>11. InFront(x, b)'
  BY <1>1, <1>2, <1>5, <1>6, <1>7, <1>10 DEF InFront, Loaded, InRoot
<1>12. FragmentGoesOn'
  <2>1. x \in file'.boxes /\ b \in file'.boxes /\ failure' = "none"
    BY <1>1, <1>2, <1>9
  <2> QED BY <2>1, <1>11 DEF FragmentGoesOn
<1>13. FragmentInv'
  BY <1>1, <1>2, <1>5, <1>7, <1>8, <1>12, FragmentGoes
<1> QED BY <1>4, <1>5, <1>13 DEF Forward

(* ... and its data found. *)
LEMMA FragmentMdat ==
  ASSUME TablesInv, FragmentInv, LaidFragments, ReadMdat
  PROVE  FragmentInv' /\ Forward
<1> DEFINE type == "mdat"
<1>0. PICK x, o : x = TheBox /\ o = reader.offset + HEADER
  OBVIOUS
<1>1. /\ Box(type) /\ type = "mdat" /\ found_mdat' = TRUE /\ mdat_start' = o
      /\ mdat_size' = x.size /\ mdat_end' = reader.offset + x.size
      /\ UNCHANGED <<file, found_moov, found_moof, output, failure, delivered, moof>>
  BY <1>0 DEF ReadMdat, output, fragment
<1>2. found_moov => reader' = [reader EXCEPT !.offset = o] /\ RootReturns
  BY <1>0 DEF ReadMdat
<1> HIDE DEF type
<1>3. /\ InRoot /\ reader.error = "OK" /\ failure = "none" /\ ReaderIn
      /\ x \in file.boxes /\ x.start = reader.offset /\ x.type = type
      /\ x.start \in Nat /\ x.end \in Nat /\ x.start + HEADER <= x.end /\ x.end <= file.end
      /\ \E m \in file.boxes : InFront(m, x)
  BY <1>0, <1>1, FragmentBox
<1>4. PICK m \in file.boxes : InFront(m, x)
  BY <1>3
<1>5. /\ DataOf(file, m, x) /\ Loaded(m) /\ found_moov
  BY <1>4 DEF InFront, Loaded
<1>6. ReaderOK /\ result = "OK" /\ (pc # "open" => opened /\ pc \in {"first_root", "next_root"})
  BY <1>3, FragmentRoot
<1>7. o \in Nat /\ o <= file.end /\ reader.offset <= o
  <2>1. reader.offset \in Nat /\ file.end \in Nat
    BY <1>3 DEF ReaderIn
  <2> QED BY <2>1, <1>0, <1>3 DEF HEADER
<1>8. reader' = [reader EXCEPT !.offset = o] /\ RootReturns
  BY <1>2, <1>5
<1>9. mdat_start' = x.start + HEADER /\ mdat_end' = x.start + x.size /\ mdat_start' = o
  BY <1>0, <1>1, <1>3
<1>10. ReaderIn' /\ reader'.offset = o /\ reader'.error = "OK"
  BY <1>1, <1>3, <1>6, <1>7, <1>8, SkipsIn
<1>11. failure' \in {"none", "truncated", "unread"} /\ (failure' # "unread" => failure # "unread")
       /\ failure' = "none"
  BY <1>1, <1>3
<1>12. ASSUME pc' \in {"idle", "first_run", "next_run"}, opened', result' = "OK" PROVE FragmentInv'
  <2>1. trafs_of(m)' = trafs_of(m) /\ Tracks' = Tracks /\ DataOf(file, m, x)'
    BY <1>1, <1>5, FragmentSame
  <2>2. Loaded(m)'
    BY <2>1, <1>1, <1>5 DEF Loaded
  <2>3. InBox(x)'
    BY <1>1, <1>9 DEF InBox
  <2>4. AtData(m, x)'
    BY <2>1, <2>2, <2>3, <1>1, <1>9, <1>10, <1>12 DEF AtData
  <2>5. FragmentGoesOn'
    <3>1. m \in file'.boxes /\ x \in file'.boxes
      BY <1>1, <1>3
    <3> QED BY <3>1, <2>4, <1>11 DEF FragmentGoesOn
  <2>6. (opened' \/ pc' # "idle") /\ pc' \notin {"sample", "hung"}
    BY <1>12
  <2> QED BY <2>5, <2>6, <1>1, <1>10, <1>11, <1>12, FragmentGoes
<1>13. FragmentInv'
  <2>1. CASE pc = "open"
    <3>1. pc' = "idle" /\ ((result' = "OK" /\ opened' = TRUE) \/ (result' = "XE_ENOMEM" /\ UNCHANGED opened))
      BY <2>1, <1>8 DEF RootReturns
    <3>2. CASE result' = "XE_ENOMEM" /\ UNCHANGED opened
      <4> DEFINE e == "XE_ENOMEM"
      <4>1. Fail(e) /\ e = "XE_ENOMEM" /\ (failure' = "none" /\ reader'.error = "XE_EOF" => AllDelivered')
        BY <3>1, <3>2, <1>10 DEF Fail
      <4> HIDE DEF e
      <4> QED BY <4>1, <1>1, <1>10, <1>11, FragmentFails
    <3> QED BY <3>1, <3>2, <1>12
  <2>2. CASE pc # "open"
    <3>1. pc' \in {"first_run", "next_run"} /\ result' = "OK" /\ opened'
      BY <2>2, <1>6, <1>8 DEF RootReturns, Go
    <3> QED BY <3>1, <1>12
  <2> QED BY <2>1, <2>2
<1> QED BY <1>7, <1>10, <1>13 DEF Forward

(* The end of the file. *)
LEMMA FragmentNoBox ==
  ASSUME TablesInv, FragmentInv, LaidFragments, NoBox
  PROVE  FragmentInv' /\ Forward
<1> DEFINE e == "XE_EOF"
<1>1. /\ InRoot /\ reader.error = "OK" /\ reader.offset = file.end /\ reader' = [reader EXCEPT !.error = e]
      /\ UNCHANGED <<file, output, failure, delivered>> /\ RootReturns /\ e \in ReaderErrors /\ e = "XE_EOF"
  BY DEF NoBox, output, ReaderErrors
<1> HIDE DEF e
<1>2. /\ ReaderOK /\ ReaderIn /\ failure = "none" /\ (Walking \/ \E m, b \in file.boxes : InFront(m, b))
  BY <1>1, FragmentRoot, FragmentFacts
<1>3. reader' = [offset |-> reader.offset, error |-> e]
  BY <1>1, <1>2 DEF ReaderOK
<1>4. ReaderIn' /\ reader'.offset = reader.offset /\ reader'.error # "OK"
  BY <1>1, <1>2, <1>3 DEF ReaderIn
<1>5. \A m, b \in file.boxes : ~InFront(m, b)
  <2> SUFFICES ASSUME NEW m \in file.boxes, NEW b \in file.boxes, InFront(m, b) PROVE FALSE
    OBVIOUS
  <2>1. b.start = m.end /\ reader.offset = m.end
    BY DEF InFront, DataOf
  <2>2. b.start \in Nat /\ b.start < b.end /\ b.end <= file.end /\ b.end \in Nat /\ file.end \in Nat
    BY FragmentIs, BoxFacts
  <2> QED BY <2>1, <2>2, <1>1
<1>6. AllDelivered'
  <2>1. Reached(file, reader.offset, delivered)
    BY <1>2, <1>5 DEF Walking
  <2>2. Reached(file, file.end, delivered)
    BY <2>1, <1>1
  <2>3. AllDelivered
    BY <2>2, ReachedEnd DEF AllDelivered
  <2> QED BY <2>3, <1>1, AllKept
<1>7. failure' \in {"none", "truncated", "unread"} /\ (failure' # "unread" => failure # "unread")
  BY <1>1, <1>2
<1>8. FragmentInv'
  BY <1>1, <1>4, <1>6, <1>7, FragmentReturns
<1> QED BY <1>2, <1>4, <1>8 DEF Forward, ReaderIn

LEMMA FragmentMoovNoMemory ==
  ASSUME TablesInv, FragmentInv, LaidFragments, MoovNoMemory
  PROVE  FragmentInv' /\ Forward
<1> DEFINE type == "moov"  e == "XE_ENOMEM"
<1>1. /\ Box(type) /\ type = "moov" /\ RootFails(e) /\ e = "XE_ENOMEM"
      /\ UNCHANGED <<file, output, failure, reader>>
  BY DEF MoovNoMemory
<1> HIDE DEF type, e
<1>2. InRoot /\ reader.error = "OK" /\ failure = "none" /\ ReaderIn /\ Walking /\ ~found_moov
  BY <1>1, FragmentBox
<1>3. pc = "open"
  BY <1>2 DEF Walking, InRoot
<1>4. Fail(e)
  BY <1>1, <1>3 DEF RootFails
<1>5. ReaderIn'
  BY <1>1, <1>2 DEF ReaderIn
<1>6. /\ failure' \in {"none", "truncated", "unread"} /\ (failure' # "unread" => failure # "unread")
      /\ (failure' = "none" /\ reader'.error = "XE_EOF" => AllDelivered')
  BY <1>1, <1>2
<1>7. FragmentInv'
  BY <1>1, <1>4, <1>5, <1>6, FragmentFails
<1> QED BY <1>1, <1>2, <1>7 DEF Forward, ReaderIn

-----------------------------------------------------------------------------
(* A part of a fragment *)

RunSeen(r, R) ==
  r.sample_count = R.count /\ r.sample_size \in {<<>>, R.sizes} /\ r.current_sample = 0
PartOf(T, F) ==
  /\ T.track = F.track /\ T.run_index = 1 /\ Len(T.runs) <= Len(F.runs)
  /\ \A i \in DOMAIN T.runs : RunSeen(T.runs[i], F.runs[i])

LEMMA PartSeen ==
  ASSUME NEW trafs \in Seq(Trafs), trafs # <<>>, NEW bare \in BOOLEAN,
         NEW j \in 0..Len(trafs[Len(trafs)].runs), bare => j # 0,
         NEW F, PartOf(trafs[Len(trafs)], F), Len(F.runs) \in Nat
  PROVE  /\ Len(Part(trafs, j, bare)) = Len(trafs)
         /\ \A l \in 1..Len(trafs) : l # Len(trafs) => Part(trafs, j, bare)[l] = trafs[l]
         /\ PartOf(Part(trafs, j, bare)[Len(trafs)], F)
<1> DEFINE k == Len(trafs)  x == trafs[k]  s == SubSeq(x.runs, 1, j)
           r == BareRun(s[j])
           t == IF bare THEN [s EXCEPT ![j] = BareRun(@)] ELSE s
           y == [x EXCEPT !.runs = t]  p == Part(trafs, j, bare)
<1>1. k \in Nat \ {0} /\ k \in 1..k
  BY EmptySeq
<1>2. /\ x \in Trafs /\ x.runs \in Seq(Runs) /\ Len(x.runs) \in Nat /\ DOMAIN x.runs = 1..Len(x.runs)
      /\ \A i \in 1..Len(x.runs) : x.runs[i] \in Runs
  BY <1>1, TrafFacts
<1>3. s \in Seq(Runs) /\ Len(s) = j /\ j \in Nat /\ j <= Len(x.runs) /\ \A i \in 1..j : s[i] = x.runs[i]
  <2>1. j \in Nat /\ j <= Len(x.runs)
    BY <1>2
  <2>2. \A i \in 1..j : x.runs[i] \in Runs
    BY <2>1, <1>2
  <2> QED BY <2>1, <2>2, SubSeqProperties
<1>4. \A i \in 1..j : RunSeen(s[i], F.runs[i])
  <2>1. \A i \in 1..j : i \in 1..Len(x.runs)
    BY <1>2, <1>3
  <2> QED BY <2>1, <1>2, <1>3 DEF PartOf
<1>5. Len(x.runs) <= Len(F.runs) /\ x.track = F.track /\ x.run_index = 1
  BY DEF PartOf
<1> HIDE DEF s
<1>6. Len(t) = j /\ DOMAIN t = 1..j /\ \A i \in 1..j : RunSeen(t[i], F.runs[i])
  <2>1. CASE bare
    <3>1. j \in 1..Len(s) /\ j \in 1..j /\ s[j] \in Runs
      BY <2>1, <1>3, ElementOfSeq
    <3>2. t = [s EXCEPT ![j] = r]
      BY <2>1
    <3>3. r.sample_count = s[j].sample_count /\ r.sample_size = <<>> /\ r.current_sample = s[j].current_sample
      BY <3>1 DEF BareRun, Runs
    <3>4. r \in Runs
      BY <3>1, BareRunType
    <3>5. RunSeen(r, F.runs[j])
      BY <3>1, <3>3, <1>4 DEF RunSeen
    <3> HIDE DEF r, t
    <3>6. Len(t) = j /\ DOMAIN t = 1..j
      BY <3>1, <3>2, <3>4, <1>3, ExceptSeq, LenProperties
    <3>7. \A i \in 1..j : t[i] = IF i = j THEN r ELSE s[i]
      BY <3>2, <1>3, LenProperties
    <3> QED BY <3>5, <3>6, <3>7, <1>4
  <2>2. CASE ~bare
    BY <2>2, <1>3, <1>4, LenProperties
  <2> QED BY <2>1, <2>2
<1>7. p = [trafs EXCEPT ![k] = y]
  BY DEF Part, s
<1> HIDE DEF t
<1>8. y.runs = t /\ y.track = x.track /\ y.run_index = x.run_index
  BY <1>2 DEF Trafs
<1> HIDE DEF y, p, k, x
<1>9. DOMAIN trafs = 1..k
  BY LenProperties DEF k
<1>10. DOMAIN p = 1..k /\ p[k] = y /\ \A l \in 1..k : l # k => p[l] = trafs[l]
  BY <1>1, <1>7, <1>9
<1>11. Len(p) = k
  BY <1>7, LenProperties DEF k
<1>12. PartOf(y, F)
  <2>1. j <= Len(F.runs)
    <3> DEFINE u == Len(x.runs)  v == Len(F.runs)
    <3>1. u \in Nat /\ v \in Nat /\ j \in Nat /\ j <= u /\ u <= v
      BY <1>2, <1>3, <1>5
    <3> HIDE DEF u, v
    <3>2. j <= v
      BY <3>1
    <3> QED BY <3>2 DEF v
  <2> QED BY <2>1, <1>5, <1>6, <1>8 DEF PartOf
<1>13. Len(p) = k /\ (\A l \in 1..k : l # k => p[l] = trafs[l]) /\ PartOf(p[k], F)
  BY Zenon, <1>10, <1>11, <1>12
<1> QED BY Zenon, <1>13 DEF k, p

LEMMA PartsSeen ==
  ASSUME NEW trafs \in Seq(Trafs), NEW G, \A k \in DOMAIN trafs : PartOf(trafs[k], G[k]),
         \A k \in DOMAIN trafs : Len(G[k].runs) \in Nat, NEW p \in Parts(trafs)
  PROVE  Len(p) <= Len(trafs) /\ \A k \in DOMAIN p : PartOf(p[k], G[k])
<1>1. Len(trafs) \in Nat /\ DOMAIN trafs = 1..Len(trafs)
  BY TrafFacts
<1> DEFINE Seen(q) == Len(q) <= Len(trafs) /\ \A k \in DOMAIN q : PartOf(q[k], G[k])
<1>2. ASSUME NEW k \in DOMAIN trafs, NEW j \in 0..Len(trafs[k].runs), NEW bare \in BOOLEAN, bare => j # 0
      PROVE  Seen(Part(SubSeq(trafs, 1, k), j, bare))
  <2> DEFINE s == SubSeq(trafs, 1, k)  q == Part(s, j, bare)
  <2>1. /\ k \in 1..Len(trafs) /\ k \in Nat \ {0} /\ k <= Len(trafs)
        /\ \A i \in 1..k : trafs[i] \in Trafs /\ i \in DOMAIN trafs
    BY TrafFacts
  <2>2. s \in Seq(Trafs) /\ Len(s) = k /\ \A i \in 1..k : s[i] = trafs[i]
    BY <2>1, SubSeqProperties
  <2> HIDE DEF s
  <2>3. s # <<>> /\ s[k] = trafs[k] /\ k \in 1..k
    BY <2>1, <2>2
  <2>4. j \in 0..Len(s[Len(s)].runs) /\ PartOf(s[Len(s)], G[k]) /\ Len(G[k].runs) \in Nat
    BY <1>2, <2>2, <2>3
  <2>5. Len(q) = k /\ (\A l \in 1..k : l # k => q[l] = s[l]) /\ PartOf(q[k], G[k])
    BY <1>2, <2>2, <2>3, <2>4, PartSeen
  <2>6. q \in Seq(Trafs)
    BY <1>2, <2>2, <2>3, <2>4, PartType
  <2> HIDE DEF q
  <2>7. DOMAIN q = 1..k
    BY <2>5, <2>6, LenProperties
  <2>8. \A l \in 1..k : PartOf(q[l], G[l])
    BY <2>1, <2>2, <2>5
  <2> QED BY <2>1, <2>5, <2>7, <2>8 DEF q, s
<1> HIDE DEF Seen
<1>3. ASSUME NEW k \in DOMAIN trafs, NEW j \in 0..Len(trafs[k].runs)
      PROVE  Seen(Part(SubSeq(trafs, 1, k), j, FALSE))
  <2> DEFINE bare == FALSE
  <2>1. bare \in BOOLEAN /\ (bare => j # 0)
    OBVIOUS
  <2> HIDE DEF bare
  <2>2. Seen(Part(SubSeq(trafs, 1, k), j, bare))
    BY <2>1, <1>2
  <2> QED BY <2>2 DEF bare
<1>4. ASSUME NEW k \in DOMAIN trafs, NEW j \in DOMAIN trafs[k].runs
      PROVE  Seen(Part(SubSeq(trafs, 1, k), j, TRUE))
  <2> DEFINE bare == TRUE
  <2>1. bare \in BOOLEAN /\ j # 0 /\ j \in 0..Len(trafs[k].runs)
    <3>1. Len(trafs[k].runs) \in Nat /\ DOMAIN trafs[k].runs = 1..Len(trafs[k].runs)
      BY TrafFacts
    <3> DEFINE n == Len(trafs[k].runs)
    <3>2. n \in Nat /\ j \in 1..n
      BY <3>1
    <3> HIDE DEF n
    <3>3. j # 0 /\ j \in 0..n
      BY <3>2
    <3> QED BY <3>3 DEF n
  <2> HIDE DEF bare
  <2>2. Seen(Part(SubSeq(trafs, 1, k), j, bare))
    BY <2>1, <1>2
  <2> QED BY <2>2 DEF bare
<1>5. \/ p = <<>>
      \/ \E k \in DOMAIN trafs : \E j \in 0..Len(trafs[k].runs) : p = Part(SubSeq(trafs, 1, k), j, FALSE)
      \/ \E k \in DOMAIN trafs : \E j \in DOMAIN trafs[k].runs : p = Part(SubSeq(trafs, 1, k), j, TRUE)
  BY DEF Parts
<1>6. Seen(<<>>)
  <2>1. Len(<<>>) = 0 /\ DOMAIN <<>> = {}
    OBVIOUS
  <2> QED BY <2>1, <1>1 DEF Seen
<1> QED BY <1>3, <1>4, <1>5, <1>6 DEF Seen

(* What has been read of a fragment counts its samples from its start.     *)
LEMMA PartsCount ==
  ASSUME file \in Files, SamplesTyped(file), NEW m, NEW b, DataOf(file, m, b), NEW p, p \in Parts(trafs_of(m)),
         NEW d, \A t \in Tracks : d[t] = m.before[t]
  PROVE  CountsOf(p, m, d, 0)
<1>1. m \in file.boxes
  BY DEF DataOf
<1> DEFINE q == trafs_of(m)
<1>2. /\ q \in Seq(Trafs) /\ DOMAIN q = DOMAIN m.trafs /\ \A k \in DOMAIN m.trafs : q[k] = Traf(m.trafs[k])
  BY <1>1, FragmentType DEF trafs_of
<1>3. ASSUME NEW k \in DOMAIN m.trafs
      PROVE  PartOf(q[k], m.trafs[k]) /\ Len(m.trafs[k].runs) \in Nat
  <2> DEFINE F == m.trafs[k]  T == q[k]
  <2>1. Made(T, F) /\ FileTraf(F, file.samples[F.track])
    BY <1>1, <1>2, TrafsOfFile, TrafMade
  <2>2. Len(F.runs) \in Nat /\ DOMAIN F.runs = 1..Len(F.runs) /\ F.runs \in Seq(FileRuns)
    BY <2>1 DEF FileTraf
  <2>3. /\ T.track = F.track /\ T.run_index = 1 /\ Len(T.runs) = Len(F.runs)
        /\ \A i \in DOMAIN F.runs : T.runs[i] = Run(F.runs[i])
    BY <2>1 DEF Made
  <2>4. DOMAIN T.runs = 1..Len(T.runs)
    <3>1. k \in 1..Len(q)
      BY <1>2, TrafFacts
    <3> QED BY <3>1, <1>2, TrafFacts
  <2>5. \A i \in DOMAIN F.runs : RunSeen(Run(F.runs[i]), F.runs[i])
    <3>1. \A i \in DOMAIN F.runs : F.runs[i] \in FileRuns
      BY <2>2, ElementOfSeq
    <3> QED BY <3>1, RunMade DEF RunSeen
  <2>6. Len(T.runs) <= Len(F.runs)
    BY <2>2, <2>3
  <2> HIDE DEF T, F
  <2>7. PartOf(T, F)
    BY <2>2, <2>3, <2>4, <2>5, <2>6 DEF PartOf
  <2> QED BY <2>2, <2>7 DEF T, F
<1>4. Len(q) = Len(m.trafs) /\ Len(m.trafs) \in Nat
  BY <1>1, TrafsOfFile, PartLength
<1> DEFINE G == m.trafs
<1>5. Len(p) <= Len(q) /\ \A k \in DOMAIN p : PartOf(p[k], G[k])
  <2>1. (\A k \in DOMAIN q : PartOf(q[k], G[k])) /\ (\A k \in DOMAIN q : Len(G[k].runs) \in Nat) /\ p \in Parts(q)
    BY <1>2, <1>3
  <2> HIDE DEF q, G
  <2> QED BY <2>1, <1>2, PartsSeen
<1>6. p \in Seq(Trafs)
  <2> HIDE DEF q
  <2>1. p \in Parts(q)
    BY DEF q
  <2> QED BY <2>1, <1>2, PartsType
<1>7. ASSUME NEW k \in DOMAIN p
      PROVE  /\ RunsOf(p[k], m.trafs[k]) /\ Read(p[k]) = 0
             /\ CountOf(p[k], m.trafs[k], d[m.trafs[k].track])
  <2> DEFINE P == p[k]  F == m.trafs[k]
  <2>1. PartOf(P, F)
    BY <1>5
  <2>2. k \in DOMAIN m.trafs
    <3> DEFINE u == Len(p)  v == Len(m.trafs)
    <3>1. u \in Nat /\ DOMAIN p = 1..u /\ u <= v /\ v \in Nat /\ DOMAIN m.trafs = 1..v
      BY <1>1, <1>4, <1>5, <1>6, TrafFacts, TrafsOfFile
    <3> HIDE DEF u, v
    <3> QED BY <3>1
  <2>3. FileTraf(F, file.samples[F.track]) /\ F.before[1] = m.before[F.track] /\ Len(F.before) = Len(F.runs) + 1
    BY <2>2, FragmentTraf
  <2>4. Len(P.runs) \in Nat /\ DOMAIN P.runs = 1..Len(P.runs)
    <3>1. k \in 1..Len(p)
      BY <1>6, TrafFacts
    <3> QED BY <3>1, <1>6, TrafFacts
  <2>5. P.track = F.track /\ P.run_index = 1 /\ Len(P.runs) <= Len(F.runs)
        /\ \A i \in DOMAIN P.runs : RunSeen(P.runs[i], F.runs[i])
    BY <2>1 DEF PartOf
  <2>6. 1 \in 1..Len(P.runs) + 1
    <3> DEFINE n == Len(P.runs)
    <3>1. n \in Nat
      BY <2>4
    <3> HIDE DEF n
    <3>2. 1 \in 1..n + 1
      BY <3>1
    <3> QED BY <3>2 DEF n
  <2>7. RunsOf(P, F)
    BY <2>5, <2>6 DEF RunsOf, RunSeen
  <2>8. Read(P) = 0 /\ (HasRun(P) => Current(P).sample_count = F.runs[1].count /\ 1 \in DOMAIN P.runs)
    BY <2>5 DEF Read, HasRun, Current, RunSeen
  <2>9. F.track \in Tracks /\ F.before \in Seq(Nat) /\ Len(F.runs) \in Nat /\ F.runs \in Seq(FileRuns)
        /\ DOMAIN F.runs = 1..Len(F.runs)
    BY <2>3 DEF FileTraf
  <2>10. F.before[1] \in Nat
    <3> DEFINE g == F.before  i == 1
    <3>1. i \in 1..Len(g) /\ g \in Seq(Nat)
      BY <2>3, <2>9
    <3> HIDE DEF g, i
    <3>2. g[i] \in Nat
      BY <3>1, ElementOfSeq
    <3> QED BY <3>2 DEF g, i
  <2>11. 1 \in DOMAIN P.runs => F.runs[1].count \in Nat
    <3>1. 1 \in DOMAIN P.runs => 1 \in DOMAIN F.runs
      <4> DEFINE u == Len(P.runs)  v == Len(F.runs)
      <4>1. u \in Nat /\ v \in Nat /\ u <= v /\ DOMAIN P.runs = 1..u /\ DOMAIN F.runs = 1..v
        BY <2>4, <2>5, <2>9
      <4> HIDE DEF u, v
      <4> QED BY <4>1
    <3>2. 1 \in DOMAIN F.runs => F.runs[1] \in FileRuns
      BY <2>9, ElementOfSeq
    <3> QED BY <3>1, <3>2 DEF FileRuns
  <2>12. d[F.track] = F.before[1]
    BY <2>3, <2>9
  <2>13. CountOf(P, F, d[F.track])
    <3> DEFINE x == F.before[1]
    <3>1. x \in Nat /\ d[F.track] = x /\ F.before[P.run_index] = x
      BY <2>5, <2>10, <2>12
    <3>2. x = x + Read(P)
      <4> HIDE DEF x
      <4> QED BY <3>1, <2>8
    <3>3. HasRun(P) => Read(P) <= Current(P).sample_count
      BY <2>8, <2>11
    <3> HIDE DEF x
    <3> QED BY <3>1, <3>2, <3>3 DEF CountOf
  <2> QED BY <2>7, <2>8, <2>13
<1>8. Len(p) <= Len(m.trafs)
  BY <1>4, <1>5
<1> QED BY <1>7, <1>8 DEF CountsOf

(* open() fails without the memory for a fragment; next_run() goes on with *)
(* a part of it, inside of the box.                                        *)
LEMMA FragmentNoMemory ==
  ASSUME TablesInv, FragmentInv, LaidFragments, MoofNoMemory
  PROVE  FragmentInv' /\ Forward
<1> DEFINE type == "moof"  e == "XE_ENOMEM"
<1>0. PICK x : x = TheBox
  OBVIOUS
<1>1. /\ Box(type) /\ type = "moof" /\ RootFails(e) /\ e = "XE_ENOMEM"
      /\ \E trafs \in Parts(trafs_of(x)) : moof' = [start |-> x.start, trafs |-> trafs]
      /\ \E offset \in x.start + HEADER..x.end - 1 : reader' = [reader EXCEPT !.offset = offset]
      /\ failure' = IF pc = "open" THEN failure ELSE "unread"
      /\ UNCHANGED <<file, output, found_moov, found_mdat, mdat, delivered, mdat_end>>
  BY <1>0 DEF MoofNoMemory, output, mdat
<1> HIDE DEF type, e
<1>2. /\ InRoot /\ reader.error = "OK" /\ failure = "none" /\ ReaderIn
      /\ x \in file.boxes /\ x.start = reader.offset /\ x.type = type
      /\ x.start \in Nat /\ x.end \in Nat /\ x.start < x.end /\ x.end <= file.end
      /\ Walking /\ \A t \in Tracks : delivered[t] = x.before[t]
  BY <1>0, <1>1, FragmentBox
<1>3. ReaderOK /\ result = "OK" /\ (pc # "open" => opened /\ pc \in {"first_root", "next_root"})
  BY <1>2, FragmentRoot
<1>4. PICK o \in x.start + HEADER..x.end - 1 : reader' = [reader EXCEPT !.offset = o]
  BY <1>1
<1>5. o \in Nat /\ o <= file.end /\ reader.offset < o /\ reader.offset <= o
  <2> DEFINE u == x.start  v == x.end  w == file.end
  <2>1. u \in Nat /\ v \in Nat /\ w \in Nat /\ v <= w /\ o \in u + 1..v - 1 /\ reader.offset = u
    BY <1>2, <1>4 DEF HEADER, ReaderIn
  <2> HIDE DEF u, v, w
  <2>2. o \in Nat /\ o <= w /\ u < o /\ u <= o
    BY <2>1
  <2> QED BY <2>1, <2>2 DEF w
<1>6. ReaderIn' /\ reader'.offset = o /\ reader'.error = reader.error /\ reader'.error = "OK"
  BY <1>1, <1>2, <1>3, <1>4, <1>5, SkipsIn
<1>7. CASE pc = "open"
  <2>1. Fail(e)
    BY <1>1, <1>7 DEF RootFails
  <2>2. /\ failure' \in {"none", "truncated", "unread"} /\ (failure' # "unread" => failure # "unread")
        /\ (failure' = "none" /\ reader'.error = "XE_EOF" => AllDelivered')
    BY <1>1, <1>2, <1>6, <1>7
  <2> QED BY <2>1, <2>2, <1>1, <1>5, <1>6, FragmentFails DEF Forward
<1>8. CASE pc # "open"
  <2>1. pc' \in {"first_run", "next_run"} /\ result' = "OK" /\ opened' /\ failure' = "unread"
    BY <1>1, <1>3, <1>8 DEF RootFails, RootReturns, Go
  <2>2. ~found_mdat /\ mdat_end \in Nat /\ mdat_end <= reader.offset /\ reader.offset \in Nat
    BY <1>2, <1>3, <1>8 DEF Walking
  <2>3. mdat_end' \in Nat /\ mdat_end' < reader'.offset /\ ~found_mdat'
    <3> DEFINE u == reader.offset
    <3>1. mdat_end \in Nat /\ mdat_end <= u /\ u \in Nat /\ o \in Nat /\ u < o
      BY <1>5, <2>2
    <3> HIDE DEF u
    <3>2. mdat_end < o
      BY <3>1
    <3> QED BY <3>1, <3>2, <1>1, <1>6, <2>2
  <2>4. PICK p \in Parts(trafs_of(x)) : moof' = [start |-> x.start, trafs |-> p]
    BY <1>1
  <2>5. PICK b \in file.boxes : DataOf(file, x, b)
    BY <1>1, <1>2, BoxCounts
  <2>6. CountsOf(p, x, delivered, 0)
    <3>1. file \in Files /\ SamplesTyped(file)
      BY FragmentIs
    <3> QED BY <3>1, <2>5, <1>2, PartsCount
  <2>7. (moof.trafs)' = p /\ delivered' = delivered
    BY <2>4, <1>1
  <2>8. CountsOf((moof.trafs)', x, delivered', 0)
    BY <2>6, <2>7
  <2>9. x \in file'.boxes /\ \E c \in file'.boxes : DataOf(file', x, c)
    BY <1>1, <1>2, <2>5
  <2>10. InPart(x)'
    BY <2>1, <2>3, <2>8, <2>9 DEF InPart
  <2>11. FragmentGoesOn'
    BY <2>9, <2>10 DEF FragmentGoesOn
  <2>12. /\ failure' \in {"none", "truncated", "unread"} /\ (failure' # "unread" => failure # "unread")
         /\ (opened' \/ pc' # "idle") /\ pc' \notin {"sample", "hung"}
    BY <2>1
  <2>13. FragmentInv'
    BY <2>1, <2>11, <2>12, <1>1, <1>6, FragmentGoes
  <2> QED BY <2>13, <1>5, <1>6 DEF Forward
<1> QED BY <1>7, <1>8

LEMMA FragmentRootStep ==
  ASSUME TablesInv, FragmentInv, LaidFragments, ReadRoot
  PROVE  FragmentInv' /\ Forward
BY FragmentMoov, FragmentMdat, FragmentOther, FragmentMoof, FragmentNoBox, FragmentRootStops,
   FragmentNoMemory, FragmentMoovNoMemory, FragmentRootBreaks DEF ReadRoot

-----------------------------------------------------------------------------
(* Calls between the packets of a fragmented movie *)

Places3 == <<file, found, mdat, moof, traf_index, delivered, reader, failure>>

LEMMA PlacesKept ==
  ASSUME UNCHANGED Places3
  PROVE  /\ file' = file /\ reader' = reader /\ moof' = moof /\ delivered' = delivered
         /\ Tracks' = Tracks /\ TheTraf' = TheTraf
         /\ UNCHANGED <<found_moov, found_moof, found_mdat, mdat_start, mdat_end, mdat_size,
                        traf_index, failure>>
BY DEF Places3, found, mdat, Tracks, TheTraf

LEMMA DataStays ==
  ASSUME UNCHANGED Places3, NEW m, NEW b, AtData(m, b), opened',
         pc' \in {"idle", "fragment", "first_run", "next_run"}
  PROVE  AtData(m, b)'
<1>1. Loaded(m)'
  BY PlacesKept, FragmentSame DEF AtData, Loaded
<1>2. InBox(b)' /\ DataOf(file, m, b)'
  BY PlacesKept DEF AtData, InBox
<1> QED BY <1>1, <1>2, PlacesKept DEF AtData

(* There are samples left in its current run. *)
Unread(T) == Read(T) < Current(T).sample_count

LEMMA RunsStay ==
  ASSUME UNCHANGED Places3, NEW m, NEW b, InRuns(m, b), opened',
         pc' \in {"idle", "fragment", "check", "take"}, pc' = "take" => Unread(TheTraf)
  PROVE  InRuns(m, b)'
<1>1. RunsIn(moof.trafs, m, b, traf_index)'
  BY PlacesKept DEF InRuns, RunsIn, InBox
<1>2. HasRun(TheTraf)' /\ (reader.offset = NextAt(TheTraf, file, m.trafs[traf_index]))'
  BY PlacesKept DEF InRuns
<1>3. RunsBehind(moof.trafs, RunEnd(file, m.trafs[traf_index], TheTraf.run_index), traf_index)'
  BY PlacesKept DEF InRuns
<1>4. (pc = "take" => Read(TheTraf) < Current(TheTraf).sample_count)'
  BY PlacesKept DEF Unread
<1> QED BY <1>1, <1>2, <1>3, <1>4, PlacesKept DEF InRuns

LEMMA PartStays ==
  ASSUME UNCHANGED Places3, NEW m, InPart(m), opened', pc \in {"idle", "fragment", "check"},
         pc' \in {"idle", "fragment", "check", "take"}, pc' = "take" => Unread(TheTraf)
  PROVE  InPart(m)'
<1>1. CountsOf(moof.trafs, m, delivered, traf_index)
  BY DEF InPart
<1>2. CountsOf(moof.trafs, m, delivered, traf_index)'
  BY <1>1, PlacesKept
<1>3. (pc = "take" => Read(TheTraf) < Current(TheTraf).sample_count)'
  BY PlacesKept DEF Unread
<1> QED BY <1>2, <1>3, PlacesKept DEF InPart

LEMMA FragmentOpen ==
  ASSUME TablesInv, FragmentInv, LaidFragments, Open
  PROVE  FragmentInv' /\ Forward
<1>1. /\ pc = "idle" /\ ~opened /\ result = "OK" /\ pc' = "open" /\ UNCHANGED <<result, opened>>
      /\ UNCHANGED <<file, reader, found_moov, found_moof, found_mdat, output, delivered, failure>>
  BY DEF Open, Go, found, output
<1>2. ReaderIn /\ Untouched
  BY <1>1 DEF FragmentInv, SamplesInv, CallInv
<1>3. reader.error = "OK" /\ failure = "none"
  BY <1>2 DEF Untouched
<1>4. FragmentGoesOn
  BY <1>1, <1>3 DEF FragmentInv
<1>5. Walking
  BY <1>1, <1>4 DEF FragmentGoesOn, InFront, InRoot, AtData, InRuns, AfterRun, InPart
<1>6. Walking'
  <2>1. Reached(file, reader.offset, delivered)' /\ (found_moov <=> MoovPassed(file, reader.offset))'
    BY <1>1, <1>5 DEF Walking
  <2> QED BY <2>1, <1>1, <1>5 DEF Walking, InRoot
<1>7. FragmentGoesOn'
  BY <1>1, <1>3, <1>6 DEF FragmentGoesOn
<1>8. ReaderIn' /\ reader'.error = "OK" /\ failure' = "none"
  BY <1>1, <1>2, <1>3 DEF ReaderIn
<1>9. FragmentInv'
  BY <1>1, <1>3, <1>7, <1>8, FragmentGoes
<1> QED BY <1>1, <1>2, <1>9 DEF Forward, ReaderIn

(* A call that ends with the error of the reader, as it is. *)
LEMMA FragmentStops ==
  ASSUME FragmentInv, LaidFragments, Fail(reader.error), reader.error # "OK",
         UNCHANGED <<file, reader, output, failure>>
  PROVE  FragmentInv' /\ Forward
<1> DEFINE e == reader.error
<1>1. /\ ReaderIn /\ failure \in {"none", "truncated", "unread"}
      /\ failure = "none" /\ reader.error = "XE_EOF" => AllDelivered
  BY FragmentFacts
<1>2. Fail(e) /\ e = reader'.error /\ e \in ReaderErrors /\ ReaderIn'
  BY <1>1 DEF ReaderIn
<1>3. failure' = "none" /\ reader'.error = "XE_EOF" => AllDelivered'
  BY <1>1, AllKept DEF output
<1> HIDE DEF e
<1>4. FragmentInv'
  BY <1>1, <1>2, <1>3, FragmentFails
<1> QED BY <1>1, <1>4 DEF Forward, ReaderIn

LEMMA FragmentReaderFailed ==
  ASSUME FragmentInv, LaidFragments, ReaderFailed
  PROVE  FragmentInv' /\ Forward
<1>1. Fail(reader.error) /\ reader.error # "OK" /\ UNCHANGED <<file, reader, output, failure>>
  BY DEF ReaderFailed
<1> QED BY <1>1, FragmentStops

LEMMA FragmentNoRun ==
  ASSUME FragmentInv, LaidFragments, NoRun
  PROVE  FragmentInv' /\ Forward
<1>1. Fail(reader.error) /\ reader.error # "OK" /\ UNCHANGED <<file, reader, output, failure>>
  BY DEF NoRun
<1> QED BY <1>1, FragmentStops

(* A file in fragments has no chunks. *)
LEMMA NoChunks ==
  ASSUME TablesInv, LaidFragments
  PROVE  \A t \in Tracks : ~HasChunk(cursor, t)
<1> SUFFICES ASSUME NEW t \in Tracks PROVE ~HasChunk(cursor, t)
  OBVIOUS
<1>1. cursor[t].chunk \in Nat
  BY CursorFacts DEF TablesInv, CursorsOK
<1>2. Len(file.tracks[t].chunk_offset) = 0
  BY FragmentIs
<1> QED BY <1>1, <1>2 DEF HasChunk

LEMMA FragmentNext ==
  ASSUME TablesInv, FragmentInv, LaidFragments, Reading, reader.error = "OK", Go("fragment"),
         UNCHANGED <<output, Places3>>
  PROVE  FragmentInv' /\ Forward
<1>1. pc = "idle" /\ opened /\ result = "OK" /\ pc' = "fragment" /\ opened' /\ result' = "OK"
  BY DEF Reading, Go
<1>2. FragmentGoesOn /\ ReaderIn /\ failure \in {"none", "truncated", "unread"}
  BY <1>1, FragmentFacts
<1>3. UNCHANGED <<file, reader, failure>>
  BY PlacesKept
<1>4. FragmentGoesOn'
  <2>1. ~Walking /\ \A m, b : ~InFront(m, b) /\ ~AfterRun(m, b)
    BY <1>1 DEF Walking, InRoot, InFront, AfterRun
  <2>2. \/ failure = "none" /\ \E m, b \in file.boxes : AtData(m, b) \/ InRuns(m, b)
        \/ \E m \in file.boxes : InPart(m)
    BY <1>2, <2>1 DEF FragmentGoesOn
  <2>3. ASSUME failure = "none", NEW m \in file.boxes, NEW b \in file.boxes, AtData(m, b) \/ InRuns(m, b)
        PROVE  FragmentGoesOn'
    <3>1. AtData(m, b)' \/ InRuns(m, b)'
      BY <2>3, <1>1, DataStays, RunsStay
    <3>2. m \in file'.boxes /\ b \in file'.boxes /\ failure' = "none"
      BY <1>3, <2>3
    <3> QED BY <3>1, <3>2 DEF FragmentGoesOn
  <2>4. ASSUME NEW m \in file.boxes, InPart(m)
        PROVE  FragmentGoesOn'
    <3>1. InPart(m)'
      BY <2>4, <1>1, PartStays
    <3>2. m \in file'.boxes
      BY <1>3
    <3> QED BY <3>1, <3>2 DEF FragmentGoesOn
  <2> QED BY <2>2, <2>3, <2>4
<1>5. ReaderIn'
  BY <1>2, <1>3 DEF ReaderIn
<1>6. FragmentInv'
  BY <1>1, <1>2, <1>3, <1>4, <1>5, FragmentGoes
<1> QED BY <1>2, <1>3, <1>6 DEF Forward, ReaderIn

LEMMA FragmentIndex ==
  ASSUME TablesInv, FragmentInv, LaidFragments, BuildIndex
  PROVE  FragmentInv' /\ Forward
<1>1. /\ Reading /\ reader.error = "OK" /\ moov_next_chunk(cursor)
      /\ UNCHANGED <<file, found, mdat, fragment, output>>
  BY DEF BuildIndex
<1>2. {t \in Tracks : HasChunk(cursor, t)} = {}
  BY NoChunks
<1>3. Go("fragment") /\ UNCHANGED <<reader, failure>>
  BY <1>1, <1>2 DEF moov_next_chunk
<1>4. UNCHANGED <<output, Places3>>
  BY <1>1, <1>3 DEF Places3, fragment, output
<1> QED BY <1>1, <1>3, <1>4, FragmentNext

LEMMA FragmentNextSample ==
  ASSUME TablesInv, FragmentInv, LaidFragments, NextSample
  PROVE  FragmentInv' /\ Forward
<1>1. ~HasChunk(cursor, track_index)
  BY NoChunks DEF TablesInv, CursorsOK
<1>2. /\ Reading /\ reader.error = "OK" /\ UNCHANGED <<file, found, mdat, fragment, output>>
      /\ Go("fragment") /\ UNCHANGED <<reader, failure>>
  BY <1>1 DEF NextSample
<1>3. UNCHANGED <<output, Places3>>
  BY <1>2 DEF Places3, fragment, output
<1> QED BY <1>2, <1>3, FragmentNext

LEMMA FragmentRead ==
  ASSUME TablesInv, FragmentInv, LaidFragments, ReadFragment
  PROVE  FragmentInv' /\ Forward
<1>1. pc = "fragment" /\ UNCHANGED <<file, reader, found, mdat, fragment, output, failure>>
  BY DEF ReadFragment
<1>2. /\ result = "OK" /\ reader.error = "OK" /\ FragmentGoesOn /\ ReaderIn
      /\ failure \in {"none", "truncated", "unread"} /\ opened
  BY <1>1, FragmentFacts DEF TablesInv, PacketInv
<1>3. UNCHANGED Places3
  BY <1>1 DEF Places3, fragment, output
<1>4. ~Walking /\ \A m, b : ~InFront(m, b) /\ ~AfterRun(m, b)
  BY <1>1 DEF Walking, InRoot, InFront, AfterRun
<1>5. ReaderIn' /\ Forward
  BY <1>1, <1>2 DEF ReaderIn, Forward
<1>6. ASSUME pc' \in {"first_run", "check"}, UNCHANGED <<result, opened>>, FragmentGoesOn'
      PROVE  FragmentInv'
  BY <1>1, <1>2, <1>5, <1>6, FragmentGoes
<1>7. ASSUME failure = "none", NEW m \in file.boxes, NEW b \in file.boxes, AtData(m, b)
      PROVE  FragmentInv'
  <2>1. found_moof /\ found_mdat
    BY <1>7 DEF AtData, Loaded
  <2>2. pc' = "first_run" /\ UNCHANGED <<result, opened>>
    BY <2>1 DEF ReadFragment, Go
  <2>3. AtData(m, b)'
    BY <2>2, <1>2, <1>3, <1>7, DataStays
  <2>4. FragmentGoesOn'
    BY <2>3, <1>1, <1>7 DEF FragmentGoesOn
  <2> QED BY <2>2, <2>4, <1>6
<1>8. ASSUME failure = "none", NEW m \in file.boxes, NEW b \in file.boxes, InRuns(m, b)
      PROVE  FragmentInv'
  <2>1. ~found_moof /\ traf_index \in DOMAIN moof.trafs
    BY <1>8 DEF InRuns
  <2>2. moof.trafs # <<>>
    BY <2>1
  <2>3. pc' = "check" /\ UNCHANGED <<result, opened>>
    BY <2>1, <2>2 DEF ReadFragment, Go
  <2>4. InRuns(m, b)'
    BY <2>3, <1>2, <1>3, <1>8, RunsStay
  <2>5. FragmentGoesOn'
    BY <2>4, <1>1, <1>8 DEF FragmentGoesOn
  <2> QED BY <2>3, <2>5, <1>6
<1>9. ASSUME NEW m \in file.boxes, InPart(m)
      PROVE  FragmentInv'
  <2>1. ~found_mdat /\ failure = "unread"
    BY <1>9 DEF InPart
  <2>2. CASE moof.trafs = <<>>
    <3>1. Fail("XE_EOF")
      BY <2>1, <2>2 DEF ReadFragment
    <3>2. pc' = "idle" /\ result' # "OK" /\ failure' = "unread"
      BY <3>1, <2>1, <1>1 DEF Fail
    <3>3. EndInv'
      BY <3>2 DEF EndInv, EndIsTheEnd
    <3> QED BY <3>2, <3>3, <2>1, <1>1, <1>5, FragmentEnds
  <2>3. CASE moof.trafs # <<>>
    <3>1. pc' = "check" /\ UNCHANGED <<result, opened>>
      BY <2>1, <2>3 DEF ReadFragment, Go
    <3>2. InPart(m)'
      BY <3>1, <1>1, <1>2, <1>3, <1>9, PartStays
    <3>3. FragmentGoesOn'
      BY <3>2, <1>1 DEF FragmentGoesOn
    <3> QED BY <3>1, <3>3, <1>6
  <2> QED BY <2>2, <2>3
<1> QED BY <1>2, <1>4, <1>5, <1>7, <1>8, <1>9 DEF FragmentGoesOn

-----------------------------------------------------------------------------
(* The nearest run *)

IsNext(p, n) ==
  HasRun(p[n]) /\ \A k \in DOMAIN p : HasRun(p[k]) => Current(p[n]).data_offset <= Current(p[k]).data_offset
Done(p) == \A k \in DOMAIN p : ~HasRun(p[k])
LeadsTo(o) ==
  \/ o < reader.offset /\ Fail("XE_INVALID_DATA") /\ UNCHANGED <<reader, failure>>
  \/ /\ o >= reader.offset /\ reader' = SkippedTo(o) /\ UNCHANGED failure
     /\ IF reader'.error # "OK" THEN Fail(reader'.error)
        ELSE Go(IF pc = "first_run" THEN "check" ELSE "take")
  \/ \E e \in ReaderErrors : Broken(e) /\ Fail(e)

LEMMA SeekLeads ==
  ASSUME NEW trafs, SeekRun(trafs),
         NEW l, l = {k \in DOMAIN trafs : trafs[k].run_index <= Len(trafs[k].runs)},
         NEW o, o = [k \in l |-> trafs[k].runs[trafs[k].run_index].data_offset]
  PROVE  IF l = {}
           THEN /\ reader' = SkippedTo(mdat_end) /\ UNCHANGED failure
                /\ Go(IF pc = "first_run" THEN "first_root" ELSE "next_root")
           ELSE traf_index' = Nearest(o) /\ LeadsTo(o[Nearest(o)])
BY Zenon DEF SeekRun, LeadsTo

LEMMA SeekFinds ==
  ASSUME NEW p \in Seq(Trafs), SeekRun(p)
  PROVE  \/ /\ Done(p) /\ reader' = SkippedTo(mdat_end) /\ UNCHANGED failure
            /\ Go(IF pc = "first_run" THEN "first_root" ELSE "next_root")
         \/ \E n \in DOMAIN p : /\ IsNext(p, n) /\ traf_index' = n
                                /\ LeadsTo(Current(p[n]).data_offset)
<1> DEFINE l == {k \in DOMAIN p : p[k].run_index <= Len(p[k].runs)}
           o == [k \in l |-> p[k].runs[p[k].run_index].data_offset]
<1>1. IF l = {}
        THEN /\ reader' = SkippedTo(mdat_end) /\ UNCHANGED failure
             /\ Go(IF pc = "first_run" THEN "first_root" ELSE "next_root")
        ELSE traf_index' = Nearest(o) /\ LeadsTo(o[Nearest(o)])
  BY Zenon, SeekLeads
<1>2. Len(p) \in Nat /\ DOMAIN p = 1..Len(p)
  BY TrafFacts
<1>3. ASSUME NEW k \in DOMAIN p
      PROVE  /\ p[k].run_index <= Len(p[k].runs) <=> HasRun(p[k])
             /\ HasRun(p[k]) => Current(p[k]).data_offset \in Int
  <2> DEFINE i == p[k].run_index  n == Len(p[k].runs)
  <2>1. i \in Nat \ {0} /\ n \in Nat /\ DOMAIN p[k].runs = 1..n /\ \A j \in 1..n : p[k].runs[j] \in Runs
    BY <1>2, TrafFacts
  <2>2. HasRun(p[k]) <=> i \in 1..n
    BY <2>1 DEF HasRun
  <2>3. i <= n <=> i \in 1..n
    <3> HIDE DEF i, n
    <3> QED BY <2>1
  <2>4. HasRun(p[k]) => Current(p[k]) \in Runs
    BY <2>1, <2>2 DEF Current
  <2> QED BY <2>2, <2>3, <2>4 DEF Runs
<1>4. /\ l = {k \in DOMAIN p : HasRun(p[k])} /\ DOMAIN o = l
      /\ \A k \in l : o[k] = Current(p[k]).data_offset
  BY <1>3 DEF Current
<1> HIDE DEF l, o
<1>5. CASE l = {}
  BY <1>1, <1>4, <1>5 DEF Done
<1>6. CASE l # {}
  <2> DEFINE n == Nearest(o)
  <2>1. n \in l /\ \A k \in l : o[n] <= o[k]
    <3>1. DOMAIN o \subseteq 1..Len(p) /\ DOMAIN o # {} /\ \A k \in DOMAIN o : o[k] \in Int
      BY <1>2, <1>3, <1>4, <1>6
    <3> QED BY <3>1, <1>2, <1>4, NearestIsOne
  <2>2. traf_index' = n /\ LeadsTo(o[n])
    BY Zenon, <1>1, <1>6
  <2> HIDE DEF n
  <2>3. n \in DOMAIN p /\ IsNext(p, n)
    BY <1>4, <2>1 DEF IsNext
  <2>4. o[n] = Current(p[n]).data_offset
    BY <1>4, <2>1
  <2> QED BY <2>2, <2>3, <2>4
<1> QED BY <1>5, <1>6

(* Where the nearest run of a fragment, or that of a part of it, is read.  *)
LEMMA LeadsOn ==
  ASSUME SamplesInv, ReaderOK, UNCHANGED file, reader.error = "OK", NEW o \in Int, LeadsTo(o)
  PROVE  /\ ReaderIn' /\ reader'.offset >= reader.offset
         /\ failure' \in {"none", "truncated", "unread"} /\ (failure' = "unread" <=> failure = "unread")
         /\ \/ pc' \in {"check", "take"} /\ result' = result /\ opened' = opened /\ failure' = failure
               /\ reader'.error = "OK" /\ reader'.offset = o /\ o >= reader.offset
            \/ pc' = "idle" /\ result' = "XE_INVALID_DATA" /\ o < reader.offset
            \/ /\ \E e : Fail(e) /\ e = reader'.error /\ e \in ReaderErrors
               /\ failure' = "none" => o > file.end \/ reader'.error = "XE_EXTERNAL"
<1>1. /\ ReaderIn /\ failure \in {"none", "truncated", "unread"} /\ reader.offset \in Nat
      /\ file.end \in Nat /\ reader.offset <= file.end
  BY DEF SamplesInv, CallInv, ReaderIn
<1>2. CASE o < reader.offset /\ Fail("XE_INVALID_DATA") /\ UNCHANGED <<reader, failure>>
  BY <1>1, <1>2 DEF Fail, ReaderIn
<1>3. CASE /\ o >= reader.offset /\ reader' = SkippedTo(o) /\ UNCHANGED failure
           /\ IF reader'.error # "OK" THEN Fail(reader'.error)
              ELSE Go(IF pc = "first_run" THEN "check" ELSE "take")
  <2>1. CASE o <= file.end
    <3>1. reader' = [offset |-> o, error |-> "OK"] /\ o \in Nat
      BY <1>1, <1>3, <2>1 DEF SkippedTo
    <3>2. pc' \in {"check", "take"} /\ result' = result /\ opened' = opened
      BY <3>1, <1>3 DEF Go
    <3> QED BY <3>1, <3>2, <2>1, <1>1, <1>3 DEF ReaderIn
  <2>2. CASE ~(o <= file.end)
    <3>1. reader' = [offset |-> file.end, error |-> "XE_EOF"]
      BY <1>3, <2>2 DEF SkippedTo
    <3>2. Fail(reader'.error) /\ reader'.error = "XE_EOF" /\ reader'.offset = file.end
      BY <3>1, <1>3
    <3>3. o > file.end /\ reader'.error \in ReaderErrors
      BY <1>1, <2>2, <3>2 DEF ReaderErrors
    <3>4. ReaderIn' /\ reader'.offset >= reader.offset
      BY <3>2, <1>1, <3>3 DEF ReaderIn
    <3> QED BY <3>2, <3>3, <3>4, <1>1, <1>3
  <2> QED BY <2>1, <2>2
<1>4. ASSUME NEW e \in ReaderErrors, Broken(e), Fail(e)
      PROVE  /\ ReaderIn' /\ reader'.offset >= reader.offset /\ e = reader'.error
             /\ failure' \in {"none", "truncated", "unread"} /\ (failure' = "unread" <=> failure = "unread")
             /\ failure' = "none" => reader'.error = "XE_EXTERNAL"
  <2>1. /\ ReaderIn' /\ reader'.offset = reader.offset /\ reader'.error = e
        /\ failure' \in {"none", "truncated", "unread"} /\ (failure' = "unread" <=> failure = "unread")
        /\ failure' = "none" => reader'.error = "XE_EXTERNAL"
    BY <1>4, BreaksOff
  <2> QED BY <2>1, <1>1
<1>5. CASE \E e \in ReaderErrors : Broken(e) /\ Fail(e)
  <2>1. PICK e \in ReaderErrors : Broken(e) /\ Fail(e)
    BY <1>5
  <2> QED BY <2>1, <1>4
<1> QED BY <1>2, <1>3, <1>5 DEF LeadsTo

-----------------------------------------------------------------------------
(* The runs of a whole fragment *)

RunHere(T, F) ==
  /\ T.run_index \in DOMAIN F.runs /\ FileRun(F, file.samples[F.track], T.run_index)
  /\ Current(T).data_offset = RunAt(file, F, T.run_index)
  /\ Current(T).sample_count = F.runs[T.run_index].count
  /\ RunAt(file, F, T.run_index) \in Nat /\ RunEnd(file, F, T.run_index) \in Nat
  /\ RunAt(file, F, T.run_index) < RunEnd(file, F, T.run_index)

TrafHere(T, F) ==
  /\ FileTraf(F, file.samples[F.track]) /\ TrafOf(T, file, F) /\ RunsOf(T, F)
  /\ CountOf(T, F, delivered[F.track])
  /\ Len(T.runs) = Len(F.runs) /\ DOMAIN T.runs = DOMAIN F.runs
  /\ HasRun(T) => RunHere(T, F)

LEMMA RunIs ==
  ASSUME LaidFragments, NEW m, NEW b, NEW p \in Seq(Trafs), NEW x, RunsIn(p, m, b, x),
         NEW k \in DOMAIN p
  PROVE  k \in DOMAIN m.trafs /\ TrafHere(p[k], m.trafs[k])
<1>1. file \in Files /\ SamplesTyped(file)
  BY FragmentIs
<1>2. DataOf(file, m, b) /\ CountsOf(p, m, delivered, x) /\ FragmentOf(p, file, m, delivered)
  BY DEF RunsIn
<1>3. m \in file.boxes /\ Len(p) = Len(m.trafs)
  BY <1>2 DEF DataOf, FragmentOf
<1>4. k \in DOMAIN m.trafs
  BY <1>1, <1>3, TrafFacts, TrafsOfFile
<1> DEFINE F == m.trafs[k]  T == p[k]  s == file.samples[F.track]
<1>5. FileTraf(F, s)
  BY <1>1, <1>3, <1>4, TrafsOfFile
<1>6. TrafOf(T, file, F) /\ RunsOf(T, F) /\ CountOf(T, F, delivered[F.track])
  BY <1>2 DEF CountsOf, FragmentOf
<1>7. Len(T.runs) = Len(F.runs) /\ DOMAIN T.runs = DOMAIN F.runs
  <2>1. Len(T.runs) = Len(F.runs)
    BY <1>6 DEF TrafOf
  <2>2. DOMAIN T.runs = 1..Len(T.runs)
    <3>1. k \in 1..Len(p)
      BY TrafFacts
    <3> QED BY <3>1, TrafFacts
  <2> QED BY <2>1, <2>2, <1>5 DEF FileTraf
<1>8. ASSUME HasRun(T) PROVE RunHere(T, F)
  <2> DEFINE i == T.run_index
  <2>1. i \in DOMAIN T.runs /\ i \in DOMAIN F.runs
    BY <1>7, <1>8 DEF HasRun
  <2>2. T.runs[i].data_offset = RunAt(file, F, i) /\ T.runs[i].sample_count = F.runs[i].count
    BY <2>1, <1>6 DEF TrafOf, RunOf, RunsOf
  <2>3. /\ FileRun(F, s, i) /\ RunAt(file, F, i) \in Nat /\ RunEnd(file, F, i) \in Nat
        /\ RunAt(file, F, i) < RunEnd(file, F, i)
    BY <2>1, <1>1, <1>2, <1>4, FragmentTraf
  <2> QED BY <2>1, <2>2, <2>3 DEF RunHere, Current
<1> QED BY <1>4, <1>5, <1>6, <1>7, <1>8 DEF TrafHere

(* All of a fragment has been read. *)
LEMMA FragmentDone ==
  ASSUME LaidFragments, NEW m, NEW b, NEW p \in Seq(Trafs), NEW x, RunsIn(p, m, b, x), Done(p)
  PROVE  \A t \in Tracks : delivered[t] = b.before[t]
<1>1. /\ file \in Files /\ SamplesTyped(file) /\ DataOf(file, m, b)
      /\ FragmentOf(p, file, m, delivered) /\ Len(p) = Len(m.trafs)
      /\ m \in file.boxes /\ b \in file.boxes /\ m.type = "moof" /\ b.start = m.end
  BY FragmentIs DEF RunsIn, FragmentOf, DataOf
<1>2. b.before = m.after
  BY <1>1, BoxCounts
<1>3. DOMAIN p = DOMAIN m.trafs
  BY <1>1, TrafFacts, TrafsOfFile
<1>4. ASSUME NEW k \in DOMAIN m.trafs
      PROVE  delivered[m.trafs[k].track] = m.after[m.trafs[k].track]
  <2> DEFINE F == m.trafs[k]  T == p[k]  n == Len(F.runs)  d == delivered[F.track]
  <2>1. /\ FileTraf(F, file.samples[F.track]) /\ RunsOf(T, F) /\ CountOf(T, F, d)
        /\ Len(T.runs) = n /\ DOMAIN T.runs = DOMAIN F.runs
    <3>1. k \in DOMAIN p
      BY <1>3
    <3>2. TrafHere(T, F)
      BY <3>1, RunIs
    <3> QED BY <3>2 DEF TrafHere
  <2>2. n \in Nat /\ DOMAIN F.runs = 1..n /\ T.run_index \in 1..n + 1 /\ F.before \in Seq(Nat)
    BY <2>1 DEF FileTraf, RunsOf
  <2>3. T.run_index \notin 1..n
    BY <1>3, <2>1, <2>2 DEF Done, HasRun
  <2>4. T.run_index = n + 1 /\ n + 1 \in 1..n + 1
    <3> HIDE DEF n
    <3> QED BY <2>2, <2>3
  <2>5. F.before[n + 1] = m.after[F.track] /\ Len(F.before) = n + 1
    BY <1>1, <1>4, FragmentTraf
  <2>6. d = F.before[n + 1] + 0
    <3>1. d = F.before[T.run_index] + Read(T)
      BY <2>1 DEF CountOf
    <3>2. Read(T) = 0
      BY <1>3 DEF Done, Read
    <3> HIDE DEF d, n
    <3> QED BY <3>1, <3>2, <2>4
  <2>7. F.before[n + 1] \in Nat
    <3> DEFINE g == F.before  i == n + 1
    <3>1. i \in 1..Len(g) /\ g \in Seq(Nat)
      BY <2>2, <2>4, <2>5
    <3> HIDE DEF g, i
    <3>2. g[i] \in Nat
      BY <3>1, ElementOfSeq
    <3> QED BY <3>2 DEF g, i
  <2> DEFINE v == F.before[n + 1]
  <2>8. d = v + 0 /\ v \in Nat /\ v = m.after[F.track]
    BY <2>5, <2>6, <2>7
  <2> HIDE DEF v, d
  <2>9. d = m.after[F.track]
    BY <2>8
  <2> QED BY <2>9 DEF d
<1>5. ASSUME NEW t \in Tracks, \A k \in DOMAIN m.trafs : m.trafs[k].track # t
      PROVE  delivered[t] = m.after[t]
  <2>1. m.after[t] = m.before[t]
    BY <1>1, <1>5 DEF DataOf, FragmentLaid, Tracks
  <2>2. delivered[t] = m.before[t]
    BY <1>1, <1>5 DEF FragmentOf, Tracks
  <2> QED BY <2>1, <2>2
<1> QED BY <1>2, <1>4, <1>5

(* Behind its data the walk goes on, or the file ends. *)
LEMMA SeekDone ==
  ASSUME FragmentInv, LaidFragments, InRun, reader.error = "OK", failure = "none",
         UNCHANGED <<file, mdat, output, failure>>, NEW m, NEW b, NEW p \in Seq(Trafs),
         Seeks(p, m, b), found_moov', ~found_moof', ~found_mdat', Done(p),
         reader' = SkippedTo(mdat_end), Go(IF pc = "first_run" THEN "first_root" ELSE "next_root")
  PROVE  FragmentInv' /\ reader'.offset >= reader.offset
<1>1. /\ RunsIn(p, m, b, 0) /\ mdat_start <= reader.offset /\ (b.size # 0 => reader.offset <= b.end)
  BY DEF Seeks
<1>2. /\ DataOf(file, m, b) /\ m \in file.boxes /\ b \in file.boxes /\ m.type = "moof" /\ b.type = "mdat"
      /\ b.start = m.end /\ mdat_start = b.start + HEADER /\ mdat_end = b.start + b.size
  BY <1>1 DEF RunsIn, DataOf, InBox
<1>3. file \in Files /\ BoxesLaid(file)
  BY FragmentIs
<1>4. /\ b.start \in Nat /\ b.end \in Nat /\ b.end <= file.end /\ b.size \in Nat /\ file.end \in Nat
      /\ b.end = IF b.size = 0 THEN file.end ELSE b.start + b.size
  BY <1>2, <1>3, FilesAssumption DEF BoxesLaid
<1>5. \A t \in Tracks : delivered[t] = b.before[t]
  BY <1>1, FragmentDone
<1>6. /\ ReaderIn /\ result = "OK" /\ reader.offset \in Nat
      /\ pc' \in {"first_root", "next_root"} /\ result' = "OK" /\ UNCHANGED opened
  BY FragmentFacts DEF Go, InRun, ReaderIn
<1>7. file' = file /\ delivered' = delivered /\ Tracks' = Tracks /\ mdat_end' = mdat_end
  BY DEF output, Tracks, mdat
<1>8. /\ failure' \in {"none", "truncated", "unread"} /\ (failure' # "unread" => failure # "unread")
      /\ failure' = "none"
  OBVIOUS
<1>9. CASE b.size # 0
  <2> DEFINE o == b.end
  <2>1. reader' = SkippedTo(o) /\ o \in Nat /\ reader.offset <= o /\ o <= file.end /\ o = mdat_end
    BY <1>1, <1>2, <1>4, <1>9
  <2> HIDE DEF o
  <2>2. ReaderIn' /\ reader'.offset = o /\ reader'.error = "OK"
    BY <2>1, <1>6, SkipsTo
  <2>3. MoovPassed(file, b.end) /\ Reached(file, b.end, delivered)
    <3>1. MoovPassed(file, b.start)
      BY <1>2, MoovAt
    <3> QED BY <3>1, <1>2, <1>5, MoovAt, ReachedNext
  <2>4. (found_moov <=> MoovPassed(file, reader.offset))' /\ Reached(file, reader.offset, delivered)'
    BY <2>2, <2>3, <1>7 DEF o
  <2>5. mdat_end' \in Nat /\ mdat_end' <= reader'.offset
    BY <2>1, <2>2, <1>7
  <2>6. Walking'
    BY <2>4, <2>5, <1>6 DEF Walking, InRoot
  <2>7. FragmentGoesOn'
    BY <2>6 DEF FragmentGoesOn
  <2>8. (opened' \/ pc' # "idle") /\ pc' \notin {"sample", "hung"}
    BY <1>6
  <2>9. FragmentInv'
    BY <2>2, <2>7, <2>8, <1>6, <1>8, FragmentGoes
  <2> QED BY <2>1, <2>2, <2>9, <1>6
<1>10. CASE b.size = 0
  <2>1. mdat_end < reader.offset
    BY <1>1, <1>2, <1>4, <1>6, <1>10 DEF HEADER
  <2>2. ~(mdat_end >= reader.offset)
    <3>1. mdat_end \in Int
      BY <1>2, <1>4
    <3> QED BY <2>1, <3>1, <1>6
  <2>3. reader' = [offset |-> file.end, error |-> "XE_EOF"]
    BY <2>2 DEF SkippedTo
  <2>4. ReaderIn' /\ reader'.offset >= reader.offset /\ reader'.error # "OK"
    BY <2>3, <1>4, <1>6, <1>7 DEF ReaderIn, ReaderErrors
  <2>5. AllDelivered'
    <3>1. \A t \in Tracks : b.after[t] = b.before[t] /\ b.after[t] = Len(file.samples[t])
      BY <1>2, <1>4, <1>10, BoxCounts
    <3>2. AllDelivered
      BY <3>1, <1>5 DEF AllDelivered
    <3> QED BY <3>2, <1>7, AllKept
  <2>6. (opened' \/ pc' # "idle") /\ pc' \notin {"sample", "hung", "fragment", "check", "take"}
    BY <1>6
  <2>7. FragmentInv'
    BY <2>4, <2>5, <2>6, <1>6, <1>8, FragmentErrs
  <2> QED BY <2>4, <2>7
<1> QED BY <1>9, <1>10

(* No run of the fragment that is placed has been begun. *)
LEMMA RunFresh ==
  ASSUME LaidFragments, NEW m, NEW b, NEW p \in Seq(Trafs), RunsIn(p, m, b, 0), NEW k \in DOMAIN p
  PROVE  Read(p[k]) = 0
<1>1. CountsOf(p, m, delivered, 0)
  BY DEF RunsIn
<1>2. k # 0
  <2> DEFINE n == Len(p)
  <2>1. k \in 1..n /\ n \in Nat
    BY TrafFacts
  <2> HIDE DEF n
  <2> QED BY <2>1
<1> QED BY <1>1, <1>2 DEF CountsOf

(* The nearest run lies in front of the others, and in the data. *)
LEMMA NextIs ==
  ASSUME LaidFragments, NEW m, NEW b, NEW p \in Seq(Trafs), Seeks(p, m, b),
         NEW n \in DOMAIN p, IsNext(p, n), NEW F, F = m.trafs[n], NEW o, o = Current(p[n]).data_offset
  PROVE  /\ o \in Nat /\ o <= file.end /\ reader.offset <= o
         /\ Current(p[n]).sample_count \in Nat \ {0}
         /\ o = NextAt(p[n], file, F)
         /\ RunsBehind(p, RunEnd(file, F, p[n].run_index), n)
<1> DEFINE T == p[n]  i == T.run_index  s == file.samples[F.track]
<1>1. /\ file \in Files /\ SamplesTyped(file) /\ BoxesLaid(file) /\ file.end \in Nat
      /\ RunsIn(p, m, b, 0) /\ RunsBehind(p, reader.offset, 0) /\ DataOf(file, m, b)
  BY FragmentIs DEF Seeks, RunsIn
<1>2. n \in DOMAIN m.trafs /\ TrafHere(T, F)
  BY <1>1, RunIs
<1>3. HasRun(T) /\ RunHere(T, F)
  BY <1>2 DEF IsNext, TrafHere
<1>4. /\ i \in DOMAIN F.runs /\ FileRun(F, s, i) /\ o = RunAt(file, F, i)
      /\ Current(T).sample_count = F.runs[i].count
      /\ RunAt(file, F, i) \in Nat /\ RunEnd(file, F, i) \in Nat
      /\ RunAt(file, F, i) < RunEnd(file, F, i)
  BY <1>3 DEF RunHere
<1>5. F.before[i] \in Nat /\ F.runs[i].count \in Nat \ {0}
  BY Zenon, <1>4 DEF FileRun
<1>6. n # 0
  <2> DEFINE l == Len(p)
  <2>1. n \in 1..l /\ l \in Nat
    BY TrafFacts
  <2> HIDE DEF l
  <2> QED BY <2>1
<1>7. reader.offset <= o
  BY <1>1, <1>3, <1>6 DEF RunsBehind
<1>8. o <= file.end
  <2>1. RunEnd(file, F, i) <= b.end
    BY <1>1, <1>2, <1>4, FragmentTraf
  <2>2. b.end \in Nat /\ b.end <= file.end
    BY <1>1, BoxFacts DEF DataOf
  <2> DEFINE u == RunAt(file, F, i)  v == RunEnd(file, F, i)  e == b.end
  <2>3. u \in Nat /\ v \in Nat /\ e \in Nat /\ u < v /\ v <= e /\ e <= file.end
    BY <1>4, <2>1, <2>2
  <2> HIDE DEF u, v, e
  <2>4. u <= file.end
    BY <2>3, <1>1
  <2> QED BY <2>4, <1>4 DEF u
<1>9. o = NextAt(T, file, F)
  <2>1. Read(T) = 0 /\ Read(T) < Current(T).sample_count
    BY <1>1, <1>4, <1>5, RunFresh
  <2>2. NextAt(T, file, F) = file.samples[F.track][F.before[i] + 0 + 1].at
    BY <2>1 DEF NextAt
  <2> DEFINE v == F.before[i]
  <2>3. v + 0 + 1 = v + 1
    <3>1. v \in Nat
      BY <1>5
    <3> HIDE DEF v
    <3> QED BY <3>1
  <2>4. RunAt(file, F, i) = file.samples[F.track][v + 1].at
    BY Zenon DEF RunAt
  <2> HIDE DEF v, i, T
  <2>5. NextAt(T, file, F) = RunAt(file, F, i)
    <3>1. NextAt(T, file, F) = file.samples[F.track][v + 0 + 1].at
      BY Zenon, <2>2 DEF v
    <3> QED BY Zenon, <3>1, <2>3, <2>4
  <2>6. o = RunAt(file, F, i)
    BY Zenon, <1>4
  <2> QED BY Zenon, <2>5, <2>6
<1>10. RunsBehind(p, RunEnd(file, F, i), n)
  <2> SUFFICES ASSUME NEW k \in DOMAIN p, k # n, HasRun(p[k])
               PROVE  RunEnd(file, F, i) <= Current(p[k]).data_offset
    BY DEF RunsBehind
  <2> DEFINE G == m.trafs[k]  j == p[k].run_index
  <2>1. k \in DOMAIN m.trafs /\ TrafHere(p[k], G)
    BY <1>1, RunIs
  <2>2. RunHere(p[k], G)
    BY <2>1 DEF TrafHere
  <2>3. j \in DOMAIN G.runs /\ Current(p[k]).data_offset = RunAt(file, G, j)
    BY <2>2 DEF RunHere
  <2>4. RunAt(file, F, i) <= RunAt(file, G, j)
    BY <2>3, <1>4 DEF IsNext
  <2>5. RunEnd(file, F, i) <= RunAt(file, G, j)
    BY <2>1, <2>3, <2>4, <1>1, <1>2, <1>4, DataApart
  <2> QED BY <2>3, <2>5
<1> QED BY <1>4, <1>5, <1>7, <1>8, <1>9, <1>10

LEMMA SeekNext ==
  ASSUME FragmentInv, LaidFragments, InRun, reader.error = "OK", failure = "none", ReaderOK, opened,
         UNCHANGED <<file, mdat, output>>, NEW m, NEW b, NEW p \in Seq(Trafs), (moof.trafs)' = p,
         Seeks(p, m, b), found_moov', ~found_moof', ~found_mdat',
         NEW n \in DOMAIN p, IsNext(p, n), traf_index' = n, LeadsTo(Current(p[n]).data_offset)
  PROVE  FragmentInv' /\ reader'.offset >= reader.offset
<1> DEFINE o == Current(p[n]).data_offset  F == m.trafs[n]
<1>1. /\ o \in Nat /\ o <= file.end /\ reader.offset <= o /\ Current(p[n]).sample_count \in Nat \ {0}
      /\ o = NextAt(p[n], file, F) /\ RunsBehind(p, RunEnd(file, F, p[n].run_index), n)
  BY NextIs
<1>2. /\ SamplesInv /\ UNCHANGED file /\ file.end \in Nat /\ reader.offset \in Nat /\ result = "OK"
      /\ failure # "unread"
  BY FragmentFacts DEF ReaderIn, InRun
<1>3. LeadsTo(o) /\ o \in Int
  BY <1>1
<1> HIDE DEF o
<1>4. /\ ReaderIn' /\ reader'.offset >= reader.offset
      /\ failure' \in {"none", "truncated", "unread"} /\ (failure' = "unread" <=> failure = "unread")
      /\ \/ pc' \in {"check", "take"} /\ result' = result /\ opened' = opened /\ failure' = failure
            /\ reader'.error = "OK" /\ reader'.offset = o /\ o >= reader.offset
         \/ pc' = "idle" /\ result' = "XE_INVALID_DATA" /\ o < reader.offset
         \/ /\ \E e : Fail(e) /\ e = reader'.error /\ e \in ReaderErrors
            /\ failure' = "none" => o > file.end \/ reader'.error = "XE_EXTERNAL"
  BY <1>2, <1>3, LeadsOn
<1>5. ~(o < reader.offset) /\ ~(o > file.end)
  BY <1>1, <1>2
<1>6. CASE /\ pc' \in {"check", "take"} /\ result' = result /\ opened' = opened /\ failure' = failure
           /\ reader'.error = "OK" /\ reader'.offset = o
  <2>1. /\ file' = file /\ delivered' = delivered /\ mdat_start' = mdat_start /\ mdat_size' = mdat_size
        /\ mdat_end' = mdat_end /\ TheTraf' = p[n]
    BY DEF output, mdat, TheTraf
  <2>2. RunsIn(p, m, b, 0) /\ \A k \in DOMAIN p : Read(p[k]) = 0
    BY RunFresh DEF Seeks
  <2>3. RunsIn(p, m, b, n)
    BY <2>2 DEF RunsIn, CountsOf
  <2>4. RunsIn(moof.trafs, m, b, traf_index)'
    BY <2>1, <2>3 DEF RunsIn, InBox
  <2>5. HasRun(TheTraf)' /\ (traf_index \in DOMAIN moof.trafs)'
    BY <2>1 DEF IsNext
  <2>6. (reader.offset = NextAt(TheTraf, file, m.trafs[traf_index]))'
    BY <2>1, <1>1, <1>6
  <2>7. RunsBehind(moof.trafs, RunEnd(file, m.trafs[traf_index], TheTraf.run_index), traf_index)'
    BY <2>1, <1>1
  <2>8. (pc = "take" => Read(TheTraf) < Current(TheTraf).sample_count)'
    <3>1. Read(p[n]) < Current(p[n]).sample_count
      BY <2>2, <1>1
    <3> QED BY <3>1, <2>1
  <2>9. InRuns(m, b)'
    BY <2>4, <2>5, <2>6, <2>7, <2>8, <1>6 DEF InRuns
  <2>10. FragmentGoesOn'
    <3>1. m \in file'.boxes /\ b \in file'.boxes /\ failure' = "none"
      BY <2>1, <2>3, <1>6 DEF RunsIn, DataOf
    <3> QED BY <3>1, <2>9 DEF FragmentGoesOn
  <2>11. (opened' \/ pc' # "idle") /\ pc' \notin {"sample", "hung"} /\ result' = "OK"
         /\ (failure' # "unread" => failure # "unread")
    BY <1>2, <1>6
  <2>12. FragmentInv'
    BY <2>10, <2>11, <1>4, <1>6, FragmentGoes
  <2> QED BY <2>12, <1>4
<1>7. ASSUME NEW e, Fail(e), e = reader'.error, e \in ReaderErrors,
             failure' = "none" => reader'.error = "XE_EXTERNAL"
      PROVE  FragmentInv'
  <2>1. failure' = "none" /\ reader'.error = "XE_EOF" => AllDelivered'
    BY <1>7
  <2>2. failure' # "unread" => failure # "unread"
    BY <1>2
  <2> QED BY <2>1, <2>2, <1>4, <1>7, FragmentFails
<1> QED BY <1>4, <1>5, <1>6, <1>7

(* next_run() in a fragment that is whole. *)
LEMMA SeekWhole ==
  ASSUME FragmentInv, LaidFragments, InRun, reader.error = "OK", failure = "none", ReaderOK, opened,
         UNCHANGED <<file, mdat, output>>, NEW m, NEW b, NEW p \in Seq(Trafs), (moof.trafs)' = p,
         Seeks(p, m, b), found_moov', ~found_moof', ~found_mdat', SeekRun(p)
  PROVE  FragmentInv' /\ reader'.offset >= reader.offset
<1>1. CASE /\ Done(p) /\ reader' = SkippedTo(mdat_end) /\ UNCHANGED failure
           /\ Go(IF pc = "first_run" THEN "first_root" ELSE "next_root")
  <2>1. UNCHANGED <<file, mdat, output, failure>>
    BY <1>1
  <2> QED BY <2>1, <1>1, SeekDone
<1>2. ASSUME NEW n \in DOMAIN p, IsNext(p, n), traf_index' = n, LeadsTo(Current(p[n]).data_offset)
      PROVE  FragmentInv' /\ reader'.offset >= reader.offset
  BY <1>2, SeekNext
<1>3. \/ /\ Done(p) /\ reader' = SkippedTo(mdat_end) /\ UNCHANGED failure
         /\ Go(IF pc = "first_run" THEN "first_root" ELSE "next_root")
      \/ \E n \in DOMAIN p : /\ IsNext(p, n) /\ traf_index' = n
                             /\ LeadsTo(Current(p[n]).data_offset)
  BY SeekFinds
<1> QED BY <1>1, <1>2, <1>3

(* A run of a part of a fragment. *)
PartHere(T, F, d) ==
  /\ FileTraf(F, file.samples[F.track]) /\ RunsOf(T, F) /\ CountOf(T, F, d[F.track])
  /\ HasRun(T) => /\ FileRun(F, file.samples[F.track], T.run_index)
                  /\ T.run_index \in DOMAIN F.runs /\ T.run_index \in DOMAIN T.runs
                  /\ Current(T) \in Runs /\ Current(T).sample_count \in Nat \ {0}
                  /\ Current(T).sample_count = F.runs[T.run_index].count
                  /\ Current(T).sample_size \in {<<>>, F.runs[T.run_index].sizes}

LEMMA PartIs ==
  ASSUME LaidFragments, NEW m, NEW b, DataOf(file, m, b), NEW p \in Seq(Trafs), NEW d, NEW x,
         CountsOf(p, m, d, x), NEW k \in DOMAIN p
  PROVE  k \in DOMAIN m.trafs /\ PartHere(p[k], m.trafs[k], d)
<1> DEFINE F == m.trafs[k]  T == p[k]  s == file.samples[F.track]  i == T.run_index
<1>1. file \in Files /\ SamplesTyped(file) /\ m \in file.boxes
  BY FragmentIs DEF DataOf
<1>2. Len(p) <= Len(m.trafs) /\ RunsOf(T, F) /\ CountOf(T, F, d[F.track])
  BY DEF CountsOf
<1>3. k \in DOMAIN m.trafs
  <2> DEFINE u == Len(p)  v == Len(m.trafs)
  <2>1. u \in Nat /\ DOMAIN p = 1..u /\ u <= v /\ v \in Nat /\ DOMAIN m.trafs = 1..v
    BY <1>1, <1>2, TrafFacts, TrafsOfFile
  <2> HIDE DEF u, v
  <2> QED BY <2>1
<1>4. FileTraf(F, s)
  BY <1>1, <1>3, TrafsOfFile
<1>5. ASSUME HasRun(T)
      PROVE  /\ FileRun(F, s, i) /\ i \in DOMAIN F.runs /\ i \in DOMAIN T.runs
             /\ Current(T) \in Runs /\ Current(T).sample_count \in Nat \ {0}
             /\ Current(T).sample_count = F.runs[i].count
             /\ Current(T).sample_size \in {<<>>, F.runs[i].sizes}
  <2>1. i \in DOMAIN T.runs
    BY <1>5 DEF HasRun
  <2>2. Len(T.runs) \in Nat /\ DOMAIN T.runs = 1..Len(T.runs) /\ \A j \in 1..Len(T.runs) : T.runs[j] \in Runs
    <3>1. k \in 1..Len(p)
      BY TrafFacts
    <3> QED BY <3>1, TrafFacts
  <2>3. Len(F.runs) \in Nat /\ DOMAIN F.runs = 1..Len(F.runs) /\ Len(T.runs) <= Len(F.runs)
    BY <1>2, <1>4 DEF FileTraf, RunsOf
  <2>4. i \in DOMAIN F.runs
    <3> DEFINE u == Len(T.runs)  v == Len(F.runs)
    <3>1. u \in Nat /\ v \in Nat /\ u <= v /\ DOMAIN F.runs = 1..v /\ i \in 1..u
      BY <2>1, <2>2, <2>3
    <3> HIDE DEF u, v, i
    <3> QED BY <3>1
  <2>5. FileRun(F, s, i)
    BY <2>4, <1>1, <1>3, FragmentTraf
  <2>6. F.runs[i].count \in Nat \ {0}
    BY Zenon, <2>5 DEF FileRun
  <2>7. T.runs[i].sample_count = F.runs[i].count /\ T.runs[i].sample_size \in {<<>>, F.runs[i].sizes}
    BY <2>1, <1>2 DEF RunsOf
  <2>8. Current(T) = T.runs[i] /\ T.runs[i] \in Runs
    BY <2>1, <2>2 DEF Current
  <2> QED BY Zenon, <2>1, <2>4, <2>5, <2>6, <2>7, <2>8
<1> QED BY <1>2, <1>3, <1>4, <1>5 DEF PartHere

(* Of several track fragments, of none of which a sample has been read, one *)
(* may be begun.                                                           *)
LEMMA NoneRead ==
  ASSUME NEW p \in Seq(Trafs), NEW m, NEW d, CountsOf(p, m, d, 0), NEW n
  PROVE  CountsOf(p, m, d, n)
<1>1. \A k \in DOMAIN p : k # 0
  <2> DEFINE l == Len(p)
  <2>1. DOMAIN p = 1..l /\ l \in Nat
    BY TrafFacts
  <2> HIDE DEF l
  <2> QED BY <2>1
<1> QED BY <1>1 DEF CountsOf

(* next_run() in a part of a fragment, for which memory was short. *)
LEMMA SeekPart ==
  ASSUME FragmentInv, LaidFragments, InRun, reader.error = "OK", ReaderOK, opened,
         UNCHANGED <<file, found, moof, mdat, output>>, moof.trafs \in Seq(Trafs),
         NEW m \in file.boxes, InPart(m), SeekRun(moof.trafs)
  PROVE  FragmentInv' /\ reader'.offset >= reader.offset
<1> DEFINE p == moof.trafs
<1>1. /\ failure = "unread" /\ ~found_mdat /\ mdat_end \in Nat /\ mdat_end < reader.offset
      /\ CountsOf(p, m, delivered, 0) /\ \E b \in file.boxes : DataOf(file, m, b)
  BY DEF InPart, InRun
<1>2. PICK b \in file.boxes : DataOf(file, m, b)
  BY <1>1
<1>3. /\ SamplesInv /\ ReaderIn /\ reader.offset \in Nat /\ result = "OK" /\ file.end \in Nat
      /\ reader.offset <= file.end
  BY FragmentFacts DEF InRun, ReaderIn
<1>4. p \in Seq(Trafs) /\ SeekRun(p) /\ (moof.trafs)' = p
  OBVIOUS
<1>5. /\ file' = file /\ delivered' = delivered /\ mdat_end' = mdat_end /\ found_mdat' = found_mdat
  BY DEF found, mdat, output
<1>6. CASE /\ reader' = SkippedTo(mdat_end) /\ UNCHANGED failure
           /\ Go(IF pc = "first_run" THEN "first_root" ELSE "next_root")
  <2>1. ~(mdat_end >= reader.offset)
    BY <1>1, <1>3
  <2>2. reader' = [offset |-> file.end, error |-> "XE_EOF"]
    BY <2>1, <1>6 DEF SkippedTo
  <2>3. ReaderIn' /\ reader'.offset >= reader.offset /\ reader'.error # "OK"
    BY <2>2, <1>3, <1>5 DEF ReaderIn, ReaderErrors
  <2>4. pc' \in {"first_root", "next_root"} /\ result' = "OK" /\ failure' = "unread"
    BY <1>1, <1>3, <1>6 DEF Go
  <2>5. /\ opened' \/ pc' # "idle"
        /\ pc' \notin {"sample", "hung", "fragment", "check", "take"}
        /\ (failure' = "none" /\ reader'.error = "XE_EOF" => AllDelivered')
        /\ failure' \in {"none", "truncated", "unread"} /\ (failure' # "unread" => failure # "unread")
    BY <2>4
  <2> QED BY <2>3, <2>4, <2>5, FragmentErrs
<1>7. ASSUME NEW n \in DOMAIN p, IsNext(p, n), traf_index' = n, LeadsTo(Current(p[n]).data_offset)
      PROVE  FragmentInv' /\ reader'.offset >= reader.offset
  <2> DEFINE o == Current(p[n]).data_offset
  <2> HIDE DEF p
  <2>1. n \in DOMAIN m.trafs /\ PartHere(p[n], m.trafs[n], delivered) /\ HasRun(p[n])
    BY <1>1, <1>2, <1>4, <1>7, PartIs DEF IsNext
  <2>2. Current(p[n]) \in Runs /\ Current(p[n]).sample_count \in Nat \ {0}
    BY <2>1 DEF PartHere
  <2>3. o \in Int /\ LeadsTo(o)
    BY <2>2, <1>7 DEF Runs
  <2> HIDE DEF o
  <2>4. /\ ReaderIn' /\ reader'.offset >= reader.offset
        /\ failure' \in {"none", "truncated", "unread"} /\ (failure' = "unread" <=> failure = "unread")
        /\ \/ pc' \in {"check", "take"} /\ result' = result /\ opened' = opened /\ failure' = failure
              /\ reader'.error = "OK" /\ reader'.offset = o /\ o >= reader.offset
           \/ pc' = "idle" /\ result' = "XE_INVALID_DATA" /\ o < reader.offset
           \/ /\ \E e : Fail(e) /\ e = reader'.error /\ e \in ReaderErrors
              /\ failure' = "none" => o > file.end \/ reader'.error = "XE_EXTERNAL"
    BY <2>3, <1>3, LeadsOn
  <2>5. failure' = "unread"
    BY <2>4, <1>1
  <2>6. Read(p[n]) = 0
    <3>1. n # 0
      <4> DEFINE l == Len(p)
      <4>1. n \in 1..l /\ l \in Nat
        BY <1>4, TrafFacts
      <4> HIDE DEF l
      <4> QED BY <4>1
    <3> QED BY <3>1, <1>1 DEF CountsOf
  <2>7. CASE pc' \in {"check", "take"} /\ result' = result /\ opened' = opened /\ reader'.error = "OK"
    <3>1. TheTraf' = p[n]
      BY <1>4, <1>7 DEF TheTraf
    <3>2. (pc = "take" => Read(TheTraf) < Current(TheTraf).sample_count)'
      <4>1. Read(p[n]) < Current(p[n]).sample_count
        BY <2>2, <2>6
      <4> QED BY <4>1, <3>1
    <3>3. CountsOf(p, m, delivered, n)
      BY <1>1, <1>4, NoneRead
    <3>4. CountsOf((moof.trafs)', m, delivered', traf_index')
      BY <3>3, <1>4, <1>5, <1>7
    <3>5. mdat_end' < reader'.offset
      <4>1. reader'.offset \in Nat
        BY <2>4 DEF ReaderIn
      <4> QED BY <4>1, <2>4, <1>1, <1>3, <1>5
    <3>6. m \in file'.boxes /\ \E c \in file'.boxes : DataOf(file', m, c)
      BY <1>2, <1>5
    <3>7. InPart(m)'
      BY <2>5, <2>7, <3>2, <3>4, <3>5, <3>6, <1>1, <1>5 DEF InPart
    <3>8. FragmentGoesOn'
      BY <3>6, <3>7 DEF FragmentGoesOn
    <3>9. /\ opened' \/ pc' # "idle"
          /\ pc' \notin {"sample", "hung"} /\ result' = "OK"
          /\ failure' \in {"none", "truncated", "unread"} /\ (failure' # "unread" => failure # "unread")
      BY <2>5, <2>7, <1>3
    <3>10. FragmentInv'
      BY <3>8, <3>9, <2>4, <2>7, FragmentGoes
    <3> QED BY <3>10, <2>4
  <2>8. CASE pc' = "idle" /\ result' = "XE_INVALID_DATA"
    <3>1. EndInv'
      BY <2>5 DEF EndInv, EndIsTheEnd
    <3>2. /\ result' # "OK" /\ pc' = "idle"
          /\ failure' \in {"none", "truncated", "unread"} /\ (failure' # "unread" => failure # "unread")
      BY <2>5, <2>8
    <3>3. FragmentInv'
      BY <3>1, <3>2, <2>4, FragmentEnds
    <3> QED BY <3>3, <2>4
  <2>9. ASSUME NEW e, Fail(e), e = reader'.error, e \in ReaderErrors
        PROVE  FragmentInv'
    <3>1. /\ failure' = "none" /\ reader'.error = "XE_EOF" => AllDelivered'
          /\ failure' \in {"none", "truncated", "unread"} /\ (failure' # "unread" => failure # "unread")
      BY <2>5
    <3> QED BY <3>1, <2>4, <2>9, FragmentFails
  <2> QED BY <2>4, <2>7, <2>8, <2>9
<1>8. \/ /\ Done(p) /\ reader' = SkippedTo(mdat_end) /\ UNCHANGED failure
         /\ Go(IF pc = "first_run" THEN "first_root" ELSE "next_root")
      \/ \E n \in DOMAIN p : /\ IsNext(p, n) /\ traf_index' = n
                             /\ LeadsTo(Current(p[n]).data_offset)
  <2> HIDE DEF p
  <2> QED BY <1>4, SeekFinds
<1> QED BY <1>6, <1>7, <1>8

(* What next_run() is called for. *)
LEMMA RunCalls ==
  ASSUME TablesInv, FragmentInv, LaidFragments, InRun, reader.error = "OK"
  PROVE  /\ ReaderOK /\ FragmentOK /\ moof.trafs \in Seq(Trafs) /\ opened
         /\ \/ failure = "none" /\ \E m, b \in file.boxes : AtData(m, b) \/ AfterRun(m, b)
            \/ \E m \in file.boxes : InPart(m)
<1>1. ReaderOK /\ FragmentOK /\ opened /\ moof.trafs \in Seq(Trafs)
  BY DEF TablesInv, PacketInv, InRun, FragmentOK
<1>2. pc \in {"first_run", "next_run"} /\ FragmentGoesOn
  BY FragmentFacts DEF InRun
<1>3. ~Walking /\ \A m, b : ~InFront(m, b) /\ ~InRuns(m, b)
  BY <1>2 DEF Walking, InRoot, InFront, InRuns
<1> QED BY <1>1, <1>2, <1>3 DEF FragmentGoesOn

LEMMA FragmentNew ==
  ASSUME TablesInv, FragmentInv, LaidFragments, NewMoof
  PROVE  FragmentInv' /\ Forward
<1>1. /\ InRun /\ reader.error = "OK" /\ found_moof /\ found_mdat /\ ~found_moof' /\ ~found_mdat'
      /\ UNCHANGED <<file, found_moov, mdat, output>>
  BY DEF NewMoof
<1>2. ReaderOK /\ FragmentOK /\ opened
  BY <1>1, RunCalls
<1>3. failure = "none" /\ \E m, b \in file.boxes : AtData(m, b)
  <2>1. \A m, b : ~AfterRun(m, b)
    BY <1>1 DEF AfterRun
  <2>2. \A m : ~InPart(m)
    BY <1>1 DEF InPart
  <2> QED BY <2>1, <2>2, <1>1, RunCalls
<1>4. PICK m \in file.boxes, b \in file.boxes : AtData(m, b)
  BY <1>3
<1>5. /\ DataOf(file, m, b) /\ Loaded(m) /\ InBox(b) /\ reader.offset = mdat_start /\ found_moov
      /\ file \in Files /\ SamplesTyped(file) /\ BoxesLaid(file)
  BY <1>4, FragmentIs DEF AtData, Loaded
<1>6. /\ Placed \in Seq(Trafs) /\ RunsIn(Placed, m, b, 0) /\ RunsBehind(Placed, mdat_start, 0)
      /\ \A k \in DOMAIN Placed : \A j \in DOMAIN Placed[k].runs : InData(Placed[k].runs[j])
  BY <1>5, PlacedIs
<1>7. PICK p : p = Placed
  OBVIOUS
<1>8. moof' = [moof EXCEPT !.trafs = p] /\ SeekRun(p)
  <2> HIDE DEF Placed, SeekRun, InData
  <2> QED BY Zenon, <1>6, <1>7 DEF NewMoof
<1>9. (moof.trafs)' = p
  <2>1. moof' = [start |-> moof.start, trafs |-> p]
    BY <1>2, <1>8 DEF FragmentOK
  <2> QED BY <2>1
<1>10. Seeks(p, m, b)
  <2>1. mdat_start = b.start + HEADER /\ b.start \in Nat /\ b.start + HEADER <= b.end
    BY <1>5, BoxFacts DEF InBox
  <2>2. mdat_start <= reader.offset
    BY <2>1, <1>5 DEF HEADER
  <2>3. RunsIn(p, m, b, 0) /\ RunsBehind(p, reader.offset, 0)
    BY <1>5, <1>6, <1>7
  <2>4. reader.offset <= b.end
    BY <2>1, <1>5
  <2> QED BY <2>2, <2>3, <2>4 DEF Seeks
<1>11. p \in Seq(Trafs) /\ found_moov'
  BY <1>1, <1>5, <1>6, <1>7
<1>12. FragmentInv' /\ reader'.offset >= reader.offset
  BY <1>1, <1>2, <1>3, <1>8, <1>9, <1>10, <1>11, SeekWhole
<1> QED BY <1>12 DEF Forward

LEMMA FragmentSameMoof ==
  ASSUME TablesInv, FragmentInv, LaidFragments, SameMoof
  PROVE  FragmentInv' /\ Forward
<1>1. /\ InRun /\ reader.error = "OK" /\ ~(found_moof /\ found_mdat) /\ SeekRun(moof.trafs)
      /\ UNCHANGED <<file, found, moof, mdat, output>>
  BY DEF SameMoof
<1>2. ReaderOK /\ FragmentOK /\ opened /\ moof.trafs \in Seq(Trafs)
  BY <1>1, RunCalls
<1>3. \/ failure = "none" /\ \E m, b \in file.boxes : AfterRun(m, b)
      \/ \E m \in file.boxes : InPart(m)
  <2>1. \A m, b : ~AtData(m, b)
    BY <1>1 DEF AtData, Loaded
  <2> QED BY <2>1, <1>1, RunCalls
<1>4. ASSUME failure = "none", NEW m, NEW b, AfterRun(m, b)
      PROVE  FragmentInv' /\ reader'.offset >= reader.offset
  <2> DEFINE p == moof.trafs
  <2>1. /\ p \in Seq(Trafs) /\ SeekRun(p) /\ (moof.trafs)' = p /\ Seeks(p, m, b)
        /\ found_moov' /\ ~found_moof' /\ ~found_mdat'
    BY <1>1, <1>2, <1>4 DEF AfterRun, found
  <2> HIDE DEF p
  <2> QED BY <2>1, <1>1, <1>2, <1>4, SeekWhole
<1>5. ASSUME NEW m \in file.boxes, InPart(m)
      PROVE  FragmentInv' /\ reader'.offset >= reader.offset
  BY <1>1, <1>2, <1>5, SeekPart
<1>6. FragmentInv' /\ reader'.offset >= reader.offset
  BY <1>3, <1>4, <1>5
<1> QED BY <1>6 DEF Forward

-----------------------------------------------------------------------------
(* A step in one of the track fragments *)

(* q is p but for U in the place of the n-th. *)
Replaced(p, q, n, U) ==
  /\ q \in Seq(Trafs) /\ Len(q) = Len(p) /\ DOMAIN q = DOMAIN p /\ n \in DOMAIN p
  /\ q[n] = U /\ \A k \in DOMAIN p : k # n => q[k] = p[k]

LEMMA MoofReplaced ==
  ASSUME FragmentOK, RunOK, NEW U \in Trafs, moof' = [moof EXCEPT !.trafs[traf_index] = U]
  PROVE  Replaced(moof.trafs, (moof.trafs)', traf_index, U)
<1> DEFINE p == moof.trafs  n == traf_index  q == [p EXCEPT ![n] = U]
<1>1. p \in Seq(Trafs) /\ n \in DOMAIN p
  BY DEF FragmentOK, RunOK
<1>2. PICK g : g = q
  OBVIOUS
<1>3. moof' = [start |-> moof.start, trafs |-> g]
  BY <1>2 DEF FragmentOK
<1>4. q \in Seq(Trafs) /\ Len(q) = Len(p) /\ q[n] = U /\ \A k \in 1..Len(p) : k # n => q[k] = p[k]
  <2>1. n \in 1..Len(p)
    BY <1>1, TrafFacts
  <2> QED BY <1>1, <2>1, ExceptSeq
<1>5. DOMAIN q = DOMAIN p /\ DOMAIN p = 1..Len(p)
  BY <1>1, TrafFacts
<1> HIDE DEF p, q
<1>6. Replaced(p, g, n, U)
  BY <1>1, <1>2, <1>4, <1>5 DEF Replaced
<1>7. (moof.trafs)' = g
  BY <1>3
<1> QED BY <1>6, <1>7 DEF p

(* The fragments of the tracks that are left alone. *)
LEMMA OthersCounted ==
  ASSUME NEW p, NEW q, NEW n, NEW U, Replaced(p, q, n, U), NEW m, NEW d, NEW e, NEW x,
         CountsOf(p, m, d, n), RunsOf(U, m.trafs[n]), CountOf(U, m.trafs[n], e[m.trafs[n].track]),
         x = n \/ Read(U) = 0,
         \A k \in DOMAIN p : k # n => e[m.trafs[k].track] = d[m.trafs[k].track]
  PROVE  CountsOf(q, m, e, x)
<1>1. Len(q) <= Len(m.trafs)
  BY DEF Replaced, CountsOf
<1>2. ASSUME NEW k \in DOMAIN q
      PROVE  /\ RunsOf(q[k], m.trafs[k]) /\ CountOf(q[k], m.trafs[k], e[m.trafs[k].track])
             /\ k # x => Read(q[k]) = 0
  <2>1. CASE k = n
    <3>1. q[k] = U
      BY <2>1 DEF Replaced
    <3> QED BY <2>1, <3>1
  <2>2. CASE k # n
    <3>1. q[k] = p[k] /\ k \in DOMAIN p
      BY <2>2 DEF Replaced
    <3>2. RunsOf(p[k], m.trafs[k]) /\ CountOf(p[k], m.trafs[k], d[m.trafs[k].track]) /\ Read(p[k]) = 0
      BY <2>2, <3>1 DEF CountsOf
    <3>3. e[m.trafs[k].track] = d[m.trafs[k].track]
      BY <2>2, <3>1
    <3> QED BY <3>1, <3>2, <3>3
  <2> QED BY <2>1, <2>2
<1> QED BY <1>1, <1>2 DEF CountsOf

(* A run that has been read is left behind. *)
Ended(T) == [T EXCEPT !.run_index = @ + 1]

LEMMA EndedIs ==
  ASSUME NEW T \in Trafs
  PROVE  /\ Ended(T) \in Trafs /\ Ended(T).track = T.track /\ Ended(T).run_index = T.run_index + 1
         /\ Ended(T).runs = T.runs /\ Ended(T).start_time = T.start_time
         /\ Ended(T).default_sample_size = T.default_sample_size
         /\ Ended(T).default_sample_duration = T.default_sample_duration
<1>1. T.run_index + 1 \in Nat \ {0}
  BY DEF Trafs
<1> QED BY <1>1 DEF Ended, Trafs

LEMMA RunOver ==
  ASSUME NEW T \in Trafs, NEW F, NEW d, PartHere(T, F, d), HasRun(T), Read(T) >= Current(T).sample_count
  PROVE  RunsOf(Ended(T), F) /\ CountOf(Ended(T), F, d[F.track]) /\ Read(Ended(T)) = 0
<1> DEFINE U == Ended(T)  i == T.run_index  c == Current(T).sample_count  r == Read(T)  w == d[F.track]
           l == Len(T.runs)
<1>1. /\ RunsOf(T, F) /\ CountOf(T, F, w) /\ FileRun(F, file.samples[F.track], i)
      /\ c = F.runs[i].count /\ c \in Nat \ {0} /\ i \in DOMAIN T.runs /\ Current(T) \in Runs
  BY DEF PartHere
<1>2. U.track = T.track /\ U.run_index = i + 1 /\ U.runs = T.runs
  BY EndedIs
<1>3. i \in Nat \ {0} /\ T.runs \in Seq(Runs) /\ l \in Nat /\ DOMAIN T.runs = 1..l
  BY DEF Trafs
<1> DEFINE x == F.before[i]  y == F.before[i + 1]  z == F.runs[i].count
<1>4. x \in Nat /\ y \in Nat /\ y = x + z
  BY Zenon, <1>1 DEF FileRun
<1>5. r = Current(T).current_sample /\ r \in Nat
  BY <1>1 DEF Read, Runs
<1>6. w = x + r /\ r <= c /\ r >= c
  BY <1>1 DEF CountOf
<1>7. w = y
  <2>1. r = z
    <3>1. z = c /\ c \in Nat /\ r <= c /\ r >= c /\ r \in Nat
      BY <1>1, <1>5, <1>6
    <3> HIDE DEF r, c, z
    <3> QED BY <3>1
  <2> HIDE DEF w, x, y, z, r
  <2> QED BY <1>4, <1>6, <2>1
<1>8. RunsOf(U, F)
  <2>1. i + 1 \in 1..l + 1
    <3> HIDE DEF i, l
    <3> QED BY <1>1, <1>3
  <2>2. ASSUME NEW j \in DOMAIN T.runs, j > i + 1 PROVE T.runs[j].current_sample = 0
    <3>1. j > i
      <4> HIDE DEF i, l
      <4> QED BY <1>3, <2>2
    <3> QED BY <1>1, <3>1 DEF RunsOf
  <2>3. /\ T.track = F.track /\ l <= Len(F.runs)
        /\ \A j \in DOMAIN T.runs : T.runs[j].sample_count = F.runs[j].count
                                    /\ T.runs[j].sample_size \in {<<>>, F.runs[j].sizes}
    BY <1>1 DEF RunsOf
  <2> HIDE DEF U, i
  <2> QED BY <1>2, <2>1, <2>2, <2>3 DEF RunsOf
<1>9. Read(U) = 0
  <2>1. CASE ~HasRun(U)
    BY <2>1 DEF Read
  <2>2. CASE HasRun(U)
    <3>1. i + 1 \in DOMAIN T.runs /\ Current(U) = T.runs[i + 1]
      BY <1>2, <2>2 DEF HasRun, Current
    <3>2. i + 1 > i
      <4> HIDE DEF i
      <4> QED BY <1>3
    <3>3. T.runs[i + 1].current_sample = 0
      BY <1>1, <3>1, <3>2 DEF RunsOf
    <3> QED BY <2>2, <3>1, <3>3 DEF Read
  <2> QED BY <2>1, <2>2
<1>10. CountOf(U, F, w)
  <2>1. w = F.before[U.run_index] + Read(U)
    <3>1. F.before[U.run_index] = y
      BY <1>2
    <3> HIDE DEF w, y, U
    <3> QED BY <1>4, <1>7, <1>9, <3>1
  <2>2. HasRun(U) => Read(U) <= Current(U).sample_count
    <3> SUFFICES ASSUME HasRun(U) PROVE 0 <= Current(U).sample_count
      BY <1>9
    <3>1. U.run_index \in DOMAIN U.runs
      BY DEF HasRun
    <3>2. Current(U) \in Runs
      <4>1. i + 1 \in 1..l
        BY <1>2, <1>3, <3>1
      <4>2. T.runs[i + 1] \in Runs
        <5> DEFINE j == i + 1  g == T.runs
        <5> HIDE DEF j, g
        <5>1. g \in Seq(Runs) /\ j \in 1..Len(g)
          BY <1>3, <4>1 DEF g, j
        <5>2. g[j] \in Runs
          BY <5>1, ElementOfSeq
        <5> QED BY <5>2 DEF g, j
      <4> QED BY <1>2, <4>2 DEF Current
    <3> QED BY <3>2 DEF Runs
  <2> HIDE DEF w
  <2> QED BY <2>1, <2>2 DEF CountOf
<1> QED BY <1>8, <1>9, <1>10

LEMMA EndedFragment ==
  ASSUME NEW p, NEW q, NEW n, NEW U, Replaced(p, q, n, U), NEW m, NEW d, NEW f,
         FragmentOf(p, f, m, d), U.runs = p[n].runs, U.start_time = p[n].start_time,
         U.default_sample_size = p[n].default_sample_size,
         U.default_sample_duration = p[n].default_sample_duration
  PROVE  FragmentOf(q, f, m, d)
<1>1. TrafOf(U, f, m.trafs[n])
  <2>1. TrafOf(p[n], f, m.trafs[n])
    BY DEF FragmentOf, Replaced
  <2> QED BY <2>1 DEF TrafOf
<1>2. ASSUME NEW k \in DOMAIN q PROVE TrafOf(q[k], f, m.trafs[k])
  <2>1. k \in DOMAIN p /\ (k = n => q[k] = U) /\ (k # n => q[k] = p[k])
    BY DEF Replaced
  <2> QED BY <1>1, <2>1 DEF FragmentOf
<1> QED BY <1>2 DEF FragmentOf, Replaced

(* The run of a track fragment is read up to its next sample. *)
CountedUp(r) == [r EXCEPT !.current_sample = r.current_sample + 1]
Taken(T) == [T EXCEPT !.runs = [T.runs EXCEPT ![T.run_index] = CountedUp(Current(T))]]

TakenIs(U, T) ==
  /\ U \in Trafs /\ U.track = T.track /\ U.run_index = T.run_index /\ HasRun(U)
  /\ U.start_time = T.start_time /\ U.default_sample_size = T.default_sample_size
  /\ U.default_sample_duration = T.default_sample_duration
  /\ Len(U.runs) = Len(T.runs) /\ DOMAIN U.runs = DOMAIN T.runs
  /\ \A j \in DOMAIN T.runs :
       /\ U.runs[j].sample_count = T.runs[j].sample_count
       /\ U.runs[j].sample_size = T.runs[j].sample_size
       /\ U.runs[j].sample_duration = T.runs[j].sample_duration
       /\ U.runs[j].data_offset = T.runs[j].data_offset
       /\ j # T.run_index => U.runs[j].current_sample = T.runs[j].current_sample
  /\ Read(U) = Read(T) + 1

LEMMA CountedIs ==
  ASSUME NEW r \in Runs
  PROVE  /\ CountedUp(r) \in Runs /\ CountedUp(r).current_sample = r.current_sample + 1
         /\ CountedUp(r).sample_count = r.sample_count /\ CountedUp(r).sample_size = r.sample_size
         /\ CountedUp(r).sample_duration = r.sample_duration /\ CountedUp(r).data_offset = r.data_offset
<1>1. CountedUp(r) \in Runs
  BY RunCounted DEF CountedUp
<1> DEFINE n == r.current_sample + 1
<1>2. DOMAIN r = {"data_offset", "total_sample_size", "sample_count", "sample_duration",
                  "sample_size", "current_sample"}
  BY DEF Runs
<1>3. CountedUp(r) = [r EXCEPT !.current_sample = n]
  BY DEF CountedUp
<1> HIDE DEF n
<1>4. /\ CountedUp(r).current_sample = n
      /\ CountedUp(r).sample_count = r.sample_count /\ CountedUp(r).sample_size = r.sample_size
      /\ CountedUp(r).sample_duration = r.sample_duration /\ CountedUp(r).data_offset = r.data_offset
  BY <1>2, <1>3
<1> QED BY <1>1, <1>4 DEF n

LEMMA TrafTaken ==
  ASSUME NEW T \in Trafs, HasRun(T)
  PROVE  TakenIs(Taken(T), T)
<1> DEFINE i == T.run_index  r == CountedUp(Current(T))  s == [T.runs EXCEPT ![i] = r]  U == Taken(T)
           l == Len(T.runs)
<1>1. T.runs \in Seq(Runs) /\ l \in Nat /\ DOMAIN T.runs = 1..l /\ i \in DOMAIN T.runs
  BY DEF Trafs, HasRun
<1>2. Current(T) \in Runs
  <2>1. T.runs \in Seq(Runs) /\ i \in 1..Len(T.runs)
    BY <1>1
  <2> DEFINE g == T.runs
  <2> HIDE DEF g, i
  <2>2. g[i] \in Runs
    BY <2>1, ElementOfSeq DEF g
  <2> QED BY <2>2 DEF Current, g, i
<1>3. /\ r \in Runs /\ r.current_sample = Current(T).current_sample + 1
      /\ r.sample_count = Current(T).sample_count /\ r.sample_size = Current(T).sample_size
      /\ r.sample_duration = Current(T).sample_duration /\ r.data_offset = Current(T).data_offset
  BY <1>2, CountedIs
<1> HIDE DEF r
<1>4. s \in Seq(Runs) /\ Len(s) = l /\ s[i] = r /\ \A j \in 1..l : j # i => s[j] = T.runs[j]
  <2>1. i \in 1..Len(T.runs)
    BY <1>1
  <2> HIDE DEF i
  <2> QED BY <1>1, <1>3, <2>1, ExceptSeq
<1>5. U = [T EXCEPT !.runs = s]
  BY DEF Taken, r
<1> HIDE DEF s, U
<1>6. U \in Trafs /\ U.runs = s
  BY <1>4, <1>5, OtherRuns
<1>7. /\ U.track = T.track /\ U.run_index = T.run_index /\ U.start_time = T.start_time
      /\ U.default_sample_size = T.default_sample_size
      /\ U.default_sample_duration = T.default_sample_duration
  BY <1>5 DEF Trafs
<1>8. DOMAIN s = DOMAIN T.runs
  BY <1>1, <1>4
<1>9. HasRun(U) /\ Current(U) = r
  BY <1>1, <1>4, <1>6, <1>7, <1>8 DEF HasRun, Current
<1>10. Read(U) = Read(T) + 1
  BY <1>3, <1>9 DEF Read
<1>11. ASSUME NEW j \in DOMAIN T.runs
       PROVE  /\ U.runs[j].sample_count = T.runs[j].sample_count
              /\ U.runs[j].sample_size = T.runs[j].sample_size
              /\ U.runs[j].sample_duration = T.runs[j].sample_duration
              /\ U.runs[j].data_offset = T.runs[j].data_offset
              /\ j # i => U.runs[j].current_sample = T.runs[j].current_sample
  <2>1. CASE j = i
    <3>1. U.runs[j] = r /\ T.runs[j] = Current(T)
      BY <1>4, <1>6, <2>1 DEF Current
    <3> QED BY <1>3, <2>1, <3>1
  <2>2. CASE j # i
    <3>1. U.runs[j] = T.runs[j]
      BY <1>1, <1>4, <1>6, <2>2
    <3> QED BY <3>1
  <2> QED BY <2>1, <2>2
<1>12. TakenIs(U, T)
  BY <1>4, <1>6, <1>7, <1>8, <1>9, <1>10, <1>11 DEF TakenIs
<1> QED BY <1>12 DEF U

LEMMA TakenCounts ==
  ASSUME NEW T, NEW U, TakenIs(U, T), NEW F, NEW v \in Nat, RunsOf(T, F), CountOf(T, F, v),
         Read(T) \in Nat, Current(T).sample_count \in Nat, F.before[T.run_index] \in Nat,
         Read(T) < Current(T).sample_count
  PROVE  RunsOf(U, F) /\ CountOf(U, F, v + 1)
<1> DEFINE i == T.run_index  x == F.before[i]  c == Current(T).sample_count  r == Read(T)
<1>1. RunsOf(U, F)
  <2>1. /\ U.track = F.track /\ U.run_index \in 1..Len(U.runs) + 1 /\ Len(U.runs) <= Len(F.runs)
    BY DEF TakenIs, RunsOf
  <2>2. ASSUME NEW j \in DOMAIN U.runs
        PROVE  /\ U.runs[j].sample_count = F.runs[j].count
               /\ U.runs[j].sample_size \in {<<>>, F.runs[j].sizes}
    <3>1. j \in DOMAIN T.runs
      BY DEF TakenIs
    <3> QED BY <3>1 DEF TakenIs, RunsOf
  <2>3. ASSUME NEW j \in DOMAIN U.runs, j > U.run_index, U.run_index \in Int
        PROVE  U.runs[j].current_sample = 0
    <3>1. j \in DOMAIN T.runs /\ U.run_index = i
      BY DEF TakenIs
    <3>2. j # i
      <4> HIDE DEF i
      <4> QED BY <2>3, <3>1
    <3>3. U.runs[j].current_sample = T.runs[j].current_sample
      BY <3>1, <3>2 DEF TakenIs
    <3>4. j > i
      BY <2>3, <3>1
    <3> QED BY <3>1, <3>3, <3>4 DEF RunsOf
  <2>4. U.run_index \in Int
    BY DEF TakenIs, Trafs
  <2> QED BY <2>1, <2>2, <2>3, <2>4 DEF RunsOf
<1>2. U.run_index = i /\ Read(U) = r + 1 /\ HasRun(U) /\ Current(U).sample_count = c
  <2>1. U.run_index = i /\ Read(U) = r + 1 /\ HasRun(U) /\ i \in DOMAIN T.runs
    BY DEF TakenIs, HasRun
  <2>2. U.runs[i].sample_count = T.runs[i].sample_count
    BY <2>1 DEF TakenIs
  <2> QED BY <2>1, <2>2 DEF Current
<1>3. v = x + r /\ r \in Nat /\ x \in Nat /\ c \in Nat /\ r < c
  BY DEF CountOf
<1>4. F.before[U.run_index] = x
  BY <1>2
<1> HIDE DEF r, x, c
<1>5. v + 1 = F.before[U.run_index] + Read(U) /\ Read(U) <= Current(U).sample_count
  BY <1>2, <1>3, <1>4
<1> QED BY <1>1, <1>5 DEF CountOf

-----------------------------------------------------------------------------
(* The end of a run *)

LEMMA SeeksOn ==
  ASSUME LaidFragments, NEW m, NEW b, NEW p \in Seq(Trafs), NEW n \in DOMAIN p, RunsIn(p, m, b, n),
         HasRun(p[n]), Read(p[n]) >= Current(p[n]).sample_count,
         reader.offset = NextAt(p[n], file, m.trafs[n]),
         RunsBehind(p, RunEnd(file, m.trafs[n], p[n].run_index), n),
         NEW q, Replaced(p, q, n, Ended(p[n]))
  PROVE  Seeks(q, m, b)
<1> DEFINE T == p[n]  F == m.trafs[n]  i == T.run_index  U == Ended(T)  z == 0
           u == RunAt(file, F, i)  v == RunEnd(file, F, i)
<1>1. /\ DataOf(file, m, b) /\ InBox(b) /\ CountsOf(p, m, delivered, n)
      /\ FragmentOf(p, file, m, delivered) /\ file \in Files /\ SamplesTyped(file) /\ BoxesLaid(file)
  BY FragmentIs DEF RunsIn
<1>2. n \in DOMAIN m.trafs /\ PartHere(T, F, delivered) /\ TrafHere(T, F)
  BY <1>1, PartIs, RunIs
<1>3. T \in Trafs
  <2>1. n \in 1..Len(p)
    BY TrafFacts
  <2> QED BY <2>1, TrafFacts
<1>4. /\ Current(T) \in Runs /\ Current(T).sample_count \in Nat \ {0} /\ i \in DOMAIN F.runs
      /\ DOMAIN T.runs = DOMAIN F.runs /\ TrafOf(T, file, F)
  BY <1>2 DEF PartHere, TrafHere
<1>5. Read(T) \in Nat
  BY <1>4 DEF Read, Runs
<1>6. /\ u \in Nat /\ v \in Nat /\ u < v /\ b.start + HEADER <= u /\ v <= b.end
      /\ i + 1 \in DOMAIN F.runs => v <= RunAt(file, F, i + 1)
  BY <1>1, <1>2, <1>4, FragmentTraf
<1>7. reader.offset = v
  <2>1. ~(Read(T) < Current(T).sample_count)
    BY <1>4, <1>5
  <2> QED BY <2>1 DEF NextAt
<1>8. /\ U.track = T.track /\ U.run_index = i + 1 /\ U.runs = T.runs /\ U.start_time = T.start_time
      /\ U.default_sample_size = T.default_sample_size
      /\ U.default_sample_duration = T.default_sample_duration
  BY <1>3, EndedIs
<1>9. RunsOf(U, F) /\ CountOf(U, F, delivered[F.track]) /\ Read(U) = 0
  BY <1>2, <1>3, RunOver
<1> HIDE DEF U, z
<1>10. CountsOf(q, m, delivered, z)
  <2>1. Replaced(p, q, n, U)
    BY DEF U
  <2>2. z = n \/ Read(U) = 0
    BY <1>9
  <2>3. \A k \in DOMAIN p : k # n => delivered[m.trafs[k].track] = delivered[m.trafs[k].track]
    OBVIOUS
  <2> QED BY <2>1, <2>2, <2>3, <1>1, <1>9, OthersCounted
<1>11. FragmentOf(q, file, m, delivered)
  <2>1. Replaced(p, q, n, U)
    BY DEF U
  <2> QED BY <2>1, <1>1, <1>8, EndedFragment
<1>12. RunsIn(q, m, b, 0)
  BY <1>1, <1>10, <1>11 DEF RunsIn, z
<1>13. RunsBehind(q, v, 0)
  <2> SUFFICES ASSUME NEW k \in DOMAIN q, HasRun(q[k]) PROVE v <= Current(q[k]).data_offset
    BY DEF RunsBehind
  <2>1. k \in DOMAIN p /\ (k = n => q[k] = U) /\ (k # n => q[k] = p[k])
    BY DEF Replaced, U
  <2>2. CASE k # n
    BY <2>1, <2>2 DEF RunsBehind
  <2>3. CASE k = n
    <3>1. i + 1 \in DOMAIN T.runs /\ Current(q[k]) = T.runs[i + 1]
      BY <1>8, <2>1, <2>3 DEF HasRun, Current
    <3>2. v <= RunAt(file, F, i + 1)
      BY <1>4, <1>6, <3>1
    <3>3. T.runs[i + 1].data_offset = RunAt(file, F, i + 1)
      BY <1>4, <3>1 DEF TrafOf, RunOf
    <3> QED BY <3>1, <3>2, <3>3
  <2> QED BY <2>2, <2>3
<1>14. mdat_start <= v
  <2>1. mdat_start = b.start + HEADER /\ b.start \in Nat
    BY <1>1, FileFacts DEF InBox, DataOf
  <2> DEFINE w == mdat_start
  <2>2. w \in Nat /\ w <= u
    BY <1>6, <2>1 DEF HEADER
  <2> HIDE DEF u, v, w
  <2>3. w <= v
    BY <1>6, <2>2
  <2> QED BY <2>3 DEF w
<1> HIDE DEF v
<1>15. RunsBehind(q, reader.offset, 0) /\ mdat_start <= reader.offset /\ reader.offset <= b.end
  BY <1>6, <1>7, <1>13, <1>14
<1> QED BY <1>12, <1>15 DEF Seeks

LEMMA CheckCases ==
  ASSUME CheckRun, FragmentOK, RunOK
  PROVE  /\ UNCHANGED <<file, reader, found, mdat, traf_index, output, failure, result, opened>>
         /\ \/ /\ Read(TheTraf) >= Current(TheTraf).sample_count /\ pc' = "next_run"
               /\ moof' = [moof EXCEPT !.trafs[traf_index] = Ended(TheTraf)]
            \/ Unread(TheTraf) /\ pc' = "take" /\ UNCHANGED Places3
<1> DEFINE run == TheTraf.runs[TheTraf.run_index]
<1>1. /\ UNCHANGED <<file, reader, found, mdat, movie, traf_index, output, failure>>
      /\ IF run.current_sample >= run.sample_count
           THEN moof' = [moof EXCEPT !.trafs[traf_index].run_index = @ + 1] /\ Go("next_run")
           ELSE Go("take") /\ UNCHANGED moof
  BY Zenon DEF CheckRun
<1>2. Read(TheTraf) = run.current_sample /\ Current(TheTraf) = run /\ run \in Runs
  BY TheTrafFacts DEF RunOK, HasRun, Read, Current
<1>3. CASE run.current_sample >= run.sample_count
  <2>1. moof' = [moof EXCEPT !.trafs[traf_index].run_index = @ + 1] /\ Go("next_run")
    BY <1>1, <1>3
  <2>2. moof' = [moof EXCEPT !.trafs[traf_index] = Ended(TheTraf)]
    BY <2>1 DEF TheTraf, Ended
  <2> QED BY <1>1, <1>2, <1>3, <2>1, <2>2 DEF Go
<1>4. CASE ~(run.current_sample >= run.sample_count)
  <2>1. Go("take") /\ UNCHANGED moof
    BY <1>1, <1>4
  <2>2. Unread(TheTraf)
    <3>1. run.current_sample \in Nat /\ run.sample_count \in Nat
      BY <1>2 DEF Runs
    <3> HIDE DEF run
    <3> QED BY <1>2, <1>4, <3>1 DEF Unread
  <2> HIDE DEF run
  <2> QED BY <1>1, <2>1, <2>2 DEF Go, Places3, output
<1> QED BY <1>3, <1>4

LEMMA FragmentCheck ==
  ASSUME TablesInv, FragmentInv, LaidFragments, CheckRun
  PROVE  FragmentInv' /\ Forward
<1> DEFINE p == moof.trafs  n == traf_index  q == (moof.trafs)'
<1>1. pc = "check" /\ FragmentOK /\ RunOK /\ ReaderOK /\ opened
  BY DEF CheckRun, TablesInv, PacketInv
<1>2. /\ UNCHANGED <<file, reader, found, mdat, traf_index, output, failure, result, opened>>
      /\ \/ /\ Read(TheTraf) >= Current(TheTraf).sample_count /\ pc' = "next_run"
            /\ moof' = [moof EXCEPT !.trafs[traf_index] = Ended(TheTraf)]
         \/ Unread(TheTraf) /\ pc' = "take" /\ UNCHANGED Places3
  BY <1>1, CheckCases
<1>3. /\ result = "OK" /\ reader.error = "OK" /\ FragmentGoesOn /\ ReaderIn
      /\ failure \in {"none", "truncated", "unread"}
  BY <1>1, FragmentFacts
<1>4. ReaderIn' /\ Forward
  BY <1>2, <1>3 DEF ReaderIn, Forward
<1>5. ASSUME FragmentGoesOn', pc' \in {"take", "next_run"} PROVE FragmentInv'
  BY <1>2, <1>3, <1>4, <1>5, FragmentGoes
<1>6. \/ failure = "none" /\ \E m, b \in file.boxes : InRuns(m, b)
      \/ \E m \in file.boxes : InPart(m)
  <2>1. ~Walking /\ \A m, b : ~InFront(m, b) /\ ~AfterRun(m, b) /\ ~AtData(m, b)
    BY <1>1 DEF Walking, InRoot, InFront, AfterRun, AtData
  <2> QED BY <1>3, <2>1 DEF FragmentGoesOn
<1>7. CASE Unread(TheTraf) /\ pc' = "take" /\ UNCHANGED Places3
  <2>1. ASSUME failure = "none", NEW m \in file.boxes, NEW b \in file.boxes, InRuns(m, b)
        PROVE  FragmentInv'
    <3>1. InRuns(m, b)'
      BY <1>1, <1>2, <1>7, <2>1, RunsStay
    <3>2. FragmentGoesOn'
      BY <3>1, <1>2, <2>1 DEF FragmentGoesOn
    <3> QED BY <3>2, <1>5, <1>7
  <2>2. ASSUME NEW m \in file.boxes, InPart(m)
        PROVE  FragmentInv'
    <3>1. InPart(m)'
      BY <1>1, <1>2, <1>7, <2>2, PartStays
    <3>2. FragmentGoesOn'
      BY <3>1, <1>2 DEF FragmentGoesOn
    <3> QED BY <3>2, <1>5, <1>7
  <2> QED BY <1>4, <1>6, <2>1, <2>2
<1>8. CASE /\ Read(TheTraf) >= Current(TheTraf).sample_count /\ pc' = "next_run"
           /\ moof' = [moof EXCEPT !.trafs[traf_index] = Ended(TheTraf)]
  <2>1. /\ p \in Seq(Trafs) /\ n \in DOMAIN p /\ HasRun(p[n]) /\ TheTraf = p[n]
        /\ Read(p[n]) >= Current(p[n]).sample_count
    BY <1>1, <1>8 DEF FragmentOK, RunOK, HasRun, TheTraf
  <2>2. Replaced(p, q, n, Ended(p[n]))
    <3>1. TheTraf \in Trafs /\ Ended(TheTraf) \in Trafs
      BY <1>1, TheTrafFacts, EndedIs
    <3> QED BY <3>1, <2>1, <1>1, <1>8, MoofReplaced
  <2>3. PICK g : g = q
    OBVIOUS
  <2>4. (moof.trafs)' = g /\ Replaced(p, g, n, Ended(p[n]))
    BY <2>2, <2>3
  <2>5. /\ file' = file /\ delivered' = delivered /\ mdat_start' = mdat_start /\ mdat_size' = mdat_size
        /\ mdat_end' = mdat_end /\ reader' = reader /\ failure' = failure
        /\ found_moov' = found_moov /\ found_moof' = found_moof /\ found_mdat' = found_mdat /\ opened'
    BY <1>1, <1>2 DEF output, mdat, found
  <2> HIDE DEF p, n, q
  <2>6. ASSUME failure = "none", NEW m \in file.boxes, NEW b \in file.boxes, InRuns(m, b)
        PROVE  FragmentInv'
    <3>1. /\ RunsIn(p, m, b, n) /\ reader.offset = NextAt(p[n], file, m.trafs[n])
          /\ RunsBehind(p, RunEnd(file, m.trafs[n], p[n].run_index), n)
          /\ found_moov /\ ~found_moof /\ ~found_mdat
      BY <2>1, <2>6 DEF InRuns, p, n
    <3>2. Seeks(g, m, b)
      BY <2>1, <2>4, <3>1, SeeksOn
    <3>3. Seeks(moof.trafs, m, b)'
      BY <2>4, <2>5, <3>2 DEF Seeks, RunsIn, InBox
    <3>4. AfterRun(m, b)'
      BY <1>8, <2>5, <3>1, <3>3 DEF AfterRun
    <3>5. FragmentGoesOn'
      BY <3>4, <2>5, <2>6 DEF FragmentGoesOn
    <3> QED BY <3>5, <1>5, <1>8
  <2>7. ASSUME NEW m \in file.boxes, InPart(m)
        PROVE  FragmentInv'
    <3>1. PICK b \in file.boxes : DataOf(file, m, b)
      BY <2>7 DEF InPart
    <3>2. /\ CountsOf(p, m, delivered, n) /\ failure = "unread" /\ ~found_mdat
          /\ mdat_end \in Nat /\ mdat_end < reader.offset
      BY <2>7, <1>1 DEF InPart, p, n
    <3> DEFINE U == Ended(p[n])  F == m.trafs[n]  z == 0
    <3>3. PartHere(p[n], F, delivered) /\ p[n] \in Trafs
      <4>1. n \in 1..Len(p)
        BY <2>1, TrafFacts
      <4>2. p[n] \in Trafs
        BY <2>1, <4>1, TrafFacts
      <4> QED BY <3>1, <3>2, <2>1, <4>2, PartIs
    <3>4. RunsOf(U, F) /\ CountOf(U, F, delivered[F.track]) /\ Read(U) = 0
      BY <2>1, <3>3, RunOver
    <3> HIDE DEF U, z
    <3>5. CountsOf(g, m, delivered, z)
      <4>1. Replaced(p, g, n, U)
        BY <2>4 DEF U
      <4>2. z = n \/ Read(U) = 0
        BY <3>4
      <4>3. \A k \in DOMAIN p : k # n => delivered[m.trafs[k].track] = delivered[m.trafs[k].track]
        OBVIOUS
      <4> QED BY <4>1, <4>2, <4>3, <3>2, <3>4, OthersCounted
    <3>6. CountsOf((moof.trafs)', m, delivered', 0)
      BY <2>4, <2>5, <3>5 DEF z
    <3>7. mdat_end' \in Nat /\ mdat_end' < reader'.offset
      BY <2>5, <3>2
    <3>8. m \in file'.boxes /\ \E c \in file'.boxes : DataOf(file', m, c)
      BY <2>5, <3>1
    <3>9. InPart(m)'
      BY <1>8, <2>5, <3>2, <3>6, <3>7, <3>8 DEF InPart
    <3>10. FragmentGoesOn'
      BY <3>8, <3>9 DEF FragmentGoesOn
    <3> QED BY <3>10, <1>5, <1>8
  <2> QED BY <1>4, <1>6, <2>6, <2>7
<1> QED BY <1>2, <1>4, <1>7, <1>8

-----------------------------------------------------------------------------
(* A sample of a run *)

Delivers(T) ==
  Deliver(T.track, SizeIn(T, Current(T), Read(T)), TimeIn(T, Current(T), Read(T)),
          DurationIn(T, Current(T), Read(T)))

LEMMA TakesSample ==
  ASSUME TakeFromRun, FragmentOK, RunOK
  PROVE  /\ pc = "take" /\ UNCHANGED <<file, found, mdat, movie, traf_index>>
         /\ moof' = [moof EXCEPT !.trafs[traf_index] = Taken(TheTraf)]
         /\ Delivers(TheTraf)
<1> DEFINE i == TheTraf.run_index  run == TheTraf.runs[i]  n == run.current_sample
           ends == run.sample_duration
           size == IF run.sample_size # <<>> THEN run.sample_size[n + 1] ELSE TheTraf.default_sample_size
           before == IF n = 0 THEN 0
                     ELSE IF ends # <<>> THEN ends[n] ELSE (TheTraf.default_sample_duration * n) % Word
           duration == IF ends # <<>> THEN ends[n + 1] - (IF n = 0 THEN 0 ELSE ends[n])
                       ELSE TheTraf.default_sample_duration
<1>1. /\ pc = "take" /\ UNCHANGED <<file, found, mdat, movie, traf_index>>
      /\ moof' = [moof EXCEPT !.trafs[traf_index].runs[i].current_sample = @ + 1]
  BY RunTaken
<1>2. Deliver(TheTraf.track, size, TheTraf.start_time + before, duration)
  BY Zenon DEF TakeFromRun
<1>3. Current(TheTraf) = run /\ Read(TheTraf) = n
  BY DEF RunOK, HasRun, Current, Read
<1>4. Delivers(TheTraf)
  <2>1. /\ size = SizeIn(TheTraf, run, n) /\ duration = DurationIn(TheTraf, run, n)
        /\ TheTraf.start_time + before = TimeIn(TheTraf, run, n)
    BY Zenon DEF SizeIn, DurationIn, TimeIn
  <2> HIDE DEF size, before, duration, run, n
  <2> QED BY <1>2, <1>3, <2>1 DEF Delivers
<1>5. moof' = [moof EXCEPT !.trafs[traf_index] = Taken(TheTraf)]
  BY <1>1 DEF TheTraf, Taken, CountedUp, Current
<1> QED BY <1>1, <1>4, <1>5

LEMMA TakenFragment ==
  ASSUME NEW p, NEW q, NEW n, NEW U, Replaced(p, q, n, U), TakenIs(U, p[n]), NEW m, NEW d, NEW e, NEW f,
         FragmentOf(p, f, m, d),
         \A t \in DOMAIN f.tracks : (\A k \in DOMAIN m.trafs : m.trafs[k].track # t) => e[t] = d[t]
  PROVE  FragmentOf(q, f, m, e)
<1>1. TrafOf(U, f, m.trafs[n])
  <2>1. TrafOf(p[n], f, m.trafs[n])
    BY DEF FragmentOf, Replaced
  <2>2. ASSUME NEW i \in DOMAIN U.runs
        PROVE  RunOf(U.runs[i], m.trafs[n].runs[i], f, m.trafs[n], i)
    <3>1. i \in DOMAIN p[n].runs
      BY DEF TakenIs
    <3>2. RunOf(p[n].runs[i], m.trafs[n].runs[i], f, m.trafs[n], i)
      BY <2>1, <3>1 DEF TrafOf
    <3>3. /\ U.runs[i].data_offset = p[n].runs[i].data_offset
          /\ U.runs[i].sample_size = p[n].runs[i].sample_size
          /\ U.runs[i].sample_duration = p[n].runs[i].sample_duration
      BY <3>1 DEF TakenIs
    <3> QED BY <3>2, <3>3 DEF RunOf
  <2> QED BY <2>1, <2>2 DEF TrafOf, TakenIs
<1>2. ASSUME NEW k \in DOMAIN q PROVE TrafOf(q[k], f, m.trafs[k])
  <2>1. k \in DOMAIN p /\ (k = n => q[k] = U) /\ (k # n => q[k] = p[k])
    BY DEF Replaced
  <2> QED BY <1>1, <2>1 DEF FragmentOf
<1>3. ASSUME NEW t \in DOMAIN f.tracks, \A k \in DOMAIN m.trafs : m.trafs[k].track # t
      PROVE  e[t] = m.before[t]
  BY <1>3 DEF FragmentOf
<1> QED BY <1>2, <1>3 DEF FragmentOf, Replaced

(* The sample behind the one that has been read lies behind it. *)
LEMMA NextFollows ==
  ASSUME NEW F, NEW s, s = file.samples[F.track], NEW T, NEW U, TakenIs(U, T),
         FileRun(F, s, T.run_index), T.run_index \in DOMAIN T.runs,
         Current(T).sample_count = F.runs[T.run_index].count,
         Read(T) \in Nat, Read(T) < Current(T).sample_count
  PROVE  NextAt(U, file, F)
           = NthOf(F, s, T.run_index, Read(T)).at + NthOf(F, s, T.run_index, Read(T)).size
<1> DEFINE i == T.run_index  x == F.before[i]  y == F.before[i + 1]  c == F.runs[i].count  r == Read(T)
<1>1. x \in Nat /\ y \in Nat /\ y = x + c /\ c \in Nat \ {0} /\ Adjacent(s, x + 1, y)
  BY Zenon DEF FileRun
<1>2. U.run_index = i /\ Read(U) = r + 1 /\ Current(U).sample_count = c
  <2>1. U.runs[i].sample_count = T.runs[i].sample_count
    BY DEF TakenIs
  <2> QED BY <2>1 DEF TakenIs, Current
<1>3. r \in Nat /\ r < c
  OBVIOUS
<1>4. NextAt(U, file, F) = IF r + 1 < c THEN s[x + (r + 1) + 1].at ELSE SampleEnd(s, y)
  <2>1. NextAt(U, file, F) = IF r + 1 < c THEN s[F.before[U.run_index] + Read(U) + 1].at
                             ELSE RunEnd(file, F, U.run_index)
    BY <1>2 DEF NextAt
  <2>2. RunEnd(file, F, U.run_index) = SampleEnd(s, y)
    BY <1>2 DEF RunEnd
  <2>3. F.before[U.run_index] + Read(U) + 1 = x + (r + 1) + 1
    BY <1>2
  <2> HIDE DEF x, y, c, r, i
  <2> QED BY <2>1, <2>2, <2>3
<1>5. NthOf(F, s, i, r) = s[x + r + 1]
  BY DEF NthOf
<1> HIDE DEF x, y, c, r, i
<1>6. CASE r + 1 < c
  <2>1. x + r + 1 \in x + 1..y - 1 /\ x + (r + 1) + 1 = (x + r + 1) + 1
    BY <1>1, <1>3, <1>6
  <2>2. s[(x + r + 1) + 1].at = SampleEnd(s, x + r + 1)
    BY <1>1, <2>1 DEF Adjacent
  <2>3. NextAt(U, file, F) = SampleEnd(s, x + r + 1)
    BY <1>4, <1>6, <2>1, <2>2
  <2> QED BY <1>5, <2>3 DEF SampleEnd, i, r
<1>7. CASE ~(r + 1 < c)
  <2>1. y = x + r + 1
    BY <1>1, <1>3, <1>7
  <2>2. NextAt(U, file, F) = SampleEnd(s, x + r + 1)
    BY <1>4, <1>7, <2>1
  <2> QED BY <1>5, <2>2 DEF SampleEnd, i, r
<1> QED BY <1>6, <1>7

(* The packet is that of the next sample of the track. *)
Fits(T, F) ==
  SampleIs(file.samples[F.track][delivered[F.track] + 1], reader.offset,
           SizeIn(T, Current(T), Read(T)), TimeIn(T, Current(T), Read(T)),
           DurationIn(T, Current(T), Read(T)))

LEMMA FitsIs ==
  ASSUME NEW T, NEW F, Fits(T, F)
  PROVE  /\ reader.offset = file.samples[F.track][delivered[F.track] + 1].at
         /\ SizeIn(T, Current(T), Read(T)) = file.samples[F.track][delivered[F.track] + 1].size
BY Zenon DEF Fits, SampleIs

(* What the delivery of a sample of T does. *)
Delivered(T) ==
  /\ ReaderIn' /\ OutputInv' /\ EndInv' /\ pc' = "idle" /\ UNCHANGED opened
  /\ failure' \in {"none", "truncated", "unread"} /\ (failure' = "unread" <=> failure = "unread")
  /\ reader'.offset >= reader.offset
  /\ result' = "OK" =>
       /\ UNCHANGED failure /\ reader'.error = "OK"
       /\ reader'.offset = reader.offset + SizeIn(T, Current(T), Read(T))
       /\ delivered' = [delivered EXCEPT ![T.track] = @ + 1]
  /\ result' # "OK" => UNCHANGED output

(* The samples of the run that are left are those of the file. *)
TakeFacts(T, F, s) ==
  /\ T.track = F.track /\ F.track \in Tracks /\ F.track # 0
  /\ s = file.samples[F.track] /\ Len(s) \in Nat
  /\ Read(T) \in Nat /\ Read(T) < Current(T).sample_count
  /\ delivered[F.track] \in Nat /\ delivered[F.track] < Len(s)
  /\ delivered[F.track] = F.before[T.run_index] + Read(T) /\ F.before[T.run_index] \in Nat

LEMMA TakeIs ==
  ASSUME SamplesInv, LaidFragments, NEW T \in Trafs, NEW F, PartHere(T, F, delivered), HasRun(T), Unread(T)
  PROVE  TakeFacts(T, F, file.samples[F.track])
<1> DEFINE s == file.samples[F.track]  i == T.run_index  x == F.before[i]  y == F.before[i + 1]
           c == F.runs[i].count  r == Read(T)  w == delivered[F.track]  l == Len(s)
<1>1. /\ FileTraf(F, s) /\ RunsOf(T, F) /\ CountOf(T, F, w) /\ FileRun(F, s, i)
      /\ Current(T) \in Runs /\ Current(T).sample_count = c
  BY DEF PartHere
<1>2. x \in Nat /\ y \in Nat /\ y = x + c /\ c \in Nat \ {0} /\ y <= l
  BY Zenon, <1>1 DEF FileRun
<1>3. r \in Nat /\ r < c
  BY <1>1 DEF Read, Runs, Unread
<1>4. w = x + r /\ T.track = F.track /\ l \in Nat /\ F.track \in Tracks
  BY <1>1 DEF CountOf, RunsOf, FileTraf
<1>5. F.track # 0
  <2>1. Tracks = 1..Len(file.tracks) /\ Len(file.tracks) \in Nat
    BY FragmentIs, FileFacts
  <2> DEFINE n == Len(file.tracks)  t == F.track
  <2>2. t \in 1..n /\ n \in Nat
    BY <1>4, <2>1
  <2> HIDE DEF n, t
  <2>3. t # 0
    BY <2>2
  <2> QED BY <2>3 DEF t
<1>6. r < Current(T).sample_count
  BY DEF Unread
<1> HIDE DEF x, y, c, r, w, l
<1>7. w < l /\ w \in Nat
  BY <1>2, <1>3, <1>4
<1> QED BY <1>2, <1>3, <1>4, <1>5, <1>6, <1>7 DEF TakeFacts, x, r, w, l

LEMMA TakeSized ==
  ASSUME LaidFragments, NEW m, NEW b, DataOf(file, m, b), NEW k \in DOMAIN m.trafs,
         NEW T \in Trafs, PartHere(T, m.trafs[k], delivered), HasRun(T), Unread(T)
  PROVE  SizeIn(T, Current(T), Read(T)) \in Nat
<1> DEFINE F == m.trafs[k]  i == T.run_index  c == F.runs[i].count  z == F.runs[i].sizes  r == Read(T)
<1>1. /\ FileRun(F, file.samples[F.track], i) /\ Current(T) \in Runs /\ i \in DOMAIN F.runs
      /\ Current(T).sample_count = c /\ Current(T).sample_size \in {<<>>, z}
  BY DEF PartHere
<1>2. z \in Seq(Nat) /\ c \in Nat
  BY Zenon, <1>1 DEF FileRun
<1>3. RunLaid(file, F, i)
  BY <1>1, FragmentIs, FragmentTraf
<1>4. z = <<>> \/ Len(z) = c
  BY Zenon, <1>3 DEF RunLaid
<1>5. r \in Nat /\ r < c
  BY <1>1 DEF Read, Runs, Unread
<1> HIDE DEF c, z, r
<1>6. SizeIn(T, Current(T), r) \in Nat
  BY <1>1, <1>2, <1>4, <1>5, SizeIsNumber
<1> QED BY <1>6 DEF r

(* In a whole fragment it is the next one. *)
LEMMA TakeFits ==
  ASSUME SamplesInv, LaidFragments, NEW m, NEW b, NEW p \in Seq(Trafs), NEW n \in DOMAIN p,
         RunsIn(p, m, b, n), HasRun(p[n]), Unread(p[n]), reader.offset = NextAt(p[n], file, m.trafs[n])
  PROVE  Fits(p[n], m.trafs[n])
<1> DEFINE T == p[n]  F == m.trafs[n]  s == file.samples[F.track]  i == T.run_index  r == Read(T)
<1>1. DataOf(file, m, b) /\ CountsOf(p, m, delivered, n) /\ file \in Files /\ SamplesTyped(file)
  BY FragmentIs DEF RunsIn
<1>2. n \in DOMAIN m.trafs /\ PartHere(T, F, delivered) /\ TrafHere(T, F)
  BY <1>1, PartIs, RunIs
<1>3. T \in Trafs
  <2>1. n \in 1..Len(p)
    BY TrafFacts
  <2> QED BY <2>1, TrafFacts
<1>4. /\ FileTraf(F, s) /\ TrafOf(T, file, F) /\ FileRun(F, s, i) /\ i \in DOMAIN F.runs
      /\ i \in DOMAIN T.runs /\ Current(T) \in Runs /\ Current(T).sample_count = F.runs[i].count
  BY <1>2 DEF PartHere, TrafHere
<1>5. RunLaid(file, F, i)
  BY <1>1, <1>2, <1>4, FragmentTraf
<1>6. RunOf(Current(T), F.runs[i], file, F, i)
  BY <1>4 DEF TrafOf, Current
<1>7. TakeFacts(T, F, s)
  BY <1>2, <1>3, TakeIs
<1>8. r \in Nat /\ r < F.runs[i].count
  BY <1>4, <1>7 DEF TakeFacts
<1> HIDE DEF r
<1>9. SampleIs(NthOf(F, s, i, r), NthOf(F, s, i, r).at,
               SizeIn(T, Current(T), r), TimeIn(T, Current(T), r), DurationIn(T, Current(T), r))
  <2>1. /\ T.start_time = F.time
        /\ T.default_sample_size = Default(file.tracks[F.track], F, "default_sample_size")
        /\ T.default_sample_duration = Default(file.tracks[F.track], F, "default_sample_duration")
    BY <1>4 DEF TrafOf
  <2> QED BY <2>1, <1>4, <1>5, <1>6, <1>8, RunSample
<1>10. reader.offset = NthOf(F, s, i, r).at
  BY <1>7 DEF TakeFacts, NextAt, NthOf, r
<1>11. NthOf(F, s, i, r) = s[delivered[F.track] + 1]
  BY <1>7 DEF TakeFacts, NthOf, r
<1> DEFINE v == NthOf(F, s, i, r)  w == s[delivered[F.track] + 1]
           size == SizeIn(T, Current(T), r)  time == TimeIn(T, Current(T), r)
           duration == DurationIn(T, Current(T), r)
<1>12. SampleIs(v, v.at, size, time, duration) /\ v = w /\ reader.offset = v.at
  BY Zenon, <1>9, <1>10, <1>11
<1>13. Fits(T, F) <=> SampleIs(w, reader.offset, size, time, duration)
  BY Zenon DEF Fits, r
<1> HIDE DEF v, w, size, time, duration
<1>14. SampleIs(w, reader.offset, size, time, duration)
  BY Zenon, <1>12
<1> QED BY <1>13, <1>14

LEMMA TakesOne ==
  ASSUME SamplesInv, ReaderOK, LaidFragments, UNCHANGED file, result = "OK",
         NEW m, NEW b, DataOf(file, m, b), NEW p \in Seq(Trafs), NEW n \in DOMAIN p,
         CountsOf(p, m, delivered, n), HasRun(p[n]), Unread(p[n]), Delivers(p[n]),
         failure = "unread" \/ Fits(p[n], m.trafs[n])
  PROVE  Delivered(p[n])
<1> DEFINE T == p[n]  F == m.trafs[n]  t == F.track
           size == SizeIn(T, Current(T), Read(T))  time == TimeIn(T, Current(T), Read(T))
           duration == DurationIn(T, Current(T), Read(T))
<1>1. n \in DOMAIN m.trafs /\ PartHere(T, F, delivered)
  BY PartIs
<1>2. T \in Trafs
  <2>1. n \in 1..Len(p)
    BY TrafFacts
  <2> QED BY <2>1, TrafFacts
<1>3. TakeFacts(T, F, file.samples[t])
  BY <1>1, <1>2, TakeIs
<1>4. size \in Nat
  BY <1>1, <1>2, TakeSized
<1>5. /\ t \in Tracks /\ t # 0 /\ delivered[t] < Len(file.samples[t]) /\ Len(file.samples[t]) \in Nat
      /\ T.track = t
  BY <1>3 DEF TakeFacts
<1>6. Deliver(t, size, time, duration)
  BY <1>5 DEF Delivers
<1>7. reader.error = "OK" /\ failure # "unread" =>
        SampleIs(file.samples[t][delivered[t] + 1], reader.offset, size, time, duration)
  BY DEF Fits
<1> HIDE DEF size, time, duration, t
<1>8. /\ ReaderIn' /\ OutputInv' /\ EndInv' /\ pc' = "idle" /\ UNCHANGED opened
      /\ failure' \in {"none", "truncated", "unread"}
      /\ failure' = "unread" <=> failure = "unread"
      /\ reader'.offset >= reader.offset
      /\ result' = "OK" =>
           /\ UNCHANGED failure /\ reader.error = "OK"
           /\ reader'.offset = reader.offset + size /\ reader'.error = "OK"
           /\ delivered' = [delivered EXCEPT ![t] = @ + 1]
      /\ result' # "OK" => UNCHANGED output
  BY <1>4, <1>5, <1>6, <1>7, DeliverStep
<1> QED BY <1>5, <1>8 DEF Delivered, size

LEMMA FragmentTake ==
  ASSUME TablesInv, FragmentInv, LaidFragments, TakeFromRun
  PROVE  FragmentInv' /\ Forward
<1> DEFINE p == moof.trafs  n == traf_index  q == (moof.trafs)'
<1>1. FragmentOK /\ RunOK /\ ReaderOK /\ opened /\ pc = "take"
  BY RunTaken DEF TablesInv, PacketInv
<1>2. /\ UNCHANGED <<file, found, mdat, movie, traf_index>>
      /\ moof' = [moof EXCEPT !.trafs[traf_index] = Taken(TheTraf)] /\ Delivers(TheTraf)
  BY <1>1, TakesSample
<1>3. /\ SamplesInv /\ result = "OK" /\ reader.error = "OK" /\ FragmentGoesOn /\ ReaderIn
      /\ failure \in {"none", "truncated", "unread"}
  BY <1>1, FragmentFacts
<1>4. \/ failure = "none" /\ \E m, b \in file.boxes : InRuns(m, b)
      \/ \E m \in file.boxes : InPart(m)
  <2>1. ~Walking /\ \A m, b : ~InFront(m, b) /\ ~AfterRun(m, b) /\ ~AtData(m, b)
    BY <1>1 DEF Walking, InRoot, InFront, AfterRun, AtData
  <2> QED BY <1>3, <2>1 DEF FragmentGoesOn
<1>5. p \in Seq(Trafs) /\ n \in DOMAIN p /\ HasRun(p[n]) /\ TheTraf = p[n] /\ p[n] \in Trafs
  BY <1>1, TheTrafFacts DEF FragmentOK, RunOK, HasRun, TheTraf
<1>6. TakenIs(Taken(p[n]), p[n])
  BY <1>5, TrafTaken
<1>7. PICK U : U = Taken(p[n])
  OBVIOUS
<1>8. TakenIs(U, p[n]) /\ Delivers(p[n])
  BY <1>2, <1>5, <1>6, <1>7
<1>9. Replaced(p, q, n, U)
  <2>1. U \in Trafs /\ moof' = [moof EXCEPT !.trafs[traf_index] = U]
    BY <1>2, <1>5, <1>7, <1>8 DEF TakenIs
  <2> HIDE DEF q
  <2> QED BY <1>1, <2>1, MoofReplaced DEF q
<1>10. PICK g : g = q
  OBVIOUS
<1>11. (moof.trafs)' = g /\ Replaced(p, g, n, U) /\ TheTraf' = U
  <2>1. (moof.trafs)' = g /\ Replaced(p, g, n, U)
    BY <1>9, <1>10
  <2> QED BY <2>1, <1>2 DEF Replaced, TheTraf
<1>12. /\ file' = file /\ mdat_start' = mdat_start /\ mdat_size' = mdat_size /\ Tracks' = Tracks
       /\ mdat_end' = mdat_end /\ traf_index' = n
       /\ found_moov' = found_moov /\ found_moof' = found_moof /\ found_mdat' = found_mdat
  BY <1>2 DEF mdat, found, Tracks
<1> HIDE DEF p, n, q
(* The delivery failed, ... *)
<1>13. ASSUME Delivered(p[n]), result' # "OK"
       PROVE  FragmentInv' /\ Forward
  <2>1. /\ ReaderIn' /\ EndInv' /\ pc' = "idle" /\ UNCHANGED <<file, output>>
        /\ failure' \in {"none", "truncated", "unread"} /\ (failure' # "unread" => failure # "unread")
    BY <1>12, <1>13 DEF Delivered
  <2>2. FragmentInv'
    BY <2>1, <1>13, FragmentEnds
  <2> QED BY <2>2, <1>13 DEF Delivered, Forward
(* ... or the demuxer goes on. *)
<1>14. ASSUME Delivered(p[n]), result' = "OK", FragmentGoesOn'
       PROVE  FragmentInv' /\ Forward
  <2>1. ReaderIn' /\ OutputInv' /\ EndInv' /\ pc' = "idle" /\ opened'
    BY <1>1, <1>14 DEF Delivered
  <2>2. CallInv'
    BY <2>1, <1>14 DEF CallInv, Delivered
  <2>3. FragmentInv'
    BY <2>1, <2>2, <1>14 DEF FragmentInv, SamplesInv
  <2> QED BY <2>3, <1>14 DEF Delivered, Forward
<1>15. ASSUME NEW m, NEW b, DataOf(file, m, b), CountsOf(p, m, delivered, n), Unread(p[n]),
              Delivered(p[n]), result' = "OK"
       PROVE  /\ CountsOf(g, m, delivered', n)
              /\ FragmentOf(p, file, m, delivered) => FragmentOf(g, file, m, delivered')
  <2> DEFINE F == m.trafs[n]  T == p[n]  t == F.track
  <2>1. /\ file \in Files /\ SamplesTyped(file) /\ n \in DOMAIN m.trafs /\ PartHere(T, F, delivered)
        /\ DOMAIN p \subseteq DOMAIN m.trafs
    BY <1>5, <1>15, FragmentIs, PartIs
  <2>2. TakeFacts(T, F, file.samples[t])
    BY <2>1, <1>3, <1>5, <1>15, TakeIs
  <2>3. \A l \in DOMAIN m.trafs : l # n => m.trafs[l].track # t
    BY <2>1, <1>15, FragmentTraf
  <2>4. PICK e : e = [delivered EXCEPT ![t] = @ + 1]
    OBVIOUS
  <2>5. delivered' = e
    BY <2>2, <2>4, <1>15 DEF Delivered, TakeFacts
  <2>6. e[t] = delivered[t] + 1 /\ \A u : u # t => e[u] = delivered[u]
    <3>1. delivered \in [Tracks -> Nat] /\ t \in Tracks
      BY <1>3, <2>2 DEF SamplesInv, OutputInv, TakeFacts
    <3> HIDE DEF t
    <3> QED BY <2>4, <3>1
  <2>7. RunsOf(U, F) /\ CountOf(U, F, e[t])
    <3>1. /\ RunsOf(T, F) /\ CountOf(T, F, delivered[t]) /\ delivered[t] \in Nat /\ Read(T) \in Nat
          /\ F.before[T.run_index] \in Nat /\ Read(T) < Current(T).sample_count
      BY <2>1, <2>2 DEF PartHere, TakeFacts
    <3>2. Current(T).sample_count \in Nat
      BY <2>1, <1>5 DEF PartHere
    <3> DEFINE v == delivered[t]
    <3>3. v \in Nat /\ CountOf(T, F, v) /\ e[t] = v + 1
      BY <3>1, <2>6
    <3> HIDE DEF v, t, T, F
    <3>4. RunsOf(U, F) /\ CountOf(U, F, v + 1)
      BY <3>1, <3>2, <3>3, <1>8, TakenCounts DEF T
    <3> QED BY <3>3, <3>4
  <2>8. CountsOf(g, m, e, n)
    <3>1. \A k \in DOMAIN p : k # n => e[m.trafs[k].track] = delivered[m.trafs[k].track]
      BY <2>1, <2>3, <2>6
    <3>2. n = n \/ Read(U) = 0
      OBVIOUS
    <3> QED BY <3>1, <3>2, <2>7, <1>11, <1>15, OthersCounted
  <2>9. FragmentOf(p, file, m, delivered) => FragmentOf(g, file, m, e)
    <3>1. \A u \in DOMAIN file.tracks : (\A k \in DOMAIN m.trafs : m.trafs[k].track # u) => e[u] = delivered[u]
      BY <2>1, <2>6
    <3> QED BY <3>1, <1>8, <1>11, TakenFragment
  <2> QED BY <2>5, <2>8, <2>9
<1>16. ASSUME failure = "none", NEW m \in file.boxes, NEW b \in file.boxes, InRuns(m, b)
       PROVE  FragmentInv' /\ Forward
  <2> DEFINE F == m.trafs[n]  T == p[n]  s == file.samples[F.track]  i == T.run_index  r == Read(T)
  <2>1. /\ RunsIn(p, m, b, n) /\ reader.offset = NextAt(T, file, F)
        /\ RunsBehind(p, RunEnd(file, F, i), n)
        /\ found_moov /\ ~found_moof /\ ~found_mdat /\ Unread(T)
    BY <1>1, <1>5, <1>16 DEF InRuns, p, n, Unread
  <2>2. DataOf(file, m, b) /\ InBox(b) /\ CountsOf(p, m, delivered, n) /\ FragmentOf(p, file, m, delivered)
    BY <2>1 DEF RunsIn
  <2>3. Fits(T, F)
    BY <2>1, <1>3, <1>5, TakeFits
  <2>4. Delivered(T)
    BY <2>1, <2>2, <2>3, <1>1, <1>3, <1>5, <1>8, <1>12, TakesOne
  <2>5. CASE result' # "OK"
    BY <2>4, <2>5, <1>13
  <2>6. CASE result' = "OK"
    <3>1. CountsOf(g, m, delivered', n) /\ FragmentOf(g, file, m, delivered')
      BY <2>1, <2>2, <2>4, <2>6, <1>15
    <3>2. RunsIn(moof.trafs, m, b, traf_index)'
      BY <3>1, <2>2, <1>11, <1>12 DEF RunsIn, InBox
    <3>3. HasRun(TheTraf)' /\ (traf_index \in DOMAIN moof.trafs)'
      BY <1>8, <1>11, <1>12 DEF TakenIs, Replaced
    <3>4. reader'.offset = NextAt(U, file, F)
      <4>1. n \in DOMAIN m.trafs /\ PartHere(T, F, delivered)
        BY <2>2, <1>5, PartIs
      <4>2. /\ FileRun(F, s, i) /\ i \in DOMAIN T.runs /\ Current(T).sample_count = F.runs[i].count
        BY <4>1, <1>5 DEF PartHere
      <4>3. r \in Nat /\ r < Current(T).sample_count
        BY <4>1, <2>1, <1>3, <1>5, TakeIs DEF TakeFacts
      <4>4. NextAt(U, file, F) = NthOf(F, s, i, r).at + NthOf(F, s, i, r).size
        BY <4>2, <4>3, <1>8, NextFollows
      <4>5. reader.offset = NthOf(F, s, i, r).at /\ SizeIn(T, Current(T), r) = NthOf(F, s, i, r).size
        <5>1. TakeFacts(T, F, s)
          BY <4>1, <2>1, <1>3, <1>5, TakeIs
        <5>2. NthOf(F, s, i, r) = s[delivered[F.track] + 1]
          BY <5>1 DEF TakeFacts, NthOf
        <5>3. /\ reader.offset = s[delivered[F.track] + 1].at
              /\ SizeIn(T, Current(T), r) = s[delivered[F.track] + 1].size
          BY <2>3, FitsIs
        <5> QED BY Zenon, <5>2, <5>3
      <4>6. reader'.offset = reader.offset + SizeIn(T, Current(T), r)
        BY <2>4, <2>6 DEF Delivered
      <4> HIDE DEF F, s, i, r, T
      <4> QED BY <4>4, <4>5, <4>6
    <3>5. (reader.offset = NextAt(TheTraf, file, m.trafs[traf_index]))'
      BY <3>4, <1>11, <1>12
    <3>6. RunsBehind(g, RunEnd(file, F, U.run_index), n)
      <4>1. U.run_index = i
        BY <1>8 DEF TakenIs
      <4>2. \A k \in DOMAIN g : k # n => g[k] = p[k] /\ k \in DOMAIN p
        BY <1>11 DEF Replaced
      <4> QED BY <4>1, <4>2, <2>1 DEF RunsBehind
    <3>7. RunsBehind(moof.trafs, RunEnd(file, m.trafs[traf_index], TheTraf.run_index), traf_index)'
      BY <3>6, <1>11, <1>12
    <3>8. pc' = "idle" /\ opened' /\ failure' = "none"
      BY <2>4, <2>6, <1>1, <1>16 DEF Delivered
    <3>9. InRuns(m, b)'
      BY <3>2, <3>3, <3>5, <3>7, <3>8, <2>1, <1>12 DEF InRuns
    <3>10. FragmentGoesOn'
      BY <3>8, <3>9, <1>12 DEF FragmentGoesOn
    <3> QED BY <3>10, <2>4, <2>6, <1>14
  <2> QED BY <2>5, <2>6
<1>17. ASSUME NEW m \in file.boxes, InPart(m)
       PROVE  FragmentInv' /\ Forward
  <2>1. PICK b \in file.boxes : DataOf(file, m, b)
    BY <1>17 DEF InPart
  <2>2. /\ CountsOf(p, m, delivered, n) /\ failure = "unread" /\ mdat_end \in Nat
        /\ mdat_end < reader.offset /\ ~found_mdat /\ Unread(p[n])
    BY <1>1, <1>5, <1>17 DEF InPart, p, n, Unread
  <2>3. Delivered(p[n])
    BY <2>1, <2>2, <1>1, <1>3, <1>5, <1>8, <1>12, TakesOne
  <2>4. CASE result' # "OK"
    BY <2>3, <2>4, <1>13
  <2>5. CASE result' = "OK"
    <3>1. CountsOf(g, m, delivered', n)
      BY <2>1, <2>2, <2>3, <2>5, <1>15
    <3>2. pc' = "idle" /\ opened' /\ failure' = "unread"
      BY <2>2, <2>3, <1>1 DEF Delivered
    <3>3. mdat_end' \in Nat /\ mdat_end' < reader'.offset
      <4>1. reader.offset \in Nat /\ reader'.offset \in Nat /\ reader'.offset >= reader.offset
        BY <2>3, <1>3 DEF Delivered, ReaderIn
      <4> QED BY <4>1, <2>2, <1>12
    <3>4. CountsOf((moof.trafs)', m, delivered', traf_index')
      BY <3>1, <1>11, <1>12
    <3>5. m \in file'.boxes /\ \E c \in file'.boxes : DataOf(file', m, c)
      BY <2>1, <1>12
    <3>6. InPart(m)'
      BY <3>2, <3>3, <3>4, <3>5, <2>2, <1>12 DEF InPart
    <3>7. FragmentGoesOn'
      BY <3>5, <3>6 DEF FragmentGoesOn
    <3> QED BY <3>7, <2>3, <2>5, <1>14
  <2> QED BY <2>4, <2>5
<1> QED BY <1>4, <1>16, <1>17

-----------------------------------------------------------------------------
(* The steps of a fragmented movie *)

LEMMA FragmentStutters ==
  ASSUME TablesInv, FragmentInv, LaidFragments, UNCHANGED vars
  PROVE  FragmentInv' /\ Forward
<1>1. /\ UNCHANGED Places3 /\ UNCHANGED <<file, pc, result, opened, output, failure>>
      /\ UNCHANGED <<reader, moof, delivered, mdat_start, mdat_end, mdat_size>>
  BY DEF vars, caller, fragment, output, Places3, mdat
<1>2. SamplesInv' /\ Forward
  BY SamplesStutter DEF FragmentInv
<1>3. ASSUME FragmentGoesOn PROVE FragmentGoesOn'
  <2>1. Walking => Walking'
    BY <1>1, PlacesKept DEF Walking, InRoot
  <2>2. ASSUME NEW m, NEW b
        PROVE  InFront(m, b) \/ AtData(m, b) \/ InRuns(m, b) \/ AfterRun(m, b) =>
                 (InFront(m, b) \/ AtData(m, b) \/ InRuns(m, b) \/ AfterRun(m, b))'
    <3>1. InFront(m, b) => InFront(m, b)'
      <4>1. Loaded(m) => Loaded(m)'
        BY <1>1, PlacesKept, FragmentSame DEF Loaded
      <4>2. DataOf(file, m, b) => DataOf(file, m, b)'
        BY <1>1, FragmentSame
      <4> QED BY <1>1, <4>1, <4>2, PlacesKept DEF InFront, InRoot
    <3>2. AtData(m, b) => AtData(m, b)'
      <4> SUFFICES ASSUME AtData(m, b) PROVE AtData(m, b)'
        OBVIOUS
      <4>1. opened' /\ pc' \in {"idle", "fragment", "first_run", "next_run"}
        BY <1>1 DEF AtData
      <4> QED BY <4>1, <1>1, DataStays
    <3>3. InRuns(m, b) => InRuns(m, b)'
      <4> SUFFICES ASSUME InRuns(m, b) PROVE InRuns(m, b)'
        OBVIOUS
      <4>1. opened' /\ pc' \in {"idle", "fragment", "check", "take"} /\ (pc' = "take" => Unread(TheTraf))
        BY <1>1 DEF InRuns, Unread
      <4> QED BY <4>1, <1>1, RunsStay
    <3>4. AfterRun(m, b) => AfterRun(m, b)'
      <4>1. Seeks(moof.trafs, m, b) => Seeks(moof.trafs, m, b)'
        BY <1>1, PlacesKept DEF Seeks, RunsIn, InBox
      <4> QED BY <1>1, <4>1, PlacesKept DEF AfterRun
    <3> QED BY <3>1, <3>2, <3>3, <3>4
  <2>3. ASSUME NEW m PROVE InPart(m) => InPart(m)'
    <3>1. (pc = "take" => Read(TheTraf) < Current(TheTraf).sample_count)
             => (pc = "take" => Read(TheTraf) < Current(TheTraf).sample_count)'
      BY <1>1, PlacesKept
    <3>2. PICK x : x = IF pc \in {"first_run", "next_run"} THEN 0 ELSE traf_index
      OBVIOUS
    <3>3. x = (IF pc \in {"first_run", "next_run"} THEN 0 ELSE traf_index)'
      BY <1>1, <3>2, PlacesKept
    <3>4. CountsOf(moof.trafs, m, delivered, x) => CountsOf((moof.trafs)', m, delivered', x)
      BY <1>1
    <3> QED BY <1>1, <3>1, <3>2, <3>3, <3>4, PlacesKept DEF InPart
  <2> QED BY <1>1, <1>3, <2>1, <2>2, <2>3 DEF FragmentGoesOn
<1>4. (result = "OK" /\ reader.error = "OK") = (result = "OK" /\ reader.error = "OK")'
  BY <1>1
<1>5. /\ (pc \notin {"sample", "hung"} /\ (pc \in {"fragment", "check", "take"} => reader.error = "OK"))'
  BY <1>1 DEF FragmentInv
<1> QED BY <1>2, <1>3, <1>4, <1>5 DEF FragmentInv

LEMMA FragmentBegins ==
  ASSUME Init, LaidFragments
  PROVE  FragmentInv
<1>1. /\ file \in Files /\ pc = "idle" /\ result = "OK" /\ opened = FALSE
      /\ reader = [offset |-> 0, error |-> "OK"]
      /\ found_moov = FALSE /\ found_moof = FALSE /\ found_mdat = FALSE
      /\ delivered = [t \in Tracks |-> 0] /\ failure = "none"
  BY DEF Init
<1>2. SamplesInv
  BY FragmentIs, SamplesBegin
<1>3. ~MoovPassed(file, reader.offset)
  <2>1. PICK b \in file.boxes : b.type = "moov"
    BY MoovIs
  <2>2. b.start \in Nat /\ b.end \in Nat /\ b.start < b.end
    BY FragmentIs, BoxFacts
  <2>3. ~(b.end <= 0)
    BY <2>2
  <2> QED BY <1>1, <2>1, <2>3 DEF MoovPassed
<1>4. Reached(file, reader.offset, delivered)
  BY <1>1 DEF Reached, Tracks
<1>5. Walking
  BY <1>1, <1>3, <1>4 DEF Walking
<1>6. FragmentGoesOn
  BY <1>1, <1>5 DEF FragmentGoesOn
<1> QED BY <1>1, <1>2, <1>6 DEF FragmentInv

LEMMA FragmentNever ==
  ASSUME FragmentInv
  PROVE  ~TakeSample
BY DEF FragmentInv, TakeSample

LEMMA FragmentSteps ==
  ASSUME TablesInv, FragmentInv, LaidFragments, [Next]_vars
  PROVE  FragmentInv' /\ LaidFragments' /\ Forward
<1>1. FragmentInv' /\ Forward
  BY FragmentNever, FragmentOpen, FragmentRootStep, FragmentReaderFailed, FragmentIndex,
     FragmentNextSample, FragmentRead, FragmentNew, FragmentSameMoof, FragmentNoRun, FragmentCheck,
     FragmentTake, FragmentStutters DEF Next
<1>2. file' = file
  BY FileStays
<1> QED BY <1>1, <1>2 DEF LaidFragments

-----------------------------------------------------------------------------
(* Every file that is laid out is a movie, or one in fragments. *)

InTurn == TablesInv /\ ((LaidMovie /\ MovieInv) \/ (LaidFragments /\ FragmentInv))

LEMMA InTurnBegins ==
  ASSUME FilesLaidOut, Init
  PROVE  InTurn
<1>1. file \in Files /\ TablesInv
  BY TablesInit DEF Init
<1>2. LaidMovie \/ LaidFragments
  BY <1>1 DEF FilesLaidOut, LaidMovie, LaidFragments
<1> QED BY <1>1, <1>2, MovieBegins, FragmentBegins DEF InTurn

LEMMA InTurnSteps ==
  ASSUME InTurn, [Next]_vars
  PROVE  InTurn' /\ Forward
<1>1. TablesInv'
  BY TablesStep DEF InTurn
<1>2. CASE LaidMovie /\ MovieInv
  BY <1>1, <1>2, MovieSteps DEF InTurn
<1>3. CASE LaidFragments /\ FragmentInv
  BY <1>1, <1>3, FragmentSteps DEF InTurn
<1> QED BY <1>2, <1>3 DEF InTurn

LEMMA InTurnIs ==
  ASSUME InTurn
  PROVE  PacketsInTurn /\ EndIsTheEnd
<1>1. OutputInv /\ EndInv
  BY DEF InTurn, MovieInv, FragmentInv, SamplesInv
<1> QED BY <1>1 DEF OutputInv, EndInv, PacketsInTurn, SampleIs

(* In files whose samples are where their tables or fragments say, the     *)
(* packets of a track are its samples, each in its turn, whatever the      *)
(* order of the calls and wherever the reader or the memory fails.         *)
THEOREM IsomPacketsInTurn ==
  ASSUME FilesLaidOut
  PROVE  Spec => []PacketsInTurn
<1>1. Init => InTurn
  BY InTurnBegins
<1>2. InTurn /\ [Next]_vars => InTurn'
  BY InTurnSteps
<1>3. InTurn => PacketsInTurn
  BY InTurnIs
<1> QED BY <1>1, <1>2, <1>3, PTL DEF Spec

(* A file of that kind that is whole is read to its end: read_packet()     *)
(* answers XE_EOF when all samples have been delivered, and never that the *)
(* data is invalid.                                                        *)
THEOREM IsomEndIsTheEnd ==
  ASSUME FilesLaidOut
  PROVE  Spec => []EndIsTheEnd
<1>1. Init => InTurn
  BY InTurnBegins
<1>2. InTurn /\ [Next]_vars => InTurn'
  BY InTurnSteps
<1>3. InTurn => EndIsTheEnd
  BY InTurnIs
<1> QED BY <1>1, <1>2, <1>3, PTL DEF Spec

(* A file of that kind that is laid out for streaming is read with no step *)
(* back: the nearest chunk or run is never behind the one before.          *)
THEOREM IsomOnlyForward ==
  ASSUME FilesLaidOut
  PROVE  Spec => OnlyForward
<1>1. Init => InTurn
  BY InTurnBegins
<1>2. InTurn /\ [Next]_vars => InTurn'
  BY InTurnSteps
<1>3. InTurn /\ [Next]_vars => [file.streamable => reader'.offset >= reader.offset]_vars
  BY InTurnSteps DEF Forward
<1> QED BY <1>1, <1>2, <1>3, PTL DEF Spec, OnlyForward
=============================================================================
