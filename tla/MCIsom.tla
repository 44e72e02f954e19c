------------------------------- MODULE MCIsom -------------------------------
(***************************************************************************)
(* Instances of Isom for TLC: movies of two tracks, whose samples lie in   *)
(* chunks or in fragments.                                                 *)
(***************************************************************************)
EXTENDS Isom

CONSTANTS
  MaxChunks,
  MaxSamples      \* of a chunk

Sum(s) == SumTo(s)[Len(s)]

SeqOf(n, f(_)) == [i \in 1..n |-> f(i)]

box(type, start, size, end) ==
  [type |-> type, start |-> start, size |-> size, end |-> end, trafs |-> <<>>,
   before |-> <<0, 0>>, after |-> <<0, 0>>]

-----------------------------------------------------------------------------
(* Movies.  A layout lists the chunks, each with its track and the number  *)
(* of its samples, which are of one size or of the sizes in a table.       *)

Layouts == UNION {[1..n -> {1, 2} \X (1..MaxSamples)] : n \in 1..MaxChunks}

SampleSize(table, t, n) == IF table THEN 1 + (n % 2) ELSE t

(* The samples of a track up to the end of the i-th chunk. *)
UpTo(l, t, i) == Sum(SeqOf(i, LAMBDA j : IF l[j][1] = t THEN l[j][2] ELSE 0))

ChunkSize(l, table, i) ==
  LET t == l[i][1]
  IN  Sum(SeqOf(l[i][2], LAMBDA k : SampleSize(table, t, UpTo(l, t, i - 1) + k - 1)))

(* The chunks of a reversed movie lie in the opposite order. *)
ChunkStart(l, table, reversed, data, i) ==
  data + Sum(SeqOf(Len(l), LAMBDA j : IF (IF reversed THEN j > i ELSE j < i)
                                        THEN ChunkSize(l, table, j) ELSE 0))

Chunks(l, t) == SelectSeq(SeqOf(Len(l), LAMBDA i : i), LAMBDA i : l[i][1] = t)

Before(l, t) ==
  LET c == Chunks(l, t)
  IN  SeqOf(Len(c) + 1, LAMBDA k : IF k > Len(c) THEN UpTo(l, t, Len(l)) ELSE UpTo(l, t, c[k] - 1))

(* An entry for each number of samples that differs from the one before. *)
SampleChunk(l, t) ==
  LET c == Chunks(l, t)
      entries == SeqOf(Len(c), LAMBDA k : [first |-> k, count |-> l[c[k]][2]])
  IN  SelectSeq(entries, LAMBDA e : e.first = 1 \/ e.count # entries[e.first - 1].count)

(* Durations: all the same, or another one from the second sample on. *)
Times(n, two) ==
  IF two /\ n > 1 THEN <<[count |-> 1, delta |-> 2], [count |-> n - 1, delta |-> 3]>>
  ELSE <<[count |-> n, delta |-> 3]>>

MovieTrack(l, table, reversed, data, two, t) ==
  LET n == UpTo(l, t, Len(l))
      c == Chunks(l, t)
  IN  [sample_size |-> IF table THEN 0 ELSE t,
       sample_sizes |-> IF table THEN SeqOf(n, LAMBDA k : SampleSize(table, t, k - 1)) ELSE <<>>,
       sample_time |-> Times(n, two), sample_chunk |-> SampleChunk(l, t),
       chunk_offset |-> SeqOf(Len(c), LAMBDA k : ChunkStart(l, table, reversed, data, c[k])),
       default_sample_duration |-> 0, default_sample_size |-> 0]

MovieSamples(l, table, reversed, data, two, t) ==
  LET n == UpTo(l, t, Len(l))
      duration(k) == IF two /\ n > 1 /\ k = 1 THEN 2 ELSE 3
      sample(k) ==
        LET i == CHOOSE i \in DOMAIN l : l[i][1] = t /\ UpTo(l, t, i - 1) < k /\ k <= UpTo(l, t, i)
            before == UpTo(l, t, i - 1)
        IN  [at |-> ChunkStart(l, table, reversed, data, i)
                      + Sum(SeqOf(k - 1 - before, LAMBDA j : SampleSize(table, t, before + j - 1))),
             size |-> SampleSize(table, t, k - 1),
             duration |-> duration(k),
             time |-> Sum(SeqOf(k - 1, duration)), timed |-> TRUE]
  IN  SeqOf(n, sample)

(* The movie is in front of its data, which may be the rest of the file,   *)
(* or behind it.                                                           *)
Movie(l, table, reversed, two, front, rest) ==
  LET data == IF front THEN 4 ELSE 2
      bytes == Sum(SeqOf(Len(l), LAMBDA i : ChunkSize(l, table, i)))
      end == data + bytes
      mdat_box == box("mdat", data - 1, IF rest THEN 0 ELSE bytes + 1, end)
      moov_start == IF front THEN 1 ELSE end
  IN  [boxes |-> {box("other", 0, 1, 1), mdat_box, box("moov", moov_start, 2, moov_start + 2)},
       end |-> IF front THEN end ELSE end + 2,
       tracks |-> SeqOf(2, LAMBDA t : MovieTrack(l, table, reversed, data, two, t)),
       samples |-> SeqOf(2, LAMBDA t : MovieSamples(l, table, reversed, data, two, t)),
       before |-> SeqOf(2, LAMBDA t : Before(l, t)),
       streamable |-> front /\ (~reversed \/ Len(l) = 1)]

Movies ==
  {Movie(l, table, reversed, FALSE, front, FALSE) :
     l \in Layouts, table \in BOOLEAN, reversed \in BOOLEAN, front \in BOOLEAN}
  \cup {Movie(l, TRUE, FALSE, two, TRUE, rest) : l \in Layouts, two \in BOOLEAN, rest \in BOOLEAN}

-----------------------------------------------------------------------------
(* Fragmented movies.  A fragment has the runs of one track or of two, in  *)
(* an order in which their data lie; the sizes and durations are in tables *)
(* or those of the track or the fragment.                                  *)

Orders(trafs, n) ==
  LET one(t) == SeqOf(n, LAMBDA j : <<t, j>>)
  IN  IF trafs = 0 THEN {<<>>}
      ELSE IF trafs = 1 THEN {one(1)}
      ELSE {one(1) \o one(2), one(2) \o one(1)}
           \cup (IF n = 1 THEN {} ELSE {<<<<1, 1>>, <<2, 1>>, <<1, 2>>, <<2, 2>>>>})

FragmentSize(table, t, k) == IF table THEN 1 + (k % 2) ELSE t
FragmentDuration(table, t, k) == IF table THEN 1 + (k % 2) ELSE 4 - t

Upto(s, n, f(_)) == Sum(SeqOf(n, LAMBDA i : f(s[i])))

(* A fragment: shape is the number of samples of each run, order the one   *)
(* of the data, start that of the fragment.                                *)
RunSize(x, t, j) == Sum(SeqOf(x.shape[j], LAMBDA k : FragmentSize(x.table, t, k)))
RunDuration(x, t, j) == Sum(SeqOf(x.shape[j], LAMBDA k : FragmentDuration(x.table, t, k)))

FragmentBytes(x) == Upto(x.order, Len(x.order), LAMBDA r : RunSize(x, r[1], r[2]))

RunStart(x, start, t, j) ==
  LET i == CHOOSE i \in DOMAIN x.order : x.order[i] = <<t, j>>
  IN  start + 3 + Upto(x.order, i - 1, LAMBDA r : RunSize(x, r[1], r[2]))

FragmentLength(x, t) ==
  IF t > x.trafs THEN 0 ELSE Sum(SeqOf(Len(x.shape), LAMBDA j : RunDuration(x, t, j)))

FragmentTraf(x, start, time, from, t) ==
  LET last == Len(x.shape)
      base == IF x.base = "explicit" THEN 1
              ELSE IF x.base = "moof" \/ t = 1 THEN start
              ELSE RunStart(x, start, 1, last) + RunSize(x, 1, last)
      run(j) == [offset |-> RunStart(x, start, t, j) - base, count |-> x.shape[j],
                 sizes |-> IF x.table THEN SeqOf(x.shape[j], LAMBDA k : FragmentSize(TRUE, t, k)) ELSE <<>>,
                 durations |-> IF x.table THEN SeqOf(x.shape[j], LAMBDA k : FragmentDuration(TRUE, t, k)) ELSE <<>>]
  IN  [track |-> t, time |-> time, base |-> x.base, offset |-> 1,
       default_sample_duration |-> IF t = 1 THEN None ELSE FragmentDuration(FALSE, t, 1),
       default_sample_size |-> IF t = 1 THEN None ELSE FragmentSize(FALSE, t, 1),
       runs |-> SeqOf(last, run),
       before |-> SeqOf(last + 1, LAMBDA j : from + Sum(SubSeq(x.shape, 1, j - 1)))]

FragmentSamples(x, start, from, t) ==
  LET run(j) ==
        SeqOf(x.shape[j], LAMBDA k :
          [at |-> RunStart(x, start, t, j) + Sum(SeqOf(k - 1, LAMBDA i : FragmentSize(x.table, t, i))),
           size |-> FragmentSize(x.table, t, k), duration |-> FragmentDuration(x.table, t, k),
           time |-> from + Sum(SeqOf(k - 1, LAMBDA i : FragmentDuration(x.table, t, i))),
           timed |-> j = 1])
  IN  IF t > x.trafs THEN <<>> ELSE IF Len(x.shape) = 1 THEN run(1) ELSE run(1) \o run(2)

FragmentCount(x, t) == IF t > x.trafs THEN 0 ELSE Sum(x.shape)

Counted(b, count) == [b EXCEPT !.before = count, !.after = count]

(* The boxes of a fragment, with before samples of the tracks in front. *)
FragmentBoxes(x, start, time(_), before, after, rest) ==
  LET end == start + 3 + FragmentBytes(x)
  IN  {[box("moof", start, 2, start + 2) EXCEPT
          !.trafs = SeqOf(x.trafs, LAMBDA t : FragmentTraf(x, start, time(t), before[t], t)),
          !.before = before, !.after = after],
       Counted(box("mdat", start + 2, IF rest THEN 0 ELSE end - start - 2, end), after)}

FragmentTrack(t) ==
  [sample_size |-> 0, sample_sizes |-> <<>>, sample_time |-> <<>>, sample_chunk |-> <<>>,
   chunk_offset |-> <<>>,
   default_sample_duration |-> IF t = 1 THEN FragmentDuration(FALSE, 1, 1) ELSE 0,
   default_sample_size |-> IF t = 1 THEN FragmentSize(FALSE, 1, 1) ELSE 0]

(* Two fragments, one of which may be empty.  The data of the second may   *)
(* be the rest of the file.                                                *)
Fragmented(x, y, rest) ==
  LET second == 3 + 3 + FragmentBytes(x) + 1
      end == second + 3 + FragmentBytes(y)
      time(t) == FragmentLength(x, t)
      one == SeqOf(2, LAMBDA t : FragmentCount(x, t))
      both == SeqOf(2, LAMBDA t : FragmentCount(x, t) + FragmentCount(y, t))
  IN  [boxes |-> {box("other", 0, 1, 1), box("moov", 1, 2, 3),
                  Counted(box("other", second - 1, 1, second), one)}
                 \cup FragmentBoxes(x, 3, LAMBDA t : 0, <<0, 0>>, one, FALSE)
                 \cup FragmentBoxes(y, second, time, one, both, rest)
                 \cup (IF rest THEN {} ELSE {Counted(box("other", end, 1, end + 1), both)}),
       end |-> IF rest THEN end ELSE end + 1,
       tracks |-> SeqOf(2, FragmentTrack),
       samples |-> SeqOf(2, LAMBDA t : FragmentSamples(x, 3, 0, t)
                                         \o FragmentSamples(y, second, time(t), t)),
       streamable |-> TRUE]

FragmentsOf(Trafs, Shapes) ==
  UNION {{[trafs |-> trafs, shape |-> shape, order |-> order, base |-> base, table |-> table] :
            order \in Orders(trafs, Len(shape)), base \in {"explicit", "moof", "none"},
            table \in BOOLEAN} :
           trafs \in Trafs, shape \in Shapes}

Fragments == FragmentsOf({1, 2}, {<<1>>, <<2>>, <<2, 1>>})
Empty == CHOOSE x \in FragmentsOf({0}, {<<1>>}) : TRUE

MCFiles ==
  Movies \cup {Fragmented(x, x, rest) : x \in Fragments, rest \in BOOLEAN}
         \cup UNION {{Fragmented(x, Empty, FALSE), Fragmented(Empty, x, FALSE)} : x \in Fragments}

ASSUME FilesAreLaidOut == FilesLaidOut
=============================================================================
