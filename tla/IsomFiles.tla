------------------------------ MODULE IsomFiles ------------------------------
(***************************************************************************)
(* The files that the ISO media demuxer (isom.cc) reads: what their tables *)
(* and fragments may hold, and when they are laid out as the format has it,*)
(* so that they describe the samples that the tracks consist of.  Nothing  *)
(* here is translated from a writer of files: this is the meaning that the *)
(* reading code takes for granted.                                         *)
(*                                                                         *)
(* The samples of a file, and the numbers of them that lie in front of a   *)
(* chunk, a run or a box (before), are there for comparison only.          *)
(***************************************************************************)
EXTENDS Integers, Sequences

None == -1        \* an optional part of a file that is not there
HEADER == 1       \* the length of the header of a box

(* Totals of a sequence of numbers. *)
SumTo(s) == LET f[n \in 0..Len(s)] == IF n = 0 THEN 0 ELSE f[n - 1] + s[n] IN f

TrackTables ==
  [sample_size : Nat, sample_sizes : Seq(Nat),
   sample_time : Seq([count : Nat, delta : Nat]),
   sample_chunk : Seq([first : Nat, count : Nat]), chunk_offset : Seq(Nat),
   default_sample_duration : Nat, default_sample_size : Nat]
FileRuns == [offset : Int, count : Nat, sizes : Seq(Nat), durations : Seq(Nat)]
FileTrafs ==
  [track : Nat, time : Nat, base : {"explicit", "moof", "none"}, offset : Nat,
   default_sample_duration : Nat \cup {None}, default_sample_size : Nat \cup {None},
   runs : Seq(FileRuns), before : Seq(Nat)]
FileSamples == [at : Nat, size : Nat \ {0}, duration : Nat, time : Nat, timed : BOOLEAN]

-----------------------------------------------------------------------------
(* Samples and boxes *)

SampleEnd(s, m) == s[m].at + s[m].size

(* The samples from i to j lie one behind the other, in the file and in    *)
(* time.                                                                   *)
Adjacent(s, i, j) == \A m \in i..j - 1 : s[m + 1].at = SampleEnd(s, m)
InTime(s, i, j) == \A m \in i..j - 1 : s[m + 1].time = s[m].time + s[m].duration

(* Boxes have a header, and do not overlap. *)
BoxesLaid(f) ==
  /\ f.end \in Nat
  /\ \A b \in f.boxes :
       /\ b.end \in Nat /\ b.start + HEADER <= b.end /\ b.end <= f.end
       /\ b.type = "mdat" => b.end = IF b.size = 0 THEN f.end ELSE b.start + b.size
  /\ \A b, c \in f.boxes : b # c => b.end <= c.start \/ c.end <= b.start

SamplesTyped(f) == f.samples \in Seq(Seq(FileSamples)) /\ Len(f.samples) = Len(f.tracks)

(* Data from one offset to another that is in a box of its own. *)
InMdat(f, from, to) ==
  \E b \in f.boxes : b.type = "mdat" /\ b.start + HEADER <= from /\ to <= b.end

-----------------------------------------------------------------------------
(* Movies *)

(* The entry i of the chunk table is the one for the k-th chunk. *)
InEntry(e, i, k) == e[i].first <= k /\ (i < Len(e) => k < e[i + 1].first)

(* The chunks of a track hold its samples, as many in each as its entry    *)
(* says.                                                                   *)
ChunksLaid(track, s, before) ==
  LET n == Len(track.chunk_offset)
      e == track.sample_chunk
  IN  /\ before \in Seq(Nat) /\ Len(before) = n + 1 /\ before[1] = 0 /\ before[n + 1] = Len(s)
      /\ n # 0 => e[1].first = 1
      /\ \A i \in 1..Len(e) - 1 : e[i].first < e[i + 1].first
      /\ \A k \in 1..n :
           /\ before[k] < before[k + 1] /\ before[k + 1] <= Len(s)
           /\ \A i \in DOMAIN e : InEntry(e, i, k) => before[k + 1] = before[k] + e[i].count
           /\ s[before[k] + 1].at = track.chunk_offset[k]
           /\ Adjacent(s, before[k] + 1, before[k + 1])

SizesLaid(track, s) ==
  \A m \in DOMAIN s :
    s[m].size = IF track.sample_size # 0 THEN track.sample_size ELSE track.sample_sizes[m]

TimesLaid(track, s) ==
  LET e == track.sample_time
      upto == SumTo([i \in DOMAIN e |-> e[i].count])
  IN  /\ upto[Len(e)] = Len(s)
      /\ \A i \in DOMAIN e : \A m \in upto[i - 1] + 1..upto[i] : s[m].duration = e[i].delta
      /\ s # <<>> => s[1].time = 0
      /\ InTime(s, 1, Len(s))

ChunkAt(f, t, k) == f.tracks[t].chunk_offset[k]
ChunkEnd(f, t, k) == SampleEnd(f.samples[t], f.before[t][k + 1])

IsMovie(f) ==
  /\ BoxesLaid(f) /\ SamplesTyped(f)
  /\ \A b \in f.boxes : b.type # "moof"
  /\ \E b \in f.boxes : b.type = "moov"
  /\ \E b \in f.boxes : b.type = "mdat"
  /\ \A t \in DOMAIN f.tracks :
       /\ ChunksLaid(f.tracks[t], f.samples[t], f.before[t])
       /\ SizesLaid(f.tracks[t], f.samples[t]) /\ TimesLaid(f.tracks[t], f.samples[t])
       /\ \A k \in DOMAIN f.tracks[t].chunk_offset :
            InMdat(f, ChunkAt(f, t, k), ChunkEnd(f, t, k))

(* A movie that can be read without a step back: the tables come before    *)
(* the data, and the chunks of a track in their order, apart from others.  *)
InOrder(f) ==
  /\ \A b, c \in f.boxes : b.type = "moov" /\ c.type = "mdat" => b.end <= c.start
  /\ \A t \in DOMAIN f.tracks :
       \A k \in 1..Len(f.tracks[t].chunk_offset) - 1 : ChunkEnd(f, t, k) <= ChunkAt(f, t, k + 1)
  /\ \A t, u \in DOMAIN f.tracks :
       t # u => \A k \in DOMAIN f.tracks[t].chunk_offset, l \in DOMAIN f.tracks[u].chunk_offset :
                  \/ ChunkEnd(f, t, k) <= ChunkAt(f, u, l)
                  \/ ChunkEnd(f, u, l) <= ChunkAt(f, t, k)

-----------------------------------------------------------------------------
(* Fragmented movies *)

(* A fragment may leave a default to its track. *)
Default(track, traf, name) == IF traf[name] = None THEN track[name] ELSE traf[name]

RunAt(f, traf, i) == f.samples[traf.track][traf.before[i] + 1].at
RunEnd(f, traf, i) == SampleEnd(f.samples[traf.track], traf.before[i + 1])

(* A run has samples, and the time of its fragment if it is the first.     *)
RunLaid(f, traf, i) ==
  LET run == traf.runs[i]
      track == f.tracks[traf.track]
      s == f.samples[traf.track]
      from == traf.before[i]
      to == traf.before[i + 1]
  IN  /\ run.count > 0 /\ to = from + run.count /\ to <= Len(s)
      /\ run.sizes = <<>> \/ Len(run.sizes) = run.count
      /\ run.durations = <<>> \/ Len(run.durations) = run.count
      /\ Adjacent(s, from + 1, to)
      /\ \A n \in 1..run.count :
           /\ s[from + n].size = IF run.sizes # <<>> THEN run.sizes[n]
                                 ELSE Default(track, traf, "default_sample_size")
           /\ s[from + n].duration = IF run.durations # <<>> THEN run.durations[n]
                                     ELSE Default(track, traf, "default_sample_duration")
           /\ s[from + n].timed => i = 1
      /\ i = 1 => s[from + 1].time = traf.time /\ InTime(s, from + 1, to)

(* Where the offsets of a track fragment start.  One with neither an       *)
(* offset nor the flag for the fragment starts where the one before ends.  *)
BaseLaid(f, b, k) ==
  LET traf == b.trafs[k]
      previous == b.trafs[k - 1]
  IN  IF traf.base = "explicit" THEN traf.offset
      ELSE IF traf.base = "moof" \/ k = 1 THEN b.start
      ELSE RunEnd(f, previous, Len(previous.runs))

TrafLaid(f, b, k) ==
  LET traf == b.trafs[k]
      n == Len(traf.runs)
  IN  /\ Len(traf.before) = n + 1
      /\ traf.before[1] = b.before[traf.track] /\ traf.before[n + 1] = b.after[traf.track]
      /\ traf.base = "none" /\ k > 1 => b.trafs[k - 1].runs # <<>>
      /\ \A i \in 1..n :
           /\ RunLaid(f, traf, i)
           /\ RunAt(f, traf, i)
                = BaseLaid(f, b, k) + (IF traf.runs[i].offset = None THEN 0 ELSE traf.runs[i].offset)
      /\ \A i \in 1..n - 1 : RunEnd(f, traf, i) <= RunAt(f, traf, i + 1)

(* A fragment b, whose data is in d. *)
FragmentLaid(f, b, d) ==
  /\ \A k, l \in DOMAIN b.trafs : k # l => b.trafs[k].track # b.trafs[l].track
  /\ \A t \in DOMAIN f.tracks :
       (\A k \in DOMAIN b.trafs : b.trafs[k].track # t) => b.after[t] = b.before[t]
  /\ \A k \in DOMAIN b.trafs :
       /\ TrafLaid(f, b, k)
       /\ \A i \in DOMAIN b.trafs[k].runs :
            d.start + HEADER <= RunAt(f, b.trafs[k], i) /\ RunEnd(f, b.trafs[k], i) <= d.end
  /\ \A k, l \in DOMAIN b.trafs :
       k # l => \A i \in DOMAIN b.trafs[k].runs, j \in DOMAIN b.trafs[l].runs :
                  \/ RunEnd(f, b.trafs[k], i) <= RunAt(f, b.trafs[l], j)
                  \/ RunEnd(f, b.trafs[l], j) <= RunAt(f, b.trafs[k], i)

(* The samples of a fragmented movie follow each other in its fragments,   *)
(* each of which has its data behind it.                                   *)
IsFragmented(f) ==
  /\ BoxesLaid(f) /\ SamplesTyped(f)
  /\ \A t \in DOMAIN f.tracks : f.tracks[t].chunk_offset = <<>>
  /\ \E b \in f.boxes : /\ b.type = "moov"
                        /\ \A c \in f.boxes : /\ c.type = "moov" => c = b
                                              /\ c.type = "moof" => b.end <= c.start
  /\ \A b \in f.boxes :
       /\ b.before \in [DOMAIN f.tracks -> Nat] /\ b.after \in [DOMAIN f.tracks -> Nat]
       /\ \A t \in DOMAIN f.tracks :
            /\ b.after[t] <= Len(f.samples[t])
            /\ b.start = 0 => b.before[t] = 0
            /\ b.end = f.end => b.after[t] = Len(f.samples[t])
            /\ b.type # "moof" => b.after[t] = b.before[t]
       /\ \A c \in f.boxes : c.start = b.end => c.before = b.after
       /\ b.type = "moof" => \E d \in f.boxes : /\ d.type = "mdat" /\ d.start = b.end
                                                /\ FragmentLaid(f, b, d)
       /\ b.type = "mdat" => \E c \in f.boxes : c.type = "moof" /\ c.end = b.start
=============================================================================
