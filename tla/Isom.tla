-------------------------------- MODULE Isom --------------------------------
(***************************************************************************)
(* The ISO media demuxer (isom.cc): the walk over the boxes of the file by *)
(* read_root(), the samples of the movie by moov_next_sample(), and those  *)
(* of the fragments by next_run() and read_packet().                       *)
(*                                                                         *)
(* A file has boxes, the sample tables of its tracks, and, for comparison, *)
(* the samples that each track consists of.  The tables and fragments are  *)
(* as a file has them; what the demuxer reads them into is translated.     *)
(***************************************************************************)
EXTENDS IsomFiles

CONSTANTS
  Files,
  Word            \* number of values of a uint

ASSUME WordAssumption == Word \in Nat \ {0}

(* What a file may have: tables and runs of any lengths and contents, but  *)
(* at least one track, and an entry for the chunks of a track if it has    *)
(* any, as Tracks[0] and sample_chunk[0] are used unasked (isom.cc:1690,   *)
(* 1695).                                                                  *)
ASSUME FilesAssumption ==
  \A f \in Files :
    /\ f.tracks \in Seq(TrackTables) /\ f.tracks # <<>>
    /\ \A t \in DOMAIN f.tracks :
         f.tracks[t].chunk_offset # <<>> => f.tracks[t].sample_chunk # <<>>
    /\ \A b \in f.boxes :
         /\ b.start \in Nat /\ b.size \in Nat /\ b.trafs \in Seq(FileTrafs)
         /\ \A k \in DOMAIN b.trafs : b.trafs[k].track \in DOMAIN f.tracks

(* The samples of a file are where its tables or its fragments say, as the *)
(* theorems about them need it; and a movie for streaming is in order.     *)
FilesLaidOut ==
  \A f \in Files : IsFragmented(f) \/ (IsMovie(f) /\ (f.streamable => InOrder(f)))

VARIABLES
  file,
  pc,             \* where the demuxer is
  result,         \* of the last call of the demuxer
  opened, reader,
  found_moov, found_moof, found_mdat, built_index,
  mdat_start, mdat_end, mdat_size,
  cursor,         \* of each track: current_chunk, current_sample, sample_chunk_index
  track_index,
  moof, traf_index,
  packet,         \* the last one: the track and the bytes it came from, its times
  delivered,      \* packets of each track
  failure         \* "truncated": the stream has ended before the file;
                  \* "unread": next_run() has ignored that memory was short

found == <<found_moov, found_moof, found_mdat>>
mdat == <<mdat_start, mdat_end, mdat_size>>
movie == <<built_index, cursor, track_index>>
fragment == <<moof, traf_index>>
output == <<packet, delivered>>
caller == <<pc, result, opened>>
vars == <<file, caller, reader, found, mdat, movie, fragment, output, failure>>

(* The tables of a track are those of the file: read_stts(), read_stsc(),  *)
(* read_stsz(), read_stco() and read_co64() copy them.                     *)
Tracks == DOMAIN file.tracks
NoPacket == [track |-> 0, at |-> 0, size |-> 0, time |-> 0, duration |-> 0]

Init ==
  /\ file \in Files
  /\ pc = "idle" /\ result = "OK" /\ opened = FALSE
  /\ reader = [offset |-> 0, error |-> "OK"]
  /\ found_moov = FALSE /\ found_moof = FALSE /\ found_mdat = FALSE /\ built_index = FALSE
  /\ mdat_start = 0 /\ mdat_end = 0 /\ mdat_size = 0
  /\ cursor = [t \in Tracks |-> [chunk |-> 0, sample |-> 0, index |-> 1]]
  /\ track_index = 1
  /\ moof = [start |-> 0, trafs |-> <<>>] /\ traf_index = 1
  /\ packet = NoPacket /\ delivered = [t \in Tracks |-> 0]
  /\ failure = "none"

-----------------------------------------------------------------------------
(* The reader *)

(* mutant: a length with a sign *)
SkippedTo_Back(offset) ==
  IF offset <= file.end THEN [offset |-> offset, error |-> "OK"]
  ELSE [offset |-> file.end, error |-> "XE_EOF"]

(* A skip to an offset, by a length that has no sign: one that lies behind *)
(* leads beyond every file.                                                *)
SkippedTo(offset) ==
  IF offset >= reader.offset /\ offset <= file.end
    THEN [offset |-> offset, error |-> "OK"]
    ELSE [offset |-> file.end, error |-> "XE_EOF"]

ReaderErrors == {"XE_EOF", "XE_EXTERNAL"}

(* The reader fails, or its stream ends too early. *)
Broken(e) ==
  /\ reader.error = "OK"
  /\ reader' = [reader EXCEPT !.error = e]
  /\ failure' = IF e = "XE_EOF" /\ failure = "none" THEN "truncated" ELSE failure

Fail(err) == pc' = "idle" /\ result' = err /\ UNCHANGED opened

Go(to) == pc' = to /\ UNCHANGED <<result, opened>>

-----------------------------------------------------------------------------
(* The boxes: read_root() is called by open(), and by next_run(), where it *)
(* returns to what had called that.                                        *)

InRoot == pc \in {"open", "first_root", "next_root"}

(* read_root() returns 0.  open() may not get the memory for its copy of   *)
(* the tracks.                                                             *)
RootReturns ==
  IF pc = "open"
    THEN /\ pc' = "idle"
         /\ \/ result' = "OK" /\ opened' = TRUE
            \/ result' = "XE_ENOMEM" /\ UNCHANGED opened
    ELSE Go(IF pc = "first_root" THEN "first_run" ELSE "next_run")

(* Only open() looks at the error of read_root(). *)
RootFails(e) == IF pc = "open" THEN Fail(e) ELSE RootReturns

Open ==
  /\ pc = "idle" /\ ~opened /\ result = "OK"
  /\ Go("open")
  /\ UNCHANGED <<file, reader, found, mdat, movie, fragment, output, failure>>

(* A box may be the last one that this walk looks at: the next sample is   *)
(* known.                                                                  *)
AfterBox == IF found_moov' /\ found_mdat' THEN RootReturns ELSE UNCHANGED caller

Box(type) ==
  /\ InRoot /\ reader.error = "OK"
  /\ \E b \in file.boxes : b.start = reader.offset /\ b.type = type
TheBox == CHOOSE b \in file.boxes : b.start = reader.offset

ReadMoov ==
  /\ Box("moov")
  /\ found_moov' = TRUE
  /\ reader' = SkippedTo(TheBox.end)
  /\ UNCHANGED <<file, found_moof, found_mdat, mdat, movie, fragment, output, failure>>
  /\ AfterBox

(* After the movie the walk stops in front of the data, otherwise behind   *)
(* it, unless it is the rest of the file.                                  *)
ReadMdat ==
  /\ Box("mdat")
  /\ found_mdat' = TRUE
  /\ mdat_start' = reader.offset + HEADER
  /\ mdat_size' = TheBox.size /\ mdat_end' = reader.offset + TheBox.size
  /\ reader' = IF found_moov \/ TheBox.size = 0
                 THEN [reader EXCEPT !.offset = @ + HEADER] ELSE SkippedTo(TheBox.end)
  /\ UNCHANGED <<file, found_moov, found_moof, movie, fragment, output, failure>>
  /\ IF found_moov \/ TheBox.size = 0 THEN RootReturns ELSE UNCHANGED caller

SkipBox ==
  /\ Box("other")
  /\ reader' = SkippedTo(TheBox.end)
  /\ UNCHANGED <<file, found, mdat, movie, fragment, output, failure>>
  /\ AfterBox

(* read_trun(): durations are added up. *)
Run(r) ==
  [data_offset |-> IF r.offset = None THEN 0 ELSE r.offset,
   total_sample_size |-> SumTo(r.sizes)[Len(r.sizes)],
   sample_count |-> r.count,
   sample_duration |-> [n \in DOMAIN r.durations |-> SumTo(r.durations)[n]],
   sample_size |-> r.sizes,
   current_sample |-> 0]

(* read_traf(), read_tfhd(), read_tfdt(): the defaults are those of the    *)
(* track unless the fragment has its own.                                  *)
Traf(f) ==
  LET default(name) == IF f[name] = None THEN file.tracks[f.track][name] ELSE f[name]
  IN  [track |-> f.track, start_time |-> f.time,
       offset |-> IF f.base = "explicit" THEN f.offset ELSE 0,
       explicit_base_offset |-> f.base = "explicit",
       default_base_is_moof |-> f.base = "moof",
       default_sample_duration |-> default("default_sample_duration"),
       default_sample_size |-> default("default_sample_size"),
       runs |-> [k \in DOMAIN f.runs |-> Run(f.runs[k])],
       run_index |-> 1]

trafs_of(box) == [k \in DOMAIN box.trafs |-> Traf(box.trafs[k])]

ReadMoof ==
  /\ Box("moof")
  /\ found_moof' = TRUE
  /\ moof' = [start |-> TheBox.start, trafs |-> trafs_of(TheBox)]
  /\ reader' = SkippedTo(TheBox.end)
  /\ UNCHANGED <<file, found_moov, found_mdat, mdat, movie, traf_index, output, failure>>
  /\ AfterBox

(* The end of the file is where the walk ends. *)
NoBox ==
  /\ InRoot /\ reader.error = "OK" /\ reader.offset = file.end
  /\ reader' = [reader EXCEPT !.error = "XE_EOF"]
  /\ UNCHANGED <<file, found, mdat, movie, fragment, output, failure>>
  /\ RootReturns

(* The reader fails between two boxes or in one of them.  The end of the   *)
(* stream is no error between two boxes.                                   *)
RootBreaks(e) ==
  /\ InRoot /\ Broken(e)
  /\ UNCHANGED <<file, found, mdat, movie, fragment, output>>
  /\ \/ IF e = "XE_EOF" THEN RootReturns ELSE RootFails(e)
     \/ (\E b \in file.boxes : b.start = reader.offset) /\ RootFails(e)

(* skip_box() has led beyond the end, or next_run() called with an error. *)
RootStops ==
  /\ InRoot /\ reader.error # "OK"
  /\ UNCHANGED <<file, reader, found, mdat, movie, fragment, output, failure>>
  /\ RootFails(reader.error)

(* What read_traf() and read_trun() have of a fragment when the memory for *)
(* the next part, or for the tables of the last run (bare), is not there.  *)
BareRun(run) ==
  [run EXCEPT !.total_sample_size = 0, !.sample_size = <<>>, !.sample_duration = <<>>]
Part(trafs, j, bare) ==
  LET k == Len(trafs)
      runs == SubSeq(trafs[k].runs, 1, j)
  IN  [trafs EXCEPT ![k].runs =
         IF bare THEN [runs EXCEPT ![j] = BareRun(@)] ELSE runs]

Parts(trafs) ==
  {<<>>} \cup UNION {{Part(SubSeq(trafs, 1, k), j, FALSE) : j \in 0..Len(trafs[k].runs)}
                   \cup {Part(SubSeq(trafs, 1, k), j, TRUE) : j \in DOMAIN trafs[k].runs} :
                   k \in DOMAIN trafs}

(* next_run() goes on with the part of the fragment, and does so inside    *)
(* the box.                                                                *)
MoofNoMemory ==
  /\ Box("moof")
  /\ found_moof' = TRUE
  /\ \E trafs \in Parts(trafs_of(TheBox)) : moof' = [start |-> TheBox.start, trafs |-> trafs]
  /\ \E offset \in TheBox.start + HEADER..TheBox.end - 1 :
       reader' = [reader EXCEPT !.offset = offset]
  /\ failure' = IF pc = "open" THEN failure ELSE "unread"
  /\ RootFails("XE_ENOMEM")
  /\ UNCHANGED <<file, found_moov, found_mdat, mdat, movie, traf_index, output>>

MoovNoMemory ==
  /\ Box("moov")
  /\ found_moov' = TRUE
  /\ RootFails("XE_ENOMEM")
  /\ UNCHANGED <<file, reader, found_moof, found_mdat, mdat, movie, fragment, output, failure>>

ReadRoot ==
  \/ ReadMoov \/ ReadMdat \/ SkipBox \/ ReadMoof \/ NoBox \/ RootStops
  \/ MoofNoMemory \/ MoovNoMemory
  \/ \E e \in ReaderErrors : RootBreaks(e)

-----------------------------------------------------------------------------
(* Packets *)

(* The one of several, each at an offset, that comes first in the file,    *)
(* and the last one of those at the same offset.                           *)
Nearest(at) ==
  CHOOSE x \in DOMAIN at :
    \A y \in DOMAIN at : at[x] < at[y] \/ (at[x] = at[y] /\ y <= x)

(* The end of read_packet(): the sample is read into a new packet.  It has *)
(* been counted before.                                                    *)
Deliver(t, size, time, duration) ==
  \/ /\ Fail("XE_ENOMEM")
     /\ UNCHANGED <<reader, output, failure>>
  \/ /\ reader.error # "OK" /\ Fail(reader.error)
     /\ UNCHANGED <<reader, output, failure>>
  \/ /\ \E e \in ReaderErrors : Broken(e) /\ Fail(e)
     /\ UNCHANGED output
  \/ /\ reader.error = "OK" /\ reader.offset + size <= file.end
     /\ reader' = [reader EXCEPT !.offset = @ + size]
     /\ packet' = [track |-> t, at |-> reader.offset, size |-> size, time |-> time,
                   duration |-> duration]
     /\ delivered' = [delivered EXCEPT ![t] = @ + 1]
     /\ Go("idle") /\ UNCHANGED failure

Reading == pc = "idle" /\ opened /\ result = "OK"

ReaderFailed ==
  /\ Reading /\ reader.error # "OK"
  /\ Fail(reader.error)
  /\ UNCHANGED <<file, reader, found, mdat, movie, fragment, output, failure>>

-----------------------------------------------------------------------------
(* The samples of the movie *)

(* build_index(): the number of the first sample that an entry of the      *)
(* tables is about, and the time at its end.                               *)
sample_to_chunk(t) ==
  LET e == file.tracks[t].sample_chunk
      f[i \in DOMAIN e] ==
        IF i = 1 THEN 0 ELSE f[i - 1] + (e[i].first - e[i - 1].first) * e[i - 1].count
  IN  f

time_to_sample(t) ==
  LET e == file.tracks[t].sample_time
      f[i \in DOMAIN e] == IF i = 1 THEN 0 ELSE f[i - 1] + e[i - 1].count
  IN  f

sample_to_time(t) ==
  LET e == file.tracks[t].sample_time
      f[i \in DOMAIN e] == ((e[i].count * e[i].delta) % Word) + (IF i = 1 THEN 0 ELSE f[i - 1])
  IN  f

(* bsearch() narrows its range at the upper end only.  It does not end     *)
(* (None) when the middle of the range is not greater than the value.      *)
Search(a, value) ==
  LET f[high \in 0..Len(a)] ==
        IF high <= 1 THEN high
        ELSE LET mid == (1 + high + 1) \div 2 IN IF a[mid] > value THEN f[mid - 1] ELSE None
  IN  f[Len(a)]

HasChunk(c, t) == c[t].chunk < Len(file.tracks[t].chunk_offset)
ChunkOffset(c, t) == file.tracks[t].chunk_offset[c[t].chunk + 1]

(* moov_next_chunk() seeks a chunk that lies behind, and leaves an error   *)
(* of that to the read that follows.                                       *)
ToChunk(offset) ==
  IF offset < reader.offset
    THEN /\ Go("sample")
         /\ \/ reader' = [reader EXCEPT !.offset = offset] /\ UNCHANGED failure
            \/ \E e \in ReaderErrors : Broken(e)
    ELSE \/ /\ reader' = SkippedTo(offset) /\ UNCHANGED failure
            /\ Go(IF reader'.error = "OK" THEN "sample" ELSE "fragment")
         \/ \E e \in ReaderErrors :
              Broken(e) /\ (IF e = "XE_EOF" THEN Go("fragment") ELSE Fail(e))

moov_next_chunk(c) ==
  LET left == {t \in Tracks : HasChunk(c, t)}
      offset == [t \in left |-> ChunkOffset(c, t)]
  IN  /\ cursor' = c
      /\ IF left = {}
           THEN Go("fragment") /\ UNCHANGED <<reader, track_index, failure>>
           ELSE track_index' = Nearest(offset) /\ ToChunk(offset[track_index'])

BuildIndex ==
  /\ Reading /\ reader.error = "OK" /\ ~built_index
  /\ built_index' = TRUE
  /\ moov_next_chunk(cursor)
  /\ UNCHANGED <<file, found, mdat, fragment, output>>

(* mutant: the chunks counted from 1, as in the lines that follow *)
sample_end_Late(t) ==
  LET c == cursor[t]
      e == file.tracks[t].sample_chunk[c.index]
  IN  (c.chunk - e.first) * e.count + sample_to_chunk(t)[c.index] + e.count

(* The number of the first sample that is behind the chunk of the track. *)
sample_end(t) ==
  LET c == cursor[t]
      e == file.tracks[t].sample_chunk[c.index]
  IN  (c.chunk - e.first + 1) * e.count + sample_to_chunk(t)[c.index] + e.count

(* mutant: every chunk has an entry of its own *)
Advanced_EveryEntry(t) == [cursor EXCEPT ![t].chunk = @ + 1, ![t].index = @ + 1]

(* The chunk of the track is left behind. *)
Advanced(t) ==
  LET c == cursor[t]
      e == file.tracks[t].sample_chunk
      next == c.index < Len(e) /\ c.chunk + 2 >= e[c.index + 1].first
  IN  [cursor EXCEPT ![t].chunk = @ + 1, ![t].index = IF next THEN @ + 1 ELSE @]

NextSample ==
  /\ Reading /\ reader.error = "OK" /\ built_index
  /\ IF ~HasChunk(cursor, track_index)
       THEN Go("fragment") /\ UNCHANGED <<reader, cursor, track_index, failure>>
     ELSE IF cursor[track_index].sample < sample_end(track_index)
       THEN Go("sample") /\ UNCHANGED <<reader, cursor, track_index, failure>>
     ELSE moov_next_chunk(Advanced(track_index))
  /\ UNCHANGED <<file, built_index, found, mdat, fragment, output>>

TakeSample ==
  /\ pc = "sample"
  /\ LET t == track_index
         n == cursor[t].sample
         track == file.tracks[t]
         size == IF track.sample_size # 0 THEN track.sample_size ELSE track.sample_sizes[n + 1]
         i == Search(time_to_sample(t), n)
     IN  IF i = None
           THEN Go("hung") /\ UNCHANGED <<reader, cursor, output, failure>>
           ELSE /\ cursor' = [cursor EXCEPT ![t].sample = @ + 1]
                /\ Deliver(t, size,
                     (((n - time_to_sample(t)[i]) * track.sample_time[i].delta) % Word)
                       + (IF i > 1 THEN sample_to_time(t)[i - 1] ELSE 0),
                     track.sample_time[i].delta)
  /\ UNCHANGED <<file, found, mdat, built_index, track_index, fragment>>

-----------------------------------------------------------------------------
(* The samples of the fragments *)

Total(f, r) ==
  IF r.sample_size = <<>> /\ r.total_sample_size = 0
    THEN r.sample_count * f.default_sample_size
    ELSE r.total_sample_size

(* mutant: the base is always that of the fragment *)
Base_Moof(f, end) == IF f.explicit_base_offset THEN f.offset ELSE moof.start

(* The base of a track fragment, after one whose data ends at end. *)
Base(f, end) ==
  IF f.explicit_base_offset THEN f.offset
  ELSE IF f.default_base_is_moof THEN moof.start ELSE end

(* Where the data of the first k track fragments ends. *)
last_offset ==
  LET f[k \in 0..Len(moof.trafs)] ==
        IF k = 0 THEN moof.start
        ELSE LET traf == moof.trafs[k]
                 run == traf.runs[Len(traf.runs)]
             IN  IF traf.runs = <<>> THEN f[k - 1]
                 ELSE Base(traf, f[k - 1]) + run.data_offset + Total(traf, run)
  IN  f

(* next_run() when the fragment is new: the offsets of the runs become     *)
(* those of the file, ...                                                  *)
PlacedRun(traf, base, run) ==
  [run EXCEPT !.data_offset = @ + base, !.total_sample_size = Total(traf, run)]
PlacedTraf(traf, base) ==
  [traf EXCEPT !.offset = base,
     !.runs = [j \in DOMAIN traf.runs |-> PlacedRun(traf, base, traf.runs[j])]]
Placed ==
  [k \in DOMAIN moof.trafs |->
     PlacedTraf(moof.trafs[k], Base(moof.trafs[k], last_offset[k - 1]))]

(* ... which have to lie in the data.                                      *)
InData(r) ==
  /\ r.data_offset >= mdat_start
  /\ mdat_size # 0 => r.data_offset + r.total_sample_size <= mdat_end

InRun == pc \in {"first_run", "next_run"}

(* next_run() looks for the nearest run; without one it goes on to the     *)
(* boxes behind the data.                                                  *)
SeekRun(trafs) ==
  LET left == {k \in DOMAIN trafs : trafs[k].run_index <= Len(trafs[k].runs)}
      offset == [k \in left |-> trafs[k].runs[trafs[k].run_index].data_offset]
      nearest == Nearest(offset)
  IN  IF left = {}
        THEN /\ reader' = SkippedTo(mdat_end)
             /\ Go(IF pc = "first_run" THEN "first_root" ELSE "next_root")
             /\ UNCHANGED <<traf_index, failure>>
        ELSE /\ traf_index' = nearest
             /\ \/ /\ offset[nearest] < reader.offset
                   /\ Fail("XE_INVALID_DATA") /\ UNCHANGED <<reader, failure>>
                \/ /\ offset[nearest] >= reader.offset
                   /\ reader' = SkippedTo(offset[nearest]) /\ UNCHANGED failure
                   /\ IF reader'.error # "OK" THEN Fail(reader'.error)
                      ELSE Go(IF pc = "first_run" THEN "check" ELSE "take")
                \/ \E e \in ReaderErrors : Broken(e) /\ Fail(e)

NewMoof ==
  /\ InRun /\ reader.error = "OK" /\ found_moof /\ found_mdat
  /\ found_moof' = FALSE /\ found_mdat' = FALSE
  /\ IF \A k \in DOMAIN Placed : \A j \in DOMAIN Placed[k].runs : InData(Placed[k].runs[j])
       THEN moof' = [moof EXCEPT !.trafs = Placed] /\ SeekRun(Placed)
       ELSE Fail("XE_INVALID_DATA") /\ UNCHANGED <<moof, reader, traf_index, failure>>
  /\ UNCHANGED <<file, found_moov, mdat, movie, output>>

SameMoof ==
  /\ InRun /\ reader.error = "OK" /\ ~(found_moof /\ found_mdat)
  /\ SeekRun(moof.trafs)
  /\ UNCHANGED <<file, found, moof, mdat, movie, output>>

NoRun ==
  /\ InRun /\ reader.error # "OK"
  /\ Fail(reader.error)
  /\ UNCHANGED <<file, reader, found, mdat, movie, fragment, output, failure>>

TheTraf == moof.trafs[traf_index]

(* read_packet(), after the samples of the movie. *)
ReadFragment ==
  /\ pc = "fragment"
  /\ IF found_moof /\ found_mdat THEN Go("first_run")
     ELSE IF moof.trafs = <<>> THEN Fail("XE_EOF") ELSE Go("check")
  /\ UNCHANGED <<file, reader, found, mdat, movie, fragment, output, failure>>

CheckRun ==
  /\ pc = "check"
  /\ LET run == TheTraf.runs[TheTraf.run_index]
     IN  IF run.current_sample >= run.sample_count
           THEN moof' = [moof EXCEPT !.trafs[traf_index].run_index = @ + 1] /\ Go("next_run")
           ELSE Go("take") /\ UNCHANGED moof
  /\ UNCHANGED <<file, reader, found, mdat, movie, traf_index, output, failure>>

TakeFromRun ==
  /\ pc = "take"
  /\ LET traf == TheTraf
         i == traf.run_index
         run == traf.runs[i]
         n == run.current_sample
         ends == run.sample_duration
         given == ends # <<>>
         before == IF n = 0 THEN 0
                   ELSE IF given THEN ends[n] ELSE (traf.default_sample_duration * n) % Word
     IN  /\ moof' = [moof EXCEPT !.trafs[traf_index].runs[i].current_sample = @ + 1]
         /\ Deliver(traf.track,
              IF run.sample_size # <<>> THEN run.sample_size[n + 1] ELSE traf.default_sample_size,
              traf.start_time + before,
              IF given THEN ends[n + 1] - (IF n = 0 THEN 0 ELSE ends[n])
                       ELSE traf.default_sample_duration)
  /\ UNCHANGED <<file, found, mdat, movie, traf_index>>

Next ==
  \/ Open \/ ReadRoot
  \/ ReaderFailed \/ BuildIndex \/ NextSample \/ TakeSample
  \/ ReadFragment \/ NewMoof \/ SameMoof \/ NoRun \/ CheckRun \/ TakeFromRun

Spec == Init /\ [][Next]_vars

-----------------------------------------------------------------------------
(* Properties *)

Results == {"OK", "XE_EOF", "XE_EXTERNAL", "XE_ENOMEM", "XE_INVALID_DATA"}

(* The cursors stay in the tables of their tracks, and the index of the    *)
(* fragment in its runs: moov_next_sample() and read_packet() use them     *)
(* without a check, long after the calls that moved them.                  *)
CursorsInTables ==
  /\ \A t \in Tracks :
       /\ cursor[t].chunk <= Len(file.tracks[t].chunk_offset)
       /\ HasChunk(cursor, t) => cursor[t].index \in DOMAIN file.tracks[t].sample_chunk
  /\ pc = "sample" => track_index \in Tracks /\ HasChunk(cursor, track_index)
  /\ pc \in {"check", "take"} =>
       traf_index \in DOMAIN moof.trafs /\ TheTraf.run_index \in DOMAIN TheTraf.runs

(* The packets of a track are its samples, one after the other, with their *)
(* bytes and durations.  The time is right up to the width of a uint, in   *)
(* which it is computed, except in the second and later runs of a track    *)
(* fragment, which read_packet() starts anew at its start time.            *)
PacketsInTurn ==
  /\ \A t \in Tracks : delivered[t] <= Len(file.samples[t])
  /\ packet.track # 0 /\ failure # "unread" =>
       LET s == file.samples[packet.track][delivered[packet.track]]
       IN  /\ packet.at = s.at /\ packet.size = s.size /\ packet.duration = s.duration
           /\ s.timed => /\ packet.time % Word = s.time % Word
                         /\ s.time < Word => packet.time = s.time

(* A file that is whole is read to its end: the demuxer stops only where   *)
(* the reader or the memory failed, or with all samples delivered.         *)
EndIsTheEnd ==
  result # "OK" /\ failure = "none" =>
    \/ result = "XE_ENOMEM"
    \/ result = reader.error /\ result = "XE_EXTERNAL"
    \/ result = "XE_EOF" /\ \A t \in Tracks : delivered[t] = Len(file.samples[t])

(* A file laid out for streaming is read from its start to its end, with   *)
(* no step back: moov_next_chunk() seeks in other files only, and          *)
(* next_run() leads behind the data it is done with.                       *)
OnlyForward == [][file.streamable => reader'.offset >= reader.offset]_vars

=============================================================================
