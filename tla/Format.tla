------------------------------- MODULE Format -------------------------------
(***************************************************************************)
(* xe_format (format.cc) over its stream, its reader and its demuxer: the  *)
(* routine of the worker opens a file, asks for packets and may suspend of *)
(* its own accord; the loop runs the stream's callbacks and resumes the    *)
(* worker; one of the two closes.                                          *)
(*                                                                         *)
(* The stream keeps to its contract (StreamContract), the reader hands out *)
(* the bytes in order and waits for more (Reader), and the demuxers read   *)
(* headers of at least a probe's length, seek and return as they like      *)
(* (Isom, Matroska).  What is left of them here is what close() and the    *)
(* probes depend on: who runs, who waits where, the error states, and what *)
(* of the chunks that a probe has read is kept for a rewind.  A unit of    *)
(* data is two bytes.                                                      *)
(***************************************************************************)
EXTENDS Integers, Sequences

CONSTANTS
  Size,         \* units of data that a file may have
  Closers       \* which of "loop" and "worker" may be the one that closes

ASSUME FormatAssumption == Size \in Nat /\ Closers \subseteq {"loop", "worker"}

Formats == <<"isom", "matroska">>
ProbeLength == <<4, 2>>     \* eight bytes, and an identifier of four
ProbeRead == <<2, 1>>       \* which they take in two reads
None == "none"

VARIABLES
  file,         \* what is to be read: its kind, its size and its codec
  closer,       \* who closes
  stream,       \* none, idle (created), running, stopping, ended or closed
  got,          \* how far the stream has delivered the file
  first,        \* history: length of the first chunk
  reader,       \* its fields, and what follows from its buffers
  demuxer,      \* none, one of Formats, deleted
  parser,       \* the track has a parser
  pc,           \* what the worker executes
  running,      \* which fiber runs
  loop          \* what the loop executes

vars == <<file, closer, stream, got, first, reader, demuxer, parser, pc, running, loop>>

(* The fields of the reader.  skew is how far the byte at hand lies beyond *)
(* off; need, what a suspended read still lacks; in vain, it waits for a   *)
(* stream that has ended.  In peek mode input is peek.input_length, saved  *)
(* peek.buffer_length, and base where the first byte of them belongs; when *)
(* fault, the pointer that comes after the saved bytes points nowhere.     *)
FirstReader ==
  [set |-> FALSE, off |-> 0, skew |-> 0, need |-> 0, peek |-> 0, peeking |-> FALSE,
   input |-> 0, saved |-> 0, base |-> 0, fault |-> FALSE, err |-> None, status |-> None,
   waiting |-> FALSE, vain |-> FALSE, callback |-> FALSE, closing |-> FALSE]

Init ==
  /\ file \in [kind : {"isom", "matroska", "other"}, size : 0..Size,
               codec : {"aac", "opus", "flac"}]
  /\ closer \in Closers
  /\ stream = "none" /\ got = 0 /\ first = 0
  /\ reader = FirstReader
  /\ demuxer = "none" /\ parser = FALSE
  /\ pc = "start" /\ running = "loop" /\ loop = "idle"

At(p) == running = "worker" /\ pc = p
ToWorker(r) == running' = "worker" /\ reader' = r
InDemuxer == {"demuxer_open", "demuxer_read"}

-----------------------------------------------------------------------------
(* The stream and the reader *)

(* xe_reader::done: a waiting worker is told, and resumed from there *)
Done(r, error) ==
  LET s == IF r.status = None THEN error ELSE r.status
  IN  IF r.waiting
        THEN [r EXCEPT !.status = s, !.err = IF @ = None THEN s ELSE @,
                       !.waiting = FALSE, !.callback = TRUE]
        ELSE [r EXCEPT !.status = s]

Active == stream \in {"running", "stopping"}

(* The stream is aborted or closed where it may end at once. *)
EndedBy(r) == IF Active THEN Done(r, "ABORTED") ELSE r

(* mutant: the read head stays behind what a probe has read *)
Restored_Keeps(r) == [r EXCEPT !.peeking = FALSE]

(* peek_mode(false): the head goes back to the first byte that is kept,    *)
(* and the error goes if there is one.  Where the last chunk is kept next  *)
(* to others, or all of it has been read, the pointer to it is computed    *)
(* from null (reader.cc:161, 317-321).                                     *)
Restored(r) ==
  [r EXCEPT !.peeking = FALSE, !.off = r.peek, !.skew = r.base - r.peek,
            !.fault = r.input > 0 /\ (r.saved > 0 \/ r.off + r.skew >= got),
            !.err = IF r.saved + r.input > 0 THEN None ELSE @]

(* peek_mode(true): what is at hand is in the buffer or in the last chunk. *)
Peeking(r) ==
  [r EXCEPT !.peeking = TRUE, !.peek = r.off, !.base = r.off + r.skew,
            !.input = IF r.saved > 0 THEN @ ELSE got - (r.off + r.skew)]

(* A chunk of n comes in while peeking. *)
Noted(r, n) ==
  IF r.peeking THEN [r EXCEPT !.input = n, !.base = IF r.saved = 0 THEN got ELSE @] ELSE r

(* A worker that suspends in a probe leaves its chunk to be saved. *)
Saved(r) == IF r.peeking THEN [r EXCEPT !.saved = @ + r.input, !.input = 0] ELSE r

Probing(i) == At(IF i = 1 THEN "probe1" ELSE "probe2")

(* The probe has its bytes, or an error: then what it reads is zero. *)
ProbeIsOver(i) == reader.err # None \/ reader.off = reader.peek + ProbeLength[i]

(* What is read next: a demuxer takes anything. *)
Wanted ==
  {1 : p \in {pc} \intersect InDemuxer} \union
  {ProbeRead[i] : i \in {j \in 1..2 : Probing(j) /\ ~ProbeIsOver(j)}}

Faults(end) == reader.fault /\ end > reader.base + reader.saved

(* n units are read: they are at hand, or the worker waits for the rest,   *)
(* unless the stream has ended.                                            *)
Read(n) ==
  LET end == reader.off + reader.skew + n
      r   == [reader EXCEPT !.off = @ + n]
  IN
  /\ running = "worker" /\ reader.err = None /\ ~Faults(end)
  /\ IF end <= got
       THEN reader' = r /\ UNCHANGED running
     ELSE IF r.status # None
       THEN reader' = [r EXCEPT !.err = r.status] /\ UNCHANGED running
       ELSE /\ reader' = [r EXCEPT !.waiting = TRUE, !.vain = ~Active, !.need = end - got]
            /\ running' = "loop"
  /\ UNCHANGED <<file, closer, stream, got, first, demuxer, parser, pc, loop>>

(* The program ends. *)
ReadFaults(n) ==
  /\ running = "worker" /\ reader.err = None
  /\ Faults(reader.off + reader.skew + n)
  /\ pc' = "crashed"
  /\ UNCHANGED <<file, closer, stream, got, first, reader, demuxer, parser, running, loop>>

(* write() is called for a worker that waits; for any other the stream is  *)
(* paused.                                                                 *)
StreamWrites(n) ==
  /\ running = "loop" /\ loop = "idle"
  /\ stream = "running" /\ reader.waiting /\ got + n <= file.size
  /\ got' = got + n /\ first' = IF first = 0 THEN n ELSE first
  /\ IF n < reader.need
       THEN /\ reader' = [Noted(reader, n) EXCEPT !.need = @ - n]
            /\ UNCHANGED <<running, loop>>
       ELSE /\ loop' = "callback"
            /\ ToWorker([Noted(reader, n) EXCEPT !.need = 0, !.waiting = FALSE, !.callback = TRUE])
  /\ UNCHANGED <<file, closer, stream, demuxer, parser, pc>>

StreamEnds(error) ==
  /\ running = "loop" /\ loop = "idle"
  /\ Active
  /\ error = "EOF" => stream = "running" /\ got = file.size
  /\ stream' = "ended"
  /\ reader' = Done(reader, error)
  /\ IF reader.waiting
       THEN running' = "worker" /\ loop' = "callback"
       ELSE UNCHANGED <<running, loop>>
  /\ UNCHANGED <<file, closer, got, first, demuxer, parser, pc>>

(* A demuxer goes elsewhere in the file: xe_reader::seek.  A stream that   *)
(* has ended only takes note of it (net.cc:102); outside of a callback one *)
(* that runs is opened again at once, which may fail.                      *)
DemuxerSeeks(offset) ==
  /\ running = "worker" /\ pc \in InDemuxer
  /\ reader.err = None /\ reader.off >= ProbeLength[1]
  /\ \/ stream' = stream
     \/ stream' = "ended" /\ Active /\ ~reader.callback
  /\ got' = offset
  /\ reader' = [reader EXCEPT !.off = offset, !.skew = 0, !.fault = FALSE, !.status = None]
  /\ UNCHANGED <<file, closer, first, demuxer, parser, pc, running, loop>>

-----------------------------------------------------------------------------
(* xe_format::open *)

Fails == pc' = "failed"

LoopStartsWorker ==
  /\ running = "loop" /\ loop = "idle" /\ pc = "start"
  /\ pc' = "opening" /\ running' = "worker"
  /\ UNCHANGED <<file, closer, stream, got, first, reader, demuxer, parser, loop>>

(* No memory for the stream; the stream refuses to open; no memory for the *)
(* reader, which leaves the open stream without one.                       *)
OpenFails(left) ==
  /\ At("opening")
  /\ stream' = left /\ Fails
  /\ UNCHANGED <<file, closer, got, first, reader, demuxer, parser, running, loop>>

StreamOpens ==
  /\ At("opening")
  /\ stream' = "running"
  /\ reader' = Peeking([reader EXCEPT !.set = TRUE])
  /\ pc' = "probe1"
  /\ UNCHANGED <<file, closer, got, first, demuxer, parser, running, loop>>

(* What the probe says: in the middle of a file there may be anything. *)
Verdicts(i) ==
  IF reader.err # None THEN {FALSE}
  ELSE IF reader.peek + reader.skew = 0 THEN {file.kind = Formats[i]} ELSE BOOLEAN

ProbeMatches(i) ==
  /\ Probing(i) /\ ProbeIsOver(i) /\ TRUE \in Verdicts(i)
  /\ reader' = Restored(reader)
  /\ \/ demuxer' = Formats[i] /\ pc' = "demuxer_open"
     \/ demuxer' = demuxer /\ Fails     \* ENOMEM
  /\ UNCHANGED <<file, closer, stream, got, first, parser, running, loop>>

ProbeDoesNotMatch(i) ==
  /\ Probing(i) /\ ProbeIsOver(i) /\ FALSE \in Verdicts(i)
  /\ IF Restored(reader).err # None
       THEN reader' = Restored(reader) /\ Fails
     ELSE IF i < Len(Formats)
       THEN reader' = Peeking(Restored(reader)) /\ pc' = "probe2"
       ELSE reader' = Restored(reader) /\ pc' = "unknown_format"
  /\ UNCHANGED <<file, closer, stream, got, first, demuxer, parser, running, loop>>

DemuxerOpens ==
  /\ At("demuxer_open")
  /\ pc' = "opened"
  /\ UNCHANGED <<file, closer, stream, got, first, reader, demuxer, parser, running, loop>>

(* The stream is aborted: inside of a callback it stops after it. *)
DemuxerRefuses ==
  /\ At("demuxer_open")
  /\ Fails
  /\ IF reader.callback
       THEN /\ stream' = IF Active THEN "stopping" ELSE stream
            /\ UNCHANGED reader
       ELSE /\ stream' = IF Active THEN "ended" ELSE stream
            /\ reader' = EndedBy(reader)
  /\ UNCHANGED <<file, closer, got, first, demuxer, parser, running, loop>>

-----------------------------------------------------------------------------
(* xe_format::read_packet, and the rest of the worker's routine, which     *)
(* calls nothing on a format that has been closed                          *)

ReadPacket ==
  /\ At("opened") /\ demuxer # "deleted"
  /\ pc' = "demuxer_read"
  /\ UNCHANGED <<file, closer, stream, got, first, reader, demuxer, parser, running, loop>>

(* Matroska has the headers of packets parsed, except for AAC's, and there *)
(* are parsers for Opus and Vorbis only (mkv.cc:1587, codec.cc:92).        *)
IsParsed == file.kind = "matroska" /\ file.codec # "aac"
HasParser == file.codec = "opus"

(* The demuxer fails; the packet, when it needs one, gets no parser or is  *)
(* refused by it; or it is returned.  After an error the worker asks for   *)
(* no more packets.                                                        *)
ReadPacketReturns(error) ==
  /\ At("demuxer_read")
  /\ error # "demuxer" => reader.err = None
  /\ error = "parser" => IsParsed
  /\ error = None => ~IsParsed \/ HasParser
  /\ parser' = (parser \/ (error # "demuxer" /\ IsParsed /\ HasParser))
  /\ pc' = IF error = None THEN "opened" ELSE "failed"
  /\ UNCHANGED <<file, closer, stream, got, first, reader, demuxer, running, loop>>

Outside == {"opened", "failed", "unknown_format", "closed"}

WorkerSuspends ==
  /\ running = "worker" /\ pc \in Outside
  /\ running' = "loop"
  /\ UNCHANGED <<file, closer, stream, got, first, reader, demuxer, parser, pc, loop>>

LoopResumesWorker ==
  /\ running = "loop" /\ loop = "idle" /\ pc \in Outside \ {"closed"}
  /\ running' = "worker"
  /\ UNCHANGED <<file, closer, stream, got, first, reader, demuxer, parser, pc, loop>>

-----------------------------------------------------------------------------
(* xe_format::close, xe_reader::close and what follows *)

(* mutant: the demuxer goes before the stream is closed *)
LoopCloses_DemuxerFirst ==
  /\ running = "loop" /\ loop = "idle" /\ closer = "loop" /\ pc # "start"
  /\ demuxer # "deleted"
  /\ demuxer' = "deleted"
  /\ IF reader.set
       THEN /\ stream' = "closed"
            /\ reader' = EndedBy(reader)
            /\ IF Active /\ reader.waiting
                 THEN loop' = "closing" /\ running' = "worker"
                 ELSE UNCHANGED <<loop, running>>
       ELSE UNCHANGED <<stream, reader, loop, running>>
  /\ UNCHANGED <<file, closer, got, first, parser, pc>>

(* The loop closes outside of any callback.  The stream's end wakes a      *)
(* worker that waits for it, before the demuxer is deleted.                *)
LoopCloses ==
  /\ running = "loop" /\ loop = "idle" /\ closer = "loop" /\ pc # "start"
  /\ demuxer # "deleted"
  /\ IF reader.set
       THEN /\ stream' = "closed"
            /\ reader' = EndedBy(reader)
            /\ IF Active /\ reader.waiting
                 THEN loop' = "closing" /\ running' = "worker" /\ UNCHANGED demuxer
                 ELSE demuxer' = "deleted" /\ UNCHANGED <<loop, running>>
       ELSE demuxer' = "deleted" /\ UNCHANGED <<stream, reader, loop, running>>
  /\ UNCHANGED <<file, closer, got, first, parser, pc>>

(* The worker has suspended under done(), which close() has caused. *)
LoopHasClosed ==
  /\ running = "loop" /\ loop = "closing"
  /\ loop' = "idle" /\ demuxer' = "deleted"
  /\ reader' = [reader EXCEPT !.callback = FALSE]
  /\ UNCHANGED <<file, closer, stream, got, first, parser, pc, running>>

(* The worker closes: inside of a callback it first leaves it. *)
WorkerCloses ==
  /\ running = "worker" /\ pc \in Outside \ {"closed"} /\ closer = "worker"
  /\ IF reader.set /\ reader.callback
       THEN /\ reader' = [reader EXCEPT !.closing = TRUE]
            /\ pc' = "closing" /\ running' = "loop"
            /\ UNCHANGED <<stream, demuxer>>
       ELSE /\ stream' = IF reader.set THEN "closed" ELSE stream
            /\ reader' = IF reader.set THEN EndedBy(reader) ELSE reader
            /\ demuxer' = "deleted"
            /\ pc' = "closed" /\ UNCHANGED running
  /\ UNCHANGED <<file, closer, got, first, parser, loop>>

(* xe_reader::resume after the worker has given control back *)
CallbackReturns ==
  /\ running = "loop" /\ loop = "callback"
  /\ IF reader.closing
       THEN /\ stream' = "closed" /\ loop' = "closed"
            /\ ToWorker([reader EXCEPT !.callback = FALSE])
       ELSE /\ loop' = "idle"
            /\ reader' = Saved([reader EXCEPT !.callback = FALSE])
            /\ UNCHANGED <<stream, running>>
  /\ UNCHANGED <<file, closer, got, first, demuxer, parser, pc>>

WorkerHasClosed ==
  /\ At("closing")
  /\ demuxer' = "deleted" /\ pc' = "closed"
  /\ UNCHANGED <<file, closer, stream, got, first, reader, parser, running, loop>>

(* The callback in which the stream was closed returns to the stream. *)
ClosedCallbackReturns ==
  /\ running = "loop" /\ loop = "closed"
  /\ loop' = "idle"
  /\ UNCHANGED <<file, closer, stream, got, first, reader, demuxer, parser, pc, running>>

-----------------------------------------------------------------------------

Next ==
  \/ \E n \in Wanted : Read(n)
  \/ \E n \in Wanted : ReadFaults(n)
  \/ \E n \in 1..Size : StreamWrites(n)
  \/ \E error \in {"EOF", "FAILED"} : StreamEnds(error)
  \/ \E offset \in 0..Size : DemuxerSeeks(offset)
  \/ LoopStartsWorker
  \/ \E left \in {"none", "idle", "running"} : OpenFails(left)
  \/ StreamOpens
  \/ \E i \in 1..2 : ProbeMatches(i)
  \/ \E i \in 1..2 : ProbeDoesNotMatch(i)
  \/ DemuxerOpens
  \/ DemuxerRefuses
  \/ ReadPacket
  \/ \E error \in {None, "demuxer", "parser"} : ReadPacketReturns(error)
  \/ WorkerSuspends
  \/ LoopResumesWorker
  \/ LoopCloses
  \/ LoopHasClosed
  \/ WorkerCloses
  \/ CallbackReturns
  \/ WorkerHasClosed
  \/ ClosedCallbackReturns

Spec == Init /\ [][Next]_vars

-----------------------------------------------------------------------------
(* Properties *)

(* close() deletes the demuxer, whose functions run on the worker and      *)
(* suspend inside of the reader: when it does, the stream, which would     *)
(* wake such a call, is closed, and no call of the demuxer is left, nor    *)
(* comes later, but one that waited in vain before: for a stream on which  *)
(* it had called seek() after the end, and which nothing wakes any more.   *)
NothingLeftBehind ==
  demuxer = "deleted" =>
    /\ reader.set => stream = "closed"
    /\ pc \in InDemuxer => reader.waiting
    /\ reader.waiting => reader.vain

(* open() gives a file to the demuxer of its format, from the first byte   *)
(* on, and reports an unknown format only for one, or after the stream has *)
(* ended early: if the first chunk of the stream is longer than a probe.   *)
(* If it is not, the rewind loses the head, whatever the probe has found.  *)
FormatIsFound ==
  [][ first > ProbeLength[1] =>
      /\ pc # "demuxer_open" /\ pc' = "demuxer_open" =>
           demuxer' = file.kind /\ reader'.off + reader'.skew = 0 /\ ~reader'.fault
      /\ pc # "unknown_format" /\ pc' = "unknown_format" =>
           file.kind = "other" \/ reader.status # None ]_vars
=============================================================================
