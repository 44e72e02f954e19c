------------------------------- MODULE Reader -------------------------------
(***************************************************************************)
(* xe_reader (src/xetrov/reader/reader.cc): the pull interface a demuxer   *)
(* reads through, on top of a stream that pushes chunks.  The demuxer runs *)
(* in a fiber (src/xetrov/worker.cc); a read the buffered data cannot      *)
(* satisfy suspends the fiber, and the stream's write callback resumes it. *)
(*                                                                         *)
(* A byte is represented by its position in the stream, so "the reader     *)
(* returned the right bytes" is a statement about positions.  A pointer is *)
(* an area and an index: the reader's internal buffer, the stream's io     *)
(* buffer (which holds a chunk only while write() is on the stack), or     *)
(* nowhere.  Exactly one of the worker and the loop runs at a time; a      *)
(* write() that resumes the worker is split in two actions, with the       *)
(* worker's operations in between.                                         *)
(***************************************************************************)
EXTENDS Integers, Sequences

CONSTANTS
  BUFFER_LIMIT,          \* largest chunk the reader accepts; the buffer is twice that
  HARD_SEEK_THRESHOLD,   \* a skip longer than this beyond the data at hand seeks
  StreamSize,            \* bytes in the stream
  ChunkSizes,            \* sizes of the chunks the stream may deliver
  Lengths,               \* lengths the worker may read or skip
  Offsets,               \* offsets the worker may seek to
  MaxOff,                \* bound: read and skip stop before off exceeds it
  Seekable,              \* xe_stream::seekable()
  StreamErrors,          \* errors the stream may report: "IO", "SEEK"
  PeekUse,               \* "none", "short", "chunk" or "any", see PeekAllows
  LetGo                  \* "any", "answered" or "tidy", see MayLetGo

ASSUME SizesAssumption ==
  /\ BUFFER_LIMIT \in Nat \ {0}
  /\ HARD_SEEK_THRESHOLD \in Nat
  /\ StreamSize \in Nat
  /\ MaxOff \in Nat
ASSUME InputsAssumption ==
  /\ ChunkSizes \subseteq Nat \ {0}
  /\ Lengths \subseteq Nat \ {0}
  /\ Offsets \subseteq 0..StreamSize
ASSUME UseAssumption ==
  /\ Seekable \in BOOLEAN
  /\ StreamErrors \subseteq {"IO", "SEEK"}
  /\ PeekUse \in {"none", "short", "chunk", "any"}
  /\ LetGo \in {"any", "answered", "tidy"}

VARIABLES
  \* the fields of xe_reader (reader.h)
  buffer, buffer_length, input_length, data, length, read_to, read_length,
  peek, off, stream_status, err, paused, peeking, closing, skipping, callback,
  worker,   \* where the worker fiber is
  frame,    \* the stream callback that is on the loop's stack
  stream,   \* the stream behind the reader
  \* history: what the latest read has copied out and the offset it began at,
  \* and one past the highest cell of the buffer a copy has stored to
  dest, from, reach

headVars == <<data, length, buffer_length, input_length>>
requestVars == <<read_to, read_length, skipping>>
peekVars == <<peek, peeking>>
statusVars == <<stream_status, err>>
memoryVars == <<buffer, reach>>
controlVars == <<worker, frame, callback, closing>>
readVars == <<dest, from>>

vars == <<headVars, requestVars, peekVars, statusVars, memoryVars, controlVars,
          readVars, off, paused, stream>>

-----------------------------------------------------------------------------
(* Memory *)

BUFFER_SIZE == 2 * BUFFER_LIMIT
Cells == 0 .. BUFFER_SIZE - 1

Junk == -1                               \* an undefined byte
Bytes == 0 .. StreamSize - 1

InBuffer(i) == [area |-> "buffer", at |-> i]
InChunk(i) == [area |-> "io", at |-> i]
Nowhere == [area |-> "none", at |-> 0]
Pointers == [area : {"buffer", "io", "none"}, at : Int]

(* input is null after construction and no statement ever points it into  *)
(* the stream's chunk; peek_mode only subtracts from it.                   *)
Input == Nowhere

Advance(p, n) == IF p.area = "none" THEN p ELSE [p EXCEPT !.at = @ + n]

(* The byte at p, given the buffer's contents mem. *)
ByteAt(mem, p) ==
  IF p.area = "io" /\ frame.kind = "write" /\ p.at \in 0 .. frame.size - 1
    THEN frame.base + p.at
  ELSE IF p.area = "buffer" /\ p.at \in Cells THEN mem[p.at]
  ELSE Junk

BytesAt(p, n) == [i \in 1..n |-> ByteAt(buffer, Advance(p, i - 1))]

(* mem after memcpy or memmove of n bytes from p to cell at. *)
Copied(mem, at, p, n) ==
  [i \in Cells |-> IF at <= i /\ i < at + n THEN ByteAt(mem, Advance(p, i - at)) ELSE mem[i]]

Min(a, b) == IF a <= b THEN a ELSE b
Larger(a, b) == IF a >= b THEN a ELSE b

-----------------------------------------------------------------------------
(* The worker fiber and the callbacks *)

Blocked == {"reading", "skipping"}       \* suspended inside wait()
Asleep == Blocked \union {"suspended", "completed"}
WorkerStates == Asleep \union {"running", "closing", "stopped", "reentered"}

FrameOf(kind) == [kind |-> kind, base |-> 0, size |-> 0, used |-> 0]
NoFrame == FrameOf("none")
Frames == [kind : {"none", "write", "done", "closed"}, base : Nat, size : Nat, used : Nat]

PeekFields == [buffer_length : Nat, buffer_offset : Nat, input_length : Nat, off : Nat]
NoPeek == [buffer_length |-> 0, buffer_offset |-> 0, input_length |-> 0, off |-> 0]

Errors == {"EOF", "ABORTED", "BUFFER_TOO_SMALL", "IO", "SEEK"}
Statuses == Errors \union {"ok"}

Streams == [state : {"open", "failing", "ended", "closed"}, pos : 0..StreamSize,
            paused : BOOLEAN]

(* The loop runs and no callback of the stream is on its stack. *)
LoopIdle == worker \in Asleep /\ frame.kind = "none"

(* The state xe_fiber_worker::resume leaves the worker in: out of the      *)
(* wait() or the manual suspension it was in, or xe_stop if its routine    *)
(* has returned.                                                           *)
Resumed == IF worker = "completed" THEN "stopped" ELSE "running"

(* Back in read() or skip() after wait(): read_to = null, skipping = false.*)
LeaveWait ==
  /\ worker' = Resumed
  /\ read_to' = IF worker = "reading" THEN FALSE ELSE read_to
  /\ skipping' = IF worker = "skipping" THEN FALSE ELSE skipping

Init ==
  /\ buffer = [i \in Cells |-> Junk]
  /\ data = Nowhere /\ length = 0 /\ buffer_length = 0 /\ input_length = 0
  /\ read_to = FALSE /\ read_length = 0 /\ skipping = FALSE
  /\ peek = NoPeek /\ peeking = FALSE
  /\ off = 0 /\ stream_status = "ok" /\ err = "ok"
  /\ paused = FALSE /\ closing = FALSE /\ callback = FALSE
  /\ worker = "running" /\ frame = NoFrame
  /\ stream = [state |-> "open", pos |-> 0, paused |-> FALSE]
  /\ dest = <<>> /\ from = 0 /\ reach = 0

-----------------------------------------------------------------------------
(* What the worker is allowed to do.  PeekUse and LetGo restrict the worker*)
(* to the uses of the reader a run is about; nothing in the code does.     *)

MayOperate == worker = "running" /\ stream.state # "closed"

(* "short": a peek stays strictly inside the chunk at hand, or inside what *)
(* is left in the buffer; if there is no data its first read waits for a   *)
(* chunk.  "chunk": a peek may read the chunk to its end.                  *)
PeekAllows(n) ==
  peeking => \/ PeekUse = "any"
             \/ n < length
             \/ n = length /\ (PeekUse = "chunk" \/ buffer_length # 0)
             \/ length = 0 /\ peek.buffer_length = 0 /\ peek.input_length = 0

(* Unless the worker peeks at will, the chunk a peek waits for holds all   *)
(* of what it waits for.                                                   *)
ChunkAllowed(n) == peeking /\ PeekUse # "any" => n >= read_length

(* Whether the worker may suspend or return while the stream runs.         *)
(* "answered": not with a request left over from a wait() that returned    *)
(* early.  "tidy": nor before it has read, or after a seek, but only once  *)
(* a read has completed.                                                   *)
Tidy == LetGo = "tidy"

MayLetGo ==
  stream.state = "open" =>
    /\ LetGo # "any" => read_length = 0
    /\ Tidy => frame.kind = "write" \/ stream.paused

-----------------------------------------------------------------------------
(* Operations of the worker *)

ReadHead == [data |-> data, length |-> length,
         buffer_length |-> buffer_length, input_length |-> input_length]

SetHead(h) ==
  /\ data' = h.data
  /\ length' = h.length
  /\ buffer_length' = h.buffer_length
  /\ input_length' = h.input_length

(* The read head after n bytes are taken and data is moved by step. *)
Moved(h, n, step) ==
  [data |-> Advance(h.data, step), length |-> h.length - n,
   buffer_length |-> h.buffer_length, input_length |-> h.input_length]

(* mutant: the buffer is not marked as exhausted *)
update_buffer_KeepsLength(h) ==
  IF h.length = 0 THEN [h EXCEPT !.data = Input, !.length = h.input_length] ELSE h

update_buffer(h) ==
  IF h.length = 0
    THEN [data |-> Input, length |-> h.input_length, buffer_length |-> 0, input_length |-> 0]
    ELSE h

Unpause ==
  /\ paused' = FALSE
  /\ stream' = [stream EXCEPT !.paused = IF paused THEN FALSE ELSE @]

(* mutant: the chunk at hand is not counted *)
PeekFull_BufferOnly == peeking /\ peek.buffer_length > BUFFER_LIMIT

(* Another chunk might not fit behind what a peek has to keep. *)
PeekFull == peeking /\ peek.buffer_length + peek.input_length > BUFFER_LIMIT

(* wait() for rest more bytes, with the worker blocked in how. *)
wait(how, rest) ==
  /\ read_length' = rest
  /\ \/ /\ stream_status # "ok"
        /\ err' = stream_status
        /\ UNCHANGED <<read_to, skipping, worker, paused, stream>>
     \/ /\ stream_status = "ok"
        /\ PeekFull
        /\ err' = "EOF"
        /\ UNCHANGED <<read_to, skipping, worker, paused, stream>>
     \/ /\ stream_status = "ok"
        /\ ~PeekFull
        /\ read_to' = (how = "reading")
        /\ skipping' = (how = "skipping")
        /\ worker' = how
        /\ Unpause
        /\ UNCHANGED err

NoWait == UNCHANGED <<requestVars, err, worker, paused, stream>>

(* read(buf, n); r8 .. r64le, f32 and f64 come down to the same steps. *)
Read(n) ==
  /\ MayOperate /\ off + n <= MaxOff /\ PeekAllows(n)
  /\ off' = off + n
  /\ from' = off
  /\ IF err # "ok"
       THEN dest' = <<>> /\ NoWait /\ UNCHANGED headVars
       ELSE LET a == Min(n, length)
                h == update_buffer(Moved(ReadHead, a, a))
                b == Min(n - a, h.length)
            IN /\ SetHead(Moved(h, b, b))
               /\ dest' = BytesAt(data, a) \o BytesAt(h.data, b)
               /\ IF a + b = n THEN NoWait ELSE wait("reading", n - a - b)
  /\ UNCHANGED <<peekVars, stream_status, memoryVars, frame, callback, closing>>

(* mutant: the worker is resumed whether it waits or not *)
DoneResumes_Always == TRUE

(* mutant: the worker is never told *)
DoneResumes_Never == FALSE

(* "we were waiting for more data, but we have no more" *)
DoneResumes == read_length # 0

(* The stream after a seek to o.  One that has ended only takes note of it *)
(* (net.cc:102).  Outside of a callback the request is ended and opened    *)
(* again under the seek; when that fails, done() is called under the seek  *)
(* and resumes the fiber it runs in, if a request is left over, and the    *)
(* status it leaves is cleared when the seek goes on.                      *)
StreamSeeks(o) ==
  \E state \in {stream.state, "ended"} :
    /\ state # stream.state => ~callback /\ stream.state = "open" /\ "IO" \in StreamErrors
    /\ stream' = [stream EXCEPT !.state = state, !.pos = o]
    /\ worker' = IF state # stream.state /\ DoneResumes THEN "reentered" ELSE worker

(* mutant: a stream that had ended is still reported as ended *)
Repositioned_KeepsStatus(o) ==
  /\ off' = o
  /\ buffer_length' = 0 /\ input_length' = 0 /\ length' = 0
  /\ err' = "ok"
  /\ StreamSeeks(o)
  /\ UNCHANGED <<data, stream_status>>

(* mutant: the data at hand survives the seek *)
Repositioned_KeepsData(o) ==
  /\ off' = o
  /\ stream_status' = "ok" /\ err' = "ok"
  /\ StreamSeeks(o)
  /\ UNCHANGED headVars

(* What a successful seek to o leaves behind. *)
Repositioned(o) ==
  /\ off' = o
  /\ buffer_length' = 0 /\ input_length' = 0 /\ length' = 0
  /\ stream_status' = "ok" /\ err' = "ok"
  /\ StreamSeeks(o)
  /\ UNCHANGED data

SeekFails(o) ==
  /\ "SEEK" \in StreamErrors
  /\ stream_status' = "SEEK"
  /\ UNCHANGED <<headVars, stream, worker>>

Seek(o) ==
  /\ MayOperate /\ ~peeking
  /\ \/ Repositioned(o)
     \/ SeekFails(o) /\ UNCHANGED <<off, err>>
  /\ UNCHANGED <<requestVars, peekVars, memoryVars, frame, callback, closing, readVars, paused>>

(* skip(n) when it is long enough to be a seek. *)
SkipBySeek(n) ==
  /\ MayOperate /\ err = "ok" /\ ~peeking /\ Seekable
  /\ n > length + input_length + HARD_SEEK_THRESHOLD
  /\ off + n <= StreamSize
  /\ \/ Repositioned(off + n)
     \/ SeekFails(off + n) /\ off' = off + n /\ err' = "SEEK"
  /\ UNCHANGED <<requestVars, peekVars, memoryVars, frame, callback, closing, readVars, paused>>

(* skip(n) over the data at hand and, if that is too little, through the   *)
(* stream.  After the second segment the head moves by what is left to     *)
(* skip (reader.cc:383), not by what was skipped.                          *)
SkipThrough(n) ==
  /\ MayOperate /\ off + n <= MaxOff /\ PeekAllows(n)
  /\ ~(err = "ok" /\ ~peeking /\ Seekable
        /\ n > length + input_length + HARD_SEEK_THRESHOLD)
  /\ off' = off + n
  /\ IF err # "ok"
       THEN NoWait /\ UNCHANGED headVars
       ELSE LET a == Min(n, length)
                h == update_buffer(Moved(ReadHead, a, a))
                b == Min(n - a, h.length)
            IN /\ SetHead(IF b = 0 THEN h ELSE Moved(h, b, n - a - b))
               /\ IF a + b = n THEN NoWait ELSE wait("skipping", n - a - b)
  /\ UNCHANGED <<peekVars, stream_status, memoryVars, frame, callback, closing, readVars>>

(* mutant: the extent of the chunk is not recorded *)
PeekStart_NoInput ==
  IF buffer_length # 0
    THEN [buffer_length |-> length, buffer_offset |-> data.at,
          input_length |-> input_length, off |-> off]
    ELSE [peek EXCEPT !.off = off]

(* mutant: the offset of an earlier peek is kept *)
PeekStart_KeepsOff ==
  IF buffer_length # 0
    THEN [buffer_length |-> length, buffer_offset |-> data.at,
          input_length |-> input_length, off |-> peek.off]
    ELSE [peek EXCEPT !.input_length = length]

(* What peek_mode(true) records of the data at hand. *)
PeekStart ==
  IF buffer_length # 0
    THEN [buffer_length |-> length, buffer_offset |-> data.at,
          input_length |-> input_length, off |-> off]
    ELSE [peek EXCEPT !.input_length = length, !.off = off]

PeekOn ==
  /\ MayOperate /\ ~peeking /\ PeekUse # "none"
  /\ peeking' = TRUE
  /\ peek' = PeekStart
  /\ UNCHANGED <<headVars, requestVars, statusVars, memoryVars, controlVars, readVars,
                 off, paused, stream>>

(* peek_mode(false): the read head goes back to where peeking began. *)
PeekOff ==
  /\ MayOperate /\ peeking
  /\ peeking' = FALSE
  /\ LET ran_out == peek.input_length # 0 /\ buffer_length = 0
         saved == peek.buffer_length # 0
     IN IF saved
          THEN /\ data' = InBuffer(peek.buffer_offset)
               /\ length' = peek.buffer_length
               /\ buffer_length' = peek.buffer_length
               /\ input_length' = IF ran_out THEN peek.input_length ELSE input_length
          ELSE /\ data' = IF ran_out THEN Advance(data, length - peek.input_length) ELSE data
               /\ length' = IF ran_out THEN peek.input_length ELSE length
               /\ UNCHANGED <<buffer_length, input_length>>
  /\ err' = IF length' # 0 THEN "ok" ELSE err
  /\ off' = peek.off
  /\ peek' = [NoPeek EXCEPT !.off = peek.off]
  /\ UNCHANGED <<requestVars, stream_status, memoryVars, controlVars, readVars,
                 paused, stream>>

(* The worker suspends of its own accord, outside any reader operation. *)
Suspend ==
  /\ MayOperate /\ MayLetGo /\ (peeking => PeekUse = "any")
  /\ worker' = "suspended"
  /\ UNCHANGED <<headVars, requestVars, peekVars, statusVars, memoryVars, frame, callback,
                 closing, readVars, off, paused, stream>>

(* The routine returns: fiber_start suspends the worker for good. *)
Finish ==
  /\ worker = "running" /\ MayLetGo
  /\ worker' = "completed"
  /\ UNCHANGED <<headVars, requestVars, peekVars, statusVars, memoryVars, frame, callback,
                 closing, readVars, off, paused, stream>>

(* mutant: the stream is closed on the spot *)
CloseDeferred_AtOnce ==
  /\ MayOperate /\ callback
  /\ closing' = TRUE
  /\ worker' = "closing"
  /\ stream' = [stream EXCEPT !.state = "closed"]
  /\ UNCHANGED <<headVars, requestVars, peekVars, statusVars, memoryVars, frame, callback,
                 readVars, off, paused>>

(* close() under a stream callback: the worker leaves it to resume(). *)
CloseDeferred ==
  /\ MayOperate /\ callback
  /\ closing' = TRUE
  /\ worker' = "closing"
  /\ UNCHANGED <<headVars, requestVars, peekVars, statusVars, memoryVars, frame, callback,
                 readVars, off, paused, stream>>

-----------------------------------------------------------------------------
(* The stream's callbacks *)

(* write() of a chunk the worker waits for, up to the end of resume()'s    *)
(* switch to the worker; the rest of write() is WriteReturn and            *)
(* CloseInCallback.                                                        *)
MayWrite(n) ==
  /\ LoopIdle /\ stream.state = "open" /\ ~stream.paused
  /\ stream.pos + n <= StreamSize
  /\ ChunkAllowed(n)

Written(n) == stream' = [stream EXCEPT !.pos = @ + n]

TooBig(n) == n > BUFFER_LIMIT

(* Nobody waits: "bad call to write()"; the stream ends with an error. *)
WriteUnwanted(n) ==
  /\ MayWrite(n) /\ read_length = 0
  /\ err' = "ABORTED"
  /\ stream' = [stream EXCEPT !.state = "failing"]
  /\ UNCHANGED <<headVars, requestVars, peekVars, stream_status, memoryVars, controlVars,
                 readVars, off, paused>>

WriteTooBig(n) ==
  /\ MayWrite(n) /\ read_length # 0 /\ TooBig(n)
  /\ err' = "BUFFER_TOO_SMALL" /\ stream_status' = "BUFFER_TOO_SMALL"
  /\ stream' = [stream EXCEPT !.state = "failing"]
  /\ UNCHANGED <<headVars, requestVars, peekVars, memoryVars, controlVars,
                 readVars, off, paused>>

(* mutant: no min with the length of the chunk *)
Wanted_NoMin(n) == IF read_to \/ skipping THEN read_length ELSE 0

(* What of the chunk goes to the pending read or skip. *)
Wanted(n) == IF read_to \/ skipping THEN Min(read_length, n) ELSE 0

Delivered(n) ==
  dest' = IF read_to THEN dest \o [i \in 1..Wanted(n) |-> stream.pos + i - 1] ELSE dest

PeekInput(n) ==
  peek' = IF peeking THEN [peek EXCEPT !.input_length = n] ELSE peek

(* The chunk does not satisfy the request: write() returns for the next one.*)
WritePart(n) ==
  /\ MayWrite(n) /\ read_length # 0 /\ ~TooBig(n)
  /\ (read_to \/ skipping) /\ n < read_length
  /\ read_length' = read_length - n
  /\ Delivered(n) /\ PeekInput(n) /\ Written(n)
  /\ UNCHANGED <<headVars, read_to, skipping, peeking, statusVars, memoryVars, controlVars,
                 from, off, paused>>

WriteResume(n) ==
  /\ MayWrite(n) /\ read_length # 0 /\ ~TooBig(n)
  /\ (read_to \/ skipping) => n >= read_length
  /\ read_length' = read_length - Wanted(n)
  /\ Delivered(n) /\ PeekInput(n) /\ Written(n)
  /\ data' = InChunk(Wanted(n))
  /\ length' = n - Wanted(n)
  /\ LeaveWait
  /\ callback' = TRUE
  /\ frame' = [kind |-> "write", base |-> stream.pos, size |-> n, used |-> Wanted(n)]
  /\ UNCHANGED <<buffer_length, input_length, peeking, statusVars, memoryVars, closing,
                 from, off, paused>>

(* done(error): wakes the worker if it waits for data. *)
DoneCall(error) ==
  /\ stream_status' = IF stream_status = "ok" THEN error ELSE stream_status
  /\ IF DoneResumes
       THEN /\ err' = IF err = "ok" THEN stream_status' ELSE err
            /\ LeaveWait
            /\ callback' = TRUE
            /\ frame' = FrameOf("done")
       ELSE UNCHANGED <<err, worker, read_to, skipping, callback, frame>>
  /\ UNCHANGED <<headVars, read_length, peekVars, memoryVars, closing, readVars, off, paused>>

StreamEnd(error) ==
  /\ LoopIdle
  /\ \/ stream.state = "open" /\ ~stream.paused /\ stream.pos = StreamSize /\ error = "EOF"
     \/ stream.state = "open" /\ error \in StreamErrors \ {"SEEK"}
     \/ stream.state = "failing" /\ error = "ABORTED"
  /\ stream' = [stream EXCEPT !.state = "ended"]
  /\ DoneCall(error)

(* The stream's owner closes the reader from the loop: a stream that has   *)
(* not ended reports that it was aborted (net.cc:118 ends the request).    *)
CloseInLoop ==
  /\ LoopIdle /\ stream.state \in {"open", "ended"}
  /\ stream' = [stream EXCEPT !.state = "closed"]
  /\ IF stream.state = "open"
       THEN DoneCall("ABORTED")
       ELSE UNCHANGED <<headVars, requestVars, peekVars, statusVars, memoryVars, controlVars,
                        readVars, off, paused>>

(* The same from the worker when no callback is on the stack: if done()    *)
(* resumes, it resumes the fiber it is running in.                         *)
CloseInWorker ==
  /\ MayOperate /\ ~callback
  /\ stream' = [stream EXCEPT !.state = "closed"]
  /\ IF stream.state = "open"
       THEN /\ stream_status' = IF stream_status = "ok" THEN "ABORTED" ELSE stream_status
            /\ err' = IF DoneResumes /\ err = "ok" THEN stream_status' ELSE err
            /\ worker' = IF DoneResumes THEN "reentered" ELSE worker
       ELSE UNCHANGED <<stream_status, err, worker>>
  /\ UNCHANGED <<headVars, requestVars, peekVars, memoryVars, frame, callback, closing,
                 readVars, off, paused>>

-----------------------------------------------------------------------------
(* The end of resume() and the rest of write() and done() *)

(* The worker has asked for a close: resume() closes the stream for it and *)
(* goes back to it; the callback returns without using the reader again.   *)
CloseInCallback ==
  /\ worker = "closing"
  /\ callback' = FALSE
  /\ stream' = [stream EXCEPT !.state = "closed"]
  /\ worker' = "running"
  /\ frame' = FrameOf("closed")
  /\ UNCHANGED <<headVars, requestVars, peekVars, statusVars, memoryVars, closing,
                 readVars, off, paused>>

(* done(), or a callback that closed, returns. *)
FrameReturn ==
  /\ worker \in Asleep /\ frame.kind \in {"done", "closed"}
  /\ callback' = FALSE
  /\ frame' = NoFrame
  /\ UNCHANGED <<headVars, requestVars, peekVars, statusVars, memoryVars, worker, closing,
                 readVars, off, paused, stream>>

(* The part of the chunk write() has not consumed itself. *)
RestLength == frame.size - frame.used

(* While peeking every chunk is kept: the buffer and the peek record after *)
(* the chunk is appended.                                                  *)
MovesPeeked ==
  /\ peeking /\ peek.buffer_offset # 0
  /\ peek.buffer_offset + peek.buffer_length + peek.input_length > BUFFER_SIZE

PeekedOffset == IF MovesPeeked THEN 0 ELSE peek.buffer_offset

PeekedBuffer ==
  LET room == IF MovesPeeked
                THEN Copied(buffer, 0, InBuffer(peek.buffer_offset), peek.buffer_length)
                ELSE buffer
  IN IF peeking
       THEN Copied(room, peek.buffer_length, InChunk(frame.size - peek.input_length),
                   peek.input_length)
       ELSE buffer

PeekedReach ==
  IF peeking /\ peek.input_length # 0
    THEN Larger(reach, peek.buffer_length + peek.input_length)
  ELSE IF MovesPeeked THEN Larger(reach, peek.buffer_length)
  ELSE reach

KeepPeeked ==
  peek' = IF peeking
            THEN [peek EXCEPT !.buffer_offset = PeekedOffset,
                              !.buffer_length = @ + peek.input_length, !.input_length = 0]
            ELSE peek

(* One past the last cell of n bytes stored at p; a store that is not into *)
(* the buffer is beyond every cell.                                        *)
StoreEnd(p, n) ==
  IF n = 0 THEN 0 ELSE IF p.area = "buffer" THEN p.at + n ELSE BUFFER_SIZE + 1

(* The worker suspended of its own accord with data left in the buffer:    *)
(* the rest of the chunk goes behind it, after a move to the front if it   *)
(* does not fit.                                                           *)
SaveBehind ==
  LET fits == data.at + length + RestLength <= BUFFER_SIZE
      room == IF fits THEN buffer ELSE Copied(buffer, 0, data, length)
      at == IF fits THEN data ELSE InBuffer(0)
  IN /\ buffer' = Copied(room, at.at + length, InChunk(frame.used), RestLength)
     /\ reach' = Larger(Larger(reach, IF fits THEN 0 ELSE length),
                        StoreEnd(Advance(at, length), RestLength))
     /\ data' = at
     /\ length' = length + RestLength
     /\ buffer_length' = length + RestLength

(* ... with nothing left in the buffer: the data at hand is saved. *)
SaveAtFront ==
  /\ buffer' = Copied(buffer, 0, data, length)
  /\ reach' = Larger(reach, length)
  /\ data' = InBuffer(0)
  /\ buffer_length' = length
  /\ UNCHANGED length

WriteReturns ==
  /\ worker \in Asleep /\ frame.kind = "write"
  /\ callback' = FALSE
  /\ frame' = NoFrame
  /\ KeepPeeked
  /\ UNCHANGED <<input_length, requestVars, peeking, statusVars, worker, closing, readVars, off>>

(* mutant: the stream is not told *)
PauseStream_FlagOnly == read_length = 0 /\ paused' = TRUE /\ UNCHANGED stream

PauseStream ==
  /\ read_length = 0
  /\ paused' = TRUE
  /\ stream' = [stream EXCEPT !.paused = TRUE]

(* The worker waits for more: the stream goes on. *)
WriteReturnWaiting ==
  /\ WriteReturns /\ read_length # 0
  /\ buffer' = PeekedBuffer /\ reach' = PeekedReach
  /\ UNCHANGED <<data, length, buffer_length, paused, stream>>

WriteReturnPeeking ==
  /\ WriteReturns /\ PauseStream /\ peeking
  /\ buffer' = PeekedBuffer /\ reach' = PeekedReach
  /\ data' = InBuffer(PeekedOffset)
  /\ length' = peek.buffer_length + peek.input_length
  /\ UNCHANGED buffer_length

WriteReturnSaving ==
  /\ WriteReturns /\ PauseStream /\ ~peeking
  /\ IF buffer_length # 0 THEN SaveBehind ELSE SaveAtFront

(* The loop resumes a worker that suspended of its own accord. *)
ResumeWorker ==
  /\ LoopIdle /\ worker = "suspended" /\ stream.state # "failing"
  /\ worker' = "running"
  /\ UNCHANGED <<headVars, requestVars, peekVars, statusVars, memoryVars, frame, callback,
                 closing, readVars, off, paused, stream>>

(* Nothing is left to do, the process has been stopped, or the worker      *)
(* waits for a stream that has ended and will not bring anything again.    *)
Halted ==
  /\ \/ worker \in {"stopped", "reentered"}
     \/ /\ worker \in Blocked \union {"completed"}
        /\ frame.kind = "none" /\ stream.state \in {"ended", "closed"}
  /\ UNCHANGED vars

-----------------------------------------------------------------------------

WorkerStep ==
  \/ \E n \in Lengths : Read(n) \/ SkipBySeek(n) \/ SkipThrough(n)
  \/ \E o \in Offsets : Seek(o)
  \/ PeekOn \/ PeekOff
  \/ Suspend \/ Finish
  \/ CloseDeferred
  \/ CloseInWorker

WriteStep(n) == WriteUnwanted(n) \/ WriteTooBig(n) \/ WritePart(n) \/ WriteResume(n)

StreamStep ==
  \/ \E n \in ChunkSizes : WriteStep(n)
  \/ \E error \in Errors : StreamEnd(error)

ReturnStep ==
  \/ CloseInCallback
  \/ FrameReturn
  \/ WriteReturnWaiting \/ WriteReturnPeeking \/ WriteReturnSaving

LoopStep == ResumeWorker \/ CloseInLoop

Next == WorkerStep \/ StreamStep \/ ReturnStep \/ LoopStep \/ Halted

Spec == Init /\ [][Next]_vars

-----------------------------------------------------------------------------
(* Properties *)

(* Every variable keeps its type: lengths never go negative, flags and     *)
(* statuses take the values the fields of xe_reader can hold.              *)
TypeOK ==
  /\ buffer \in [Cells -> Bytes \union {Junk}]
  /\ data \in Pointers
  /\ length \in Nat /\ buffer_length \in Nat /\ input_length \in Nat
  /\ read_to \in BOOLEAN /\ skipping \in BOOLEAN /\ read_length \in Nat
  /\ peek \in PeekFields /\ peeking \in BOOLEAN
  /\ off \in Nat
  /\ stream_status \in Statuses /\ err \in Statuses
  /\ paused \in BOOLEAN /\ closing \in BOOLEAN /\ callback \in BOOLEAN
  /\ worker \in WorkerStates
  /\ frame \in Frames
  /\ stream \in Streams
  /\ dest \in Seq(Bytes \union {Junk}) /\ from \in Nat /\ reach \in Nat

(* read() copies out the bytes of the stream that lie at the offset the    *)
(* reader reports, in order, whatever chunks, skips, seeks, suspensions    *)
(* and rewinds came before (reader.cc:399).                                *)
ReadsTheStream == \A i \in DOMAIN dest : dest[i] = from + i - 1

(* No copy stores outside of the internal buffer: the size limits of       *)
(* write() and wait() keep it from overflowing (reader.cc:55, 190).        *)
BufferInBounds == reach <= BUFFER_SIZE

(* The stream may call write() only when the reader has handed out all it  *)
(* had (reader.cc:85: "this function will only be called when all data is  *)
(* exhausted").                                                            *)
WritesFindReaderEmpty ==
  LoopIdle /\ stream.state = "open" /\ ~stream.paused /\ stream.pos < StreamSize
    => length = 0 /\ buffer_length = 0 /\ input_length = 0

(* write() is never called when nobody waits for data: "bad call to        *)
(* write()" (reader.cc:49) is unreachable.                                 *)
WritesAreWanted ==
  LoopIdle /\ stream.state = "open" /\ ~stream.paused => read_length # 0

(* A fiber is resumed only while it is suspended: the stop of worker.cc:12 *)
(* ("fiber resumed after completing") is unreachable.                      *)
NeverResumedAfterCompleting == worker # "stopped"

(* Nor is the worker resumed from inside itself, when it closes the reader *)
(* outside of a stream callback, at whatever time, or a seek there fails   *)
(* to open the stream again: done() is called under both (reader.cc:290,   *)
(* 347), and takes a request that is left over for a worker that waits.    *)
(* A request is left over only on a stream that has ended, unless a seek   *)
(* has failed or a peek has run into its limit.                            *)
NeverResumedWhileRunning == worker # "reentered"

(* A worker that suspended of its own accord is woken by its owner, never  *)
(* by a stream callback (reader.cc:110).                                   *)
OnlyOwnerWakes ==
  [][worker = "suspended" /\ worker' # "suspended" => frame' = NoFrame /\ ~callback']_vars

(* eof() without an error means the worker has had every byte of the       *)
(* stream (reader.cc:527).                                                 *)
EofIsTheEnd ==
  stream_status = "EOF" /\ length = 0 /\ input_length = 0 /\ err = "ok" /\ worker = "running"
    => off >= StreamSize

(* When the stream is closed no write() of the reader is left on the stack *)
(* that would go on using the reader (reader.cc:284).                      *)
ClosedOutsideWrite == stream.state = "closed" => frame.kind # "write"

(* peek_mode(false) puts the read head back to where peeking began: unless *)
(* the peek failed and left no data, what is at hand afterwards is the     *)
(* stream from there on (reader.cc:23: "peek mode allows rewinding the     *)
(* read head back to when peeking was enabled").                           *)
RewindRestoresHead ==
  [][peeking /\ ~peeking'
       => BytesAt(data, length)' = [i \in 1..length' |-> peek.off + i - 1]]_vars

(* The reader is the cursor of ByteSource. *)
Source == INSTANCE ByteSource WITH
  pos <- off, mark <- peek.off, marked <- peeking, got <- dest,
  reading <- worker = "reading", failed <- err # "ok"

(* Every step of the reader is a step of the cursor or leaves it alone:    *)
(* reads deliver the cursor's bytes and complete, errors stay until a seek *)
(* or a rewind (reader.cc:294, 342, 359, 399).                             *)
ImplementsSource == Source!Spec

(* What an open transfer that is not paused does sooner or later, and the  *)
(* library's end of one whose write() has failed.  That a transfer fails   *)
(* is not among it: no wait may depend on that.                            *)
Progress == (\E n \in ChunkSizes : WriteStep(n)) \/ StreamEnd("EOF") \/ StreamEnd("ABORTED")

(* The stream keeps delivering, and callbacks return. *)
FairSpec == Spec /\ WF_vars(Progress) /\ WF_vars(ReturnStep)

(* A worker blocked in wait() on a stream that has not ended gets its data *)
(* or an error: wait() has unpaused the stream, no write() pauses it under *)
(* the worker, and the end of the stream is passed on (reader.cc:150, 196).*)
(* After a seek on a stream that has ended a wait() never returns.         *)
WaitEnds ==
  worker \in Blocked /\ stream.state \in {"open", "failing"} ~> worker \notin Blocked

-----------------------------------------------------------------------------
(* Why a tidy worker is safe: the two halves of an inductive invariant.    *)

(* Control: a worker that is not blocked, and not running, waits for       *)
(* nothing, and the stream is paused or about to be; a blocked worker has  *)
(* used up what was at hand.  (wait(), write() and done().)                *)
TidyControl ==
  /\ worker \in {"suspended", "completed"} /\ stream.state = "open" =>
       read_length = 0 /\ (frame.kind = "write" \/ stream.paused)
  /\ worker \in Blocked => read_length # 0 /\ length = 0 /\ buffer_length = 0
  /\ stream.state = "failing" => worker \in Blocked /\ frame.kind = "none"
  /\ frame.kind = "write" => stream.state = "open" /\ frame.size <= BUFFER_LIMIT
  /\ frame.kind \in {"write", "done"} => callback
  /\ worker # "stopped"

(* Memory: what a peek keeps leaves room for one more chunk whenever one   *)
(* can come, and so does what a rewind in a write() puts back.             *)
(* (reader.cc:93-144, 190, 294-339.)                                       *)
TidyMemory ==
  /\ reach <= BUFFER_SIZE /\ length <= BUFFER_SIZE /\ peek.buffer_length <= BUFFER_SIZE
  /\ input_length <= BUFFER_LIMIT /\ peek.input_length <= BUFFER_LIMIT
  /\ peeking /\ worker \in Blocked =>
       peek.buffer_length + (IF frame.kind = "write" THEN peek.input_length ELSE 0) <= BUFFER_LIMIT
  /\ frame.kind = "write" =>
       length <= BUFFER_LIMIT /\ (peeking => peek.buffer_length <= BUFFER_LIMIT)
  /\ buffer_length = 0 /\ peek.buffer_length = 0 => length <= BUFFER_LIMIT
  /\ ~peeking => peek.buffer_length = 0 /\ peek.input_length = 0
  /\ buffer_length # 0 => data.area = "buffer"

TidyInv == TidyControl /\ TidyMemory

=============================================================================
