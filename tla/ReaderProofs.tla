---------------------------- MODULE ReaderProofs ----------------------------
(***************************************************************************)
(* Theorems about Reader for every value of its constants.                 *)
(***************************************************************************)
EXTENDS Reader, TLAPS

USE SizesAssumption, InputsAssumption, UseAssumption

Values == Bytes \union {Junk}

(***************************************************************************)
(* Type correctness.  TypeOK is not inductive: besides the types of the    *)
(* variables, grouped as Reader groups them, TypeInv says that a read head *)
(* in the internal buffer does not point in front of it (so that the       *)
(* offset a peek records is a natural number) and that the chunk of a      *)
(* write() is a piece of the stream of which it has used no more than all. *)
(***************************************************************************)
HeadType ==
  /\ data \in Pointers
  /\ length \in Nat /\ buffer_length \in Nat /\ input_length \in Nat
  /\ buffer_length # 0 => data.at >= 0
RequestType == read_to \in BOOLEAN /\ skipping \in BOOLEAN /\ read_length \in Nat
PeekType == peek \in PeekFields /\ peeking \in BOOLEAN
StatusType == stream_status \in Statuses /\ err \in Statuses
MemoryType == buffer \in [Cells -> Values] /\ reach \in Nat
FrameType ==
  /\ frame \in Frames
  /\ frame.used <= frame.size
  /\ frame.base + frame.size <= StreamSize
ControlType ==
  /\ worker \in WorkerStates /\ callback \in BOOLEAN /\ closing \in BOOLEAN
  /\ FrameType
ReadType == dest \in Seq(Values) /\ from \in Nat
StreamType == off \in Nat /\ paused \in BOOLEAN /\ stream \in Streams

TypeInv ==
  /\ HeadType /\ RequestType /\ PeekType /\ StatusType
  /\ MemoryType /\ ControlType /\ ReadType /\ StreamType

LEMMA TypeInvImpliesTypeOK == TypeInv => TypeOK
BY DEF TypeInv, TypeOK, HeadType, RequestType, PeekType, StatusType, MemoryType,
       FrameType, ControlType, ReadType, StreamType, Values

(* A group of variables that does not change keeps its type. *)
LEMMA Unchanged ==
  ASSUME TypeInv
  PROVE  /\ UNCHANGED headVars => HeadType'
         /\ UNCHANGED requestVars => RequestType'
         /\ UNCHANGED peekVars => PeekType'
         /\ UNCHANGED statusVars => StatusType'
         /\ UNCHANGED memoryVars => MemoryType'
         /\ UNCHANGED frame => FrameType'
         /\ UNCHANGED controlVars => ControlType'
         /\ UNCHANGED readVars => ReadType'
         /\ UNCHANGED <<off, paused, stream>> => StreamType'
BY DEF TypeInv, HeadType, RequestType, PeekType, StatusType, MemoryType, FrameType,
       ControlType, ReadType, StreamType, headVars, requestVars, peekVars, statusVars,
       memoryVars, controlVars, readVars

-----------------------------------------------------------------------------
(* The memory operators *)

LEMMA AdvanceType ==
  ASSUME NEW p \in Pointers, NEW n \in Int
  PROVE  Advance(p, n) \in Pointers
BY DEF Advance, Pointers

LEMMA ByteAtType ==
  ASSUME FrameType, NEW mem \in [Cells -> Values], NEW p \in Pointers
  PROVE  ByteAt(mem, p) \in Values
BY DEF ByteAt, FrameType, Frames, Pointers, Values, Bytes

LEMMA CopiedType ==
  ASSUME FrameType, NEW mem \in [Cells -> Values], NEW p \in Pointers,
         NEW at \in Int, NEW n \in Int
  PROVE  Copied(mem, at, p, n) \in [Cells -> Values]
<1>1. ASSUME NEW i \in Cells PROVE ByteAt(mem, Advance(p, i - at)) \in Values
  BY ByteAtType, AdvanceType DEF Cells
<1> QED BY <1>1 DEF Copied

LEMMA BytesAtType ==
  ASSUME FrameType, MemoryType, NEW p \in Pointers, NEW n \in Nat
  PROVE  BytesAt(p, n) \in Seq(Values)
<1>1. ASSUME NEW i \in 1..n PROVE ByteAt(buffer, Advance(p, i - 1)) \in Values
  BY ByteAtType, AdvanceType DEF MemoryType
<1> QED BY <1>1 DEF BytesAt

(* A read head with the types of its fields. *)
Heads == {h \in [data : Pointers, length : Nat, buffer_length : Nat, input_length : Nat] :
            h.buffer_length # 0 => h.data.at >= 0}

LEMMA MovedType ==
  ASSUME NEW h \in Heads, NEW n \in Nat, n <= h.length, NEW step \in Nat
  PROVE  Moved(h, n, step) \in Heads
<1>1. h \in [data : Pointers, length : Nat, buffer_length : Nat, input_length : Nat]
  BY DEF Heads
<1>2. Advance(h.data, step) \in Pointers /\ h.length - n \in Nat
  BY <1>1, AdvanceType
<1>3. h.buffer_length # 0 => Advance(h.data, step).at >= 0
  <2>1. h.buffer_length # 0 => h.data.at >= 0 BY DEF Heads
  <2> QED BY <1>1, <2>1 DEF Advance, Pointers
<1> QED BY <1>1, <1>2, <1>3 DEF Heads, Moved

LEMMA UpdateBufferType ==
  ASSUME NEW h \in Heads
  PROVE  update_buffer(h) \in Heads
BY DEF update_buffer, Heads, Input, Nowhere, Pointers

LEMMA ReadHeadType == HeadType => ReadHead \in Heads
BY DEF HeadType, ReadHead, Heads

LEMMA SetHeadType ==
  ASSUME NEW h \in Heads, SetHead(h)
  PROVE  HeadType'
BY DEF SetHead, Heads, HeadType

-----------------------------------------------------------------------------
(* Every action keeps the types *)

LEMMA InitType == Init => TypeInv
<1> SUFFICES ASSUME Init PROVE TypeInv
  OBVIOUS
<1>1. HeadType BY DEF Init, HeadType, Pointers, Nowhere
<1>2. RequestType BY DEF Init, RequestType
<1>3. PeekType BY DEF Init, PeekType, NoPeek, PeekFields
<1>4. StatusType BY DEF Init, StatusType, Statuses
<1>5. MemoryType BY DEF Init, MemoryType, Values
<1>6. ControlType
  <2>1. frame \in Frames /\ worker \in WorkerStates BY DEF Init, Frames, NoFrame, FrameOf, WorkerStates
  <2>2. frame.used <= frame.size /\ frame.base + frame.size <= StreamSize BY DEF Init, NoFrame, FrameOf
  <2> QED BY <2>1, <2>2 DEF Init, ControlType, FrameType
<1>7. ReadType BY DEF Init, ReadType
<1>8. StreamType
  <2>1. stream \in Streams BY DEF Init, Streams
  <2> QED BY <2>1 DEF Init, StreamType
<1> QED BY <1>1, <1>2, <1>3, <1>4, <1>5, <1>6, <1>7, <1>8 DEF TypeInv

LEMMA SuspendType == ASSUME TypeInv, Suspend PROVE TypeInv'
<1>1. ControlType'
  BY DEF Suspend, TypeInv, ControlType, FrameType, WorkerStates, Asleep
<1> QED BY <1>1, Unchanged DEF Suspend, TypeInv

LEMMA FinishType == ASSUME TypeInv, Finish PROVE TypeInv'
<1>1. ControlType'
  BY DEF Finish, TypeInv, ControlType, FrameType, WorkerStates, Asleep
<1> QED BY <1>1, Unchanged DEF Finish, TypeInv

LEMMA ResumeWorkerType == ASSUME TypeInv, ResumeWorker PROVE TypeInv'
<1>1. ControlType'
  BY DEF ResumeWorker, TypeInv, ControlType, FrameType, WorkerStates
<1> QED BY <1>1, Unchanged DEF ResumeWorker, TypeInv

LEMMA CloseDeferredType == ASSUME TypeInv, CloseDeferred PROVE TypeInv'
<1>1. ControlType'
  BY DEF CloseDeferred, TypeInv, ControlType, FrameType, WorkerStates
<1> QED BY <1>1, Unchanged DEF CloseDeferred, TypeInv

(* A frame that is not a write(). *)
LEMMA OtherFrame ==
  ASSUME NEW k \in {"none", "done", "closed"}, frame' = FrameOf(k)
  PROVE  FrameType'
<1>1. FrameOf(k) \in Frames
  BY DEF FrameOf, Frames
<1>2. FrameOf(k).used = 0 /\ FrameOf(k).size = 0 /\ FrameOf(k).base = 0
  BY DEF FrameOf
<1> QED BY <1>1, <1>2 DEF FrameType

LEMMA FrameReturnType == ASSUME TypeInv, FrameReturn PROVE TypeInv'
<1>1. frame' = FrameOf("none")
  BY DEF FrameReturn, NoFrame
<1>2. ControlType'
  BY <1>1, OtherFrame DEF FrameReturn, TypeInv, ControlType
<1> QED BY <1>2, Unchanged DEF FrameReturn, TypeInv

(* Changing the state, the position or the pause of the stream. *)
LEMMA StreamState ==
  ASSUME StreamType, NEW s \in {"open", "failing", "ended", "closed"}
  PROVE  [stream EXCEPT !.state = s] \in Streams
BY DEF StreamType, Streams

LEMMA StreamMove ==
  ASSUME StreamType, NEW p \in 0..StreamSize
  PROVE  [stream EXCEPT !.pos = p] \in Streams
BY DEF StreamType, Streams

LEMMA StreamPause ==
  ASSUME StreamType, NEW b \in BOOLEAN
  PROVE  [stream EXCEPT !.paused = b] \in Streams
BY DEF StreamType, Streams

LEMMA CloseInCallbackType == ASSUME TypeInv, CloseInCallback PROVE TypeInv'
<1>1. FrameType'
  BY OtherFrame DEF CloseInCallback
<1>2. ControlType'
  BY <1>1 DEF CloseInCallback, TypeInv, ControlType, WorkerStates
<1>3. StreamType'
  BY StreamState DEF CloseInCallback, TypeInv, StreamType
<1> QED BY <1>2, <1>3, Unchanged DEF CloseInCallback, TypeInv

LEMMA PeekOnType == ASSUME TypeInv, PeekOn PROVE TypeInv'
<1>1. buffer_length # 0 => data.at \in Nat
  BY DEF TypeInv, HeadType, Pointers
<1>2. PeekStart \in PeekFields
  BY <1>1 DEF TypeInv, HeadType, PeekType, StreamType, PeekStart, PeekFields
<1>3. PeekType'
  BY <1>2 DEF PeekOn, PeekType
<1> QED BY <1>3, Unchanged DEF PeekOn, TypeInv

LEMMA PeekOffType == ASSUME TypeInv, PeekOff PROVE TypeInv'
<1>1. /\ peek.buffer_length \in Nat /\ peek.buffer_offset \in Nat
      /\ peek.input_length \in Nat /\ peek.off \in Nat
  BY DEF TypeInv, PeekType, PeekFields
<1>2. HeadType'
  <2>1. CASE peek.buffer_length # 0
    BY <1>1, <2>1 DEF PeekOff, TypeInv, HeadType, InBuffer, Pointers
  <2>2. CASE peek.buffer_length = 0
    <3>1. Advance(data, length - peek.input_length) \in Pointers
      BY <1>1, AdvanceType DEF TypeInv, HeadType
    <3> QED BY <1>1, <2>2, <3>1 DEF PeekOff, TypeInv, HeadType
  <2> QED BY <2>1, <2>2
<1>3. PeekType'
  BY <1>1 DEF PeekOff, PeekType, PeekFields, NoPeek
<1>4. StatusType'
  BY DEF PeekOff, TypeInv, StatusType, Statuses
<1>5. StreamType'
  BY <1>1 DEF PeekOff, TypeInv, StreamType
<1> QED BY <1>2, <1>3, <1>4, <1>5, Unchanged DEF PeekOff, TypeInv

(* A seek moves the stream, which stays what it is or ends, and only a     *)
(* worker that is resumed from inside itself is not where it was.          *)
LEMMA StreamSeeksType ==
  ASSUME StreamType, NEW o \in 0..StreamSize, StreamSeeks(o)
  PROVE  /\ stream' \in Streams /\ stream'.pos = o
         /\ worker' \in {worker, "reentered"}
         /\ \/ stream'.state = stream.state /\ worker' = worker
            \/ ~callback /\ stream.state = "open" /\ stream'.state = "ended"
               /\ (read_length = 0 => worker' = worker)
<1>1. PICK state \in {stream.state, "ended"} :
        /\ state # stream.state => ~callback /\ stream.state = "open" /\ "IO" \in StreamErrors
        /\ stream' = [stream EXCEPT !.state = state, !.pos = o]
        /\ worker' = IF state # stream.state /\ DoneResumes THEN "reentered" ELSE worker
  BY DEF StreamSeeks
<1>2. stream' \in Streams /\ stream'.pos = o /\ stream'.state = state
  BY <1>1 DEF StreamType, Streams
<1> QED BY <1>1, <1>2 DEF DoneResumes

LEMMA RepositionedType ==
  ASSUME TypeInv, NEW o \in 0..StreamSize, Repositioned(o), UNCHANGED <<frame, callback, closing>>
  PROVE  HeadType' /\ StatusType' /\ off' \in Nat /\ stream' \in Streams /\ ControlType'
<1>1. stream' \in Streams /\ worker' \in {worker, "reentered"}
  BY StreamSeeksType DEF Repositioned, TypeInv
<1>2. HeadType' /\ StatusType'
  BY DEF Repositioned, TypeInv, HeadType, StatusType, Statuses
<1>3. ControlType'
  BY <1>1, Unchanged DEF TypeInv, ControlType, WorkerStates
<1> QED BY <1>1, <1>2, <1>3 DEF Repositioned

LEMMA SeekType == ASSUME TypeInv, NEW o \in Offsets, Seek(o) PROVE TypeInv'
<1>1. HeadType' /\ StatusType' /\ StreamType' /\ ControlType'
  <2>1. CASE Repositioned(o)
    BY <2>1, RepositionedType DEF Seek, TypeInv, StreamType
  <2>2. CASE SeekFails(o) /\ UNCHANGED <<off, err>>
    <3>1. StatusType'
      BY <2>2 DEF SeekFails, TypeInv, StatusType, Statuses, Errors
    <3> QED BY <2>2, <3>1, Unchanged DEF Seek, SeekFails, controlVars
  <2> QED BY <2>1, <2>2 DEF Seek
<1> QED BY <1>1, Unchanged DEF Seek, TypeInv

LEMMA SkipBySeekType == ASSUME TypeInv, NEW n \in Lengths, SkipBySeek(n) PROVE TypeInv'
<1>1. off + n \in 0..StreamSize
  BY DEF SkipBySeek, TypeInv, StreamType
<1>2. HeadType' /\ StatusType' /\ StreamType' /\ ControlType'
  <2>1. CASE Repositioned(off + n)
    BY <1>1, <2>1, RepositionedType DEF SkipBySeek, TypeInv, StreamType
  <2>2. CASE SeekFails(off + n) /\ off' = off + n /\ err' = "SEEK"
    <3>1. StatusType'
      BY <2>2 DEF SeekFails, StatusType, Statuses, Errors
    <3>2. StreamType'
      BY <1>1, <2>2 DEF SkipBySeek, SeekFails, TypeInv, StreamType
    <3> QED BY <2>2, <3>1, <3>2, Unchanged DEF SkipBySeek, SeekFails, controlVars
  <2> QED BY <2>1, <2>2 DEF SkipBySeek
<1> QED BY <1>2, Unchanged DEF SkipBySeek, TypeInv

(* The outcomes of wait() and of not waiting at all. *)
LEMMA WaitType ==
  ASSUME TypeInv, NEW how \in Blocked, NEW rest \in Nat, wait(how, rest)
  PROVE  /\ RequestType' /\ err' \in Statuses
         /\ worker' \in WorkerStates /\ paused' \in BOOLEAN /\ stream' \in Streams
<1>1. RequestType'
  BY DEF wait, TypeInv, RequestType, Blocked
<1>2. err' \in Statuses /\ worker' \in WorkerStates
  BY DEF wait, TypeInv, StatusType, ControlType, Statuses, Errors, WorkerStates, Asleep, Blocked
<1>3. paused' \in BOOLEAN /\ stream' \in Streams
  <2>1. CASE UNCHANGED <<paused, stream>>
    BY <2>1 DEF TypeInv, StreamType
  <2>2. CASE Unpause
    <3>1. CASE paused
      BY <2>2, <3>1, StreamPause DEF Unpause, TypeInv
    <3>2. CASE ~paused
      BY <2>2, <3>2 DEF Unpause, TypeInv, StreamType, Streams
    <3> QED BY <2>2, <3>1, <3>2 DEF Unpause
  <2> QED BY <2>1, <2>2 DEF wait
<1> QED BY <1>1, <1>2, <1>3

LEMMA NoWaitType ==
  ASSUME TypeInv, NoWait
  PROVE  /\ RequestType' /\ err' \in Statuses
         /\ worker' \in WorkerStates /\ paused' \in BOOLEAN /\ stream' \in Streams
BY DEF NoWait, TypeInv, RequestType, StatusType, ControlType, StreamType, requestVars

(* The bytes read() and skip() find at hand: a from the first segment, b   *)
(* from the second, and the read head in between and after.                *)
LEMMA TakeType ==
  ASSUME TypeInv, NEW n \in Nat,
         NEW a, a = Min(n, length),
         NEW h, h = update_buffer(Moved(ReadHead, a, a)),
         NEW b, b = Min(n - a, h.length)
  PROVE  /\ a \in Nat /\ b \in Nat /\ n - a - b \in Nat /\ b <= h.length
         /\ h \in Heads
<1>1. a \in Nat /\ a <= length /\ a <= n
  BY DEF Min, TypeInv, HeadType
<1>2. ReadHead \in Heads /\ ReadHead.length = length
  BY ReadHeadType DEF TypeInv, ReadHead
<1>3. h \in Heads
  BY <1>1, <1>2, MovedType, UpdateBufferType
<1>4. h.length \in Nat
  BY <1>3 DEF Heads
<1> QED BY <1>1, <1>3, <1>4 DEF Min

LEMMA ReadStepType == ASSUME TypeInv, NEW n \in Lengths, Read(n) PROVE TypeInv'
<1> DEFINE a == Min(n, length)
           h == update_buffer(Moved(ReadHead, a, a))
           b == Min(n - a, h.length)
<1>1. n \in Nat /\ off' \in Nat
  <2>1. off' = off + n
    BY DEF Read
  <2>2. n \in Nat /\ off \in Nat
    BY DEF TypeInv, StreamType
  <2> QED BY <2>1, <2>2
<1>2. FrameType'
  BY Unchanged DEF Read
<1>3. /\ HeadType' /\ dest' \in Seq(Values)
      /\ RequestType' /\ err' \in Statuses
      /\ worker' \in WorkerStates /\ paused' \in BOOLEAN /\ stream' \in Streams
  <2>1. CASE err # "ok"
    BY <2>1, NoWaitType, Unchanged DEF Read
  <2>2. CASE err = "ok"
    <3>1. /\ a \in Nat /\ b \in Nat /\ n - a - b \in Nat /\ b <= h.length
          /\ h \in Heads
      BY <1>1, TakeType
    <3>2. /\ SetHead(Moved(h, b, b))
          /\ dest' = BytesAt(data, a) \o BytesAt(h.data, b)
          /\ IF a + b = n THEN NoWait ELSE wait("reading", n - a - b)
      BY <2>2 DEF Read
    <3> HIDE DEF a, h, b
    <3>3. HeadType'
      BY <3>1, <3>2, MovedType, SetHeadType
    <3>4. dest' \in Seq(Values)
      <4>1. data \in Pointers /\ h.data \in Pointers
        BY <3>1 DEF TypeInv, HeadType, Heads
      <4>2. BytesAt(data, a) \in Seq(Values) /\ BytesAt(h.data, b) \in Seq(Values)
        BY <3>1, <4>1, BytesAtType DEF TypeInv, ControlType
      <4> QED BY <3>2, <4>2
    <3>5. CASE a + b = n
      BY <3>2, <3>3, <3>4, <3>5, NoWaitType
    <3>6. CASE a + b # n
      BY <3>1, <3>2, <3>3, <3>4, <3>6, WaitType DEF Blocked
    <3> QED BY <3>5, <3>6
  <2> QED BY <2>1, <2>2
<1>4. StatusType' /\ ControlType' /\ ReadType' /\ StreamType'
  BY <1>1, <1>2, <1>3 DEF Read, TypeInv, StatusType, ControlType, ReadType, StreamType
<1> QED BY <1>3, <1>4, Unchanged DEF Read, TypeInv

LEMMA SkipThroughType == ASSUME TypeInv, NEW n \in Lengths, SkipThrough(n) PROVE TypeInv'
<1> DEFINE a == Min(n, length)
           h == update_buffer(Moved(ReadHead, a, a))
           b == Min(n - a, h.length)
<1>1. n \in Nat /\ off' \in Nat
  <2>1. off' = off + n
    BY DEF SkipThrough
  <2>2. n \in Nat /\ off \in Nat
    BY DEF TypeInv, StreamType
  <2> QED BY <2>1, <2>2
<1>2. FrameType'
  BY Unchanged DEF SkipThrough
<1>3. /\ HeadType' /\ RequestType' /\ err' \in Statuses
      /\ worker' \in WorkerStates /\ paused' \in BOOLEAN /\ stream' \in Streams
  <2>1. CASE err # "ok"
    BY <2>1, NoWaitType, Unchanged DEF SkipThrough
  <2>2. CASE err = "ok"
    <3>1. /\ a \in Nat /\ b \in Nat /\ n - a - b \in Nat /\ b <= h.length
          /\ h \in Heads
      BY <1>1, TakeType
    <3>2. /\ SetHead(IF b = 0 THEN h ELSE Moved(h, b, n - a - b))
          /\ IF a + b = n THEN NoWait ELSE wait("skipping", n - a - b)
      BY <2>2 DEF SkipThrough
    <3> HIDE DEF a, h, b
    <3>3. HeadType'
      BY <3>1, <3>2, MovedType, SetHeadType
    <3>4. CASE a + b = n
      BY <3>2, <3>3, <3>4, NoWaitType
    <3>5. CASE a + b # n
      BY <3>1, <3>2, <3>3, <3>5, WaitType DEF Blocked
    <3> QED BY <3>4, <3>5
  <2> QED BY <2>1, <2>2
<1>4. StatusType' /\ ControlType' /\ StreamType'
  BY <1>1, <1>2, <1>3 DEF SkipThrough, TypeInv, StatusType, ControlType, StreamType
<1> QED BY <1>3, <1>4, Unchanged DEF SkipThrough, TypeInv

LEMMA CloseInWorkerType == ASSUME TypeInv, CloseInWorker PROVE TypeInv'
<1>1. StreamType'
  BY StreamState DEF CloseInWorker, TypeInv, StreamType
<1>2. StatusType' /\ worker' \in WorkerStates
  <2>1. stream_status' \in Statuses
    BY DEF CloseInWorker, TypeInv, StatusType, Statuses, Errors
  <2> QED BY <2>1 DEF CloseInWorker, TypeInv, StatusType, ControlType, WorkerStates
<1>3. ControlType'
  BY <1>2, Unchanged DEF CloseInWorker, TypeInv, ControlType
<1> QED BY <1>1, <1>2, <1>3, Unchanged DEF CloseInWorker, TypeInv

LEMMA WriteUnwantedType == ASSUME TypeInv, NEW n \in ChunkSizes, WriteUnwanted(n) PROVE TypeInv'
<1>1. StreamType'
  BY StreamState DEF WriteUnwanted, TypeInv, StreamType
<1>2. StatusType'
  BY DEF WriteUnwanted, TypeInv, StatusType, Statuses, Errors
<1> QED BY <1>1, <1>2, Unchanged DEF WriteUnwanted, TypeInv

LEMMA WriteTooBigType == ASSUME TypeInv, NEW n \in ChunkSizes, WriteTooBig(n) PROVE TypeInv'
<1>1. StreamType'
  BY StreamState DEF WriteTooBig, TypeInv, StreamType
<1>2. StatusType'
  BY DEF WriteTooBig, TypeInv, StatusType, Statuses, Errors
<1> QED BY <1>1, <1>2, Unchanged DEF WriteTooBig, TypeInv

(* What every write() of a chunk that fits does with it. *)
LEMMA ChunkTaken ==
  ASSUME TypeInv, NEW n \in ChunkSizes, MayWrite(n), Delivered(n), PeekInput(n), Written(n)
  PROVE  /\ n \in Nat /\ stream.pos \in Nat /\ stream.pos + n <= StreamSize
         /\ Wanted(n) \in Nat /\ Wanted(n) <= n
         /\ (read_to \/ skipping) => Wanted(n) <= read_length
         /\ dest' \in Seq(Values) /\ peek' \in PeekFields /\ stream' \in Streams
<1>1. n \in Nat /\ stream.pos \in Nat /\ stream.pos + n <= StreamSize
  BY DEF MayWrite, TypeInv, StreamType, Streams
<1>2. /\ Wanted(n) \in Nat /\ Wanted(n) <= n
      /\ (read_to \/ skipping) => Wanted(n) <= read_length
  BY <1>1 DEF Wanted, Min, TypeInv, RequestType
<1>3. dest' \in Seq(Values)
  <2>1. ASSUME NEW i \in 1..Wanted(n) PROVE stream.pos + i - 1 \in Values
    BY <1>1, <1>2, <2>1 DEF Values, Bytes
  <2>2. [i \in 1..Wanted(n) |-> stream.pos + i - 1] \in Seq(Values)
    BY <1>2, <2>1
  <2> QED BY <2>2 DEF Delivered, TypeInv, ReadType
<1>4. peek' \in PeekFields
  BY <1>1 DEF PeekInput, TypeInv, PeekType, PeekFields
<1>5. stream' \in Streams
  <2>1. stream.pos + n \in 0..StreamSize
    BY <1>1
  <2>2. [stream EXCEPT !.pos = stream.pos + n] \in Streams
    BY <2>1, StreamMove DEF TypeInv
  <2> QED BY <2>2 DEF Written
<1> QED BY <1>1, <1>2, <1>3, <1>4, <1>5

LEMMA WritePartType == ASSUME TypeInv, NEW n \in ChunkSizes, WritePart(n) PROVE TypeInv'
<1>1. /\ dest' \in Seq(Values) /\ peek' \in PeekFields /\ stream' \in Streams /\ n \in Nat
  BY ChunkTaken DEF WritePart
<1>2. RequestType'
  BY <1>1 DEF WritePart, TypeInv, RequestType
<1>3. PeekType' /\ ReadType' /\ StreamType'
  BY <1>1 DEF WritePart, TypeInv, PeekType, ReadType, StreamType
<1> QED BY <1>2, <1>3, Unchanged DEF WritePart, TypeInv

LEMMA LeaveWaitType ==
  ASSUME TypeInv, LeaveWait
  PROVE  worker' \in WorkerStates /\ read_to' \in BOOLEAN /\ skipping' \in BOOLEAN
BY DEF LeaveWait, Resumed, WorkerStates, TypeInv, RequestType

LEMMA WriteResumeType == ASSUME TypeInv, NEW n \in ChunkSizes, WriteResume(n) PROVE TypeInv'
<1>1. /\ n \in Nat /\ stream.pos \in Nat /\ stream.pos + n <= StreamSize
      /\ Wanted(n) \in Nat /\ Wanted(n) <= n
      /\ (read_to \/ skipping) => Wanted(n) <= read_length
      /\ dest' \in Seq(Values) /\ peek' \in PeekFields /\ stream' \in Streams
  BY ChunkTaken DEF WriteResume
<1>2. RequestType' /\ worker' \in WorkerStates
  <2>1. read_length - Wanted(n) \in Nat
    BY <1>1 DEF Wanted, TypeInv, RequestType
  <2> QED BY <2>1, LeaveWaitType DEF WriteResume, RequestType
<1>3. HeadType'
  BY <1>1 DEF WriteResume, TypeInv, HeadType, InChunk, Pointers
<1>4. FrameType'
  BY <1>1 DEF WriteResume, FrameType, Frames
<1>5. ControlType' /\ PeekType' /\ ReadType' /\ StreamType'
  BY <1>1, <1>2, <1>4 DEF WriteResume, TypeInv, ControlType, PeekType, ReadType, StreamType
<1> QED BY <1>2, <1>3, <1>5, Unchanged DEF WriteResume, TypeInv

LEMMA DoneCallType ==
  ASSUME TypeInv, NEW e \in Errors, DoneCall(e), stream' \in Streams
  PROVE  TypeInv'
<1>1. StatusType'
  <2>1. stream_status' \in Statuses
    BY DEF DoneCall, TypeInv, StatusType, Statuses
  <2> QED BY <2>1 DEF DoneCall, TypeInv, StatusType
<1>2. RequestType' /\ ControlType'
  <2>1. CASE DoneResumes
    <3>1. FrameType'
      BY <2>1, OtherFrame DEF DoneCall
    <3> QED BY <2>1, <3>1, LeaveWaitType DEF DoneCall, TypeInv, RequestType, ControlType
  <2>2. CASE ~DoneResumes
    BY <2>2, Unchanged DEF DoneCall, TypeInv, RequestType, ControlType
  <2> QED BY <2>1, <2>2
<1>3. StreamType'
  BY DEF DoneCall, TypeInv, StreamType
<1> QED BY <1>1, <1>2, <1>3, Unchanged DEF DoneCall, TypeInv

LEMMA StreamEndType == ASSUME TypeInv, NEW e \in Errors, StreamEnd(e) PROVE TypeInv'
<1>1. stream' \in Streams
  BY StreamState DEF StreamEnd, TypeInv
<1> QED BY <1>1, DoneCallType DEF StreamEnd

LEMMA CloseInLoopType == ASSUME TypeInv, CloseInLoop PROVE TypeInv'
<1>1. stream' \in Streams
  <2>1. stream' = [stream EXCEPT !.state = "closed"]
    BY DEF CloseInLoop
  <2> QED BY <2>1, StreamState DEF TypeInv
<1>2. CASE stream.state = "open"
  BY <1>1, <1>2, DoneCallType DEF CloseInLoop, Errors
<1>3. CASE stream.state # "open"
  <2>1. StreamType'
    BY <1>1, <1>3 DEF CloseInLoop, TypeInv, StreamType
  <2> QED BY <1>3, <2>1, Unchanged DEF CloseInLoop, TypeInv
<1> QED BY <1>2, <1>3

(* What the rest of write() does with the peek record and the buffer. *)
LEMMA PeekedType ==
  ASSUME TypeInv
  PROVE  /\ PeekedBuffer \in [Cells -> Values]
         /\ PeekedReach \in Nat /\ PeekedOffset \in Nat
<1>1. /\ peek.buffer_length \in Nat /\ peek.buffer_offset \in Nat
      /\ peek.input_length \in Nat
  BY DEF TypeInv, PeekType, PeekFields
<1>2. FrameType /\ buffer \in [Cells -> Values] /\ frame.size \in Nat /\ reach \in Nat
  BY DEF TypeInv, ControlType, MemoryType, FrameType, Frames
<1>3. /\ InBuffer(peek.buffer_offset) \in Pointers
      /\ InChunk(frame.size - peek.input_length) \in Pointers
  BY <1>1, <1>2 DEF InBuffer, InChunk, Pointers
<1>4. Copied(buffer, 0, InBuffer(peek.buffer_offset), peek.buffer_length) \in [Cells -> Values]
  BY <1>1, <1>2, <1>3, CopiedType
<1>5. PeekedBuffer \in [Cells -> Values]
  <2> DEFINE room == IF MovesPeeked
                       THEN Copied(buffer, 0, InBuffer(peek.buffer_offset), peek.buffer_length)
                       ELSE buffer
  <2>1. room \in [Cells -> Values]
    BY <1>2, <1>4
  <2>2. PeekedBuffer = IF peeking
                         THEN Copied(room, peek.buffer_length,
                                     InChunk(frame.size - peek.input_length), peek.input_length)
                         ELSE buffer
    BY DEF PeekedBuffer
  <2> HIDE DEF room
  <2>3. Copied(room, peek.buffer_length,
               InChunk(frame.size - peek.input_length), peek.input_length) \in [Cells -> Values]
    BY <1>1, <1>2, <1>3, <2>1, CopiedType
  <2> QED BY <1>2, <2>2, <2>3
<1>6. PeekedReach \in Nat /\ PeekedOffset \in Nat
  BY <1>1, <1>2 DEF PeekedReach, PeekedOffset, Larger
<1> QED BY <1>5, <1>6

LEMMA WriteReturnsType ==
  ASSUME TypeInv, WriteReturns
  PROVE  RequestType' /\ PeekType' /\ StatusType' /\ ControlType' /\ ReadType' /\ off' \in Nat
<1>1. FrameType'
  BY OtherFrame DEF WriteReturns, NoFrame
<1>2. ControlType'
  BY <1>1 DEF WriteReturns, TypeInv, ControlType
<1>3. PeekType'
  <2>1. peek' \in PeekFields
    <3>1. peek \in PeekFields /\ PeekedOffset \in Nat
      BY PeekedType DEF TypeInv, PeekType
    <3>2. peek.buffer_length + peek.input_length \in Nat
      BY <3>1 DEF PeekFields
    <3>3. CASE peeking
      <4>1. peek' = [peek EXCEPT !.buffer_offset = PeekedOffset,
                                 !.buffer_length = peek.buffer_length + peek.input_length,
                                 !.input_length = 0]
        BY <3>3 DEF WriteReturns, KeepPeeked
      <4> QED BY <3>1, <3>2, <4>1 DEF PeekFields
    <3>4. CASE ~peeking
      BY <3>1, <3>4 DEF WriteReturns, KeepPeeked
    <3> QED BY <3>3, <3>4
  <2> QED BY <2>1 DEF WriteReturns, TypeInv, PeekType
<1> QED BY <1>2, <1>3, Unchanged DEF WriteReturns, TypeInv, StreamType

LEMMA PauseStreamType ==
  ASSUME TypeInv, PauseStream, off' \in Nat
  PROVE  StreamType'
BY StreamPause DEF PauseStream, TypeInv, StreamType

LEMMA WriteReturnWaitingType == ASSUME TypeInv, WriteReturnWaiting PROVE TypeInv'
<1>1. MemoryType'
  BY PeekedType DEF WriteReturnWaiting, MemoryType
<1>2. HeadType' /\ StreamType'
  BY Unchanged, WriteReturnsType
     DEF WriteReturnWaiting, WriteReturns, headVars, TypeInv, StreamType, HeadType
<1> QED BY <1>1, <1>2, WriteReturnsType DEF WriteReturnWaiting, TypeInv

LEMMA WriteReturnPeekingType == ASSUME TypeInv, WriteReturnPeeking PROVE TypeInv'
<1>1. MemoryType'
  BY PeekedType DEF WriteReturnPeeking, MemoryType
<1>2. HeadType'
  <2>1. /\ data' = InBuffer(PeekedOffset) /\ PeekedOffset \in Nat
        /\ length' = peek.buffer_length + peek.input_length
        /\ UNCHANGED <<buffer_length, input_length>>
    BY PeekedType DEF WriteReturnPeeking, WriteReturns
  <2>2. peek.buffer_length \in Nat /\ peek.input_length \in Nat
    BY DEF TypeInv, PeekType, PeekFields
  <2> QED BY <2>1, <2>2 DEF TypeInv, HeadType, InBuffer, Pointers
<1>3. StreamType'
  BY WriteReturnsType, PauseStreamType DEF WriteReturnPeeking
<1> QED BY <1>1, <1>2, <1>3, WriteReturnsType DEF WriteReturnPeeking, TypeInv

LEMMA SaveBehindType ==
  ASSUME TypeInv, SaveBehind, buffer_length # 0, UNCHANGED input_length
  PROVE  MemoryType' /\ HeadType'
<1> DEFINE fits == data.at + length + RestLength <= BUFFER_SIZE
           room == IF fits THEN buffer ELSE Copied(buffer, 0, data, length)
           at == IF fits THEN data ELSE InBuffer(0)
<1>1. /\ RestLength \in Nat /\ length \in Nat /\ data \in Pointers /\ data.at \in Nat
      /\ frame.used \in Nat
  BY DEF RestLength, TypeInv, HeadType, ControlType, FrameType, Frames, Pointers
<1>2. FrameType /\ buffer \in [Cells -> Values] /\ reach \in Nat
  BY DEF TypeInv, ControlType, MemoryType
<1>3. Copied(buffer, 0, data, length) \in [Cells -> Values]
  BY <1>1, <1>2, CopiedType
<1>4. /\ InBuffer(0) \in Pointers /\ InBuffer(0).at = 0 /\ InChunk(frame.used) \in Pointers
  BY <1>1 DEF InBuffer, InChunk, Pointers
<1>5. at \in Pointers /\ at.at \in Nat /\ room \in [Cells -> Values]
  BY <1>1, <1>2, <1>3, <1>4
<1>6. /\ buffer' = Copied(room, at.at + length, InChunk(frame.used), RestLength)
      /\ reach' = Larger(Larger(reach, IF fits THEN 0 ELSE length),
                         StoreEnd(Advance(at, length), RestLength))
      /\ data' = at
      /\ length' = length + RestLength
      /\ buffer_length' = length + RestLength
  BY DEF SaveBehind
<1> HIDE DEF fits, room, at
<1>7. buffer' \in [Cells -> Values]
  BY <1>1, <1>2, <1>4, <1>5, <1>6, CopiedType
<1>8. StoreEnd(Advance(at, length), RestLength) \in Nat
  BY <1>1, <1>5 DEF StoreEnd, Advance, BUFFER_SIZE, Pointers
<1>9. reach' \in Nat
  BY <1>1, <1>2, <1>6, <1>8 DEF Larger
<1> QED BY <1>1, <1>5, <1>6, <1>7, <1>9 DEF MemoryType, HeadType, TypeInv

LEMMA SaveAtFrontType ==
  ASSUME TypeInv, SaveAtFront, UNCHANGED input_length
  PROVE  MemoryType' /\ HeadType'
<1>1. length \in Nat /\ data \in Pointers /\ buffer \in [Cells -> Values] /\ reach \in Nat
  BY DEF TypeInv, HeadType, MemoryType
<1>2. Copied(buffer, 0, data, length) \in [Cells -> Values]
  BY <1>1, CopiedType DEF TypeInv, ControlType
<1>3. MemoryType'
  BY <1>1, <1>2 DEF SaveAtFront, MemoryType, Larger
<1>4. HeadType'
  BY <1>1 DEF SaveAtFront, TypeInv, HeadType, InBuffer, Pointers
<1> QED BY <1>3, <1>4

LEMMA WriteReturnSavingType == ASSUME TypeInv, WriteReturnSaving PROVE TypeInv'
<1>1. MemoryType' /\ HeadType'
  BY SaveBehindType, SaveAtFrontType DEF WriteReturnSaving, WriteReturns
<1>2. StreamType'
  BY WriteReturnsType, PauseStreamType DEF WriteReturnSaving
<1> QED BY <1>1, <1>2, WriteReturnsType DEF WriteReturnSaving, TypeInv

-----------------------------------------------------------------------------

LEMMA TypeStep == TypeInv /\ [Next]_vars => TypeInv'
<1> SUFFICES ASSUME TypeInv, [Next]_vars PROVE TypeInv'
  OBVIOUS
<1>1. ASSUME WorkerStep PROVE TypeInv'
  BY <1>1, ReadStepType, SkipBySeekType, SkipThroughType, SeekType, PeekOnType, PeekOffType,
     SuspendType, FinishType, CloseDeferredType, CloseInWorkerType DEF WorkerStep
<1>2. ASSUME StreamStep PROVE TypeInv'
  BY <1>2, WriteUnwantedType, WriteTooBigType, WritePartType, WriteResumeType, StreamEndType
     DEF StreamStep, WriteStep
<1>3. ASSUME ReturnStep PROVE TypeInv'
  BY <1>3, CloseInCallbackType, FrameReturnType, WriteReturnWaitingType,
     WriteReturnPeekingType, WriteReturnSavingType DEF ReturnStep
<1>4. ASSUME LoopStep PROVE TypeInv'
  BY <1>4, ResumeWorkerType, CloseInLoopType DEF LoopStep
<1>5. ASSUME UNCHANGED vars PROVE TypeInv'
  BY <1>5, Unchanged DEF vars, TypeInv
<1> QED BY <1>1, <1>2, <1>3, <1>4, <1>5 DEF Next, Halted

(* The variables keep their types, however the worker uses the reader:     *)
(* no length of xe_reader ever goes below zero, and every byte of its      *)
(* buffer is one of the stream or undefined.                               *)
THEOREM TypeCorrect == Spec => []TypeOK
<1>1. Spec => []TypeInv
  BY InitType, TypeStep, PTL DEF Spec
<1> QED BY <1>1, TypeInvImpliesTypeOK, PTL

-----------------------------------------------------------------------------
(***************************************************************************)
(* What a tidy worker can rely on: the reader stays inside its buffer, and *)
(* neither the stream nor a close ever resumes a fiber that is not         *)
(* suspended in wait().  The inductive invariant is TidyInv of Reader      *)
(* together with TypeInv.                                                  *)
(***************************************************************************)

LEMMA InitTidy == Init => TidyInv
<1> SUFFICES ASSUME Init PROVE TidyInv
  OBVIOUS
<1>1. TidyControl
  BY DEF Init, TidyControl, NoFrame, FrameOf, Blocked
<1>2. TidyMemory
  BY DEF Init, TidyMemory, NoFrame, FrameOf, Blocked, NoPeek, BUFFER_SIZE
<1> QED BY <1>1, <1>2 DEF TidyInv

(* A worker that lets go, or a callback that ends, when the reader's own   *)
(* fields stay as they are.                                                *)
LEMMA SuspendTidy == ASSUME Tidy, TidyInv, Suspend \/ Finish PROVE TidyInv'
<1>1. TidyControl'
  BY DEF Suspend, Finish, MayOperate, MayLetGo, Tidy, TidyInv, TidyControl, headVars, requestVars,
         Blocked
<1>2. TidyMemory'
  BY DEF Suspend, Finish, TidyInv, TidyMemory, headVars, peekVars, memoryVars, Blocked
<1> QED BY <1>1, <1>2 DEF TidyInv

LEMMA ResumeWorkerTidy == ASSUME TidyInv, ResumeWorker PROVE TidyInv'
<1>1. TidyControl'
  BY DEF ResumeWorker, TidyInv, TidyControl, headVars, requestVars, Blocked
<1>2. TidyMemory'
  BY DEF ResumeWorker, TidyInv, TidyMemory, headVars, peekVars, memoryVars, Blocked
<1> QED BY <1>1, <1>2 DEF TidyInv

LEMMA CloseDeferredTidy == ASSUME TidyInv, CloseDeferred PROVE TidyInv'
<1>1. TidyControl'
  BY DEF CloseDeferred, MayOperate, TidyInv, TidyControl, headVars, requestVars, Blocked
<1>2. TidyMemory'
  BY DEF CloseDeferred, TidyInv, TidyMemory, headVars, peekVars, memoryVars, Blocked
<1> QED BY <1>1, <1>2 DEF TidyInv

LEMMA FrameReturnTidy == ASSUME TidyInv, FrameReturn PROVE TidyInv'
<1>1. TidyControl'
  BY DEF FrameReturn, NoFrame, FrameOf, TidyInv, TidyControl, headVars, requestVars, Blocked
<1>2. TidyMemory'
  BY DEF FrameReturn, NoFrame, FrameOf, TidyInv, TidyMemory, headVars, peekVars, memoryVars, Blocked
<1> QED BY <1>1, <1>2 DEF TidyInv

LEMMA CloseInCallbackTidy == ASSUME TypeInv, TidyInv, CloseInCallback PROVE TidyInv'
<1>1. stream'.state = "closed" /\ frame'.kind = "closed"
  BY DEF CloseInCallback, FrameOf, TypeInv, StreamType, Streams
<1>2. TidyControl'
  BY <1>1 DEF CloseInCallback, TidyInv, TidyControl, Blocked
<1>3. TidyMemory'
  BY <1>1 DEF CloseInCallback, TidyInv, TidyMemory, headVars, peekVars, memoryVars, Blocked
<1> QED BY <1>2, <1>3 DEF TidyInv

(* CloseInWorker: with no callback on the stack the worker is not inside a *)
(* write(); whether done() takes a request for a wait does not matter here.*)
LEMMA CloseInWorkerTidy == ASSUME TypeInv, TidyInv, CloseInWorker PROVE TidyInv'
<1>1. stream'.state = "closed"
  BY DEF CloseInWorker, TypeInv, StreamType, Streams
<1>2. worker' \in {"running", "reentered"}
  BY DEF CloseInWorker, MayOperate
<1>3. TidyControl'
  BY <1>1, <1>2 DEF CloseInWorker, TidyInv, TidyControl, Blocked
<1>4. TidyMemory'
  BY <1>2 DEF CloseInWorker, TidyInv, TidyMemory, headVars, peekVars, memoryVars, Blocked
<1> QED BY <1>3, <1>4 DEF TidyInv

(* A peek begins with no more in the buffer, and no more of the chunk, than*)
(* was at hand.                                                            *)
LEMMA PeekOnTidy == ASSUME TypeInv, TidyInv, PeekOn PROVE TidyInv'
<1>1. TidyControl'
  BY DEF PeekOn, MayOperate, TidyInv, TidyControl, headVars, requestVars, controlVars, Blocked
<1>2. /\ peek.buffer_length \in Nat /\ peek.input_length \in Nat
      /\ length \in Nat /\ input_length \in Nat /\ buffer_length \in Nat
  BY DEF TypeInv, HeadType, PeekType, PeekFields
<1>3. TidyMemory'
  <2>1. worker' = "running" /\ UNCHANGED <<headVars, memoryVars, frame>> /\ peeking'
    BY DEF PeekOn, MayOperate, controlVars
  <2>2. CASE buffer_length # 0
    <3>1. peek'.buffer_length = length /\ peek'.input_length = input_length
      BY <2>2 DEF PeekOn, PeekStart
    <3> QED BY <1>2, <2>1, <2>2, <3>1 DEF TidyInv, TidyMemory, headVars, memoryVars, Blocked
  <2>3. CASE buffer_length = 0
    <3>1. peek.buffer_length = 0 /\ length <= BUFFER_LIMIT
      BY <2>3 DEF PeekOn, TidyInv, TidyMemory
    <3>2. peek'.buffer_length = peek.buffer_length /\ peek'.input_length = length
      BY <2>3 DEF PeekOn, PeekStart, TypeInv, PeekType, PeekFields
    <3> QED BY <1>2, <2>1, <2>3, <3>1, <3>2 DEF TidyInv, TidyMemory, headVars, memoryVars, Blocked
  <2> QED BY <2>2, <2>3
<1> QED BY <1>1, <1>3 DEF TidyInv

(* What a rewind puts back is what the peek kept. *)
LEMMA PeekOffTidy == ASSUME TypeInv, TidyInv, PeekOff PROVE TidyInv'
<1>1. TidyControl'
  BY DEF PeekOff, MayOperate, TidyInv, TidyControl, requestVars, controlVars, Blocked
<1>2. /\ peek.buffer_length \in Nat /\ peek.input_length \in Nat
      /\ length \in Nat /\ input_length \in Nat /\ buffer_length \in Nat
  BY DEF TypeInv, HeadType, PeekType, PeekFields
<1>3. /\ worker' = "running" /\ UNCHANGED <<memoryVars, frame>> /\ ~peeking'
      /\ peek'.buffer_length = 0 /\ peek'.input_length = 0 /\ peeking
  BY DEF PeekOff, MayOperate, controlVars, NoPeek
<1>4. TidyMemory'
  <2>1. CASE peek.buffer_length # 0
    <3>1. /\ data'.area = "buffer" /\ length' = peek.buffer_length
          /\ buffer_length' = peek.buffer_length
          /\ input_length' = input_length \/ input_length' = peek.input_length
      BY <2>1 DEF PeekOff, InBuffer
    <3> QED BY <1>2, <1>3, <2>1, <3>1 DEF TidyInv, TidyMemory, memoryVars, Blocked, BUFFER_SIZE
  <2>2. CASE peek.buffer_length = 0
    <3>1. UNCHANGED <<buffer_length, input_length>>
      BY <2>2 DEF PeekOff
    <3>2. CASE peek.input_length # 0 /\ buffer_length = 0
      <4>1. length' = peek.input_length
        BY <2>2, <3>2 DEF PeekOff
      <4> QED BY <1>2, <1>3, <2>2, <3>1, <3>2, <4>1
              DEF TidyInv, TidyMemory, memoryVars, Blocked, BUFFER_SIZE
    <3>3. CASE ~(peek.input_length # 0 /\ buffer_length = 0)
      <4>1. UNCHANGED <<data, length>>
        BY <2>2, <3>3 DEF PeekOff
      <4> QED BY <1>2, <1>3, <2>2, <3>1, <3>3, <4>1 DEF TidyInv, TidyMemory, memoryVars, Blocked
    <3> QED BY <3>2, <3>3
  <2> QED BY <2>1, <2>2
<1> QED BY <1>1, <1>4 DEF TidyInv

(* A seek discards what is at hand, so nothing can be stored badly. *)
LEMMA RepositionedTidy ==
  ASSUME TypeInv, TidyInv, NEW o \in 0..StreamSize, MayOperate, Repositioned(o),
         UNCHANGED <<requestVars, peekVars, memoryVars, frame, callback, closing>>
  PROVE  TidyInv'
<1>1. /\ worker' \in {"running", "reentered"}
      /\ \/ stream'.state = stream.state
         \/ ~callback /\ stream'.state = "ended"
  BY StreamSeeksType DEF Repositioned, MayOperate, TypeInv
<1>2. length' = 0 /\ buffer_length' = 0 /\ input_length' = 0
  BY DEF Repositioned
<1>3. TidyControl'
  BY <1>1, <1>2 DEF MayOperate, TidyInv, TidyControl, Blocked
<1>4. TidyMemory'
  BY <1>1, <1>2 DEF TidyInv, TidyMemory, peekVars, memoryVars, Blocked, BUFFER_SIZE
<1> QED BY <1>3, <1>4 DEF TidyInv

LEMMA SeekFailsTidy ==
  ASSUME TidyInv, NEW o \in Nat, MayOperate, SeekFails(o),
         UNCHANGED <<requestVars, peekVars, memoryVars, frame, callback, closing>>
  PROVE  TidyInv'
<1>1. TidyControl'
  BY DEF SeekFails, MayOperate, TidyInv, TidyControl, headVars, requestVars, Blocked
<1>2. TidyMemory'
  BY DEF SeekFails, MayOperate, TidyInv, TidyMemory, headVars, peekVars, memoryVars, Blocked
<1> QED BY <1>1, <1>2 DEF TidyInv

LEMMA SeekTidy == ASSUME TypeInv, TidyInv, NEW o \in Offsets, Seek(o) PROVE TidyInv'
<1>1. o \in 0..StreamSize /\ o \in Nat
  OBVIOUS
<1> QED BY <1>1, RepositionedTidy, SeekFailsTidy DEF Seek

LEMMA SkipBySeekTidy == ASSUME TypeInv, TidyInv, NEW n \in Lengths, SkipBySeek(n) PROVE TidyInv'
<1>1. off + n \in 0..StreamSize /\ off + n \in Nat
  BY DEF SkipBySeek, TypeInv, StreamType
<1> QED BY <1>1, RepositionedTidy, SeekFailsTidy DEF SkipBySeek

(* The part of TidyMemory that is about the read head, and what a read or  *)
(* skip that has to wait leaves at hand: nothing.                          *)
HeadBounds ==
  /\ length <= BUFFER_SIZE /\ input_length <= BUFFER_LIMIT
  /\ frame.kind = "write" => length <= BUFFER_LIMIT
  /\ buffer_length = 0 /\ peek.buffer_length = 0 => length <= BUFFER_LIMIT
  /\ buffer_length # 0 => data.area = "buffer"

LEMMA TakeTidy ==
  ASSUME TypeInv, TidyInv, NEW n \in Nat,
         NEW a, a = Min(n, length),
         NEW h, h = update_buffer(Moved(ReadHead, a, a)),
         NEW b, b = Min(n - a, h.length),
         NEW g, SetHead(g),
         g.length = h.length - b, g.buffer_length = h.buffer_length,
         g.input_length = h.input_length, g.data.area = h.data.area,
         UNCHANGED <<frame, peek>>
  PROVE  HeadBounds' /\ (a + b # n => length' = 0 /\ buffer_length' = 0)
<1>1. /\ length \in Nat /\ input_length \in Nat /\ buffer_length \in Nat
      /\ a \in Nat /\ b \in Nat /\ a <= length /\ a <= n
      /\ length' = h.length - b /\ buffer_length' = h.buffer_length
      /\ input_length' = h.input_length /\ data'.area = h.data.area
  <2>1. a \in Nat /\ b \in Nat
    BY TakeType
  <2>2. length \in Nat /\ a <= length /\ a <= n
    BY DEF Min, TypeInv, HeadType
  <2> QED BY <2>1, <2>2 DEF SetHead, TypeInv, HeadType
<1>2. CASE a = length
  <2>1. h.length = input_length /\ h.buffer_length = 0 /\ h.input_length = 0
    BY <1>1, <1>2 DEF update_buffer, Moved, ReadHead
  <2>2. a + b # n => b = h.length
    BY <1>1, <2>1 DEF Min
  <2> QED BY <1>1, <2>1, <2>2 DEF HeadBounds, TidyInv, TidyMemory, BUFFER_SIZE
<1>3. CASE a # length
  <2>1. a = n
    BY <1>1, <1>3 DEF Min
  <2>2. /\ h.length = length - a /\ h.buffer_length = buffer_length
        /\ h.input_length = input_length /\ h.data.area = data.area
    <3>1. length - a # 0
      BY <1>1, <1>3
    <3>2. h = Moved(ReadHead, a, a)
      BY <3>1 DEF update_buffer, Moved, ReadHead
    <3> QED BY <3>2 DEF Moved, ReadHead, Advance, TypeInv, HeadType, Pointers
  <2>3. b = 0
    BY <1>1, <1>3, <2>1, <2>2 DEF Min
  <2>4. /\ length' <= length /\ length' \in Nat /\ UNCHANGED <<buffer_length, input_length>>
        /\ data'.area = data.area /\ a + b = n
    BY <1>1, <2>1, <2>2, <2>3
  <2>5. HeadBounds
    BY DEF HeadBounds, TidyInv, TidyMemory
  <2> QED BY <1>1, <2>4, <2>5 DEF HeadBounds, BUFFER_SIZE
<1> QED BY <1>2, <1>3

(* The worker comes out of read() or skip() still running, or blocked with *)
(* room for the chunk it waits for.                                        *)
LEMMA OperationTidy ==
  ASSUME TypeInv, TidyInv, MayOperate, HeadBounds', NEW how \in Blocked, NEW rest \in Nat,
         \/ NoWait
         \/ rest # 0 /\ wait(how, rest) /\ length' = 0 /\ buffer_length' = 0,
         UNCHANGED <<peekVars, memoryVars, frame, callback, closing>>
  PROVE  TidyInv'
<1>1. stream'.state = stream.state /\ stream.state # "failing"
  BY DEF wait, NoWait, Unpause, MayOperate, TidyInv, TidyControl, Blocked,
         TypeInv, StreamType, Streams
<1>2. \/ worker' = "running"
      \/ worker' = how /\ read_length' # 0 /\ length' = 0 /\ buffer_length' = 0 /\ ~PeekFull
  BY DEF wait, NoWait, MayOperate
<1>3. TidyControl'
  BY <1>1, <1>2 DEF MayOperate, TidyInv, TidyControl, Blocked
<1>4. TidyMemory'
  <2>1. peek.buffer_length \in Nat /\ peek.input_length \in Nat
    BY DEF TypeInv, PeekType, PeekFields
  <2> QED BY <1>2, <2>1 DEF HeadBounds, TidyInv, TidyMemory, PeekFull, MayOperate, Blocked,
                            peekVars, memoryVars
<1> QED BY <1>3, <1>4 DEF TidyInv

LEMMA HeadBoundsKept ==
  ASSUME TidyInv, UNCHANGED <<headVars, frame, peek>> PROVE HeadBounds'
BY DEF TidyInv, TidyMemory, HeadBounds, headVars

LEMMA ReadTidy == ASSUME TypeInv, TidyInv, NEW n \in Lengths, Read(n) PROVE TidyInv'
<1> DEFINE a == Min(n, length)
           h == update_buffer(Moved(ReadHead, a, a))
           b == Min(n - a, h.length)
<1>1. /\ MayOperate /\ UNCHANGED <<peekVars, memoryVars, frame, callback, closing>>
      /\ UNCHANGED peek /\ n \in Nat
  BY DEF Read, peekVars
<1>2. CASE err # "ok"
  <2>1. NoWait /\ UNCHANGED headVars
    BY <1>2 DEF Read
  <2>2. HeadBounds'
    BY <1>1, <2>1, HeadBoundsKept
  <2> QED BY <1>1, <2>1, <2>2, OperationTidy DEF Blocked
<1>3. CASE err = "ok"
  <2>1. /\ SetHead(Moved(h, b, b))
        /\ IF a + b = n THEN NoWait ELSE wait("reading", n - a - b)
    BY <1>3 DEF Read
  <2>2. a \in Nat /\ b \in Nat /\ n - a - b \in Nat /\ h \in Heads
    BY <1>1, TakeType
  <2> HIDE DEF a, h, b
  <2>3. HeadBounds' /\ (a + b # n => length' = 0 /\ buffer_length' = 0)
    <3>1. Moved(h, b, b).data.area = h.data.area
      BY <2>2 DEF Moved, Advance, Heads, Pointers
    <3> QED BY <1>1, <2>1, <3>1, TakeTidy DEF Moved, a, h, b
  <2>4. CASE a + b = n
    BY <1>1, <2>1, <2>3, <2>4, OperationTidy DEF Blocked
  <2>5. CASE a + b # n
    <3>1. n - a - b # 0
      BY <1>1, <2>2, <2>5
    <3> QED BY <1>1, <2>1, <2>2, <2>3, <2>5, <3>1, OperationTidy DEF Blocked
  <2> QED BY <2>4, <2>5
<1> QED BY <1>2, <1>3

LEMMA SkipThroughTidy == ASSUME TypeInv, TidyInv, NEW n \in Lengths, SkipThrough(n) PROVE TidyInv'
<1> DEFINE a == Min(n, length)
           h == update_buffer(Moved(ReadHead, a, a))
           b == Min(n - a, h.length)
           g == IF b = 0 THEN h ELSE Moved(h, b, n - a - b)
<1>1. /\ MayOperate /\ UNCHANGED <<peekVars, memoryVars, frame, callback, closing>>
      /\ UNCHANGED peek /\ n \in Nat
  BY DEF SkipThrough, peekVars
<1>2. CASE err # "ok"
  <2>1. NoWait /\ UNCHANGED headVars
    BY <1>2 DEF SkipThrough
  <2>2. HeadBounds'
    BY <1>1, <2>1, HeadBoundsKept
  <2> QED BY <1>1, <2>1, <2>2, OperationTidy DEF Blocked
<1>3. CASE err = "ok"
  <2>1. /\ SetHead(g)
        /\ IF a + b = n THEN NoWait ELSE wait("skipping", n - a - b)
    BY <1>3 DEF SkipThrough
  <2>2. a \in Nat /\ b \in Nat /\ n - a - b \in Nat /\ h \in Heads
    BY <1>1, TakeType
  <2>3. /\ g.length = h.length - b /\ g.buffer_length = h.buffer_length
        /\ g.input_length = h.input_length /\ g.data.area = h.data.area
    <3> HIDE DEF a, h, b
    <3>1. CASE b = 0
      BY <2>2, <3>1 DEF Heads
    <3>2. CASE b # 0
      BY <2>2, <3>2 DEF Moved, Advance, Heads, Pointers
    <3> QED BY <3>1, <3>2
  <2>4. HeadBounds' /\ (a + b # n => length' = 0 /\ buffer_length' = 0)
    <3> HIDE DEF g
    <3> QED BY <1>1, <2>1, <2>3, TakeTidy
  <2> HIDE DEF a, h, b
  <2>5. CASE a + b = n
    BY <1>1, <2>1, <2>4, <2>5, OperationTidy DEF Blocked
  <2>6. CASE a + b # n
    <3>1. n - a - b # 0
      BY <1>1, <2>2, <2>6
    <3> QED BY <1>1, <2>1, <2>2, <2>4, <2>6, <3>1, OperationTidy DEF Blocked
  <2> QED BY <2>5, <2>6
<1> QED BY <1>2, <1>3

-----------------------------------------------------------------------------
(* The stream's callbacks *)

(* A stream that may deliver has a blocked worker behind it. *)
LEMMA WriteFindsBlocked ==
  ASSUME TidyInv, NEW n, MayWrite(n)
  PROVE  worker \in Blocked /\ frame.kind = "none" /\ stream.state = "open"
BY DEF MayWrite, LoopIdle, Asleep, TidyInv, TidyControl

LEMMA WriteUnwantedTidy ==
  ASSUME TidyInv, NEW n \in ChunkSizes, WriteUnwanted(n) PROVE TidyInv'
BY WriteFindsBlocked DEF WriteUnwanted, TidyInv, TidyControl

LEMMA WriteTooBigTidy ==
  ASSUME TypeInv, TidyInv, NEW n \in ChunkSizes, WriteTooBig(n) PROVE TidyInv'
<1>1. worker \in Blocked /\ frame.kind = "none"
  BY WriteFindsBlocked DEF WriteTooBig
<1>2. stream'.state = "failing"
  BY DEF WriteTooBig, TypeInv, StreamType, Streams
<1>3. TidyControl'
  BY <1>1, <1>2 DEF WriteTooBig, TidyInv, TidyControl, headVars, requestVars, controlVars, Blocked
<1>4. TidyMemory'
  BY <1>1 DEF WriteTooBig, TidyInv, TidyMemory, headVars, peekVars, memoryVars, controlVars
<1> QED BY <1>3, <1>4 DEF TidyInv

(* The chunk a peek is about to keep. *)
LEMMA PeekInputBounds ==
  ASSUME TypeInv, TidyInv, NEW n \in ChunkSizes, PeekInput(n), n <= BUFFER_LIMIT
  PROVE  /\ peek'.buffer_length = peek.buffer_length
         /\ peek'.input_length <= BUFFER_LIMIT
         /\ ~peeking => peek' = peek
BY DEF PeekInput, TypeInv, PeekType, PeekFields, TidyInv, TidyMemory

LEMMA WritePartTidy ==
  ASSUME TypeInv, TidyInv, NEW n \in ChunkSizes, WritePart(n) PROVE TidyInv'
<1>1. worker \in Blocked /\ frame.kind = "none" /\ stream.state = "open"
  BY WriteFindsBlocked DEF WritePart
<1>2. stream'.state = "open"
  BY <1>1 DEF WritePart, Written, TypeInv, StreamType, Streams
<1>3. n \in Nat /\ n <= BUFFER_LIMIT /\ read_length' # 0
  BY DEF WritePart, TooBig, TypeInv, RequestType
<1>4. TidyControl'
  BY <1>1, <1>2, <1>3 DEF WritePart, TidyInv, TidyControl, headVars, controlVars, Blocked
<1>5. TidyMemory'
  BY <1>1, <1>3, PeekInputBounds
     DEF WritePart, TidyInv, TidyMemory, headVars, memoryVars, controlVars
<1> QED BY <1>4, <1>5 DEF TidyInv

LEMMA WriteResumeTidy ==
  ASSUME TypeInv, TidyInv, NEW n \in ChunkSizes, WriteResume(n) PROVE TidyInv'
<1>1. worker \in Blocked /\ frame.kind = "none" /\ stream.state = "open"
  BY WriteFindsBlocked DEF WriteResume
<1>2. stream'.state = "open"
  BY <1>1 DEF WriteResume, Written, TypeInv, StreamType, Streams
<1>3. n \in Nat /\ n <= BUFFER_LIMIT
  BY DEF WriteResume, TooBig
<1>4. worker' = "running"
  BY <1>1 DEF WriteResume, LeaveWait, Resumed, Blocked
<1>5. Wanted(n) \in Nat /\ Wanted(n) <= n
  BY ChunkTaken DEF WriteResume
<1>6. /\ frame'.kind = "write" /\ frame'.size = n
      /\ length' = n - Wanted(n) /\ callback' /\ buffer_length' = 0
  BY <1>1 DEF WriteResume, TidyInv, TidyControl
<1>7. TidyControl'
  BY <1>2, <1>3, <1>4, <1>6 DEF TidyControl, Blocked
<1>8. TidyMemory'
  <2>1. /\ peek'.buffer_length = peek.buffer_length
        /\ peek'.input_length <= BUFFER_LIMIT
        /\ ~peeking => peek' = peek
    BY <1>3, PeekInputBounds DEF WriteResume
  <2>2. peek.buffer_length \in Nat /\ length' \in Nat /\ length' <= BUFFER_LIMIT
    BY <1>3, <1>5, <1>6 DEF TypeInv, PeekType, PeekFields
  <2>3. UNCHANGED <<peeking, reach, input_length>>
    BY DEF WriteResume, memoryVars
  <2> QED BY <1>1, <1>4, <1>6, <2>1, <2>2, <2>3 DEF TidyInv, TidyMemory, Blocked, BUFFER_SIZE
<1> QED BY <1>7, <1>8 DEF TidyInv

(* done(): of a tidy worker's states only a blocked one is resumed. *)
LEMMA DoneCallTidy ==
  ASSUME TypeInv, TidyInv, LoopIdle, NEW e, DoneCall(e),
         stream.state \in {"open", "failing"}, stream'.state \in {"ended", "closed"}
  PROVE  TidyInv'
<1>1. CASE DoneResumes
  <2>1. worker \in Blocked /\ frame.kind = "none"
    BY <1>1 DEF DoneResumes, LoopIdle, Asleep, TidyInv, TidyControl
  <2>2. /\ worker' = "running" /\ callback' /\ frame'.kind = "done"
        /\ UNCHANGED <<headVars, peekVars, memoryVars>>
    BY <1>1, <2>1 DEF DoneCall, LeaveWait, Resumed, Blocked, FrameOf
  <2>3. TidyControl'
    BY <2>2 DEF TidyControl, Blocked
  <2>4. TidyMemory'
    BY <2>1, <2>2 DEF TidyInv, TidyMemory, headVars, peekVars, memoryVars, Blocked
  <2> QED BY <2>3, <2>4 DEF TidyInv
<1>2. CASE ~DoneResumes
  <2>1. worker \in {"suspended", "completed"} /\ frame.kind = "none"
    BY <1>2 DEF DoneResumes, LoopIdle, Asleep, TidyInv, TidyControl
  <2>2. UNCHANGED <<headVars, peekVars, memoryVars, worker, frame, callback, read_length>>
    BY <1>2 DEF DoneCall
  <2>3. TidyControl'
    BY <2>1, <2>2 DEF TidyInv, TidyControl, Blocked
  <2>4. TidyMemory'
    BY <2>1, <2>2 DEF TidyInv, TidyMemory, headVars, peekVars, memoryVars, Blocked
  <2> QED BY <2>3, <2>4 DEF TidyInv
<1> QED BY <1>1, <1>2

LEMMA StreamEndTidy == ASSUME TypeInv, TidyInv, NEW e \in Errors, StreamEnd(e) PROVE TidyInv'
<1>1. stream'.state = "ended" /\ stream.state \in {"open", "failing"}
  BY DEF StreamEnd, TypeInv, StreamType, Streams
<1> QED BY <1>1, DoneCallTidy DEF StreamEnd

LEMMA CloseInLoopTidy == ASSUME TypeInv, TidyInv, CloseInLoop PROVE TidyInv'
<1>1. stream'.state = "closed" /\ LoopIdle
  BY DEF CloseInLoop, TypeInv, StreamType, Streams
<1>2. CASE stream.state = "open"
  BY <1>1, <1>2, DoneCallTidy DEF CloseInLoop
<1>3. CASE stream.state # "open"
  <2>1. UNCHANGED <<headVars, requestVars, peekVars, memoryVars, controlVars>>
    BY <1>3 DEF CloseInLoop
  <2>2. TidyControl'
    BY <1>1, <2>1 DEF LoopIdle, TidyInv, TidyControl, headVars, requestVars, controlVars, Blocked
  <2>3. TidyMemory'
    BY <2>1 DEF TidyInv, TidyMemory, headVars, peekVars, memoryVars, controlVars, Blocked
  <2> QED BY <2>2, <2>3 DEF TidyInv
<1> QED BY <1>2, <1>3

-----------------------------------------------------------------------------
(* The end of write() *)

(* What write() keeps for a peek fits into the buffer behind what the peek *)
(* has kept so far, and the rest of its chunk is no more than the chunk.   *)
LEMMA WriteReturnsTidy ==
  ASSUME TypeInv, TidyInv, WriteReturns
  PROVE  /\ frame'.kind = "none" /\ ~callback' /\ UNCHANGED <<worker, peeking, input_length>>
         /\ stream.state = "open"
         /\ peeking => /\ peek'.buffer_length = peek.buffer_length + peek.input_length
                       /\ peek.buffer_length + peek.input_length <= BUFFER_SIZE
                       /\ peek'.input_length = 0
                       /\ peek'.buffer_length \in Nat
         /\ ~peeking => peek' = peek
         /\ PeekedReach <= BUFFER_SIZE
         /\ length \in Nat /\ length <= BUFFER_LIMIT
         /\ RestLength \in Nat /\ RestLength <= BUFFER_LIMIT
<1>1. /\ peek \in PeekFields /\ peek.buffer_length \in Nat /\ peek.input_length \in Nat
      /\ reach \in Nat /\ length \in Nat
  BY DEF TypeInv, PeekType, PeekFields, MemoryType, HeadType
<1>2. frame.kind = "write"
  BY DEF WriteReturns
<1>3. frame'.kind = "none" /\ ~callback' /\ UNCHANGED <<worker, peeking, input_length>>
  BY DEF WriteReturns, NoFrame, FrameOf
<1>4. stream.state = "open" /\ frame.size <= BUFFER_LIMIT
  BY <1>2 DEF TidyInv, TidyControl
<1>5. RestLength \in Nat /\ RestLength <= BUFFER_LIMIT
  BY <1>4 DEF RestLength, TypeInv, ControlType, FrameType, Frames
<1>6. peeking => peek.buffer_length + peek.input_length <= BUFFER_SIZE
  BY <1>1, <1>2 DEF TidyInv, TidyMemory, BUFFER_SIZE
<1>7. peeking => /\ peek'.buffer_length = peek.buffer_length + peek.input_length
                 /\ peek'.input_length = 0
                 /\ peek'.buffer_length \in Nat
  BY <1>1 DEF WriteReturns, KeepPeeked, PeekFields
<1>8. ~peeking => peek' = peek
  BY DEF WriteReturns, KeepPeeked
<1>9. PeekedReach <= BUFFER_SIZE
  BY <1>1, <1>6 DEF PeekedReach, MovesPeeked, Larger, TidyInv, TidyMemory
<1>10. length <= BUFFER_LIMIT
  BY <1>2 DEF TidyInv, TidyMemory
<1> QED BY <1>1, <1>3, <1>4, <1>5, <1>6, <1>7, <1>8, <1>9, <1>10

(* The worker waits on: it is blocked, and wait() has left room. *)
LEMMA WriteReturnWaitingTidy == ASSUME TypeInv, TidyInv, WriteReturnWaiting PROVE TidyInv'
<1>1. /\ worker \in Blocked /\ length = 0 /\ buffer_length = 0
  BY DEF WriteReturnWaiting, WriteReturns, Asleep, TidyInv, TidyControl
<1>2. UNCHANGED <<data, length, buffer_length, stream, read_length>> /\ reach' = PeekedReach
  BY DEF WriteReturnWaiting, WriteReturns, requestVars
<1>3. TidyControl'
  BY <1>1, <1>2, WriteReturnsTidy DEF WriteReturnWaiting, TidyInv, TidyControl, Blocked
<1>4. TidyMemory'
  <2>1. peeking => peek.buffer_length + peek.input_length <= BUFFER_LIMIT
    BY <1>1 DEF WriteReturnWaiting, WriteReturns, TidyInv, TidyMemory
  <2>2. reach' <= BUFFER_SIZE /\ length' = 0 /\ length' <= BUFFER_SIZE /\ length' <= BUFFER_LIMIT
    BY <1>1, <1>2, WriteReturnsTidy DEF WriteReturnWaiting, BUFFER_SIZE
  <2>3. frame'.kind = "none" /\ UNCHANGED <<worker, peeking, input_length, buffer_length>>
    BY <1>2, WriteReturnsTidy DEF WriteReturnWaiting
  <2>4. CASE peeking
    <3>1. /\ peek'.buffer_length = peek.buffer_length + peek.input_length
          /\ peek'.buffer_length <= BUFFER_SIZE
          /\ peek'.input_length = 0
      BY <2>4, WriteReturnsTidy DEF WriteReturnWaiting
    <3>2. peek'.buffer_length <= BUFFER_LIMIT
      BY <2>1, <2>4, <3>1
    <3>3. peek'.buffer_length \in Nat
      BY <2>4, WriteReturnsTidy DEF WriteReturnWaiting
    <3> QED BY <1>1, <2>2, <2>3, <2>4, <3>1, <3>2, <3>3 DEF TidyInv, TidyMemory
  <2>5. CASE ~peeking
    <3>1. peek' = peek
      BY <2>5, WriteReturnsTidy DEF WriteReturnWaiting
    <3> QED BY <1>1, <2>2, <2>3, <2>5, <3>1 DEF TidyInv, TidyMemory
  <2> QED BY <2>4, <2>5
<1> QED BY <1>3, <1>4 DEF TidyInv

(* When write() pauses the stream nobody waits, so control is in order     *)
(* whatever becomes of the data.                                           *)
LEMMA PauseStreamTidy ==
  ASSUME TypeInv, TidyInv, WriteReturns, PauseStream
  PROVE  TidyControl' /\ worker' \in {"suspended", "completed"}
<1>1. worker \in {"suspended", "completed"} /\ read_length = 0
  BY DEF WriteReturns, PauseStream, Asleep, TidyInv, TidyControl
<1>2. stream'.state = stream.state /\ stream'.paused
  BY DEF PauseStream, TypeInv, StreamType, Streams
<1>3. UNCHANGED <<worker, read_length>> /\ frame'.kind = "none" /\ stream.state = "open"
  BY WriteReturnsTidy DEF WriteReturns, requestVars
<1> QED BY <1>1, <1>2, <1>3 DEF TidyControl, Blocked

LEMMA WriteReturnPeekingTidy == ASSUME TypeInv, TidyInv, WriteReturnPeeking PROVE TidyInv'
<1>1. /\ TidyControl' /\ worker' \in {"suspended", "completed"}
  BY PauseStreamTidy DEF WriteReturnPeeking
<1>2. /\ frame'.kind = "none" /\ UNCHANGED <<peeking, input_length>> /\ peeking
      /\ peek'.buffer_length = peek.buffer_length + peek.input_length
      /\ peek'.input_length = 0 /\ peek'.buffer_length \in Nat
      /\ peek.buffer_length + peek.input_length <= BUFFER_SIZE
      /\ PeekedReach <= BUFFER_SIZE
  BY WriteReturnsTidy DEF WriteReturnPeeking
<1>3. /\ length' = peek.buffer_length + peek.input_length
      /\ reach' = PeekedReach /\ data'.area = "buffer" /\ UNCHANGED buffer_length
  BY DEF WriteReturnPeeking, InBuffer
<1>4. TidyMemory'
  BY <1>1, <1>2, <1>3 DEF TidyInv, TidyMemory, Blocked
<1> QED BY <1>1, <1>4 DEF TidyInv

(* A pointer into the buffer in front of a store that ends in bounds. *)
LEMMA StoreEndBounds ==
  ASSUME NEW p \in Pointers, p.area = "buffer", NEW n \in Nat, p.at + n <= BUFFER_SIZE
  PROVE  StoreEnd(p, n) <= BUFFER_SIZE
BY DEF StoreEnd, BUFFER_SIZE

LEMMA SaveBehindTidy ==
  ASSUME TypeInv, TidyInv, SaveBehind, buffer_length # 0,
         length \in Nat, length <= BUFFER_LIMIT,
         RestLength \in Nat, RestLength <= BUFFER_LIMIT
  PROVE  /\ reach' <= BUFFER_SIZE /\ length' <= BUFFER_SIZE
         /\ buffer_length' = length' /\ data'.area = "buffer"
<1> DEFINE fits == data.at + length + RestLength <= BUFFER_SIZE
           at == IF fits THEN data ELSE InBuffer(0)
<1>1. data \in Pointers /\ data.area = "buffer" /\ data.at \in Nat
  BY DEF TypeInv, HeadType, Pointers, TidyInv, TidyMemory
<1>2. InBuffer(0) \in Pointers /\ InBuffer(0).area = "buffer" /\ InBuffer(0).at = 0
  BY DEF InBuffer, Pointers
<1>3. length + RestLength <= BUFFER_SIZE
  BY DEF BUFFER_SIZE
<1>4. at \in Pointers /\ at.area = "buffer" /\ at.at \in Nat
      /\ at.at + length + RestLength <= BUFFER_SIZE
  BY <1>1, <1>2, <1>3
<1>5. /\ reach' = Larger(Larger(reach, IF fits THEN 0 ELSE length),
                         StoreEnd(Advance(at, length), RestLength))
      /\ data' = at
      /\ length' = length + RestLength
      /\ buffer_length' = length + RestLength
  BY DEF SaveBehind
<1> HIDE DEF fits, at
<1>6. Advance(at, length) \in Pointers /\ Advance(at, length).area = "buffer"
      /\ Advance(at, length).at = at.at + length
  BY <1>4 DEF Advance, Pointers
<1>7. StoreEnd(Advance(at, length), RestLength) <= BUFFER_SIZE
  BY <1>4, <1>6, StoreEndBounds
<1>8. StoreEnd(Advance(at, length), RestLength) \in Int /\ reach \in Nat
  BY <1>4, <1>6 DEF StoreEnd, BUFFER_SIZE, TypeInv, MemoryType
<1>9. reach <= BUFFER_SIZE /\ length <= BUFFER_SIZE
  BY DEF TidyInv, TidyMemory
<1>10. reach' <= BUFFER_SIZE
  BY <1>5, <1>7, <1>8, <1>9 DEF Larger, BUFFER_SIZE
<1> QED BY <1>3, <1>4, <1>5, <1>10

LEMMA WriteReturnSavingTidy == ASSUME TypeInv, TidyInv, WriteReturnSaving PROVE TidyInv'
<1>1. TidyControl' /\ worker' \in {"suspended", "completed"}
  BY PauseStreamTidy DEF WriteReturnSaving
<1>2. /\ frame'.kind = "none" /\ ~peeking /\ UNCHANGED <<peeking, peek, input_length>>
      /\ length \in Nat /\ length <= BUFFER_LIMIT
      /\ RestLength \in Nat /\ RestLength <= BUFFER_LIMIT
  BY WriteReturnsTidy DEF WriteReturnSaving
<1>3. /\ reach' <= BUFFER_SIZE /\ length' <= BUFFER_SIZE
      /\ buffer_length' = length' /\ data'.area = "buffer"
      /\ length' \in Nat
  <2>1. CASE buffer_length # 0
    <3>1. SaveBehind
      BY <2>1 DEF WriteReturnSaving
    <3>2. length' \in Nat
      BY <1>2, <3>1 DEF SaveBehind
    <3> QED BY <1>2, <2>1, <3>1, <3>2, SaveBehindTidy
  <2>2. CASE buffer_length = 0
    <3>1. SaveAtFront
      BY <2>2 DEF WriteReturnSaving
    <3> QED BY <1>2, <3>1
            DEF SaveAtFront, InBuffer, Larger, TidyInv, TidyMemory, BUFFER_SIZE,
                TypeInv, MemoryType
  <2> QED BY <2>1, <2>2
<1>4. TidyMemory'
  BY <1>1, <1>2, <1>3 DEF TidyInv, TidyMemory, Blocked, BUFFER_SIZE
<1> QED BY <1>1, <1>4 DEF TidyInv

-----------------------------------------------------------------------------
(* Theorems *)

LEMMA TidyStep == ASSUME Tidy PROVE TypeInv /\ TidyInv /\ [Next]_vars => TidyInv'
<1> SUFFICES ASSUME TypeInv, TidyInv, [Next]_vars PROVE TidyInv'
  OBVIOUS
<1>1. ASSUME WorkerStep PROVE TidyInv'
  BY <1>1, ReadTidy, SkipBySeekTidy, SkipThroughTidy, SeekTidy, PeekOnTidy, PeekOffTidy,
     SuspendTidy, CloseDeferredTidy, CloseInWorkerTidy DEF WorkerStep
<1>2. ASSUME StreamStep PROVE TidyInv'
  BY <1>2, WriteUnwantedTidy, WriteTooBigTidy, WritePartTidy, WriteResumeTidy, StreamEndTidy
     DEF StreamStep, WriteStep
<1>3. ASSUME ReturnStep PROVE TidyInv'
  BY <1>3, CloseInCallbackTidy, FrameReturnTidy, WriteReturnWaitingTidy,
     WriteReturnPeekingTidy, WriteReturnSavingTidy DEF ReturnStep
<1>4. ASSUME LoopStep PROVE TidyInv'
  BY <1>4, ResumeWorkerTidy, CloseInLoopTidy DEF LoopStep
<1>5. ASSUME UNCHANGED vars PROVE TidyInv'
  <2>1. TidyControl'
    BY <1>5 DEF vars, TidyInv, TidyControl, headVars, requestVars, controlVars, Blocked
  <2>2. TidyMemory'
    BY <1>5 DEF vars, TidyInv, TidyMemory, headVars, peekVars, memoryVars, controlVars, Blocked
  <2> QED BY <2>1, <2>2 DEF TidyInv
<1> QED BY <1>1, <1>2, <1>3, <1>4, <1>5 DEF Next, Halted

(* A tidy worker keeps the whole invariant. *)
THEOREM TidyHolds == ASSUME Tidy PROVE Spec => [](TypeInv /\ TidyInv)
BY InitType, TypeStep, InitTidy, TidyStep, PTL DEF Spec

(* Whatever the chunks, the reads and the peeks, no copy of write() stores *)
(* outside of the internal buffer of a tidy worker's reader (reader.cc:55, *)
(* 93, 121, 190).                                                          *)
THEOREM TidyBufferInBounds == ASSUME Tidy PROVE Spec => []BufferInBounds
<1>1. TidyInv => BufferInBounds
  BY DEF TidyInv, TidyMemory, BufferInBounds
<1> QED BY <1>1, TidyHolds, PTL

(* Neither a write() nor a done() resumes a fiber whose routine has        *)
(* returned: the xe_stop of worker.cc:12 is unreachable.                   *)
THEOREM TidyNeverResumedAfterCompleting ==
  ASSUME Tidy PROVE Spec => []NeverResumedAfterCompleting
<1>1. TidyInv => NeverResumedAfterCompleting
  BY DEF TidyInv, TidyControl, NeverResumedAfterCompleting
<1> QED BY <1>1, TidyHolds, PTL

(* A stream that may call write() has a worker waiting for the data: "bad  *)
(* call to write()" (reader.cc:49) is unreachable.                         *)
THEOREM TidyWritesAreWanted == ASSUME Tidy PROVE Spec => []WritesAreWanted
<1>1. TidyInv => WritesAreWanted
  BY DEF TidyInv, TidyControl, WritesAreWanted, LoopIdle, Asleep
<1> QED BY <1>1, TidyHolds, PTL

(* A close never takes the stream away from under a write() that still     *)
(* uses the reader: close() leaves it to resume() (reader.cc:176, 284).    *)
THEOREM TidyClosedOutsideWrite == ASSUME Tidy PROVE Spec => []ClosedOutsideWrite
<1>1. TidyInv => ClosedOutsideWrite
  BY DEF TidyInv, TidyControl, ClosedOutsideWrite
<1> QED BY <1>1, TidyHolds, PTL

(* No callback is under way when none is on the loop's stack. *)
FrameInv == frame.kind = "none" => frame = NoFrame /\ ~callback

LEMMA InitFrame == Init => FrameInv
BY DEF Init, FrameInv

LEMMA DoneCallFrame == ASSUME FrameInv, NEW e, DoneCall(e) PROVE FrameInv'
BY DEF DoneCall, FrameInv, FrameOf, NoFrame

LEMMA FrameStep == FrameInv /\ [Next]_vars => FrameInv'
<1> SUFFICES ASSUME FrameInv, [Next]_vars PROVE FrameInv'
  OBVIOUS
<1>1. ASSUME UNCHANGED <<frame, callback>> PROVE FrameInv'
  BY <1>1 DEF FrameInv
<1>2. ASSUME WorkerStep PROVE FrameInv'
  BY <1>1, <1>2 DEF WorkerStep, Read, SkipBySeek, SkipThrough, Seek, PeekOn, PeekOff, Suspend,
                    Finish, CloseDeferred, CloseInWorker, controlVars
<1>3. ASSUME StreamStep PROVE FrameInv'
  <2>1. ASSUME NEW n \in ChunkSizes, WriteUnwanted(n) \/ WriteTooBig(n) \/ WritePart(n)
        PROVE  FrameInv'
    BY <1>1, <2>1 DEF WriteUnwanted, WriteTooBig, WritePart, controlVars
  <2>2. ASSUME NEW n \in ChunkSizes, WriteResume(n) PROVE FrameInv'
    BY <2>2 DEF WriteResume, FrameInv
  <2>3. ASSUME NEW e \in Errors, StreamEnd(e) PROVE FrameInv'
    BY <2>3, DoneCallFrame DEF StreamEnd
  <2> QED BY <1>3, <2>1, <2>2, <2>3 DEF StreamStep, WriteStep
<1>4. ASSUME ReturnStep PROVE FrameInv'
  BY <1>4 DEF ReturnStep, CloseInCallback, FrameReturn, WriteReturnWaiting, WriteReturnPeeking,
              WriteReturnSaving, WriteReturns, FrameInv, FrameOf, NoFrame
<1>5. ASSUME LoopStep PROVE FrameInv'
  <2>1. CASE ResumeWorker
    BY <1>1, <2>1 DEF ResumeWorker
  <2>2. CASE CloseInLoop
    <3>1. DoneCall("ABORTED") \/ UNCHANGED <<frame, callback>>
      BY <2>2 DEF CloseInLoop, controlVars
    <3> QED BY <1>1, <3>1, DoneCallFrame
  <2> QED BY <1>5, <2>1, <2>2 DEF LoopStep
<1>6. ASSUME UNCHANGED vars PROVE FrameInv'
  BY <1>1, <1>6 DEF vars, controlVars
<1> QED BY <1>2, <1>3, <1>4, <1>5, <1>6 DEF Next, Halted

(* A suspended worker is not blocked, so a stream that may call write()    *)
(* does not have it behind it, and done() finds that nothing is waited for.*)
LEMMA DoneCallLeaves ==
  ASSUME TidyInv, worker = "suspended", stream.state \in {"open", "failing"},
         LoopIdle, NEW e, DoneCall(e)
  PROVE  worker' = worker
BY DEF DoneCall, DoneResumes, LoopIdle, TidyInv, TidyControl, Blocked

LEMMA OnlyOwnerWakesStep ==
  ASSUME TidyInv, FrameInv, [Next]_vars, worker = "suspended", worker' # "suspended"
  PROVE  frame' = NoFrame /\ ~callback'
<1>1. ~WorkerStep
  BY DEF WorkerStep, Read, SkipBySeek, SkipThrough, Seek, PeekOn, PeekOff, Suspend, Finish,
         CloseDeferred, CloseInWorker, MayOperate
<1>2. ~StreamStep
  <2>1. ASSUME NEW n \in ChunkSizes PROVE ~MayWrite(n)
    BY WriteFindsBlocked DEF Blocked
  <2>2. ASSUME NEW e \in Errors PROVE ~StreamEnd(e)
    BY DoneCallLeaves DEF StreamEnd
  <2> QED BY <2>1, <2>2 DEF StreamStep, WriteStep, WriteUnwanted, WriteTooBig, WritePart, WriteResume
<1>3. ~ReturnStep
  BY DEF ReturnStep, CloseInCallback, FrameReturn, WriteReturnWaiting, WriteReturnPeeking,
         WriteReturnSaving, WriteReturns
<1>4. ~CloseInLoop
  BY DoneCallLeaves DEF CloseInLoop, controlVars
<1>5. ResumeWorker
  BY <1>1, <1>2, <1>3, <1>4 DEF Next, LoopStep, Halted, vars, controlVars
<1> QED BY <1>5 DEF ResumeWorker, LoopIdle, FrameInv

(* A tidy worker that suspended of its own accord is woken by its owner    *)
(* alone: neither write() nor done() resumes it (reader.cc:110, 153).      *)
THEOREM TidyOnlyOwnerWakes == ASSUME Tidy PROVE Spec => OnlyOwnerWakes
<1>1. Spec => []FrameInv
  BY InitFrame, FrameStep, PTL DEF Spec
<1>2. TidyInv /\ FrameInv /\ [Next]_vars
        => [worker = "suspended" /\ worker' # "suspended" => frame' = NoFrame /\ ~callback']_vars
  BY OnlyOwnerWakesStep
<1> QED BY <1>1, <1>2, TidyHolds, PTL DEF Spec, OnlyOwnerWakes

-----------------------------------------------------------------------------
(* Re-entry.  The worker need not be tidy: it may suspend, return or close *)
(* at any time.  If no seek of the stream fails and no peek runs into its  *)
(* limit, wait() returns early only on a stream that has ended, so that    *)
(* the worker never runs with a request left over on a stream whose done() *)
(* is still to come.                                                       *)

NothingLeftOver ==
  /\ stream_status # "ok" => stream.state # "open"
  /\ worker \notin Blocked /\ stream.state = "open" => read_length = 0
  /\ worker = "reading" => read_to
  /\ worker = "skipping" => skipping
  /\ worker # "reentered"

LEMMA InitLeftOver == Init => NothingLeftOver
BY DEF Init, NothingLeftOver, Blocked

(* A read or skip that has to wait: it does not come back early while the  *)
(* stream is open.                                                         *)
LEMMA WaitLeftOver ==
  ASSUME TypeInv, NothingLeftOver, PeekUse # "any", NEW n \in Lengths, PeekAllows(n),
         NEW rest, n > length, NEW how \in Blocked, wait(how, rest), MayOperate,
         UNCHANGED stream_status
  PROVE  NothingLeftOver'
<1>1. worker = "running"
  BY DEF MayOperate
<1>2. ~PeekFull
  BY DEF PeekAllows, PeekFull, TypeInv, HeadType
<1>3. CASE stream_status # "ok"
  BY <1>1, <1>3 DEF wait, NothingLeftOver, Blocked
<1>4. CASE stream_status = "ok"
  <2>1. worker' = how /\ read_to' = (how = "reading") /\ skipping' = (how = "skipping")
    BY <1>2, <1>4 DEF wait
  <2> QED BY <1>4, <2>1 DEF NothingLeftOver, Blocked
<1> QED BY <1>3, <1>4

LEMMA OperationLeftOver ==
  ASSUME TypeInv, NothingLeftOver, PeekUse # "any", NEW n \in Lengths,
         Read(n) \/ SkipThrough(n)
  PROVE  NothingLeftOver'
<1>1. MayOperate /\ PeekAllows(n) /\ UNCHANGED stream_status
  BY DEF Read, SkipThrough
<1>2. CASE NoWait
  BY <1>1, <1>2 DEF NoWait, NothingLeftOver, requestVars
<1>3. ASSUME NEW how \in Blocked, NEW rest, wait(how, rest), n > length PROVE NothingLeftOver'
  BY <1>1, <1>3, WaitLeftOver
<1> DEFINE a == Min(n, length)
           h == update_buffer(Moved(ReadHead, a, a))
           b == Min(n - a, h.length)
<1>4. ASSUME ~NoWait PROVE n > length /\ \E how \in Blocked : wait(how, n - a - b)
  <2>1. err = "ok" /\ a + b # n /\ \E how \in Blocked : wait(how, n - a - b)
    BY <1>4 DEF Read, SkipThrough, Blocked
  <2>2. n \in Nat /\ length \in Nat /\ input_length \in Nat
    BY DEF TypeInv, HeadType
  <2>3. ASSUME n <= length PROVE FALSE
    <3>1. a = n
      BY <2>2, <2>3 DEF Min
    <3>2. h.length \in Nat
      BY <2>2, <2>3, <3>1 DEF update_buffer, Moved, ReadHead
    <3>3. b = 0
      BY <2>2, <3>1, <3>2 DEF Min
    <3> QED BY <2>1, <2>2, <3>1, <3>3
  <2> QED BY <2>1, <2>2, <2>3
<1> QED BY <1>2, <1>3, <1>4

LEMMA SeekLeftOver ==
  ASSUME TypeInv, NothingLeftOver, "SEEK" \notin StreamErrors,
         (\E o \in Offsets : Seek(o)) \/ (\E n \in Lengths : SkipBySeek(n))
  PROVE  NothingLeftOver'
<1>1. PICK o \in 0..StreamSize : Repositioned(o)
  <2>1. ASSUME NEW n \in Lengths, SkipBySeek(n) PROVE off + n \in 0..StreamSize
    BY <2>1 DEF SkipBySeek, TypeInv, StreamType
  <2> QED BY <2>1 DEF Seek, SkipBySeek, SeekFails
<1>2. worker = "running" /\ UNCHANGED requestVars /\ stream_status' = "ok"
  BY <1>1 DEF Seek, SkipBySeek, MayOperate, Repositioned
<1>3. worker' = worker /\ (stream'.state = "open" => stream.state = "open")
  BY <1>1, <1>2, StreamSeeksType DEF Repositioned, NothingLeftOver, TypeInv, Blocked
<1> QED BY <1>2, <1>3 DEF NothingLeftOver, requestVars

LEMMA CloseInWorkerLeftOver ==
  ASSUME TypeInv, NothingLeftOver, CloseInWorker PROVE NothingLeftOver'
<1>1. stream'.state = "closed"
  BY DEF CloseInWorker, TypeInv, StreamType, Streams
<1>2. worker' = "running"
  BY DEF CloseInWorker, MayOperate, DoneResumes, NothingLeftOver, Blocked
<1> QED BY <1>1, <1>2 DEF CloseInWorker, NothingLeftOver, Blocked

LEMMA DoneCallLeftOver ==
  ASSUME NothingLeftOver, LoopIdle, NEW e, DoneCall(e), stream'.state \in {"ended", "closed"}
  PROVE  NothingLeftOver'
<1>1. worker' \in {"running", "stopped", worker}
      /\ (worker' = worker => UNCHANGED <<read_to, skipping>> \/ worker' \notin Blocked)
  BY DEF DoneCall, LeaveWait, Resumed, LoopIdle, Asleep, Blocked
<1> QED BY <1>1 DEF NothingLeftOver, LoopIdle, Asleep, Blocked

LEMMA WriteLeftOver ==
  ASSUME TypeInv, NothingLeftOver, NEW n \in ChunkSizes, WriteStep(n)
  PROVE  NothingLeftOver'
<1>1. stream.state = "open" /\ worker \in Asleep
  BY DEF WriteStep, WriteUnwanted, WriteTooBig, WritePart, WriteResume, MayWrite, LoopIdle
<1>2. CASE WriteUnwanted(n) \/ WriteTooBig(n)
  <2>1. stream'.state = "failing"
    BY <1>2 DEF WriteUnwanted, WriteTooBig, TypeInv, StreamType, Streams
  <2> QED BY <1>2, <2>1 DEF WriteUnwanted, WriteTooBig, NothingLeftOver, controlVars, requestVars
<1>3. CASE WritePart(n)
  <2>1. UNCHANGED <<worker, read_to, skipping, stream_status>> /\ worker \in Blocked
    BY <1>1, <1>3 DEF WritePart, NothingLeftOver, controlVars, statusVars
  <2> QED BY <1>1, <2>1 DEF NothingLeftOver
<1>4. CASE WriteResume(n)
  <2>1. worker \in Blocked /\ (read_to \/ skipping) /\ n >= read_length /\ n \in Nat
        /\ read_length \in Nat
    BY <1>1, <1>4 DEF WriteResume, NothingLeftOver, Blocked, TypeInv, RequestType
  <2>2. Wanted(n) = read_length
    BY <2>1 DEF Wanted, Min
  <2>3. read_length' = 0 /\ worker' = "running" /\ UNCHANGED stream_status
    BY <1>4, <2>1, <2>2 DEF WriteResume, LeaveWait, Resumed, Blocked, statusVars
  <2> QED BY <1>1, <2>3 DEF NothingLeftOver, Blocked
<1> QED BY <1>2, <1>3, <1>4 DEF WriteStep

LEMMA LeftOverStep ==
  ASSUME "SEEK" \notin StreamErrors, PeekUse # "any"
  PROVE  TypeInv /\ NothingLeftOver /\ [Next]_vars => NothingLeftOver'
<1> SUFFICES ASSUME TypeInv, NothingLeftOver, [Next]_vars PROVE NothingLeftOver'
  OBVIOUS
<1>1. ASSUME UNCHANGED <<requestVars, stream_status>>,
             worker' = worker \/ (worker \notin Blocked /\ worker' \notin Blocked \union {"reentered"}),
             stream'.state = "open" => stream.state = "open",
             stream'.state = stream.state \/ stream'.state # "open"
      PROVE  NothingLeftOver'
  BY <1>1 DEF NothingLeftOver, requestVars, Blocked
<1>2. CASE PeekOn \/ PeekOff \/ Suspend \/ Finish \/ CloseDeferred \/ ResumeWorker
  <2>1. UNCHANGED <<requestVars, stream_status, stream>>
    BY <1>2 DEF PeekOn, PeekOff, Suspend, Finish, CloseDeferred, ResumeWorker, statusVars
  <2>2. worker \notin Blocked /\ worker' \notin Blocked \union {"reentered"}
    BY <1>2 DEF PeekOn, PeekOff, Suspend, Finish, CloseDeferred, ResumeWorker, MayOperate,
                controlVars, Blocked
  <2> QED BY <1>1, <2>1, <2>2
<1>3. CASE WorkerStep
  BY <1>2, <1>3, OperationLeftOver, SeekLeftOver, CloseInWorkerLeftOver DEF WorkerStep
<1>4. CASE StreamStep
  <2>1. ASSUME NEW e \in Errors, StreamEnd(e) PROVE NothingLeftOver'
    <3>1. stream'.state = "ended"
      BY <2>1 DEF StreamEnd, TypeInv, StreamType, Streams
    <3> QED BY <2>1, <3>1, DoneCallLeftOver DEF StreamEnd
  <2> QED BY <1>4, <2>1, WriteLeftOver DEF StreamStep
<1>5. CASE ReturnStep
  <2>1. CASE CloseInCallback
    <3>1. stream'.state = "closed"
      BY <2>1 DEF CloseInCallback, TypeInv, StreamType, Streams
    <3> QED BY <1>1, <2>1, <3>1 DEF CloseInCallback, Blocked, statusVars
  <2>2. CASE FrameReturn
    BY <1>1, <2>2 DEF FrameReturn, statusVars
  <2>3. CASE WriteReturnWaiting \/ WriteReturnPeeking \/ WriteReturnSaving
    <3>1. stream'.state = stream.state
      BY <2>3 DEF WriteReturnWaiting, WriteReturnPeeking, WriteReturnSaving, PauseStream,
                  TypeInv, StreamType, Streams
    <3> QED BY <1>1, <2>3, <3>1 DEF WriteReturnWaiting, WriteReturnPeeking, WriteReturnSaving,
                                    WriteReturns, statusVars
  <2> QED BY <1>5, <2>1, <2>2, <2>3 DEF ReturnStep
<1>6. CASE CloseInLoop
  <2>1. stream'.state = "closed" /\ LoopIdle
    BY <1>6 DEF CloseInLoop, TypeInv, StreamType, Streams
  <2> QED BY <1>1, <1>6, <2>1, DoneCallLeftOver DEF CloseInLoop, controlVars, statusVars
<1>7. CASE UNCHANGED vars
  BY <1>1, <1>7 DEF vars, controlVars, statusVars
<1> QED BY <1>2, <1>3, <1>4, <1>5, <1>6, <1>7 DEF Next, LoopStep, Halted

(* Whatever the worker does and whenever it closes: a done() under a close *)
(* or a seek of the worker never resumes it from inside itself, as long as *)
(* the stream's seek does not fail and no peek runs into its limit         *)
(* (reader.cc:153, 188, 290, 347).                                         *)
THEOREM NeverReentered ==
  ASSUME "SEEK" \notin StreamErrors, PeekUse # "any"
  PROVE  Spec => []NeverResumedWhileRunning
<1>1. NothingLeftOver => NeverResumedWhileRunning
  BY DEF NothingLeftOver, NeverResumedWhileRunning
<1> QED BY <1>1, InitType, TypeStep, InitLeftOver, LeftOverStep, PTL DEF Spec

-----------------------------------------------------------------------------
(* What a reader reads: that the reader of a tidy worker is the cursor of   *)
(* ByteSource.  The inductive invariant is CursorInv, over TypeInv and     *)
(* TidyInv.                                                                *)

(* The use of the reader these theorems are about: peeks, if any, stay     *)
(* inside of what is at hand, and then no seek of the stream fails.  (A    *)
(* peek to the end of a chunk loses the read head, and the rewind of a     *)
(* peek that begins after a long skip has failed clears the skip's error   *)
(* although the head has not moved, reader.cc:335.)                        *)
CursorUse ==
  Tidy /\ (PeekUse = "none" \/ (PeekUse = "short" /\ "SEEK" \notin StreamErrors))

(* The reader can still be read from. *)
InUse == worker # "completed" /\ stream.state # "closed"

(* The n cells of the internal buffer from at on hold the stream's bytes   *)
(* from offset o on.                                                       *)
InsideBuffer(at, n, o) ==
  at + n <= BUFFER_SIZE /\ \A i \in 0 .. n - 1 : buffer[at + i] = o + i

(* What is at hand is the rest of the chunk of the write() on the stack,   *)
(* and the cursor is where it begins.                                      *)
InsideChunk ==
  /\ frame.kind = "write" /\ data.area = "io" /\ data.at >= 0
  /\ data.at + length = frame.size /\ frame.base + data.at = off

(* What is at hand begins at the cursor. *)
HeadAtCursor ==
  /\ input_length = 0
  /\ buffer_length # 0 => length # 0
  /\ frame.kind = "write" => buffer_length = 0 /\ peek.buffer_length = 0
  /\ InUse /\ err = "ok" /\ length # 0 =>
       IF buffer_length # 0 THEN InsideBuffer(data.at, length, off) ELSE InsideChunk
  /\ InUse /\ err # "ok" /\ PeekUse = "short" => length = 0

(* The stream goes on where what is at hand, or what is still to be        *)
(* waited for, ends.                                                       *)
StreamAtCursor ==
  /\ worker \in Blocked =>
       stream.pos + read_length = off /\ (stream.state = "open" => err = "ok")
  /\ worker \notin Blocked \union {"completed"} /\ err = "ok" => stream.pos = off + length
  /\ stream_status = "EOF" => stream.pos = StreamSize /\ stream.state \in {"ended", "closed"}

(* What the latest read has copied out begins where it did, and a read     *)
(* that waits has copied out all there was.                                *)
RequestAtCursor ==
  /\ (read_to <=> worker = "reading") /\ (skipping <=> worker = "skipping")
  /\ \A i \in 1 .. Len(dest) : dest[i] = from + i - 1
  /\ worker = "reading" => stream.pos = from + Len(dest)

(* A peek keeps what it takes to go back: the buffer, the chunk, or        *)
(* nothing at all because it has not read anything.                        *)
PeekInBuffer ==
  /\ peek.buffer_length # 0 /\ peek.input_length = 0
  /\ worker \notin Blocked /\ err = "ok"
  /\ InsideBuffer(peek.buffer_offset, peek.buffer_length, peek.off)
  /\ off + length = peek.off + peek.buffer_length
PeekInChunk ==
  /\ peek.buffer_length = 0 /\ peek.input_length # 0
  /\ worker \notin Blocked /\ err = "ok"
  /\ InsideChunk /\ buffer_length = 0
  /\ peek.input_length <= data.at + length
  /\ off + length = peek.off + peek.input_length
PeekOfNothing ==
  /\ peek.buffer_length = 0 /\ peek.input_length = 0
  /\ length = 0
  /\ worker \notin Blocked /\ err = "ok" => off = peek.off
  /\ worker \in Blocked => stream.pos = peek.off
PeekAtCursor ==
  peeking => PeekUse = "short" /\ worker # "suspended"
             /\ (InUse => PeekInBuffer \/ PeekInChunk \/ PeekOfNothing)

CursorInv == HeadAtCursor /\ StreamAtCursor /\ RequestAtCursor /\ PeekAtCursor

LEMMA InitCursor == Init => CursorInv
<1> SUFFICES ASSUME Init PROVE CursorInv
  OBVIOUS
<1>1. HeadAtCursor
  BY DEF Init, HeadAtCursor, NoFrame, FrameOf
<1>2. StreamAtCursor
  BY DEF Init, StreamAtCursor, Blocked
<1>3. RequestAtCursor
  BY DEF Init, RequestAtCursor
<1>4. PeekAtCursor
  BY DEF Init, PeekAtCursor
<1> QED BY <1>1, <1>2, <1>3, <1>4 DEF CursorInv

-----------------------------------------------------------------------------
(* Steps that leave the reader's data alone *)

(* The control of the worker and the callbacks moves; the chunk of a       *)
(* write() stays on the stack unless the reader is not in use any more.    *)
LEMMA ControlCursor ==
  ASSUME CursorInv, UNCHANGED <<headVars, peekVars, statusVars, buffer, readVars, off>>,
         UNCHANGED <<read_to, skipping, read_length>>,
         stream'.pos = stream.pos,
         stream_status = "EOF" /\ stream.state \in {"ended", "closed"}
           => stream'.state \in {"ended", "closed"},
         worker \notin Blocked, worker' \notin Blocked,
         worker = "completed" => worker' = "completed", peeking => worker' # "suspended",
         frame'.kind = "write" => frame' = frame,
         InUse' => InUse /\ (frame.kind = "write" => frame' = frame)
  PROVE  CursorInv'
<1>1. HeadAtCursor'
  <2>1. InUse' /\ InsideChunk => InsideChunk'
    BY DEF InsideChunk, headVars
  <2>2. InsideBuffer(data.at, length, off) => InsideBuffer(data.at, length, off)'
    BY DEF InsideBuffer, headVars
  <2> QED BY <2>1, <2>2 DEF CursorInv, HeadAtCursor, headVars, peekVars, statusVars
<1>2. StreamAtCursor'
  BY DEF CursorInv, StreamAtCursor, headVars, statusVars
<1>3. RequestAtCursor'
  BY DEF CursorInv, RequestAtCursor, readVars, Blocked
<1>4. PeekAtCursor'
  <2>1. InUse' /\ InsideChunk => InsideChunk'
    BY DEF InsideChunk, headVars
  <2>2. InUse' /\ PeekInBuffer => PeekInBuffer'
    BY DEF PeekInBuffer, InsideBuffer, headVars, peekVars, statusVars
  <2>3. InUse' /\ PeekInChunk => PeekInChunk'
    BY <2>1 DEF PeekInChunk, headVars, peekVars, statusVars
  <2>4. InUse' /\ PeekOfNothing => PeekOfNothing'
    BY DEF PeekOfNothing, headVars, peekVars, statusVars
  <2> QED BY <2>2, <2>3, <2>4 DEF CursorInv, PeekAtCursor, peekVars
<1> QED BY <1>1, <1>2, <1>3, <1>4 DEF CursorInv

LEMMA WorkerMovesCursor ==
  ASSUME TidyInv, CursorInv, Suspend \/ Finish \/ ResumeWorker \/ CloseDeferred
  PROVE  CursorInv'
<1>1. peeking => PeekUse = "short" /\ worker # "suspended"
  BY DEF CursorInv, PeekAtCursor
<1> QED BY <1>1, ControlCursor
        DEF Suspend, Finish, ResumeWorker, CloseDeferred, MayOperate, Blocked, InUse,
            requestVars, memoryVars

LEMMA FrameReturnCursor == ASSUME TidyInv, CursorInv, FrameReturn PROVE CursorInv'
<1>1. CASE worker \notin Blocked
  <2>1. peeking => worker # "suspended"
    BY DEF CursorInv, PeekAtCursor
  <2> QED BY <1>1, <2>1, ControlCursor
          DEF FrameReturn, NoFrame, FrameOf, InUse, requestVars, memoryVars
<1>2. CASE worker \in Blocked
  <2>1. length = 0
    BY <1>2 DEF TidyInv, TidyControl
  <2>2. frame'.kind # "write" /\ frame.kind # "write"
    BY DEF FrameReturn, NoFrame, FrameOf
  <2>3. /\ UNCHANGED <<headVars, requestVars, peekVars, statusVars, memoryVars, worker,
                       readVars, off, stream>>
    BY DEF FrameReturn
  <2>4. HeadAtCursor'
    BY <2>1, <2>2, <2>3 DEF CursorInv, HeadAtCursor, headVars, peekVars, statusVars, InUse
  <2>5. StreamAtCursor'
    BY <2>3 DEF CursorInv, StreamAtCursor, headVars, statusVars, requestVars
  <2>6. RequestAtCursor'
    BY <2>3 DEF CursorInv, RequestAtCursor, readVars, requestVars
  <2>7. PeekAtCursor'
    BY <1>2, <2>3 DEF CursorInv, PeekAtCursor, PeekInBuffer, PeekInChunk, PeekOfNothing,
                      headVars, peekVars, statusVars, InUse
  <2> QED BY <2>4, <2>5, <2>6, <2>7 DEF CursorInv
<1> QED BY <1>1, <1>2

LEMMA CloseInCallbackCursor == ASSUME TypeInv, CursorInv, CloseInCallback PROVE CursorInv'
<1>1. stream'.state = "closed" /\ stream'.pos = stream.pos
  BY DEF CloseInCallback, TypeInv, StreamType, Streams
<1> QED BY <1>1, ControlCursor
        DEF CloseInCallback, FrameOf, Blocked, InUse, requestVars, memoryVars

(* A close ends the use of the reader, whatever done() resumes under it. *)
LEMMA CloseInWorkerCursor ==
  ASSUME TypeInv, CursorInv, CloseInWorker
  PROVE  CursorInv'
<1>1. stream'.state = "closed" /\ stream'.pos = stream.pos
  BY DEF CloseInWorker, TypeInv, StreamType, Streams
<1>2. /\ worker = "running" /\ worker' \in {"running", "reentered"}
      /\ err' = "ok" => err = "ok"
  BY DEF CloseInWorker, MayOperate
<1>3. stream_status' = "EOF" => stream_status = "EOF"
  BY DEF CloseInWorker
<1>4. UNCHANGED <<headVars, requestVars, peekVars, memoryVars, frame, readVars, off>>
  BY DEF CloseInWorker
<1>5. ~InUse'
  BY <1>1 DEF InUse
<1>6. HeadAtCursor'
  BY <1>4, <1>5 DEF CursorInv, HeadAtCursor, headVars, peekVars
<1>7. StreamAtCursor'
  BY <1>1, <1>2, <1>3, <1>4 DEF CursorInv, StreamAtCursor, headVars, requestVars, Blocked
<1>8. RequestAtCursor'
  BY <1>2, <1>4 DEF CursorInv, RequestAtCursor, requestVars, readVars
<1>9. PeekAtCursor'
  BY <1>2, <1>4, <1>5 DEF CursorInv, PeekAtCursor, peekVars
<1> QED BY <1>6, <1>7, <1>8, <1>9 DEF CursorInv

-----------------------------------------------------------------------------
(* Peeks *)

LEMMA PeekTypes ==
  ASSUME TypeInv
  PROVE  /\ peek \in PeekFields
         /\ peek.buffer_length \in Nat /\ peek.buffer_offset \in Nat
         /\ peek.input_length \in Nat /\ peek.off \in Nat
         /\ length \in Nat /\ buffer_length \in Nat /\ input_length \in Nat /\ off \in Nat
         /\ data \in Pointers /\ data.at \in Int
         /\ frame.size \in Nat /\ frame.base \in Nat /\ frame.used \in Nat
         /\ stream.pos \in Nat /\ read_length \in Nat /\ from \in Nat
BY DEF TypeInv, PeekType, PeekFields, HeadType, StreamType, Streams, Pointers, ControlType,
       FrameType, Frames, RequestType, ReadType

LEMMA PeekOnCursor == ASSUME CursorUse, TypeInv, TidyInv, CursorInv, PeekOn PROVE CursorInv'
<1>1. /\ UNCHANGED <<headVars, requestVars, statusVars, memoryVars, worker, frame, readVars,
                     off, stream>>
      /\ worker = "running" /\ PeekUse = "short" /\ peeking'
      /\ peek.buffer_length = 0 /\ peek.input_length = 0 /\ InUse
  BY DEF PeekOn, MayOperate, InUse, controlVars, CursorUse, TidyInv, TidyMemory
<1>2. /\ frame.kind = "write" => buffer_length = 0
      /\ input_length = 0
      /\ buffer_length # 0 => length # 0
      /\ err # "ok" => length = 0
  BY <1>1 DEF CursorInv, HeadAtCursor
<1>3. peek' = IF buffer_length # 0
                THEN [buffer_length |-> length, buffer_offset |-> data.at,
                      input_length |-> 0, off |-> off]
                ELSE [peek EXCEPT !.input_length = length, !.off = off]
  BY <1>2 DEF PeekOn, PeekStart
<1>4. peek'.off = off
  BY <1>3, PeekTypes DEF PeekFields
<1>5. CASE buffer_length # 0
  <2>1. peek'.buffer_length = length /\ peek'.buffer_offset = data.at /\ peek'.input_length = 0
    BY <1>3, <1>5
  <2>2. length # 0 /\ err = "ok" /\ frame.kind # "write"
    BY <1>2, <1>5
  <2>3. InsideBuffer(data.at, length, off)
    BY <1>1, <1>5, <2>2 DEF CursorInv, HeadAtCursor
  <2>4. HeadAtCursor'
    BY <1>1, <1>2, <1>5, <2>2, <2>3
       DEF HeadAtCursor, InsideBuffer, headVars, memoryVars, statusVars
  <2>5. PeekInBuffer'
    BY <1>1, <1>4, <2>1, <2>2, <2>3, PeekTypes
       DEF PeekInBuffer, InsideBuffer, headVars, memoryVars, statusVars, Blocked
  <2> QED BY <1>1, <2>4, <2>5
          DEF CursorInv, StreamAtCursor, RequestAtCursor, PeekAtCursor, headVars, requestVars,
              statusVars, readVars
<1>6. CASE buffer_length = 0
  <2>1. peek'.buffer_length = 0 /\ peek'.input_length = length
    BY <1>1, <1>3, <1>6, PeekTypes DEF PeekFields
  <2>2. InsideChunk => InsideChunk'
    BY <1>1 DEF InsideChunk, headVars
  <2>3. HeadAtCursor'
    BY <1>1, <1>6, <2>1, <2>2 DEF CursorInv, HeadAtCursor, headVars, statusVars, InUse
  <2>4. PeekAtCursor'
    <3>1. CASE length = 0
      BY <1>1, <1>4, <2>1, <3>1 DEF PeekAtCursor, PeekOfNothing, headVars, Blocked
    <3>2. CASE length # 0
      <4>1. err = "ok" /\ InsideChunk
        BY <1>1, <1>2, <1>6, <3>2 DEF CursorInv, HeadAtCursor
      <4>2. PeekInChunk'
        BY <1>1, <1>4, <1>6, <2>1, <2>2, <3>2, <4>1, PeekTypes
           DEF PeekInChunk, InsideChunk, headVars, statusVars, Blocked
      <4> QED BY <1>1, <4>2 DEF PeekAtCursor
    <3> QED BY <3>1, <3>2
  <2> QED BY <1>1, <2>3, <2>4
          DEF CursorInv, StreamAtCursor, RequestAtCursor, headVars, requestVars,
              statusVars, readVars
<1> QED BY <1>5, <1>6

(* The head that a rewind puts back. *)
LEMMA PeekOffHead ==
  ASSUME CursorUse, TypeInv, TidyInv, CursorInv, PeekOff
  PROVE  /\ input_length' = 0 /\ off' = peek.off /\ ~peeking'
         /\ \/ /\ PeekInBuffer
               /\ data' = InBuffer(peek.buffer_offset) /\ length' = peek.buffer_length
               /\ buffer_length' = peek.buffer_length
               /\ err = "ok" /\ err' = "ok"
            \/ /\ PeekInChunk
               /\ data' = Advance(data, length - peek.input_length)
               /\ length' = peek.input_length
               /\ UNCHANGED buffer_length
               /\ err = "ok" /\ err' = "ok"
            \/ /\ PeekOfNothing
               /\ length' = 0 /\ err' = err
               /\ UNCHANGED buffer_length
<1>1. worker = "running" /\ peeking /\ InUse /\ input_length = 0
  BY DEF PeekOff, MayOperate, InUse, CursorInv, HeadAtCursor
<1>2. PeekInBuffer \/ PeekInChunk \/ PeekOfNothing
  BY <1>1 DEF CursorInv, PeekAtCursor
<1>3. CASE PeekInBuffer
  BY <1>1, <1>3 DEF PeekOff, PeekInBuffer
<1>4. CASE PeekInChunk
  BY <1>1, <1>4 DEF PeekOff, PeekInChunk
<1>5. CASE PeekOfNothing
  BY <1>1, <1>5 DEF PeekOff, PeekOfNothing
<1> QED BY <1>2, <1>3, <1>4, <1>5

LEMMA PeekOffCursor == ASSUME CursorUse, TypeInv, TidyInv, CursorInv, PeekOff PROVE CursorInv'
<1>1. /\ UNCHANGED <<requestVars, stream_status, memoryVars, worker, frame, readVars, stream>>
      /\ worker = "running" /\ peeking /\ InUse
      /\ peek'.buffer_length = 0
  BY DEF PeekOff, MayOperate, InUse, controlVars, NoPeek
<1>2. input_length' = 0 /\ off' = peek.off /\ ~peeking'
  BY PeekOffHead
<1>3. err = "ok" => stream.pos = off + length
  BY <1>1 DEF CursorInv, StreamAtCursor, Blocked
<1>4. frame.kind = "write" => buffer_length = 0 /\ peek.buffer_length = 0
  BY DEF CursorInv, HeadAtCursor
<1>5. HeadAtCursor' /\ (err' = "ok" => stream'.pos = off' + length')
  <2>1. CASE /\ PeekInBuffer
             /\ data' = InBuffer(peek.buffer_offset) /\ length' = peek.buffer_length
             /\ buffer_length' = peek.buffer_length /\ err = "ok" /\ err' = "ok"
    <3>1. data'.at = peek.buffer_offset /\ frame.kind # "write"
      BY <1>4, <2>1 DEF InBuffer, PeekInBuffer
    <3> QED BY <1>1, <1>2, <1>3, <2>1, <3>1
            DEF HeadAtCursor, PeekInBuffer, InsideBuffer, memoryVars
  <2>2. CASE /\ PeekInChunk
             /\ data' = Advance(data, length - peek.input_length) /\ length' = peek.input_length
             /\ UNCHANGED buffer_length /\ err = "ok" /\ err' = "ok"
    <3>1. data'.area = "io" /\ data'.at = data.at + length - peek.input_length
      BY <2>2, PeekTypes DEF Advance, PeekInChunk, InsideChunk, Pointers
    <3>2. InsideChunk'
      BY <1>1, <1>2, <2>2, <3>1, PeekTypes DEF PeekInChunk, InsideChunk
    <3> QED BY <1>1, <1>2, <1>3, <2>2, <3>2, PeekTypes DEF HeadAtCursor, PeekInChunk
  <2>3. CASE PeekOfNothing /\ length' = 0 /\ err' = err /\ UNCHANGED buffer_length
    <3>1. buffer_length = 0
      BY <2>3 DEF CursorInv, HeadAtCursor, PeekOfNothing
    <3> QED BY <1>1, <1>2, <1>3, <2>3, <3>1 DEF HeadAtCursor, PeekOfNothing, Blocked
  <2> QED BY <2>1, <2>2, <2>3, PeekOffHead
<1> QED BY <1>1, <1>2, <1>5
        DEF CursorInv, StreamAtCursor, RequestAtCursor, PeekAtCursor, requestVars, readVars,
            Blocked

-----------------------------------------------------------------------------
(* Seeks *)

LEMMA RepositionedCursor ==
  ASSUME TypeInv, CursorInv, NEW o \in 0..StreamSize, MayOperate, ~peeking, Repositioned(o),
         UNCHANGED <<requestVars, peekVars, memoryVars, frame, readVars>>
  PROVE  CursorInv'
<1>1. /\ stream'.pos = o /\ off' = o /\ o \in Nat
      /\ length' = 0 /\ buffer_length' = 0 /\ input_length' = 0
      /\ stream_status' = "ok" /\ err' = "ok"
      /\ worker = "running" /\ worker' \in {"running", "reentered"}
  BY StreamSeeksType DEF Repositioned, MayOperate, TypeInv
<1>2. HeadAtCursor'
  BY <1>1 DEF CursorInv, HeadAtCursor, peekVars
<1>3. StreamAtCursor'
  BY <1>1 DEF StreamAtCursor, Blocked
<1>4. RequestAtCursor'
  BY <1>1 DEF CursorInv, RequestAtCursor, readVars, requestVars
<1>5. PeekAtCursor'
  BY DEF PeekAtCursor, peekVars
<1> QED BY <1>2, <1>3, <1>4, <1>5 DEF CursorInv

LEMMA SeekCursor == ASSUME TypeInv, CursorInv, NEW o \in Offsets, Seek(o) PROVE CursorInv'
<1>1. CASE Repositioned(o)
  BY <1>1, RepositionedCursor DEF Seek
<1>2. CASE SeekFails(o) /\ UNCHANGED <<off, err>>
  <2>1. UNCHANGED <<headVars, requestVars, peekVars, err, memoryVars, worker, frame, readVars,
                    off, stream>>
        /\ stream_status' = "SEEK"
    BY <1>2 DEF Seek, SeekFails
  <2>2. HeadAtCursor'
    BY <2>1 DEF CursorInv, HeadAtCursor, InsideBuffer, InsideChunk, InUse, headVars, peekVars,
                memoryVars
  <2>3. StreamAtCursor'
    BY <2>1 DEF CursorInv, StreamAtCursor, headVars, requestVars
  <2>4. RequestAtCursor'
    BY <2>1 DEF CursorInv, RequestAtCursor, readVars, requestVars
  <2>5. PeekAtCursor'
    BY <1>2, <2>1 DEF Seek, PeekAtCursor, peekVars
  <2> QED BY <2>2, <2>3, <2>4, <2>5 DEF CursorInv
<1> QED BY <1>1, <1>2 DEF Seek

(* A long skip: if the stream's seek fails the head stays behind the       *)
(* cursor, with an error that only a seek clears.                          *)
LEMMA SkipBySeekCursor ==
  ASSUME CursorUse, TypeInv, CursorInv, NEW n \in Lengths, SkipBySeek(n) PROVE CursorInv'
<1>1. off + n \in 0..StreamSize
  BY DEF SkipBySeek, TypeInv, StreamType
<1>2. CASE Repositioned(off + n)
  BY <1>1, <1>2, RepositionedCursor DEF SkipBySeek
<1>3. CASE SeekFails(off + n) /\ off' = off + n /\ err' = "SEEK"
  <2>1. UNCHANGED <<headVars, requestVars, peekVars, memoryVars, worker, frame, readVars,
                    stream>>
        /\ stream_status' = "SEEK" /\ PeekUse # "short" /\ worker = "running" /\ ~peeking
    BY <1>3 DEF SkipBySeek, SeekFails, CursorUse, MayOperate
  <2>2. HeadAtCursor'
    BY <1>3, <2>1 DEF CursorInv, HeadAtCursor, headVars, peekVars
  <2>3. StreamAtCursor'
    BY <1>3, <2>1 DEF CursorInv, StreamAtCursor, Blocked
  <2>4. RequestAtCursor'
    BY <2>1 DEF CursorInv, RequestAtCursor, readVars, requestVars
  <2>5. PeekAtCursor'
    BY <2>1 DEF PeekAtCursor, peekVars
  <2> QED BY <2>2, <2>3, <2>4, <2>5 DEF CursorInv
<1> QED BY <1>2, <1>3 DEF SkipBySeek

-----------------------------------------------------------------------------
(* Reads and skips *)

(* The bytes at hand are the stream's from the cursor on. *)
LEMMA BytesAtHand ==
  ASSUME TypeInv, TidyInv, CursorInv, InUse, err = "ok", NEW a \in Nat, a <= length
  PROVE  BytesAt(data, a) = [i \in 1..a |-> off + i - 1]
<1> SUFFICES ASSUME NEW i \in 1..a PROVE ByteAt(buffer, Advance(data, i - 1)) = off + i - 1
  BY DEF BytesAt
<1>1. length # 0 /\ i - 1 \in 0 .. length - 1
  BY PeekTypes
<1>2. CASE buffer_length # 0
  <2>1. InsideBuffer(data.at, length, off) /\ data.area = "buffer" /\ data.at >= 0
    BY <1>1, <1>2 DEF CursorInv, HeadAtCursor, TidyInv, TidyMemory, TypeInv, HeadType
  <2>2. /\ Advance(data, i - 1).area = "buffer"
        /\ Advance(data, i - 1).at = data.at + (i - 1)
    BY <2>1, PeekTypes DEF Advance, Pointers
  <2>3. data.at + (i - 1) \in Cells /\ buffer[data.at + (i - 1)] = off + (i - 1)
    BY <1>1, <2>1, PeekTypes DEF InsideBuffer, Cells, BUFFER_SIZE
  <2> QED BY <2>2, <2>3, PeekTypes DEF ByteAt
<1>3. CASE buffer_length = 0
  <2>1. InsideChunk
    BY <1>1, <1>3 DEF CursorInv, HeadAtCursor
  <2>2. /\ Advance(data, i - 1).area = "io"
        /\ Advance(data, i - 1).at = data.at + (i - 1)
    BY <2>1, PeekTypes DEF Advance, Pointers, InsideChunk
  <2>3. data.at + (i - 1) \in 0 .. frame.size - 1 /\ frame.base + (data.at + (i - 1)) = off + i - 1
    BY <1>1, <2>1, PeekTypes DEF InsideChunk
  <2> QED BY <2>1, <2>2, <2>3 DEF ByteAt, InsideChunk
<1> QED BY <1>2, <1>3, PeekTypes

(* What a read or skip of n bytes takes from what is at hand: there is only*)
(* one segment, and when it is used up nothing is left.                    *)
LEMMA TakeCursor ==
  ASSUME TypeInv, CursorInv, NEW n \in Nat,
         NEW a, a = Min(n, length),
         NEW h, h = update_buffer(Moved(ReadHead, a, a)),
         NEW b, b = Min(n - a, h.length)
  PROVE  /\ b = 0 /\ a \in Nat /\ a <= n /\ a <= length
         /\ h.length = length - a /\ h.input_length = 0
         /\ a = length => h.buffer_length = 0
         /\ a # length => a = n /\ h.buffer_length = buffer_length /\ h.data = Advance(data, a)
<1>1. length \in Nat /\ input_length = 0
  BY PeekTypes DEF CursorInv, HeadAtCursor
<1>2. a \in Nat /\ a <= n /\ a <= length /\ (a = n \/ a = length)
  BY <1>1 DEF Min
<1>3. CASE a = length
  BY <1>1, <1>2, <1>3 DEF update_buffer, Moved, ReadHead, Min
<1>4. CASE a # length
  <2>1. length - a # 0
    BY <1>1, <1>2, <1>4
  <2>2. h = Moved(ReadHead, a, a)
    BY <2>1 DEF update_buffer, Moved, ReadHead
  <2> QED BY <1>1, <1>2, <1>4, <2>2 DEF Moved, ReadHead, Min
<1> QED BY <1>3, <1>4

(* All of it is at hand. *)
LEMMA TakenCursor ==
  ASSUME CursorUse, TypeInv, TidyInv, CursorInv, MayOperate, err = "ok",
         NEW n \in Nat, n # 0, n <= length, PeekAllows(n),
         off' = off + n, length' = length - n, input_length' = 0,
         n = length => buffer_length' = 0,
         n # length => buffer_length' = buffer_length /\ data' = Advance(data, n),
         NoWait, UNCHANGED <<peek, peeking, buffer, frame, stream_status>>,
         \A i \in 1 .. Len(dest') : dest'[i] = from' + i - 1
  PROVE  CursorInv'
<1>1. /\ UNCHANGED <<read_to, skipping, read_length, err, worker, stream>>
      /\ worker = "running" /\ InUse
  BY DEF NoWait, requestVars, MayOperate, InUse
<1>2. length \in Nat /\ length # 0 /\ off \in Nat
  BY PeekTypes
<1>3. ASSUME n # length
      PROVE  length' \in Nat \ {0} /\ data'.at = data.at + n /\ data'.area = data.area
  <2>1. data.area # "none"
    BY <1>1, <1>2, <1>3 DEF CursorInv, HeadAtCursor, InsideChunk, TidyInv, TidyMemory
  <2>2. data'.at = data.at + n /\ data'.area = data.area
    BY <1>3, <2>1, PeekTypes DEF Advance, Pointers
  <2> QED BY <1>2, <1>3, <2>2
<1>4. ASSUME n # length, InsideChunk PROVE InsideChunk'
  <2>1. data'.at = data.at + n /\ data'.area = data.area /\ data.at \in Int
        /\ frame.size \in Nat /\ frame.base \in Nat
    BY <1>3, <1>4, PeekTypes
  <2> QED BY <1>1, <1>2, <1>4, <2>1 DEF InsideChunk
<1>5. ASSUME n # length, InsideBuffer(data.at, length, off)
      PROVE  InsideBuffer(data'.at, length', off')
  <2>1. data'.at = data.at + n /\ data.at \in Int /\ length' \in Nat \ {0}
    BY <1>3, <1>5, PeekTypes
  <2>2. ASSUME NEW i \in 0 .. length' - 1
        PROVE  buffer[data'.at + i] = off' + i
    <3>1. n + i \in 0 .. length - 1
      BY <1>2, <2>1
    <3>2. buffer[data.at + (n + i)] = off + (n + i)
      BY <1>5, <3>1 DEF InsideBuffer
    <3>3. data'.at + i = data.at + (n + i) /\ off' + i = off + (n + i)
      BY <1>2, <2>1
    <3> QED BY <3>2, <3>3
  <2>3. data'.at + length' <= BUFFER_SIZE
    BY <1>2, <1>5, <2>1 DEF InsideBuffer, BUFFER_SIZE
  <2> QED BY <2>2, <2>3 DEF InsideBuffer
<1>6. HeadAtCursor'
  <2>1. CASE n = length
    BY <1>1, <1>2, <2>1 DEF CursorInv, HeadAtCursor
  <2>2. CASE n # length
    <3>1. IF buffer_length # 0 THEN InsideBuffer(data.at, length, off) ELSE InsideChunk
      BY <1>1, <1>2 DEF CursorInv, HeadAtCursor
    <3>2. buffer_length' # 0 => InsideBuffer(data.at, length, off)'
      BY <1>5, <2>2, <3>1 DEF InsideBuffer
    <3> QED BY <1>1, <1>3, <1>4, <2>2, <3>1, <3>2 DEF CursorInv, HeadAtCursor
  <2> QED BY <2>1, <2>2
<1>7. StreamAtCursor'
  BY <1>1, <1>2 DEF CursorInv, StreamAtCursor, Blocked
<1>8. RequestAtCursor'
  BY <1>1 DEF CursorInv, RequestAtCursor
<1>9. PeekAtCursor'
  <2> SUFFICES ASSUME peeking
               PROVE  PeekUse = "short" /\ (PeekInBuffer' \/ PeekInChunk')
    BY <1>1 DEF PeekAtCursor
  <2>1. PeekUse = "short" /\ (PeekInBuffer \/ PeekInChunk)
    BY <1>1, <1>2 DEF CursorInv, PeekAtCursor, PeekOfNothing
  <2>2. CASE PeekInBuffer
    BY <1>1, <1>2, <2>1, <2>2, PeekTypes DEF PeekInBuffer, InsideBuffer
  <2>3. CASE PeekInChunk
    <3>1. n # length
      BY <1>2, <2>1, <2>3 DEF PeekAllows, PeekInChunk
    <3>2. InsideChunk' /\ data'.at = data.at + n
      BY <1>3, <1>4, <2>3, <3>1 DEF PeekInChunk
    <3>3. data.at \in Int /\ peek.input_length \in Nat /\ peek.off \in Nat
      BY PeekTypes
    <3>4. peek'.input_length <= data'.at + length' /\ off' + length' = off + length
      BY <1>2, <2>3, <3>2, <3>3 DEF PeekInChunk
    <3> QED BY <1>1, <2>1, <2>3, <3>1, <3>2, <3>4 DEF PeekInChunk
  <2> QED BY <2>1, <2>2, <2>3
<1> QED BY <1>6, <1>7, <1>8, <1>9 DEF CursorInv

(* Only a part of it is at hand, and is taken. *)
LEMMA WaitCursor ==
  ASSUME CursorUse, TypeInv, TidyInv, CursorInv, MayOperate, err = "ok",
         NEW how \in Blocked, NEW n \in Nat, n > length, PeekAllows(n),
         off' = off + n, length' = 0, input_length' = 0, buffer_length' = 0,
         wait(how, n - length), UNCHANGED <<peek, peeking, buffer, frame, stream_status>>,
         \A i \in 1 .. Len(dest') : dest'[i] = from' + i - 1,
         how = "reading" => from' = off /\ Len(dest') = length
  PROVE  CursorInv'
<1>1. worker = "running" /\ InUse /\ length \in Nat /\ off \in Nat /\ stream.pos \in Nat
  BY PeekTypes DEF MayOperate, InUse
<1>2. stream.pos = off + length /\ ~read_to /\ ~skipping
  BY <1>1 DEF CursorInv, StreamAtCursor, RequestAtCursor, Blocked
<1>3. \/ worker' = "running" /\ err' # "ok" /\ UNCHANGED <<read_to, skipping, stream>>
      \/ /\ worker' = how /\ err' = "ok" /\ read_length' = n - length
         /\ (read_to' <=> how = "reading") /\ (skipping' <=> how = "skipping")
         /\ stream'.pos = stream.pos /\ stream'.state = stream.state
  BY <1>1 DEF wait, Unpause, MayOperate, TypeInv, StreamType, Streams
<1>4. HeadAtCursor'
  BY DEF CursorInv, HeadAtCursor
<1>5. StreamAtCursor'
  BY <1>1, <1>2, <1>3 DEF CursorInv, StreamAtCursor, Blocked
<1>6. RequestAtCursor'
  BY <1>1, <1>2, <1>3 DEF RequestAtCursor, Blocked
<1>7. PeekAtCursor'
  <2> SUFFICES ASSUME peeking PROVE PeekUse = "short" /\ PeekOfNothing'
    BY <1>3 DEF PeekAtCursor, Blocked
  <2>1. PeekUse = "short" /\ (PeekInBuffer \/ PeekInChunk \/ PeekOfNothing)
    BY <1>1 DEF CursorInv, PeekAtCursor
  <2>2. peek.buffer_length = 0 /\ peek.input_length = 0
    BY <1>1, <2>1 DEF PeekAllows
  <2>3. off = peek.off /\ length = 0
    BY <1>1, <2>1, <2>2 DEF PeekInBuffer, PeekInChunk, PeekOfNothing, Blocked
  <2> QED BY <1>1, <1>2, <1>3, <2>1, <2>2, <2>3 DEF PeekOfNothing, Blocked
<1> QED BY <1>4, <1>5, <1>6, <1>7 DEF CursorInv

(* After an error an operation only moves the cursor. *)
LEMMA FailedCursor ==
  ASSUME TypeInv, CursorInv, MayOperate, err # "ok", NoWait,
         UNCHANGED <<headVars, peek, peeking, buffer, frame, stream_status>>,
         \A i \in 1 .. Len(dest') : dest'[i] = from' + i - 1
  PROVE  CursorInv'
<1>1. /\ UNCHANGED <<read_to, skipping, read_length, err, worker, stream>>
      /\ worker = "running" /\ InUse
  BY DEF NoWait, requestVars, MayOperate, InUse
<1>2. HeadAtCursor'
  BY <1>1 DEF CursorInv, HeadAtCursor, headVars, InUse
<1>3. StreamAtCursor'
  BY <1>1 DEF CursorInv, StreamAtCursor, Blocked
<1>4. RequestAtCursor'
  BY <1>1 DEF CursorInv, RequestAtCursor
<1>5. PeekAtCursor'
  BY <1>1 DEF CursorInv, PeekAtCursor, PeekInBuffer, PeekInChunk, PeekOfNothing, headVars, InUse
<1> QED BY <1>2, <1>3, <1>4, <1>5 DEF CursorInv

(* A sequence followed by nothing. *)
LEMMA ConcatEmpty ==
  ASSUME NEW S, NEW s \in Seq(S), NEW t \in Seq(S), Len(t) = 0 PROVE s \o t = s
OBVIOUS

LEMMA ReadCursor ==
  ASSUME CursorUse, TypeInv, TidyInv, CursorInv, NEW n \in Lengths, Read(n)
  PROVE  /\ CursorInv'
         /\ dest' = [i \in 1 .. Len(dest') |-> off + i - 1] /\ Len(dest') <= n
         /\ worker' # "reading" /\ err' = "ok" => Len(dest') = n
<1> DEFINE a == Min(n, length)
           h == update_buffer(Moved(ReadHead, a, a))
           b == Min(n - a, h.length)
<1>1. /\ MayOperate /\ InUse /\ UNCHANGED <<peek, peeking, buffer, frame, stream_status>>
      /\ n \in Nat /\ n # 0 /\ PeekAllows(n) /\ off' = off + n /\ from' = off
      /\ length \in Nat /\ off \in Nat
  BY PeekTypes DEF Read, peekVars, memoryVars, MayOperate, InUse
<1>2. CASE err # "ok"
  <2>1. NoWait /\ UNCHANGED headVars /\ dest' = <<>>
    BY <1>2 DEF Read
  <2>2. err' = err /\ Len(dest') = 0 /\ dest' = [i \in 1..0 |-> off + i - 1]
    BY <2>1 DEF NoWait
  <2>3. CursorInv'
    BY <1>1, <1>2, <2>1, <2>2, FailedCursor
  <2> QED BY <1>1, <1>2, <2>2, <2>3
<1>3. CASE err = "ok"
  <2>1. /\ SetHead(Moved(h, b, b))
        /\ dest' = BytesAt(data, a) \o BytesAt(h.data, b)
        /\ IF a + b = n THEN NoWait ELSE wait("reading", n - a - b)
    BY <1>3 DEF Read
  <2>2. /\ b = 0 /\ a \in Nat /\ a <= n /\ a <= length
        /\ h.length = length - a /\ h.input_length = 0
        /\ a = length => h.buffer_length = 0
        /\ a # length => a = n /\ h.buffer_length = buffer_length /\ h.data = Advance(data, a)
        /\ h \in Heads
    BY <1>1, TakeCursor, TakeType
  <2>3. a = n \/ a = length
    BY DEF Min
  <2> HIDE DEF a, h, b
  <2>4. /\ data' = h.data /\ length' = length - a /\ input_length' = 0
        /\ a = length => buffer_length' = 0
        /\ a # length => a = n /\ buffer_length' = buffer_length /\ data' = Advance(data, a)
    <3>1. Advance(h.data, 0) = h.data
      BY <2>2 DEF Advance, Heads, Pointers
    <3>2. h.length - 0 = h.length
      BY <2>2 DEF Heads
    <3> QED BY <2>1, <2>2, <3>1, <3>2 DEF SetHead, Moved
  <2>5. dest' = [i \in 1..a |-> off + i - 1]
    <3>1. BytesAt(data, a) = [i \in 1..a |-> off + i - 1]
      BY <1>1, <1>3, <2>2, BytesAtHand
    <3>2. BytesAt(data, a) \in Seq(Values) /\ BytesAt(h.data, b) \in Seq(Values)
      BY <2>2, PeekTypes, BytesAtType DEF TypeInv, ControlType, Heads
    <3>3. Len(BytesAt(h.data, b)) = 0
      BY <2>2 DEF BytesAt
    <3> QED BY <2>1, <3>1, <3>2, <3>3, ConcatEmpty
  <2>6. Len(dest') = a /\ \A i \in 1 .. Len(dest') : dest'[i] = from' + i - 1
    BY <1>1, <2>2, <2>5
  <2>7. CASE a = n
    <3>1. a + b = n /\ NoWait
      BY <2>1, <2>2, <2>7
    <3>2. CursorInv'
      BY <1>1, <1>3, <2>2, <2>4, <2>6, <2>7, <3>1, TakenCursor
    <3> QED BY <1>1, <2>5, <2>6, <2>7, <3>2
  <2>8. CASE a # n
    <3>1. a = length /\ n > length /\ wait("reading", n - length)
      BY <1>1, <2>1, <2>2, <2>3, <2>8
    <3>2. length' = 0 /\ buffer_length' = 0 /\ input_length' = 0
      BY <1>1, <2>4, <3>1
    <3>3. CursorInv'
      BY <1>1, <1>3, <2>6, <3>1, <3>2, WaitCursor DEF Blocked
    <3>4. worker' = "reading" \/ err' # "ok"
      BY <3>1 DEF wait
    <3> QED BY <1>1, <2>2, <2>5, <2>6, <3>3, <3>4
  <2> QED BY <2>7, <2>8
<1> QED BY <1>2, <1>3

LEMMA SkipThroughCursor ==
  ASSUME CursorUse, TypeInv, TidyInv, CursorInv, NEW n \in Lengths, SkipThrough(n)
  PROVE  CursorInv'
<1> DEFINE a == Min(n, length)
           h == update_buffer(Moved(ReadHead, a, a))
           b == Min(n - a, h.length)
<1>1. /\ MayOperate /\ InUse
      /\ UNCHANGED <<peek, peeking, buffer, frame, stream_status, dest, from>>
      /\ n \in Nat /\ n # 0 /\ PeekAllows(n) /\ off' = off + n
      /\ length \in Nat /\ off \in Nat
      /\ \A i \in 1 .. Len(dest) : dest[i] = from + i - 1
  BY PeekTypes DEF SkipThrough, peekVars, memoryVars, readVars, MayOperate, InUse, CursorInv,
                   RequestAtCursor
<1>2. CASE err # "ok"
  <2>1. NoWait /\ UNCHANGED headVars
    BY <1>2 DEF SkipThrough
  <2> QED BY <1>1, <1>2, <2>1, FailedCursor
<1>3. CASE err = "ok"
  <2>1. /\ SetHead(IF b = 0 THEN h ELSE Moved(h, b, n - a - b))
        /\ IF a + b = n THEN NoWait ELSE wait("skipping", n - a - b)
    BY <1>3 DEF SkipThrough
  <2>2. /\ b = 0 /\ a \in Nat /\ a <= n /\ a <= length
        /\ h.length = length - a /\ h.input_length = 0
        /\ a = length => h.buffer_length = 0
        /\ a # length => a = n /\ h.buffer_length = buffer_length /\ h.data = Advance(data, a)
    BY <1>1, TakeCursor
  <2>3. a = n \/ a = length
    BY DEF Min
  <2> HIDE DEF a, h, b
  <2>4. /\ length' = length - a /\ input_length' = 0
        /\ a = length => buffer_length' = 0
        /\ a # length => a = n /\ buffer_length' = buffer_length /\ data' = Advance(data, a)
    BY <2>1, <2>2 DEF SetHead
  <2>5. CASE a = n
    <3>1. a + b = n /\ NoWait
      BY <2>1, <2>2, <2>5
    <3> QED BY <1>1, <1>3, <2>2, <2>4, <2>5, <3>1, TakenCursor
  <2>6. CASE a # n
    <3>1. a = length /\ n > length /\ wait("skipping", n - length)
      BY <1>1, <2>1, <2>2, <2>3, <2>6
    <3>2. length' = 0 /\ buffer_length' = 0 /\ input_length' = 0
      BY <1>1, <2>4, <3>1
    <3> QED BY <1>1, <1>3, <3>1, <3>2, WaitCursor DEF Blocked
  <2> QED BY <2>5, <2>6
<1> QED BY <1>2, <1>3

-----------------------------------------------------------------------------
(* The stream's callbacks *)

(* What is known of a blocked worker: it has used up what was at hand, and *)
(* its peek has not read anything.                                         *)
LEMMA BlockedCursor ==
  ASSUME TidyInv, CursorInv, worker \in Blocked, stream.state # "closed"
  PROVE  /\ length = 0 /\ buffer_length = 0 /\ input_length = 0 /\ InUse
         /\ stream.pos + read_length = off /\ (stream.state = "open" => err = "ok")
         /\ peeking => PeekUse = "short" /\ PeekOfNothing
BY DEF TidyInv, TidyControl, CursorInv, HeadAtCursor, StreamAtCursor, PeekAtCursor,
       PeekInBuffer, PeekInChunk, InUse, Blocked

LEMMA WriteTooBigCursor ==
  ASSUME TypeInv, TidyInv, CursorInv, NEW n \in ChunkSizes, WriteTooBig(n) PROVE CursorInv'
<1>1. worker \in Blocked /\ frame.kind = "none" /\ stream.state = "open"
  BY WriteFindsBlocked DEF WriteTooBig
<1>2. stream'.state = "failing" /\ stream'.pos = stream.pos
  BY DEF WriteTooBig, TypeInv, StreamType, Streams
<1>3. /\ UNCHANGED <<headVars, requestVars, peekVars, memoryVars, worker, frame, readVars, off>>
      /\ stream_status' # "EOF"
  BY DEF WriteTooBig, controlVars
<1>4. HeadAtCursor'
  BY <1>1, <1>3, BlockedCursor DEF HeadAtCursor, headVars
<1>5. StreamAtCursor'
  BY <1>1, <1>2, <1>3 DEF CursorInv, StreamAtCursor, requestVars
<1>6. RequestAtCursor'
  BY <1>1, <1>2, <1>3 DEF CursorInv, RequestAtCursor, requestVars, readVars
<1>7. PeekAtCursor'
  BY <1>1, <1>2, <1>3, BlockedCursor
     DEF PeekAtCursor, PeekOfNothing, peekVars, headVars, Blocked
<1> QED BY <1>4, <1>5, <1>6, <1>7 DEF CursorInv

(* The bytes of a chunk follow those that the read has copied out before.  *)
LEMMA DeliveredCursor ==
  ASSUME TypeInv, CursorInv, NEW n \in Nat, Wanted(n) \in Nat, Delivered(n), UNCHANGED from
  PROVE  /\ \A i \in 1 .. Len(dest') : dest'[i] = from' + i - 1
         /\ worker = "reading" => Len(dest') = Len(dest) + Wanted(n)
         /\ worker # "reading" => dest' = dest
<1>1. (read_to <=> worker = "reading") /\ \A i \in 1 .. Len(dest) : dest[i] = from + i - 1
  BY DEF CursorInv, RequestAtCursor
<1>2. CASE worker # "reading"
  BY <1>1, <1>2 DEF Delivered
<1>3. CASE worker = "reading"
  <2> DEFINE new == [i \in 1..Wanted(n) |-> stream.pos + i - 1]
  <2>1. dest' = dest \o new /\ stream.pos = from + Len(dest)
    BY <1>1, <1>3 DEF Delivered, CursorInv, RequestAtCursor
  <2>2. /\ dest \in Seq(Values) /\ Len(dest) \in Nat
        /\ new \in Seq(Int) /\ Len(new) = Wanted(n)
    <3>1. stream.pos \in Int
      BY PeekTypes
    <3>2. \A i \in 1..Wanted(n) : stream.pos + i - 1 \in Int
      BY <3>1
    <3>3. new \in Seq(Int) /\ Len(new) = Wanted(n)
      BY <3>2
    <3> QED BY <3>3 DEF TypeInv, ReadType
  <2>3. /\ Len(dest') = Len(dest) + Wanted(n)
        /\ \A i \in 1 .. Len(dest') :
             dest'[i] = IF i <= Len(dest) THEN dest[i] ELSE new[i - Len(dest)]
    BY <2>1, <2>2
  <2>4. \A i \in 1 .. Len(dest') : i > Len(dest) => new[i - Len(dest)] = from + i - 1
    <3>1. TAKE i \in 1 .. Len(dest')
    <3>2. HAVE i > Len(dest)
    <3>3. i - Len(dest) \in 1 .. Wanted(n)
      BY <2>2, <2>3, <3>2
    <3>4. new[i - Len(dest)] = stream.pos + (i - Len(dest)) - 1
      BY <3>3
    <3> QED BY <2>1, <2>2, <3>4, PeekTypes
  <2> HIDE DEF new
  <2>5. \A i \in 1 .. Len(dest') : dest'[i] = from' + i - 1
    <3>1. SUFFICES ASSUME NEW i \in 1 .. Len(dest') PROVE dest'[i] = from + i - 1
      OBVIOUS
    <3>2. dest'[i] = IF i <= Len(dest) THEN dest[i] ELSE new[i - Len(dest)]
      BY <2>3
    <3>3. i \in Nat /\ i >= 1
      BY <2>3, <2>2
    <3>4. CASE i <= Len(dest)
      <4>1. i \in 1 .. Len(dest)
        BY <2>2, <3>3, <3>4
      <4> QED BY <1>1, <3>2, <3>4, <4>1
    <3>5. CASE ~(i <= Len(dest))
      <4>1. i > Len(dest)
        BY <2>2, <3>3, <3>5
      <4> QED BY <2>4, <3>2, <3>5, <4>1
    <3> QED BY <3>4, <3>5
  <2> QED BY <1>3, <2>3, <2>5
<1> QED BY <1>2, <1>3

LEMMA WritePartCursor ==
  ASSUME TypeInv, TidyInv, CursorInv, NEW n \in ChunkSizes, WritePart(n)
  PROVE  /\ CursorInv' /\ Len(dest') >= Len(dest) /\ UNCHANGED worker
         /\ worker = "reading" => Len(dest') <= off - from
         /\ worker # "reading" => dest' = dest
<1>1. /\ worker \in Blocked /\ frame.kind = "none" /\ stream.state = "open"
      /\ read_to \/ skipping
  BY WriteFindsBlocked DEF WritePart
<1>2. /\ n \in Nat /\ read_length \in Nat /\ stream.pos \in Nat /\ Len(dest) \in Nat
      /\ from \in Nat /\ off \in Nat
  BY PeekTypes DEF TypeInv, ReadType
<1>3. n < read_length /\ Wanted(n) = n /\ read_length' = read_length - n
  BY <1>1, <1>2 DEF WritePart, Wanted, Min
<1>4. stream'.state = "open" /\ stream'.pos = stream.pos + n
  BY <1>1, PeekTypes DEF WritePart, Written, TypeInv, StreamType, Streams
<1>5. /\ UNCHANGED <<headVars, read_to, skipping, peeking, statusVars, memoryVars, worker,
                     frame, from, off>>
      /\ Delivered(n) /\ MayWrite(n)
  BY DEF WritePart, controlVars
<1>6. /\ \A i \in 1 .. Len(dest') : dest'[i] = from' + i - 1
      /\ worker = "reading" => Len(dest') = Len(dest) + n
      /\ worker # "reading" => dest' = dest
  BY <1>2, <1>3, <1>5, DeliveredCursor
<1>7. ~peeking
  BY <1>1, <1>2, <1>3, <1>5, BlockedCursor DEF MayWrite, ChunkAllowed
<1>8. stream'.pos + read_length' = off /\ (worker = "reading" => stream.pos = from + Len(dest))
  <2>1. stream.pos + read_length = off
    BY <1>1, BlockedCursor
  <2>2. stream'.pos + read_length' = off
    BY <1>2, <1>3, <1>4, <2>1
  <2> QED BY <2>2 DEF CursorInv, RequestAtCursor
<1>9. HeadAtCursor'
  <2>1. length = 0 /\ buffer_length = 0 /\ input_length = 0
    BY <1>1, BlockedCursor
  <2> QED BY <1>1, <1>5, <2>1 DEF HeadAtCursor, headVars
<1>10. StreamAtCursor'
  BY <1>1, <1>5, <1>8 DEF CursorInv, StreamAtCursor, statusVars
<1>11. RequestAtCursor'
  <2>1. ASSUME worker = "reading" PROVE stream'.pos = from + Len(dest')
    <3>1. Len(dest') = Len(dest) + n /\ stream.pos = from + Len(dest)
      BY <1>6, <1>8, <2>1
    <3> QED BY <1>2, <1>4, <3>1
  <2>2. (read_to <=> worker = "reading") /\ (skipping <=> worker = "skipping")
    BY DEF CursorInv, RequestAtCursor
  <2> QED BY <1>5, <1>6, <2>1, <2>2 DEF RequestAtCursor
<1>12. PeekAtCursor'
  BY <1>5, <1>7 DEF PeekAtCursor
<1>13. worker = "reading" => Len(dest') <= off - from
  BY <1>2, <1>3, <1>4, <1>6, <1>8
<1>14. Len(dest') >= Len(dest)
  BY <1>2, <1>6
<1> QED BY <1>5, <1>6, <1>9, <1>10, <1>11, <1>12, <1>13, <1>14 DEF CursorInv

LEMMA WriteResumeCursor ==
  ASSUME TypeInv, TidyInv, CursorInv, NEW n \in ChunkSizes, WriteResume(n)
  PROVE  /\ CursorInv' /\ Len(dest') >= Len(dest) /\ worker' = "running"
         /\ worker = "reading" => Len(dest') = off - from
         /\ worker # "reading" => dest' = dest
<1>1. worker \in Blocked /\ frame.kind = "none" /\ stream.state = "open"
  BY WriteFindsBlocked DEF WriteResume
<1>2. /\ n \in Nat /\ n # 0 /\ read_length \in Nat /\ stream.pos \in Nat /\ Len(dest) \in Nat
      /\ from \in Nat /\ off \in Nat
  BY PeekTypes DEF TypeInv, ReadType
<1>3. read_to \/ skipping
  BY <1>1 DEF CursorInv, RequestAtCursor, Blocked
<1>4. n >= read_length /\ Wanted(n) = read_length
  BY <1>2, <1>3 DEF WriteResume, Wanted, Min
<1>5. stream'.state = "open" /\ stream'.pos = stream.pos + n
  BY <1>1, PeekTypes DEF WriteResume, Written, TypeInv, StreamType, Streams
<1>6. /\ UNCHANGED <<buffer_length, input_length, peeking, statusVars, memoryVars, from, off>>
      /\ Delivered(n) /\ PeekInput(n)
      /\ worker' = "running" /\ ~read_to' /\ ~skipping'
  BY <1>1 DEF WriteResume, LeaveWait, Resumed, Blocked, CursorInv, RequestAtCursor
<1>7. /\ length = 0 /\ buffer_length = 0 /\ input_length = 0 /\ stream.pos + read_length = off
      /\ err = "ok" /\ (peeking => PeekUse = "short" /\ PeekOfNothing)
  BY <1>1, BlockedCursor
<1>8. /\ data' = InChunk(read_length) /\ length' = n - read_length
      /\ frame' = [kind |-> "write", base |-> stream.pos, size |-> n, used |-> read_length]
  BY <1>4 DEF WriteResume
<1>9. /\ data'.area = "io" /\ data'.at = read_length
      /\ frame'.kind = "write" /\ frame'.base = stream.pos /\ frame'.size = n
  BY <1>8 DEF InChunk
<1>10. InsideChunk'
  BY <1>2, <1>6, <1>7, <1>8, <1>9 DEF InsideChunk
<1>11. stream'.pos = off' + length'
  BY <1>2, <1>5, <1>6, <1>7, <1>8
<1>12. /\ \A i \in 1 .. Len(dest') : dest'[i] = from' + i - 1
       /\ worker = "reading" => Len(dest') = Len(dest) + read_length
       /\ worker # "reading" => dest' = dest
  BY <1>2, <1>4, <1>6, DeliveredCursor
<1>13. worker = "reading" => stream.pos = from + Len(dest)
  BY DEF CursorInv, RequestAtCursor
<1>14. ~peeking => peek' = peek /\ peek.buffer_length = 0
  BY <1>6 DEF PeekInput, TidyInv, TidyMemory
<1>15. peeking => /\ peek'.input_length = n /\ peek'.buffer_length = 0 /\ peek'.off = stream.pos
  BY <1>1, <1>6, <1>7, PeekTypes DEF PeekInput, PeekOfNothing, PeekFields
<1>16. HeadAtCursor'
  BY <1>6, <1>7, <1>10, <1>14, <1>15 DEF HeadAtCursor, statusVars
<1>17. StreamAtCursor'
  BY <1>1, <1>5, <1>6, <1>11 DEF CursorInv, StreamAtCursor, statusVars, Blocked
<1>18. RequestAtCursor'
  BY <1>6, <1>12 DEF RequestAtCursor
<1>19. PeekAtCursor'
  <2> SUFFICES ASSUME peeking PROVE PeekUse = "short" /\ PeekInChunk'
    BY <1>6 DEF PeekAtCursor
  <2>1. peek'.input_length <= data'.at + length'
    BY <1>2, <1>8, <1>9, <1>15
  <2>2. off' + length' = peek'.off + peek'.input_length
    BY <1>5, <1>11, <1>15
  <2> QED BY <1>2, <1>6, <1>7, <1>10, <1>15, <2>1, <2>2 DEF PeekInChunk, statusVars, Blocked
<1>20. worker = "reading" => Len(dest') = off - from
  <2> HAVE worker = "reading"
  <2>1. Len(dest') = Len(dest) + read_length /\ stream.pos = from + Len(dest)
    BY <1>12, <1>13
  <2> QED BY <1>2, <1>7, <2>1
<1>21. Len(dest') >= Len(dest)
  <2>1. worker = "reading" => Len(dest') = Len(dest) + read_length
    BY <1>12
  <2>2. worker # "reading" => dest' = dest
    BY <1>12
  <2> QED BY <1>2, <2>1, <2>2
<1> QED BY <1>6, <1>12, <1>16, <1>17, <1>18, <1>19, <1>20, <1>21 DEF CursorInv

(* done() comes once, at the end; only a blocked worker waits for it. *)
LEMMA DoneCallCursor ==
  ASSUME TypeInv, TidyInv, CursorInv, LoopIdle, stream.state \in {"open", "failing"},
         NEW error, error # "ok", DoneCall(error),
         error = "EOF" => stream.pos = StreamSize,
         stream'.pos = stream.pos, stream'.state \in {"ended", "closed"}
  PROVE  /\ CursorInv'
         /\ IF worker \in Blocked
              THEN worker' = "running" /\ err' # "ok"
              ELSE worker' = worker /\ err' = err
<1>1. /\ UNCHANGED <<headVars, read_length, peekVars, memoryVars, readVars, off>>
      /\ frame.kind = "none" /\ stream_status' # "ok"
      /\ stream_status' = "EOF" => error = "EOF"
  BY DEF DoneCall, LoopIdle, CursorInv, StreamAtCursor
<1>2. CASE worker \in Blocked
  <2>1. DoneResumes
    BY <1>2 DEF DoneResumes, TidyInv, TidyControl
  <2>2. /\ err' # "ok" /\ frame'.kind = "done" /\ worker' = "running"
        /\ ~read_to' /\ ~skipping'
    <3>1. (read_to <=> worker = "reading") /\ (skipping <=> worker = "skipping")
      BY DEF CursorInv, RequestAtCursor
    <3>2. LeaveWait /\ err' # "ok" /\ frame' = FrameOf("done")
      BY <1>1, <2>1 DEF DoneCall
    <3>3. worker' = "running" /\ ~read_to' /\ ~skipping'
      BY <1>2, <3>1, <3>2 DEF LeaveWait, Resumed, Blocked
    <3> QED BY <3>2, <3>3 DEF FrameOf
  <2>3. length = 0 /\ buffer_length = 0 /\ input_length = 0
        /\ (peeking => PeekUse = "short" /\ PeekOfNothing)
    BY <1>2, BlockedCursor
  <2>4. HeadAtCursor'
    BY <1>1, <2>2, <2>3 DEF HeadAtCursor, headVars
  <2>5. StreamAtCursor'
    BY <1>1, <2>2 DEF StreamAtCursor, Blocked
  <2>6. RequestAtCursor'
    BY <1>1, <2>2 DEF CursorInv, RequestAtCursor, readVars
  <2>7. PeekAtCursor'
    BY <1>1, <2>2, <2>3 DEF PeekAtCursor, PeekOfNothing, peekVars, headVars, Blocked
  <2> QED BY <1>2, <2>2, <2>4, <2>5, <2>6, <2>7 DEF CursorInv
<1>3. CASE worker \notin Blocked
  <2>1. ~DoneResumes
    BY <1>3 DEF DoneResumes, TidyInv, TidyControl, LoopIdle, Asleep
  <2>2. UNCHANGED <<err, worker, read_to, skipping, frame>>
    BY <2>1 DEF DoneCall
  <2>3. HeadAtCursor'
    <3>1. InUse' => InUse
      BY <2>2 DEF InUse
    <3> QED BY <1>1, <2>2, <3>1
            DEF CursorInv, HeadAtCursor, InsideBuffer, InsideChunk, headVars, peekVars,
                memoryVars
  <2>4. StreamAtCursor'
    BY <1>1, <1>3, <2>2 DEF CursorInv, StreamAtCursor, headVars
  <2>5. RequestAtCursor'
    BY <1>1, <1>3, <2>2 DEF CursorInv, RequestAtCursor, readVars, Blocked
  <2>6. PeekAtCursor'
    <3>1. InUse' => InUse
      BY <2>2 DEF InUse
    <3> QED BY <1>1, <1>3, <2>2, <3>1
            DEF CursorInv, PeekAtCursor, PeekInBuffer, PeekInChunk, PeekOfNothing,
                InsideBuffer, InsideChunk, headVars, peekVars, memoryVars
  <2> QED BY <1>3, <2>2, <2>3, <2>4, <2>5, <2>6 DEF CursorInv
<1> QED BY <1>2, <1>3

LEMMA StreamEndCursor ==
  ASSUME TypeInv, TidyInv, CursorInv, NEW error \in Errors, StreamEnd(error)
  PROVE  /\ CursorInv'
         /\ IF worker \in Blocked
              THEN worker' = "running" /\ err' # "ok"
              ELSE worker' = worker /\ err' = err
<1>1. /\ stream'.pos = stream.pos /\ stream'.state = "ended"
      /\ stream.state \in {"open", "failing"}
      /\ error = "EOF" => stream.pos = StreamSize
  BY DEF StreamEnd, TypeInv, StreamType, Streams
<1>2. LoopIdle /\ DoneCall(error) /\ error # "ok"
  BY DEF StreamEnd, Errors
<1> QED BY <1>1, <1>2, DoneCallCursor

LEMMA CloseInLoopCursor ==
  ASSUME TypeInv, TidyInv, CursorInv, CloseInLoop
  PROVE  /\ CursorInv'
         /\ IF worker \in Blocked /\ stream.state = "open"
              THEN worker' = "running" /\ err' # "ok"
              ELSE worker' = worker /\ err' = err
<1>1. stream'.pos = stream.pos /\ stream'.state = "closed" /\ LoopIdle
  BY DEF CloseInLoop, TypeInv, StreamType, Streams
<1>2. CASE stream.state = "open"
  BY <1>1, <1>2, DoneCallCursor DEF CloseInLoop
<1>3. CASE stream.state = "ended"
  <2>1. /\ UNCHANGED <<headVars, requestVars, peekVars, statusVars, memoryVars, worker, frame,
                       readVars, off>>
        /\ ~InUse'
    BY <1>1, <1>3 DEF CloseInLoop, controlVars, InUse
  <2>2. HeadAtCursor'
    BY <2>1 DEF CursorInv, HeadAtCursor, headVars, peekVars
  <2>3. StreamAtCursor'
    BY <1>1, <2>1 DEF CursorInv, StreamAtCursor, headVars, requestVars, statusVars
  <2>4. RequestAtCursor'
    BY <1>1, <2>1 DEF CursorInv, RequestAtCursor, readVars, requestVars
  <2>5. PeekAtCursor'
    BY <2>1 DEF CursorInv, PeekAtCursor, peekVars
  <2> QED BY <1>3, <2>1, <2>2, <2>3, <2>4, <2>5 DEF CursorInv, statusVars
<1> QED BY <1>2, <1>3 DEF CloseInLoop

-----------------------------------------------------------------------------
(* The rest of write() *)

(* In a write() nothing is left in the buffer, so the rest of the chunk is *)
(* all that is at hand.                                                    *)
LEMMA WriteReturnsLeaves ==
  ASSUME TypeInv, TidyInv, CursorInv, WriteReturns
  PROVE  /\ buffer_length = 0 /\ input_length = 0 /\ peek.buffer_length = 0
         /\ UNCHANGED <<input_length, read_length, read_to, skipping, peeking, statusVars,
                        worker, readVars, off>>
         /\ frame.kind = "write" /\ frame'.kind = "none" /\ stream.state = "open"
         /\ peek'.off = peek.off /\ (~peeking => peek' = peek)
         /\ peek.input_length = 0 => peek'.buffer_length = 0 /\ peek'.input_length = 0
<1>1. frame.kind = "write" /\ frame'.kind = "none"
  BY DEF WriteReturns, NoFrame, FrameOf
<1>2. buffer_length = 0 /\ input_length = 0 /\ peek.buffer_length = 0 /\ stream.state = "open"
  BY <1>1 DEF CursorInv, HeadAtCursor, TidyInv, TidyControl
<1>3. peek'.off = peek.off /\ (~peeking => peek' = peek)
  BY PeekTypes DEF WriteReturns, KeepPeeked, PeekFields
<1>4. peek.input_length = 0 => peek'.buffer_length = 0 /\ peek'.input_length = 0
  <2> HAVE peek.input_length = 0
  <2>1. CASE peeking
    <3>1. peek'.buffer_length = peek.buffer_length + peek.input_length /\ peek'.input_length = 0
      BY <2>1, PeekTypes DEF WriteReturns, KeepPeeked, PeekFields
    <3> QED BY <1>2, <3>1
  <2>2. CASE ~peeking
    BY <1>2, <1>3, <2>2
  <2> QED BY <2>1, <2>2
<1> QED BY <1>1, <1>2, <1>3, <1>4 DEF WriteReturns, requestVars

LEMMA WriteReturnWaitingCursor ==
  ASSUME TypeInv, TidyInv, CursorInv, WriteReturnWaiting PROVE CursorInv'
<1>1. /\ buffer_length = 0 /\ input_length = 0 /\ peek.buffer_length = 0
      /\ UNCHANGED <<input_length, read_length, read_to, skipping, peeking, statusVars,
                     worker, readVars, off>>
      /\ frame.kind = "write" /\ frame'.kind = "none" /\ stream.state = "open"
      /\ peek'.off = peek.off /\ (~peeking => peek' = peek)
      /\ peek.input_length = 0 => peek'.buffer_length = 0 /\ peek'.input_length = 0
  BY WriteReturnsLeaves DEF WriteReturnWaiting
<1>2. UNCHANGED <<length, buffer_length, stream>>
  BY DEF WriteReturnWaiting
<1>3. worker \in Blocked
  BY <1>1 DEF WriteReturnWaiting, WriteReturns, Asleep, TidyInv, TidyControl
<1>4. length = 0 /\ (peeking => PeekUse = "short" /\ PeekOfNothing)
  BY <1>1, <1>3, BlockedCursor
<1>5. HeadAtCursor'
  BY <1>1, <1>2, <1>4 DEF HeadAtCursor
<1>6. StreamAtCursor'
  BY <1>1, <1>2 DEF CursorInv, StreamAtCursor, statusVars
<1>7. RequestAtCursor'
  BY <1>1, <1>2 DEF CursorInv, RequestAtCursor, readVars
<1>8. PeekAtCursor'
  BY <1>1, <1>2, <1>3, <1>4 DEF PeekAtCursor, PeekOfNothing, statusVars, Blocked
<1> QED BY <1>5, <1>6, <1>7, <1>8 DEF CursorInv

LEMMA WriteReturnPeekingCursor ==
  ASSUME TypeInv, TidyInv, CursorInv, WriteReturnPeeking PROVE CursorInv'
<1>1. /\ buffer_length = 0 /\ input_length = 0
      /\ UNCHANGED <<input_length, read_length, read_to, skipping, peeking, statusVars,
                     worker, readVars, off>>
      /\ frame'.kind = "none"
  BY WriteReturnsLeaves DEF WriteReturnPeeking
<1>2. /\ buffer_length' = buffer_length /\ peeking /\ worker \in Asleep /\ read_length = 0
      /\ stream'.pos = stream.pos /\ stream'.state = stream.state
  BY DEF WriteReturnPeeking, WriteReturns, PauseStream, TypeInv, StreamType, Streams
<1>3. worker = "completed"
  BY <1>2 DEF CursorInv, PeekAtCursor, Asleep, TidyInv, TidyControl
<1>4. HeadAtCursor'
  BY <1>1, <1>2, <1>3 DEF HeadAtCursor, InUse
<1>5. StreamAtCursor'
  BY <1>1, <1>2, <1>3 DEF CursorInv, StreamAtCursor, statusVars, Blocked
<1>6. RequestAtCursor'
  BY <1>1, <1>3 DEF CursorInv, RequestAtCursor, readVars
<1>7. PeekAtCursor'
  BY <1>1, <1>2, <1>3 DEF CursorInv, PeekAtCursor, InUse
<1> QED BY <1>4, <1>5, <1>6, <1>7 DEF CursorInv

(* The rest of the chunk, saved at the front of the buffer. *)
LEMMA SavedAtFront ==
  ASSUME TypeInv, TidyInv, CursorInv, InUse, err = "ok",
         buffer' = Copied(buffer, 0, data, length)
  PROVE  \A i \in 0 .. length - 1 : buffer'[0 + i] = off + i
<1>1. length \in Nat /\ length <= BUFFER_SIZE /\ BUFFER_SIZE \in Nat
  BY PeekTypes DEF TidyInv, TidyMemory, BUFFER_SIZE
<1>2. BytesAt(data, length) = [i \in 1..length |-> off + i - 1]
  BY <1>1, BytesAtHand
<1> SUFFICES ASSUME NEW i \in 0 .. length - 1 PROVE buffer'[i] = off + i
  BY <1>1
<1>3. i \in Cells /\ i \in Nat /\ i + 1 \in 1..length /\ i < length
  BY <1>1 DEF Cells
<1>4. buffer'[i] = ByteAt(buffer, Advance(data, i))
  BY <1>1, <1>3 DEF Copied
<1>5. BytesAt(data, length)[i + 1] = ByteAt(buffer, Advance(data, (i + 1) - 1))
  BY <1>3 DEF BytesAt
<1>6. BytesAt(data, length)[i + 1] = off + (i + 1) - 1
  BY <1>2, <1>3
<1>7. (i + 1) - 1 = i /\ off + (i + 1) - 1 = off + i
  BY <1>3, PeekTypes
<1> QED BY <1>4, <1>5, <1>6, <1>7

LEMMA WriteReturnSavingCursor ==
  ASSUME TypeInv, TidyInv, CursorInv, WriteReturnSaving PROVE CursorInv'
<1>1. /\ buffer_length = 0 /\ input_length = 0 /\ peek.buffer_length = 0
      /\ UNCHANGED <<input_length, read_length, read_to, skipping, peeking, statusVars,
                     worker, readVars, off>>
      /\ frame'.kind = "none" /\ stream.state = "open" /\ (~peeking => peek' = peek)
  BY WriteReturnsLeaves DEF WriteReturnSaving
<1>2. /\ ~peeking /\ worker \in Asleep /\ read_length = 0
      /\ stream'.pos = stream.pos /\ stream'.state = stream.state /\ SaveAtFront
  BY <1>1 DEF WriteReturnSaving, WriteReturns, PauseStream, TypeInv, StreamType, Streams
<1>3. /\ buffer' = Copied(buffer, 0, data, length)
      /\ data' = InBuffer(0) /\ buffer_length' = length /\ length' = length
  BY <1>2 DEF SaveAtFront
<1>4. worker \in {"suspended", "completed"}
  BY <1>2 DEF Asleep, TidyInv, TidyControl
<1>5. HeadAtCursor'
  <2>1. length \in Nat /\ length <= BUFFER_SIZE /\ data'.at = 0
    BY <1>3, PeekTypes DEF TidyInv, TidyMemory, InBuffer
  <2>2. ASSUME InUse', err' = "ok", length' # 0 PROVE InsideBuffer(data.at, length, off)'
    <3>1. InUse /\ err = "ok"
      BY <1>1, <1>2, <2>2 DEF InUse, statusVars
    <3>2. \A i \in 0 .. length - 1 : buffer'[0 + i] = off + i
      BY <1>3, <3>1, SavedAtFront
    <3> QED BY <1>1, <1>3, <2>1, <3>2 DEF InsideBuffer
  <2>3. InUse' /\ err' # "ok" /\ PeekUse = "short" => length' = 0
    BY <1>1, <1>2, <1>3 DEF CursorInv, HeadAtCursor, InUse, statusVars
  <2> QED BY <1>1, <1>3, <2>2, <2>3 DEF HeadAtCursor
<1>6. StreamAtCursor'
  BY <1>1, <1>2, <1>3 DEF CursorInv, StreamAtCursor, statusVars
<1>7. RequestAtCursor'
  BY <1>1, <1>4 DEF CursorInv, RequestAtCursor, readVars
<1>8. PeekAtCursor'
  BY <1>1, <1>2 DEF PeekAtCursor
<1> QED BY <1>5, <1>6, <1>7, <1>8 DEF CursorInv

-----------------------------------------------------------------------------
LEMMA HaltedCursor == ASSUME CursorInv, UNCHANGED vars PROVE CursorInv'
BY DEF CursorInv, HeadAtCursor, StreamAtCursor, RequestAtCursor, PeekAtCursor, PeekInBuffer,
       PeekInChunk, PeekOfNothing, InsideBuffer, InsideChunk, InUse, vars, headVars,
       requestVars, peekVars, statusVars, memoryVars, controlVars, readVars

LEMMA CursorStep ==
  ASSUME CursorUse PROVE TypeInv /\ TidyInv /\ CursorInv /\ [Next]_vars => CursorInv'
<1> SUFFICES ASSUME TypeInv, TidyInv, CursorInv, [Next]_vars PROVE CursorInv'
  OBVIOUS
<1>1. Tidy
  BY DEF CursorUse
<1>2. CASE WorkerStep
  BY <1>1, <1>2, ReadCursor, SkipBySeekCursor, SkipThroughCursor, SeekCursor, PeekOnCursor,
     PeekOffCursor, WorkerMovesCursor, CloseInWorkerCursor DEF WorkerStep
<1>3. CASE StreamStep
  <2>1. ASSUME NEW n \in ChunkSizes, WriteUnwanted(n) PROVE FALSE
    BY <2>1, WriteFindsBlocked DEF WriteUnwanted, TidyInv, TidyControl
  <2> QED BY <1>3, <2>1, WriteTooBigCursor, WritePartCursor, WriteResumeCursor, StreamEndCursor
          DEF StreamStep, WriteStep
<1>4. CASE ReturnStep
  BY <1>4, CloseInCallbackCursor, FrameReturnCursor, WriteReturnWaitingCursor,
     WriteReturnPeekingCursor, WriteReturnSavingCursor DEF ReturnStep
<1>5. CASE LoopStep
  BY <1>5, WorkerMovesCursor, CloseInLoopCursor DEF LoopStep
<1>6. CASE UNCHANGED vars
  BY <1>6, HaltedCursor
<1> QED BY <1>2, <1>3, <1>4, <1>5, <1>6 DEF Next, Halted

(* What is at hand is the stream from the cursor on, in every state. *)
THEOREM CursorHolds == ASSUME CursorUse PROVE Spec => [](TypeInv /\ TidyInv /\ CursorInv)
<1>1. Tidy
  BY DEF CursorUse
<1>2. Init => CursorInv
  BY InitCursor
<1>3. TypeInv /\ TidyInv /\ CursorInv /\ [Next]_vars => CursorInv'
  BY CursorStep
<1>4. Spec => [](TypeInv /\ TidyInv)
  BY <1>1, TidyHolds
<1> QED BY <1>2, <1>3, <1>4, PTL DEF Spec

(* What every read has copied out is the stream at the offset the reader   *)
(* reported when it began (reader.cc:399).                                 *)
THEOREM CursorReadsTheStream == ASSUME CursorUse PROVE Spec => []ReadsTheStream
<1>1. TypeInv /\ CursorInv => ReadsTheStream
  BY DEF TypeInv, ReadType, CursorInv, RequestAtCursor, ReadsTheStream
<1> QED BY <1>1, CursorHolds, PTL

(* A worker that finds eof() and no error has had the whole stream         *)
(* (reader.cc:527).                                                        *)
THEOREM CursorEofIsTheEnd == ASSUME CursorUse PROVE Spec => []EofIsTheEnd
<1>1. TypeInv /\ CursorInv => EofIsTheEnd
  <2> SUFFICES ASSUME TypeInv, CursorInv, stream_status = "EOF", length = 0, err = "ok",
                      worker = "running"
               PROVE  off >= StreamSize
    BY DEF EofIsTheEnd
  <2>1. stream.pos = StreamSize /\ stream.pos = off + length /\ off \in Nat
    BY PeekTypes DEF CursorInv, StreamAtCursor, Blocked
  <2> QED BY <2>1
<1> QED BY <1>1, CursorHolds, PTL

(* A stream that goes on finds a reader that has handed out all it had     *)
(* (reader.cc:85).                                                         *)
THEOREM CursorWritesFindReaderEmpty == ASSUME CursorUse PROVE Spec => []WritesFindReaderEmpty
<1>1. TidyInv /\ CursorInv => WritesFindReaderEmpty
  <2> SUFFICES ASSUME TidyInv, CursorInv, LoopIdle, stream.state = "open", ~stream.paused
               PROVE  length = 0 /\ buffer_length = 0 /\ input_length = 0
    BY DEF WritesFindReaderEmpty
  <2>1. worker \in Blocked
    BY DEF LoopIdle, Asleep, TidyInv, TidyControl
  <2> QED BY <2>1, BlockedCursor
<1> QED BY <1>1, CursorHolds, PTL

HeadBytes == BytesAt(data, length) = [i \in 1..length |-> off + i - 1]
ReadableHead == TypeInv /\ TidyInv /\ CursorInv /\ InUse /\ err = "ok"

LEMMA HeadBytesAtHand == ReadableHead => HeadBytes
<1> SUFFICES ASSUME ReadableHead PROVE HeadBytes
  OBVIOUS
<1>1. length \in Nat /\ length <= length
  BY PeekTypes DEF ReadableHead
<1> QED BY <1>1, BytesAtHand DEF HeadBytes, ReadableHead

(* Only peek_mode(false) ends a peek, and it leaves the bytes at hand that *)
(* lie where the peek began.                                               *)
LEMMA RewindStep ==
  ASSUME CursorUse, TypeInv, TypeInv', TidyInv, TidyInv', CursorInv, CursorInv', [Next]_vars,
         peeking, ~peeking'
  PROVE  BytesAt(data, length)' = [i \in 1..length' |-> peek.off + i - 1]
<1>1. PeekOff
  <2>1. CASE UNCHANGED vars
    BY <2>1 DEF vars, peekVars
  <2>2. CASE WorkerStep
    BY <2>2 DEF WorkerStep, Read, SkipBySeek, SkipThrough, Seek, PeekOn, Suspend, Finish,
                CloseDeferred, CloseInWorker, peekVars
  <2>3. CASE StreamStep
    BY <2>3 DEF StreamStep, WriteStep, StreamEnd, DoneCall, WriteUnwanted, WriteTooBig, WritePart,
                WriteResume, peekVars
  <2>4. CASE ReturnStep
    BY <2>4 DEF ReturnStep, CloseInCallback, FrameReturn, WriteReturnWaiting,
                WriteReturnPeeking, WriteReturnSaving, WriteReturns, peekVars
  <2>5. CASE LoopStep
    BY <2>5 DEF LoopStep, ResumeWorker, CloseInLoop, DoneCall, peekVars
  <2> QED BY <2>1, <2>2, <2>3, <2>4, <2>5 DEF Next, Halted
<1>2. worker' = "running" /\ stream'.state # "closed" /\ off' = peek.off
  BY <1>1 DEF PeekOff, MayOperate, controlVars
<1>3. length' \in Nat
  BY DEF TypeInv, HeadType
<1>4. CASE err' = "ok"
  <2>1. InUse'
    BY <1>2 DEF InUse
  <2>2. ReadableHead'
    BY <1>4, <2>1 DEF ReadableHead
  <2>3. HeadBytes'
    BY <2>2, HeadBytesAtHand, PTL
  <2>4. BytesAt(data, length)' = [i \in 1..length' |-> off' + i - 1]
    BY <2>3 DEF HeadBytes
  <2> QED BY <1>2, <2>4
<1>5. CASE err' # "ok"
  <2>1. length' = 0
    BY <1>1, <1>5, PeekOffHead
  <2> QED BY <2>1 DEF BytesAt
<1> QED BY <1>4, <1>5

(* peek_mode(false) puts the read head back: whatever the peek has read,   *)
(* what is at hand afterwards is the stream from where it began            *)
(* (reader.cc:23, 294).                                                    *)
THEOREM CursorRewindRestoresHead == ASSUME CursorUse PROVE Spec => RewindRestoresHead
<1>1. Tidy
  BY DEF CursorUse
<1>2. TypeInv /\ TidyInv /\ CursorInv /\ TypeInv' /\ TidyInv' /\ CursorInv' /\ [Next]_vars
        => [peeking /\ ~peeking'
              => BytesAt(data, length)' = [i \in 1..length' |-> peek.off + i - 1]]_vars
  BY RewindStep
<1> QED BY <1>2, CursorHolds, PTL DEF Spec, RewindRestoresHead

-----------------------------------------------------------------------------
(* The reader implements the cursor *)

LEMMA InitSource == Init => Source!Init
BY DEF Init, Source!Init, NoPeek

LEMMA SameForSource ==
  ASSUME UNCHANGED <<off, peekVars, readVars, err>>,
         worker = "reading" <=> worker' = "reading"
  PROVE  UNCHANGED Source!vars
BY DEF Source!vars, peekVars, readVars

LEMMA ReadSource ==
  ASSUME CursorUse, TypeInv, TidyInv, CursorInv, NEW n \in Lengths, Read(n)
  PROVE  Source!Read
<1> DEFINE Off == [i \in 1 .. Len(dest') |-> off + i - 1]
<1> HIDE DEF Off
<1>1. /\ dest' = Off /\ Len(dest') <= n
      /\ worker' # "reading" /\ err' = "ok" => Len(dest') = n
  BY ReadCursor DEF Off
<1>2. /\ n \in Nat /\ n # 0 /\ off \in Nat /\ off' = off + n /\ from' = off
      /\ worker = "running" /\ UNCHANGED <<peek, peeking>>
  BY PeekTypes DEF Read, MayOperate, peekVars
<1>3. err # "ok" => dest' = <<>> /\ worker' # "reading" /\ err' # "ok"
  BY DEF Read, NoWait, MayOperate
<1>4. off' > off /\ off' - off = n /\ off' - from' = n
  BY <1>2
<1>5. Source!CompleteUnlessFailed
  <2>1. worker' # "reading" /\ err' = "ok" => Len(dest') = off' - from'
    BY <1>1, <1>4
  <2> QED BY <2>1 DEF Source!CompleteUnlessFailed
<1>6. Source!Sticky
  BY <1>3 DEF Source!Sticky
<1>7. dest' = Source!Run(off, Len(dest')) /\ Len(dest') <= off' - off
  <2>1. Len(dest') <= off' - off
    BY <1>1, <1>4
  <2>2. Off = Source!Run(off, Len(dest'))
    BY DEF Off, Source!Run
  <2> QED BY <1>1, <2>1, <2>2
<1> QED BY <1>2, <1>3, <1>4, <1>5, <1>6, <1>7 DEF Source!Read

LEMMA SkipSource ==
  ASSUME TypeInv, NEW n \in Lengths, SkipBySeek(n) \/ SkipThrough(n) PROVE Source!Skip
<1>1. n \in Nat /\ n # 0 /\ off \in Nat
  BY PeekTypes
<1>2. CASE SkipBySeek(n)
  <2>1. off' = off + n /\ worker = "running" /\ err = "ok"
        /\ UNCHANGED <<peek, peeking, dest, from>>
    BY <1>2 DEF SkipBySeek, Repositioned, MayOperate, peekVars, readVars
  <2>2. worker' # "reading"
    BY <1>2, <2>1 DEF SkipBySeek, Repositioned, StreamSeeks, SeekFails
  <2> QED BY <1>1, <2>2, <2>1 DEF Source!Skip, Source!Sticky
<1>3. CASE SkipThrough(n)
  <2>1. off' = off + n /\ worker = "running" /\ UNCHANGED <<peek, peeking, dest, from>>
    BY <1>3 DEF SkipThrough, MayOperate, peekVars, readVars
  <2>2. err # "ok" => err' # "ok"
    BY <1>3 DEF SkipThrough, NoWait
  <2>3. worker' # "reading"
    BY <1>3, <2>1 DEF SkipThrough, NoWait, wait
  <2> QED BY <1>1, <2>1, <2>2, <2>3 DEF Source!Skip, Source!Sticky
<1> QED BY <1>2, <1>3

LEMMA SeekSource ==
  ASSUME TypeInv, NEW o \in Offsets, Seek(o) PROVE [Source!Next]_Source!vars
<1>1. worker = "running" /\ ~peeking /\ UNCHANGED <<peekVars, readVars>>
      /\ worker' # "reading"
  BY DEF Seek, MayOperate, Repositioned, StreamSeeks, SeekFails
<1>2. CASE Repositioned(o)
  BY <1>1, <1>2 DEF Repositioned, Source!Next, Source!Seek, peekVars, readVars
<1>3. CASE SeekFails(o) /\ UNCHANGED <<off, err>>
  BY <1>1, <1>3, SameForSource
<1> QED BY <1>2, <1>3 DEF Seek

LEMMA PeekOnSource == ASSUME TypeInv, PeekOn PROVE Source!Mark
<1>1. peek'.off = off
  BY PeekTypes DEF PeekOn, PeekStart, PeekFields
<1> QED BY <1>1 DEF PeekOn, MayOperate, Source!Mark, controlVars, readVars, statusVars

LEMMA PeekOffSource ==
  ASSUME CursorUse, TypeInv, TidyInv, CursorInv, PeekOff PROVE Source!Rewind
<1>1. off' = peek.off /\ (err' # "ok" => err # "ok")
  BY PeekOffHead
<1>2. peek'.off = peek.off
  BY DEF PeekOff, NoPeek
<1> QED BY <1>1, <1>2 DEF PeekOff, MayOperate, Source!Rewind, controlVars, readVars

(* A step of the stream that brings bytes to a read, or ends it.           *)
LEMMA ArriveSource ==
  ASSUME TypeInv', CursorInv', worker = "reading", Len(dest') >= Len(dest), Len(dest') <= off - from,
         worker' = "reading" \/ err' # "ok" \/ Len(dest') = off - from,
         err # "ok" => err' # "ok", UNCHANGED <<off, from, peeking>>, peek'.off = peek.off
  PROVE  Source!Arrive
<1>1. dest' = [i \in 1 .. Len(dest') |-> from + i - 1]
  <2>1. \A i \in 1 .. Len(dest') : dest'[i] = from + i - 1
    BY DEF CursorInv, RequestAtCursor
  <2>2. dest' = [i \in 1 .. Len(dest') |-> dest'[i]]
    BY DEF TypeInv, ReadType
  <2> QED BY <2>1, <2>2
<1> QED BY <1>1 DEF Source!Arrive, Source!Run, Source!CompleteUnlessFailed, Source!Sticky

LEMMA PeekInputOff == ASSUME TypeInv, NEW n, PeekInput(n) PROVE peek'.off = peek.off
BY PeekTypes DEF PeekInput, PeekFields

LEMMA WriteSource ==
  ASSUME TypeInv, TypeInv', TidyInv, CursorInv, NEW n \in ChunkSizes,
         WritePart(n) \/ WriteResume(n)
  PROVE  [Source!Next]_Source!vars
<1>1. UNCHANGED <<off, from, peeking, err>> /\ peek'.off = peek.off
  BY PeekInputOff DEF WritePart, WriteResume, statusVars
<1>2. /\ CursorInv' /\ Len(dest') >= Len(dest)
      /\ worker = "reading" =>
           Len(dest') <= off - from /\ (worker' = "reading" \/ Len(dest') = off - from)
      /\ worker # "reading" => dest' = dest /\ worker' # "reading"
  <2>1. off \in Nat /\ from \in Nat
    BY PeekTypes
  <2> QED BY <2>1, WritePartCursor, WriteResumeCursor
<1>3. CASE worker = "reading"
  BY <1>1, <1>2, <1>3, ArriveSource DEF Source!Next
<1>4. CASE worker # "reading"
  BY <1>1, <1>2, <1>4 DEF Source!vars
<1> QED BY <1>3, <1>4

(* done() ends a read without all of its bytes, and fails a skip. *)
LEMMA EndSource ==
  ASSUME TypeInv, TypeInv', CursorInv, CursorInv', UNCHANGED <<off, peekVars, readVars>>,
         \/ worker \in Blocked /\ worker' = "running" /\ err' # "ok"
         \/ worker' = worker /\ err' = err
  PROVE  [Source!Next]_Source!vars
<1>1. CASE worker' = worker /\ err' = err
  BY <1>1, SameForSource
<1>2. CASE worker = "reading" /\ worker' = "running" /\ err' # "ok"
  <2>1. /\ stream.pos + read_length = off /\ stream.pos = from + Len(dest)
    BY <1>2 DEF CursorInv, StreamAtCursor, RequestAtCursor, Blocked
  <2>2. Len(dest) \in Nat /\ stream.pos \in Nat /\ read_length \in Nat /\ from \in Nat
    BY PeekTypes DEF TypeInv, ReadType
  <2>3. dest' = dest /\ Len(dest) <= off - from /\ Len(dest) >= Len(dest)
    BY <2>1, <2>2 DEF readVars
  <2> QED BY <1>2, <2>3, ArriveSource DEF Source!Next, peekVars, readVars
<1>3. CASE worker = "skipping" /\ worker' = "running" /\ err' # "ok"
  BY <1>3 DEF Source!Next, Source!Fail, peekVars, readVars
<1> QED BY <1>1, <1>2, <1>3 DEF Blocked

LEMMA WorkerSource ==
  ASSUME CursorUse, TypeInv, TypeInv', TidyInv, CursorInv, CursorInv', WorkerStep
  PROVE  [Source!Next]_Source!vars
<1>1. ASSUME NEW n \in Lengths, Read(n) PROVE Source!Next
  BY <1>1, ReadSource DEF Source!Next
<1>2. ASSUME NEW n \in Lengths, SkipBySeek(n) \/ SkipThrough(n) PROVE Source!Next
  BY <1>2, SkipSource DEF Source!Next
<1>3. ASSUME NEW o \in Offsets, Seek(o) PROVE [Source!Next]_Source!vars
  BY <1>3, SeekSource
<1>4. CASE PeekOn
  BY <1>4, PeekOnSource DEF Source!Next
<1>5. CASE PeekOff
  BY <1>5, PeekOffSource DEF Source!Next
<1>6. CASE Suspend \/ Finish \/ CloseDeferred
  BY <1>6, SameForSource DEF Suspend, Finish, CloseDeferred, MayOperate, statusVars
<1>7. CASE CloseInWorker
  <2>1. /\ worker = "running" /\ worker' # "reading"
        /\ UNCHANGED <<off, peekVars, readVars>>
        /\ err' = err \/ err' # "ok"
    BY <1>7 DEF CloseInWorker, MayOperate
  <2>2. CASE err' = err
    BY <2>1, <2>2, SameForSource
  <2>3. CASE err' # "ok"
    BY <2>1, <2>3 DEF Source!Next, Source!Fail, peekVars, readVars
  <2> QED BY <2>1, <2>2, <2>3
<1> QED BY <1>1, <1>2, <1>3, <1>4, <1>5, <1>6, <1>7 DEF WorkerStep

LEMMA StreamSource ==
  ASSUME CursorUse, TypeInv, TypeInv', TidyInv, CursorInv, CursorInv', StreamStep
  PROVE  [Source!Next]_Source!vars
<1>1. ASSUME NEW n \in ChunkSizes, WriteUnwanted(n) PROVE FALSE
  BY <1>1, WriteFindsBlocked DEF WriteUnwanted, TidyInv, TidyControl
<1>2. ASSUME NEW n \in ChunkSizes, WriteTooBig(n) PROVE Source!Next
  BY <1>2 DEF WriteTooBig, Source!Next, Source!Fail, peekVars, readVars, controlVars
<1>3. ASSUME NEW n \in ChunkSizes, WritePart(n) \/ WriteResume(n)
      PROVE  [Source!Next]_Source!vars
  BY <1>3, WriteSource
<1>4. ASSUME NEW error \in Errors, StreamEnd(error) PROVE [Source!Next]_Source!vars
  <2>1. UNCHANGED <<off, peekVars, readVars>>
    BY <1>4 DEF StreamEnd, DoneCall
  <2> QED BY <1>4, <2>1, StreamEndCursor, EndSource
<1> QED BY <1>1, <1>2, <1>3, <1>4 DEF StreamStep, WriteStep

LEMMA ReturnSource ==
  ASSUME TypeInv, TidyInv, CursorInv, ReturnStep PROVE UNCHANGED Source!vars
<1>1. CASE CloseInCallback \/ FrameReturn
  BY <1>1, SameForSource DEF CloseInCallback, FrameReturn, statusVars
<1>2. CASE WriteReturnWaiting \/ WriteReturnPeeking \/ WriteReturnSaving
  <2>1. WriteReturns
    BY <1>2 DEF WriteReturnWaiting, WriteReturnPeeking, WriteReturnSaving
  <2>2. peek'.off = peek.off /\ UNCHANGED <<peeking, err, worker, dest, from, off>>
    BY <2>1, WriteReturnsLeaves DEF statusVars, readVars
  <2> QED BY <2>2 DEF Source!vars
<1> QED BY <1>1, <1>2 DEF ReturnStep

LEMMA LoopSource ==
  ASSUME TypeInv, TypeInv', TidyInv, CursorInv, CursorInv', LoopStep
  PROVE  [Source!Next]_Source!vars
<1>1. CASE ResumeWorker
  BY <1>1, SameForSource DEF ResumeWorker, statusVars
<1>2. CASE CloseInLoop
  <2>1. UNCHANGED <<off, peekVars, readVars>>
    BY <1>2 DEF CloseInLoop, DoneCall
  <2> QED BY <1>2, <2>1, CloseInLoopCursor, EndSource
<1> QED BY <1>1, <1>2 DEF LoopStep

(* Every step of the reader is a step of the cursor or leaves it alone. *)
LEMMA SourceStep ==
  ASSUME CursorUse
  PROVE  TypeInv /\ TidyInv /\ CursorInv /\ TypeInv' /\ CursorInv' /\ [Next]_vars
         => [Source!Next]_Source!vars
<1> SUFFICES ASSUME TypeInv, TidyInv, CursorInv, TypeInv', CursorInv', [Next]_vars
             PROVE  [Source!Next]_Source!vars
  OBVIOUS
<1>1. CASE UNCHANGED vars
  BY <1>1, SameForSource DEF vars, peekVars, readVars, statusVars, controlVars
<1> QED BY <1>1, WorkerSource, StreamSource, ReturnSource, LoopSource DEF Next, Halted

(* A demuxer that reads through xe_reader sees a cursor over the stream:   *)
(* each read delivers the bytes at the cursor and all of them unless it    *)
(* fails, and errors last until a seek or a rewind, whatever the chunks,   *)
(* pauses, suspensions and closes (reader.cc:186, 294, 342, 359, 399).     *)
THEOREM CursorImplementsSource == ASSUME CursorUse PROVE Spec => ImplementsSource
<1>1. Init => Source!Init
  BY InitSource
<1>2. TypeInv /\ TidyInv /\ CursorInv /\ TypeInv' /\ CursorInv' /\ [Next]_vars
        => [Source!Next]_Source!vars
  BY SourceStep
<1> QED BY <1>1, <1>2, CursorHolds, PTL DEF Spec, ImplementsSource, Source!Spec
=============================================================================
