# A verification of xetrov

xetrov is a C++ library that reads media files: a *resource* delivers bytes, a
*demuxer* turns them into packets, a *codec* decodes packets.  Its core is a
bridge between two control flows.  The network runs on an event loop and pushes
chunks of bytes through callbacks; a demuxer is ordinary sequential code that
pulls bytes.  The demuxer therefore runs in a fiber, and `xe_reader` suspends
the fiber when it needs bytes that have not arrived and resumes it from the
stream's callbacks.  The repository has no tests and no documentation apart
from comments and assertions in the code; those, quoted below, are what the
code promises.

## 1. Inventory

| component | source | state | operations | talks to |
|---|---|---|---|---|
| Fiber | `fiber/` | saved registers, a stack | start, yield | worker |
| Worker | `worker.cc` | which side runs | start, suspend, resume, end of routine | reader, owner |
| Reader | `reader/reader.cc` | buffer, read head, request, peek record, statuses, flags | read, skip, seek, peek_mode, close; `write()`, `done()` | stream (pause, seek, close; callbacks), worker |
| Bit reader | `reader/bitreader.h` | position in a byte array | read, skip | codecs, demuxers |
| Stream interface | `resource/stream.h` | callbacks, seekable | open, seek, pause, abort, close | reader |
| Network stream | `resource/net.cc` | opened, callback, reopen, stop, closing; range | the same, over an `xe_request` of the library xurl | reader, xurl |
| Packet buffers | `buffer.cc`, `pool.h`, `demuxer.cc` | reference counts, free list, current slice | ref, unref, get_buffer, alloc, restore | demuxers, codecs |
| Format | `format.cc` | stream, demuxer, tracks, parsers | open (probe), read_packet, seek, close | all of the above |
| ISO media demuxer | `demuxers/isom.cc` | box stack, sample tables, fragments, current chunk and sample | open, read_packet | reader, pool |
| Matroska demuxer | `demuxers/mkv.cc` | element stack, cluster time, pending block | open, read_packet | reader, pool |
| Codecs | `codec.cc`, `codecs/` | a libavcodec context | send, receive, drain, flush | libavcodec |
| Rational, frame, filter | `rational.h`, ... | plain data | arithmetic | - |

What is hard in each, and what makes it correct:

* **Reader.**  `write()` is interrupted in its middle by the worker, which may
  read on, skip, peek, rewind, ask for a close, suspend for a reason of its own
  or return, and `write()` then goes on with a mixture of old and new state.
  Data is in two places, the stream's shared io buffer and the reader's own
  buffer, and must be saved before the io buffer is reused.  Correct means: the
  worker sees the bytes of the stream at the offsets it asked for; nothing is
  stored outside of the buffer; the stream is paused when nobody waits and not
  paused when somebody does; a fiber is resumed only where it suspended.
* **Network stream.**  A seek ends the request and a new one starts when the
  old one has reported its end; a close, an abort or a failure may come in
  between, each of them inside or outside of a callback.  Correct means: every
  start is answered by one end, no callback after a close, a seek is followed
  by data from the new offset or by an end.
* **Packet buffers.**  Slices of one buffer are shared by packets, the demuxer
  and libavcodec.  Correct means: slices do not overlap, a buffer is returned
  when its last slice is dropped and not before.
* **Format.**  Each probe peeks at a stream that may end or fail under it; a
  close may come from the loop or from the worker while a call of the demuxer is
  suspended.  Correct means: the file goes to the demuxer of its format from
  its first byte on; no demuxer is deleted under a call.
* **ISO media.**  Boxes and descriptors are nested by sizes that the file claims;
  tracks and their defaults come in any order; samples are numbered through four
  tables with different run lengths; chunks of several tracks and fragments are
  merged by offset.  Correct means: no box reaches beyond its parent, the list
  of tracks is that of the file, packets are its samples, and a walk ends.
* **Matroska.**  Elements of unknown size end where an element begins that
  cannot be inside them; the stack of open elements must follow.
* **Codecs.**  References to memory are lent to libavcodec and handed over by it
  with the same copy of a pointer.  Correct means: every block is counted once
  for every holder, whatever is refilled, moved or dropped meanwhile.

## 2. Modules

| module | what it is |
|---|---|
| `ByteSource` | abstract specification: a cursor over the bytes of a stream |
| `Reader` | `xe_reader` with its worker and the stream behind it |
| `MCReader` | instances of `Reader` for TLC |
| `StreamContract` | abstract specification: what a stream promises to its owner |
| `NetStream` | `xe_net_stream` over a request of the network library |
| `MCNetStream` | instances of `NetStream` for TLC |
| `PacketMemory` | abstract specification: the bytes of a packet are its own |
| `PacketPool` | buffers, references, slices and the pool's free list |
| `MCPacketPool` | instances of `PacketPool` for TLC |
| `Matroska` | the Matroska demuxer over files that the model writes as they are read |
| `MCMatroska` | instances of `Matroska` for TLC |
| `IsomFiles` | the files of `Isom`: their tables and fragments, and when these describe the samples of the tracks |
| `Isom` | the ISO media demuxer: boxes of the top level, samples of the movie, fragments |
| `MCIsom` | files for `Isom`: movies and fragmented movies with their samples |
| `IsomBoxes` | the walk of that demuxer over nested boxes and descriptors, and its list of tracks |
| `MCIsomBoxes` | styles of files for `IsomBoxes` |
| `Codec` | the codecs between packets, frames and libavcodec: who holds a reference to what |
| `MCCodec` | an instance of `Codec` for TLC |
| `Format` | `xe_format` over its stream, reader and demuxer: probing, reading, closing |
| `MCFormat` | an instance of `Format` for TLC |
| `ReaderProofs` | type correctness of `Reader`, the safety of one used by a tidy worker, what such a reader reads, and its refinement of `ByteSource`, for every value of the constants |
| `NetStreamProofs` | the safety of `NetStream` and its refinement of `StreamContract`, for every value of the constants |
| `CodecProofs` | that memory is counted in `Codec`, for every value of the constants |
| `MatroskaProofs` | the element stack follows the file, and packets are its blocks in turn, for readable files and files whose elements have sizes |
| `IsomProofs` | the cursors stay in the sample tables and the runs, for files of any tables and fragments; packets are the samples in turn, to the end and without a step back, for files of any size that are laid out |
| `IsomBoxesProofs` | boxes end in each other, and the list of tracks is whole, for files of any boxes and sizes |
| `FormatProofs` | the properties of `Format`, for files of every size |
| `PacketPoolProofs` | the safety of the pool and its refinement of `PacketMemory`, for every value of the constants |

### Reader

State: the variables up to `callback` are the fields of `xe_reader` under the
names of `reader.h`.  A byte is represented by its position in the stream, so
that "the right bytes" can be said; a pointer is an area (the reader's buffer,
the io buffer, nowhere) and an index; the io buffer can be read only while the
`write()` that brought it is on the stack, and reads as an undefined byte at
any other time.  `read_to` is reduced to whether it is null.  `worker` is where the fiber is: `running`,
`reading` or `skipping` (suspended inside `wait()`), `suspended` by itself,
`closing` (suspended inside `close()`), `completed`; and two states in which the
process has gone wrong, `stopped` (resumed after its routine returned, the
`xe_stop` of `worker.cc:12`) and `reentered` (resumed while it runs).  `frame`
is the callback of the stream on the loop's stack.  `stream` is what the code
assumes of a stream: `open`, `failing` (a `write()` has returned an error and
`done(XE_ABORTED)` follows, `reader.cc:51`), `ended` (it has called `done()`),
`closed`.  `dest`, `from` and `reach` are history variables.

Actions: one per operation of the worker (`Read`, `Seek`, `SkipBySeek` and
`SkipThrough` for the two ways `skip()` goes, `PeekOn`, `PeekOff`, `Suspend`,
`Finish`, `CloseDeferred`, `CloseInWorker`) and of the stream
(`WriteUnwanted`, `WriteTooBig`, `WritePart`, `WriteResume`, `StreamEnd`).
The only places where one handler is split are those where the code switches
fibers: `WriteResume` ends with the switch to the worker, and the rest of
`write()` is `WriteReturnWaiting`, `WriteReturnPeeking` or `WriteReturnSaving`
when the worker has come back, or `CloseInCallback` when it has asked for a
close.  `done()` is split in the same way by `FrameReturn`.

What is assumed of the stream, because its code is outside of `reader.cc`: it
calls `write()` with consecutive bytes and not while it is paused; `seek()`
makes one that runs go on at the new offset, while one that has ended only takes
note of it and stays so (`net.cc:102-111`; `StreamSeeks`): a read that needs more
than is at hand then waits for ever; outside of a callback the request is started
again under the seek, which may fail and report `done()` there; a pause
survives a seek; a close of a stream that has not ended reports
`done(XE_ABORTED)` before it returns (`net.cc:118`, `132`).  The order of
chunks and ends among these is `StreamContract`, which `NetStream` implements.

**Contracts.**  Two constants restrict the worker, so that a run can say under
which use of the reader a property holds.  `PeekUse` is how far a peek reads:
not at all, strictly inside of what is at hand, to the end of the chunk, or as
far as it likes.  `LetGo` is when the worker may suspend by itself or return while
the stream runs: whenever no request is left over from a `wait()` that returned
early (`answered`), only after a completed read as well (`tidy`, the operator
`Tidy`), or at any time (`any`).  Closes are not restricted.  The violation
runs show what happens outside of these contracts.  (With `any` a long peek
can also leave the buffer: a chunk may then come to a worker that has not passed
the check for room in `wait()`.)

Abstraction: `Source` maps the reader to `ByteSource`; every step of the reader
is a step of the cursor or leaves it alone.

### NetStream

State: the fields of `xe_net_stream`; the library's request (whether it runs,
the offset it will deliver next, the Range header it carries, whether it is
paused); the owner's callback on the stack.  `want`, `at`, `live` and `gone` are
history: what the owner is entitled to expect.  The end of the range
(`current_end`) is zero in every use and left out.

Actions: `Open`, `Seek`, `Pause`, `Abort` and `Close` are the owner's calls, each
of which does something else inside of a callback; `WriteCb` and `WriteReturns`
are the two halves of `write_cb` around the owner's callback, `RequestEnds` is
`done_cb` up to the owner's callback and `DoneReturns` its return.  `close()`
outside of a callback ends the request, which calls back the owner, and closes
it afterwards: `Close` and `CloseRequest`.

The library is external (its submodule is empty in the repository) and modelled
by what `net.cc` relies on: a write callback that returns an error makes the
request end with that error; `ctx.end()` calls `done_cb` with `XE_ABORTED`
before it returns; headers and pause survive an end.  What the code does not
show is whether `ctx.end()` on a request that has ended already calls `done_cb`
again, and `net.cc` relies on both answers: if it does, a close after the end
reports done to the owner a second time; if not, a seek after the end waits for
a callback that never comes.  `ends_idle` is the library's answer, chosen at the
start from `EndsIdle` and never changed; `DoneOnce` and the refinement ask for
something only of a library that does not report an idle end, `SeekIsCarriedOut`
of a seek outside of a running request only of one that does.  A seek inside of
the done callback is never carried out under either, and excluded by
`SeekInDone`; so are seeks to zero (`Targets`), after which `open()` sets no
Range header (`net.cc:88`) and the request keeps the one set before if headers
survive its end.

Abstraction: `Contract` maps the stream to `StreamContract`.

### PacketPool

State: `heap` has the reference count and the size of every buffer and the
pool's list; `current` is the `xe_packet_buffer` of each demuxer; `packet` is
the reference a packet holds and its slice, with the padding that `alloc()`
clears behind it.  Every holder outside of the demuxers, the application's
packets and the references libavcodec takes, is a member of `Packets`.  The
operators under "xe_buffer" and "xe_packet_buffer" take a heap and give the heap
after the call, so that the actions compose them in the order of the code:
`AllocPacket` is `alloc_packet()` with the `unref()`, the `get_buffer()` and the
`alloc()` it makes.  A node of the list is created with its buffer and is
identified with it.

When an allocation fails, `get_buffer()` leaves `head` and `left` of a buffer it
has dropped.  `wants` is what a demuxer asks for next.  One that keeps its sample
and asks for it again (`Keeps`: Matroska, `mkv.cc:1832-1841`) finds too little room
there, as before; one that goes on to another sample (`isom.cc:1719`, `1767`) may ask
for a smaller packet, which is cut from null: the model goes to `crashed`, and
`NeverNull` claims nothing of such a demuxer, but the other properties hold.

The sum of a size and its padding is taken in a `size_t` (`Padded`, `Word`).  Two
contracts: the pool is destroyed after the formats and the packets that use it
(`Destroy`), and the padded sizes that are asked for fit into a `size_t`
(`FitAssumption`).  Sizes of the ISO demuxer have 32 bits.  One of Matroska's may not
fit, that of a block which is shorter than its own header (`mkv.cc:1684`); see there.

Abstraction: `Memory` maps the packets to `PacketMemory`.

### Matroska

State: the stack of open elements of `xe_matroska_reader` (only the entries in
use), its union of object pointers, the times and the pending block of
`xe_matroska`, and of the reader the offset and the error.  `end` is the field
of the element that `read_children()` has on its own stack: it is not
initialised and keeps what an earlier element left (`Uninitialised`, `EndIn`).
An object is represented by the element it was allocated for.

The file is not a constant but written while it is read: `Header` chooses the
next element, its size and the level it belongs to (`path`), among all that
keep the file well formed.  So a run covers every file up to its bound.
`clock` and `due` are what a reader of the file would know: the time of the
cluster and the next block.  `file` says what the file has been so far.  It is
*readable* as long as it is nested as Matroska prescribes and `Readable` holds;
after another element in its right place, anything may follow.  It is *sized* as
long as its elements, any of them at any place, have sizes, and blocks one that
holds a block's header.  Beyond that it is *any*: the demuxer reads on, and the
properties claim nothing.

Actions: `Open` and `ReadPacket` enter `read_children()`; one round of its loop
is `FinishElement` (the elements that end here are popped), a header that cannot
be read (`IdFails`, `SizeFails`, `HeaderInvalid`), or one of the ways in which
an element is handled: `Ignore` (wrong place), `RefuseUnknown` (a value of unknown size),
`Enter` (a master), `ReadLeaf` and its failures, `ReadBlock`, `SkipElement`;
`RoundEnds` is the check behind it.  `Take` is the second half of
`read_packet()`.  `Depth` is what the pops of `element_handler()` leave.

Contracts, each a condition on the file with the place it comes from:

* `Readable`.  An unknown size is closed by a sibling of an ancestor only where
  the loop of `mkv.cc:1127-1132` can do it.  When it pops down to one entry,
  `depth - 2` wraps, the loop goes on and compares with memory outside of the
  stack (`LooksOutside`, which sets `outside`).  The second of two clusters of
  unknown size in a segment gets there: an ordinary live WebM file.  The run has such
  files; the properties hold up to that element, and say nothing from there on.
  An unknown size inside an element without a bound takes a stale `end`, and is
  treated in the same way.
* `Sized`.  A misplaced element is ignored as long as the element on top of the
  stack has a size.  Over one of unknown size `element_handler()` handles it as if
  it were in place, when the loop finds no parent (`mkv.cc:1127`, `1154`): the stack
  is no longer nested, and nothing bounds it (`IsFull`).  A block shorter than its
  header has a size that wraps (`mkv.cc:1684`, `Payload`), which its padding wraps once
  more: the packet is too small for what is read into it (`Take`).
* `Complete`.  A block has a payload and no lacing: `read_packet()` takes both
  for the end of the file (`mkv.cc:1836`), and a laced block stays on the stack.
  The time of a cluster is not empty, for an empty integer keeps the time of the
  cluster before (`mkv.cc:998`).
* An element with a value is consumed by its parse function or skipped to its
  end; a demuxer is not used after a failure, but for a packet that got no
  memory.

An error inside of a block is dropped (`mkv.cc:1397`), so that a failure of the
network is reported as the end of the file.  `EofIsTheEnd` names this as the one
exception: the reader has failed with a block on top of the stack.

### Isom

State: the fields of `xe_isom` (`found_*`, `mdat_*`, `track_index`, the fragment
`moof`), of each track its `cursor` (`current_chunk`, `current_sample`,
`sample_chunk_index`), and of the reader the offset and the error.  `pc` is
where the demuxer is between two steps of a call.  Indexes start at 1, counters
at 0.  A file is a record: the boxes of its top level, the sample tables, and,
as the reference, the samples each track consists of.  Each file of `MCIsom` is
laid out from a description (chunks in an order, runs in an order) from which
tables and samples are computed independently of each other.

Actions: `ReadRoot` is one round of `read_children()` at the top level, called
by `open()` and by `next_run()`.  `ReadMoof` reads a whole fragment with its
track fragments and runs; `MoofNoMemory` stops anywhere in it.  `BuildIndex`,
`NextSample` and `TakeSample` are `moov_next_sample()`, `ReadFragment`,
`CheckRun` and `TakeFromRun` the rest of `read_packet()`, `NewMoof`,
`SameMoof` and `NoRun` a round of `next_run()`.  The reader may fail in every
step in which it is used, and an allocation in every step that makes one.

Here the boxes inside of the movie and the fragment have the values of the file;
how they are nested and what sizes they claim is the subject of `IsomBoxes`.
Segment indexes, which nothing reads, are left out.

What the code does beyond the properties, none of which the repository speaks of:

* `bsearch` (`isom.cc:1664`) tests the same condition twice and does not end
  for a sample of the second time entry of a track.  The model goes to `hung`;
  the run has such files.
* After a fragment for which memory was short, `next_run()` goes on with what
  was read of it (`isom.cc:1589`) and may deliver bytes that are no sample.
  `failure` is `unread` there, and `PacketsInTurn` and `EndIsTheEnd` say nothing.
* Every run starts at the start time of its track fragment (`isom.cc:1757`):
  the times of later runs of a track fragment are too early.  Samples of these
  are not `timed`.
* Products of durations are those of uints and wrap (`isom.cc:1612`, `1717`,
  `1764`): `Word`.

The files are those which the demuxer was made for: every fragment is followed
by one data box, and there is none without a fragment after the movie (a second
one leaves `found_mdat` set, and the next fragment is refused); fragments follow
a movie that has no samples of its own (those of a movie with samples are never
reached); a run says where its data is (without it the base is taken, not the
end of the run before); chunks and runs are not empty; there is one movie.
`FilesAssumption` says what is asked of a file beyond the types of its tables: it
has a track, and a track with chunks has an entry for them.  The code asks
neither, and uses both (`isom.cc:1690`, `1695`).

`FilesLaidOut` says when the tables of a file, or its fragments, describe its
samples, one condition for each table (`IsomFiles`): the bytes of a chunk or a
run are those of consecutive samples, and lie in a data box; entries of a table
are in order and cover all samples; sizes, durations and start times are those
of the samples; the samples of a fragment follow those of the one before; and
in a movie for streaming the index precedes the data, and the chunks of a track
are in order.  TLC evaluates it for every file of `MCIsom` (`FilesAreLaidOut`),
so it is both what the run is about and what the theorems assume.

### IsomBoxes

State: `stack` is the stack of C++ calls, a frame for each box that is being
read with the locals of `read_children()` (offset, size, type, and whether its
handler has returned); the reader's offset and error; `tracks` and the objects
behind its pointers (`heap`), with the fields that boxes in any order fill in
(id, default, the sample description); `track`, `found` and `traf` of the
reader of boxes.  `trexes` (the defaults in the last `trex` of each id) and
`exceeded` in a frame (a box inside of it ended behind it) are history.

The file is written while it is read: `Header` chooses a type and a size for the
next box, 32 or 64 bits long, among those of the file's *style*: which types,
sizes, handlers, ids, defaults and numbers of entries occur, and whether the
reader and the memory may fail anywhere or only near the end.  Sums of sizes and
offsets wrap at `Word`.

Actions: `ReadRoot`'s loop is `Header`, `HeaderFails` and `HeaderInvalid`; one
action for each handler (`ReadMoov`, `ReadTrak`, `ReadTkhd`, ... ), with its
failures in `HandlerFails`; `ReadStsd` with its entries and `ReadEsds` with its
descriptors, which are loops of their own; and the ways out of a box:
`ChildrenEnd`, `Complete`, `AfterBox` (the checks of `isom.cc:570-583`),
`AfterError`, `BoxOverrun`, `StopAtBox`.  An error unwinds the calls at once
(`Throw`, `Raise`), to the caller of `read_root()` or to `read_stsd()`, which
drops it (`isom.cc:803`).  All error codes are one (`FAILED`).

A finding of this model is how much depends on where the check of `isom.cc:570`
stands: it looks at where the reader is and not at the sum of sizes, so that
sizes which wrap are refused by the box that they are in, after it has been
read.

### Codec

State: the reference count of every block of memory; the slice that the
demuxer cuts next; the references of each packet, frame and unit in the
library's queues; of each codec its context, with the pointer to the track's
configuration that it holds while it is opened.  A block is counted alike by
`xe_buffer` and by libavcodec's `AVBuffer`, whose layout it shares.

Actions: `Open` and `OpenFails` at each stage of `xe_codec::open()`, `Delete`;
`Fill` (a demuxer's packet), `SendPacket`, `SendFrame`, `ReceiveFrame`,
`ReceivePacket`, `Drain`, `Flush`, `MoveFrame`, `UnrefPacket`, `UnrefFrame`.
`UnitIsDropped` is the library giving up a unit in a call that fails.  Every call
of the library may fail without having taken anything; the code then only
translates the error, which is a stuttering step.

The library is external: it keeps a reference to what it is sent until it has
used it (`Sent`, `Rest`), gives fresh blocks to what it returns (`Consumed`),
and drops its queue when it is flushed or freed.

`receive_frame()` overwrites the references of its target (`av.cc:140-160`); `lost`
is the history of those that a frame in use has lost in this way, and part of the
count.  The library may lack a codec (`Library`).  `open()` then fails before the
context is set, and the destructor of the codec frees what the pointer happens to hold
(`opus.cc:46`, `codec.cc:79`, `av.cc:217`): null, or the program ends (`Discarded`).

Contract: a packet that is sent has a reference.  The
pointers to sample data are left out: a frame points to an array inside of itself
(`frame.h:65`), so that a moved frame points into the one it was moved from, and
`av_frame_unref()` in `receive_frame()` frees the longer array that a frame with
more than eight channels goes on using (`av.cc:150`, `163`).

### Format

State: the stream (created, running, stopping under a callback, ended, closed)
and how much of the file it has brought, in chunks of any length; the fields of
the reader that matter here (head, peek, error, status, whether it waits,
`callback`, `closing`), with what its buffers come down to: how far the byte at
hand lies beyond the offset (`skew`), how much of the chunks a probe has read is
kept (`input`, `saved`, `base`), and whether the pointer behind that points
nowhere (`fault`); the demuxer and whether its track has a parser; what the worker
and the loop execute, and which of them runs.

Actions: `Read` is any read of a byte by a probe or by the demuxer, `StreamWrites`
and `StreamEnds` are the callbacks with the switch to a waiting worker,
`CallbackReturns` is `xe_reader::resume()` after the worker has given control
back; `OpenFails`, `StreamOpens`, `ProbeMatches`, `ProbeDoesNotMatch`,
`DemuxerOpens`, `DemuxerRefuses` are the way through `open()`; `LoopCloses` and
`WorkerCloses` are the two sides from which `close()` may come, each followed by
the rest of the call (`LoopHasClosed`, `WorkerHasClosed`) when a fiber switch
lies in between.  What the demuxer does inside of its calls is anything the
reader allows: read, seek, return.

The rewind after a probe (`Restored`) is that of the code.  It restores the head if the
probe has read a part of one chunk.  If it has read all of a chunk, or more than one,
the pointer to the rest is computed from null (`reader.cc:161`, `317-321`), and what is
read next is not the file's head, or faults (`ReadFaults`): finding 1 as it bites here.
`FormatIsFound` therefore asks for a first chunk longer than a probe (`first`, eight
bytes).

Matroska has the packets of every track parsed whose codec is not AAC
(`mkv.cc:1587`), and there are parsers for Opus and Vorbis only (`codec.cc:89`):
`ReadPacketReturns` opens one for the first packet, and fails with `XE_ENOSYS` for any
other codec.  What a parser computes is left out.

Contracts: one side closes, and nothing is called afterwards; `open()` is called
once (after a failure it would skip the probing and use a demuxer that was never
created, `format.cc:34`, `66`); no packets are asked for after an error.

Two things hold here by a narrow margin.  `peek_mode(false)` clears whatever
error the reader has if there is something to read again (`reader.cc:333`), also
the `XE_ABORTED` of a close that came during the probe.  The worker then goes on
into the demuxer, on a closed stream; that it meets the end there, and does not
revive the stream by a seek, is because what is left from the probe is shorter
than the header a demuxer reads before it seeks (`ProbeLength`).  And
`close()` from the loop deletes the demuxer of a call that waits for data only
after the stream's end has driven it out: the order of `format.cc:94` and `96`.  One
call is not driven out: a demuxer that seeks when the stream has ended, which
nothing starts again, waits in vain (`vain`), and its demuxer is deleted around it.

## 3. Runs

| run | question | result |
|---|---|---|
| `reader_stream` | all operations but peeks, all stream errors, fairness of the callbacks | `ByteSource` is implemented; a stream may write only into an empty reader and only when somebody waits; end of file is seen only at the end; no close under a live `write()`; no stray resume; only its owner wakes a suspended worker; every wait on a stream that has not ended comes to an end |
| `reader_peek` | peeks inside of what is at hand, closes, and seeks whose request cannot be started again, with a request left over | the rewind restores the head, the bytes read are right, the worker is not resumed from inside itself |
| `reader_any_use` | peeks of any length, seeks that fail, suspensions, returns and closes of a worker without a request left over | the buffer is never left, no length wraps below zero |
| `reader_rewind_drained` | violation | a peek to the end of a chunk loses the head |
| `reader_stale_resume` | violation | a request left behind by an early return of `wait()` resumes a worker that has returned |
| `net_stream` | all calls from inside and outside of every callback, all failures, both answers of the library, fairness of its callbacks | a wish expressed under a callback is obeyed when it returns; the stream deletes itself last; the owner is told of the end once; a seek leads to data from its offset or to an end; a stream closed under a write is deleted; `StreamContract` is implemented: consecutive chunks from the latest seek, none after an end or a close |
| `packet_pool` | allocations of every size, failures, copies, drops, closes, destruction | counts are right; the list has unused buffers only; no buffer is lost or freed early; slices stay in their buffer and apart; no reference to null for a demuxer that asks again; `PacketMemory` is implemented |
| `matroska` | files with every nesting of ten elements, sizes known and not, and files of these in any order; the reader fails at any point | in readable and in sized files elements are handled only in their parents, objects belong to open elements, and the stack is never left; in readable ones it follows the file, packets are its blocks in turn with their times, and the end is reported at the end |
| `isom` | movies with every order of chunks and samples per chunk, the movie in front of its data or behind, fragmented movies with every kind of base and order of runs; the reader and the memory fail at any point | cursors stay in the tables; packets are the samples of their tracks in turn, with their bytes and times; a whole file is read to its end; a file laid out for streaming is read without a step back |
| `isom_boxes` | boxes and descriptors in every order, with sizes that fit, run over, wrap or are zero; the reader and the memory fail; fairness of the demuxer's own steps | boxes are nested or refused; the list has every track once and no freed one; defaults reach their tracks and fragments in either order; the walk ends |
| `codec` | a decoder and an encoder between packets, frames and the library, one more that the library lacks, frames overwritten while in use, opens that fail at every stage | every block is counted once for every holder and lost reference, contexts of the library's codecs belong to open ones, a configuration to its track |
| `format` | files of every kind, shorter and longer than a probe, in chunks of any length, a stream that fails anywhere, closes from both sides at every point | no demuxer is deleted under a call that anything would wake; a file whose first chunk is longer than a probe goes to its demuxer from the first byte |

**Bounds.**  `BUFFER_LIMIT` 1 or 2 (the code: the size of the loop's io
buffer), with chunks of 1 to 3 bytes so that chunks are refused, and reads of 1
to 3 bytes so that a read ends inside of a chunk, at its end, and in a later
chunk.  Streams have 3 to 6 bytes: enough for the buffer of 2 or 4 bytes to
fill, move and wrap into a further chunk.  `MaxOff` bounds the offset a read or
skip may reach and lies beyond the end of the stream, so that reads past the
end happen.  `reader_peek` has a chunk of 5 bytes, one more than the buffer.
`reader_any_use` has chunks of one byte and a buffer of two, so that a peek takes two
chunks and meets its limit at the third.
`Offsets` has a position before and one after the typical head.
The control of the reader depends on comparisons of these sizes with each
other, all of whose outcomes occur.  `NetStream` has a resource of 3 or 4 bytes,
chunks of 1 and 2, and seeks backwards, forwards and to its end: offsets matter
to it only in that the request is where the owner wants it.  `PacketPool` scales
the buffer size to 4, the padding to 1 and a `size_t` to 16 values; packets of 0, 3, 4
and 14 bytes give several slices in a buffer, one that fills it exactly, one that
exceeds the common size, and the largest whose padded size does not wrap.  Three addresses for buffers, three packets and two demuxers leave
room for one buffer on the list while others are held; the sets are symmetric.
`Matroska` has headers of 2 bytes, elements of 0, 1, 3, 8 and 13 bytes and files
of 22 bytes (11 when they are not readable): a segment with two clusters of blocks, or four
levels of masters, with sizes that end a child before, at and with its parent.
Its ten elements have one of each kind that the code tells apart: a root, masters
with and without objects, a leaf with and without a value, a block, an unknown
id, and two that may follow their like.

`Isom` has two tracks and up to three chunks of one or two samples: a track has
up to three chunks with equal or different numbers of samples, between, before
or after those of the other.  Fragmented movies have two fragments, one of which
may be empty, of one or two tracks, with one or two runs of one or two samples
whose data lie in the order of the tracks, in the other, or take turns.  `Word`
is 8, so that times wrap.

`IsomBoxes` has two objects for tracks, one fewer than the tracks, `trex` boxes
and second movies of a file may ask for, so that an address is used again; its
three styles are described in `MCIsomBoxes`: orders of boxes in a file of 63
bytes (a movie with two of three tracks or defaults and a fragment), sizes in
one of 20 with `Word` 128, so that an offset and a size can wrap to any place of
the file, and sample descriptions with two entries in one of 42.  Errors of the
reader and the memory come anywhere in the second, near the end in the others.
`Codec` has five blocks and three packets, two of which may share a block, two
frames, and two units in each queue: a packet can be filled again while the
library has its memory, and a frame be moved or received over another.  `Format`
has files of zero to six units of two bytes, of which the probes read four and two,
in chunks of every length, so that a file and a chunk end before, in and behind each
probe.

**Fairness.**  `reader_stream` assumes weak fairness of the stream's progress
(`Progress`: it delivers a chunk, reports its end behind the last one, and reports the
abort of a request whose `write()` has failed) and of the return of callbacks.  The
loop runs as long as there is an open transfer, and an unpaused transfer delivers or
ends; a callback is straight-line code.  That a transfer fails is not assumed, and
nothing is assumed of a stream that has ended: a seek does not start it again
(`net.cc:102`), so that `WaitEnds` is about waits on a stream that has not ended.
`net_stream` assumes the
same of the library's callbacks.  `isom_boxes` assumes that a walk goes on as long
as it can: it is sequential code, and its reads end (`WaitEnds`).  No fairness is
assumed of the worker's operations or of its owner.

`CHECK_DEADLOCK` is off where the system may stop: in `isom` and `isom_boxes` a call
that has returned an error, or has hung, is the end; in `codec` the memory may be
used up; in `format` everything may be closed.  It is on everywhere else, and
`Halted` stands for the states in which nothing is left to do.

## 4. Proofs

`ReaderProofs` proves `TypeCorrect`: `Spec => []TypeOK`.  `TypeOK` is not
inductive: that lengths stay natural numbers needs that a read head in the
buffer does not point in front of it (`HeadType`; a peek records the offset of
the head) and that a `write()` has used no more than its chunk, which is a
piece of the stream (`FrameType`).  `TypeInv` adds these.  One lemma per action.

The module goes on to prove for a tidy worker and any use of peeks that the
buffer is never left, that no fiber is resumed after its end,
that a stream that may write is waited for, that the stream is not closed under
a `write()`, and that only its owner wakes a suspended worker.  None of these
is inductive.  `TidyInv` has two halves.  *Control*: a worker that is neither
blocked nor running waits for nothing (`read_length = 0`) and the stream is
paused or about to be; a blocked worker has used up all data.  This makes
`read_length # 0` mean "blocked", which is what `write()` and `done()` take it
for.  *Memory*: at every moment in which a chunk may still come, what a peek
has kept leaves room for one more; the bound on `length` distinguishes whether
the data is in the buffer.  Both halves need each other: that a chunk can come
only to a blocked worker is control, that a blocked worker has passed the check
of `wait()` is why there is room.  The proofs use only that `BUFFER_LIMIT` is
positive and that the sizes are natural numbers.

`NeverReentered` is about any worker, which may suspend, return, close or seek at any
time: no `done()` under a close or a seek resumes it from inside itself.  Requests are
left over there, and `NothingLeftOver` says when: only on a stream that has ended, which
reports no second end.  It assumes that the stream's `seek()` does not fail and that
peeks do not run into their limit, since both make `wait()` return early on a stream
that runs on (`reader.cc:187-194`).

The last part of the module goes on to what is read: `CursorReadsTheStream`,
`CursorEofIsTheEnd`, `CursorWritesFindReaderEmpty`, `CursorRewindRestoresHead`
and the refinement `CursorImplementsSource`, for every stream, chunk size and
limit.  `CursorInv` adds the contents to `TidyInv`: what is at hand begins at the
offset the reader reports, in the buffer (`InsideBuffer`) or in the chunk of the
`write()` on the stack (`InsideChunk`); the stream goes on where that ends, or
where what a blocked worker still waits for begins (`StreamAtCursor`); a read has
copied out all there was (`RequestAtCursor`); and a peek keeps what it takes to go
back: a piece of the buffer, the end of the chunk, or nothing because it has not
read anything (`PeekAtCursor`).  `WritesFindReaderEmpty` is what makes the move
from one place to the other right, and follows from the same invariant.  The
theorems assume `CursorUse`: a tidy worker that does not peek, or peeks inside
of what is at hand with a stream whose seeks do not fail.  Both halves are
needed.  A longer peek loses the head (finding 1).  And a long skip whose seek
fails leaves its error with the head where it was: if data was at hand before
the skip, switching peek mode on and off clears the error (`reader.cc:335`), and
the next read returns bytes of another offset than the reader reports.

`NetStreamProofs` proves all safety properties of `NetStream`: `NetWishesAreObeyed`,
`NetDeletedLast` and `NetDoneOnce` for every use of it, seeks inside of the done
callback included, and the refinement `NetImplementsContract` for a resource in
which nobody seeks to the start (`Targets` without 0: such a seek leaves the Range
header of an earlier one on the request, see above).  The inductive invariant
`NetInv` says which flags can be up at which point of a callback (`Flags`: a seek or
a close inside of a write also stops it, and outside of callbacks no flag is
left), and, for a library that does not report idle ends, that an end is still
to come exactly for an owner that waits for one and that the request is where
this owner believes it to be (`Progress`).

`CodecProofs` proves `CodecCountsMemory`, for any finite sets of blocks, packets,
frames and codecs and for queues of any length.  `Holders(b)` is a sum of five
counts; there is one lemma for how each of them changes with one packet
(`PacketChanges`), one frame (`FrameChanges`) or one queue (`QueueChanges`, over the
units at its end and its front), and a step adds the same terms to the count and
to the sum.  The invariant adds that a frame names a block only once, that
slices are cut only from a block that is there, and the length of the queues.
References that `receive_frame()` has overwritten are one more term of the sum
(`lost`).  The theorem is about any library; what it says of contexts is about the
codecs that the library has.

`PacketPoolProofs` proves `PoolCorrect`, `PoolNeverNull` and `PoolImplementsMemory`,
for any sets of buffers, packets, demuxers and sizes, from `SizeAssumption`,
`FitAssumption` and `NameAssumption`: sizes are natural numbers which with their
padding fit into a `size_t`, the padding is positive, and there
are finitely many holders, which is what makes a count a number.  The inductive
invariant is `PoolInv` said of a heap, packets and rooms given as parameters
(`State`), because the code passes through states between its calls: an
allocation is a reference dropped, another dropped, a buffer taken and a
reference taken, and each of these has a lemma that takes a right state to a
right state.  That the counts are right is proved by following the one holder
that changes (`CountTake`, `CountDrop`); that slices do not overlap needs that
they lie in front of the room of the demuxer that cuts from their buffer
(`SlicesInBuffer`), that no two demuxers cut from the same one (`BuffersApart`),
and that a buffer on the list has no slices left, which is the counts again.
`NeverNull` needs `RoomIsReal`: a demuxer without a buffer that keeps its sample sees
no room for it.  A crash of another demuxer ends the program, and is allowed by the rest.

`MatroskaProofs` proves all six properties of `Matroska`, the first three for files that
are readable or whose elements have sizes, the others for readable files, each up to
the element with which a file stops being one (`StaysSound`): `WalkIsNested`, `WalkObjectsAreOpen`,
`WalkStaysInStack`, `WalkFollowsFile`, `WalkBlocksInTurn` and `WalkEofIsTheEnd`.  The
grammar of `read_children()` is a tree of five levels (`LevelOfParent`), and the
element at position k of the stack has level k (`StackOK`).  This bounds the stack
by five of its sixteen entries and leaves at most one element that has an
object, and one segment, on it; `ObjectsOf` says that the pointer is that
object's.  An element whose object could not be allocated is on the stack
without it, which is harmless because the demuxer is not used again (`Dead`),
and that needs the order of the calls (`CallsInOrder`).

That an element is handled in its parent is immediate as long as the elements on
the stack have sizes, and these are all that a sized file has.  With unknown
sizes it depends on the file: when the parent is not on the stack, the code pushes
anyway.  `FileInv` ties the stack to the file.  The elements that are not over are
the same on both sides, at the same levels and with the same ends (`Matched`); no
open element ends before what a pending block still has, none ends one byte
behind it, and none ends after the element it is in (`EndsOK`).  So an element
of which less than a header is left is over (`Finished`), and where the next header
is read the stack is exactly what the file has open (`InsideOf`).  From the levels
follows that the search of `element_handler()` for the parent finds the element
which the next one is in (`ParentIsFound`): in particular the loop of
`mkv.cc:1127` never gets to its first entry in a file that is `Readable`, so that its
wrapping bound does no harm there; at the first element that is not it may.  `FileGoesOn` says
once what every header does to the stack, the file and the reader.  `PacketInv`
adds that the time of the cluster is that of the file and that a block has a
payload, without which the packet size of 0 would be taken for the end.

`FormatProofs` proves both properties of `Format` for every size of file:
`CloseLeavesNothing` and `ProbesFindTheFormat`.  `FormatInv` says what ties the
worker, the loop and the stream together: while the loop runs, a call of the
demuxer or a probe is in a wait (`Waiting`), and a wait has a stream that is
going to end, so that a close finds it and drives it out, unless it is a wait in vain on a
stream that has ended before; what a probe keeps of its chunks is tied to what has come
(`Probed`, `IsSaved`), and with a first chunk longer than a probe it is a part of that one
(`Whole`), so that the rewind is exact; a worker driven
out (`DrivenOut`) has an error, or stands in a probe with less than a header left
(`ReadHead`), which is what keeps it from reviving the stream by a seek; whatever
it does next, it gets nowhere without its reader (`Order`), and after the demuxer
has gone nowhere near it (`Closed`).  No part is inductive without the others.

`IsomProofs` proves `IsomCursorsInTables` for any tables, fragments and orders of boxes
(not only those of `MCIsom`) that satisfy `FilesAssumption`.  Its invariant `TablesInv`
has the types of the cursors, the tables and the fragment, which `PlacedType` and
`PartsType` carry through `next_run()` and a lack of memory; the entry of a cursor
is one of the table as long as the track has chunks at all (`CursorsIn`), which
`Advanced` keeps because it looks one entry ahead; and `PacketInv` is about the
order of the calls.  `read_packet()` reads the run that `run_index` names as soon
as there is a fragment, without knowing that `next_run()` has chosen one; this is
right because a demuxer that `open()` has made ready has found both a fragment
and its data, or no fragment (`Ready`), and because no walk but those of
`next_run()`, which looks for a run behind each, comes in between.  Two facts
that look like induction are proved from the well-founded order of finite sets
(`LeastNumber`, and `StaysIn` from it): that the totals and offsets which are
recursive functions in the model are defined and numbers (`StepsMakeOne`,
`SumIsNumber`, `EndsAreNumbers`), and that one of the chunks or runs left comes
first (`NearestIsOne`).

`IsomBoxesProofs` proves `NestedIsChecked`, `ListIsWhole` and `DefaultsReachTracks`, for
any lengths of files, boxes of any types and sizes in any order, and any ids and
defaults of tracks.  Assumed is that sizes are below `Word` (they are `ulong`) and that
ids are not zero, which the handlers refuse (`StylesAssumption`).  The invariant
`BoxesInv` has two parts.  `StackInv` is about the calls on the stack.  A box whose
handler is called lies at the level of its type (`ShapeOK`), so that there is at most
one trak, and a `stsd` always is the seventh.  A box that has another one inside of it
does not wrap, or else `box_has()` had refused the header of the inner one
(`Plain`); and while a box is not accepted, one that ends behind it is either still
being read, or the reader is behind the outer box (`NestedOK`).  That second half
is what makes the check behind a handler sufficient, and is why a box of size zero
and a skip that leads back do no harm.  The entries of a `stsd` are the exception,
as in the property.  `MovieInv` is about the tracks: the list has each object
once, no id twice, and the defaults of the last `trex` (`ListOK`); only the track of
an unfinished `trak` has no id, and is the last of the list until `tkhd` gives it one
(`TrakOK`), which is what makes it right that `tkhd` looks for an earlier track
in all of the list but its end; the defaults of a fragment are looked up when its
`tfhd` is read, and no `trex` comes between that and its samples (`TrafOK`, with the
levels of `StackInv`).

The rest of `IsomProofs` is about what is read: `IsomPacketsInTurn`, `IsomEndIsTheEnd`
and `IsomOnlyForward`, for files of any number of tracks, samples, chunks, fragments and
runs that satisfy `FilesLaidOut`, failures of the reader and the memory anywhere
included.  `FilesLaidOut` relates tables to samples, which nothing else in the model
does.  It says nothing of the order in which the chunks of the tracks come, unless the
movie is for streaming, nor of bases and the order of the runs of different tracks.  The inductive invariant
`InTurn` adds to `TablesInv` what is true of a movie (`MovieInv`) or of fragments
(`FragmentInv`).

For a movie, what `read_packet()` takes as the next sample has to be the sample of
that number (`PlaceOf`).  The cursor has an entry of `sample_chunk` that is the one for its
chunk (`AtEntry`), the samples delivered lie in the chunk or in front of it (`InChunk`),
and the reader stands where the next sample begins (`AtPlace`).  That offsets,
sizes and times computed from the tables are those of the samples needs that the
code's sums over a table (`build_index()`, `bsearch`) are the sums of the file's meaning
(`MadeBy` and `StepAlike`, from which sums are compared without an induction over
data).  For streaming, the chunks that nothing has been read from lie behind the
reader (`AllAhead`, `OthersAhead`); this and the choice of the nearest one are why
it never goes back.

For fragments, `FragmentGoesOn` lists where the demuxer can be: on its way to a fragment
(`Walking`), behind one whose data box is still to come (`InFront`), at the data
(`AtData`), in its runs (`InRuns`), behind one of them (`AfterRun`), or in a part of
a fragment that memory was short for (`InPart`).  The last is the one case in which the
properties say nothing, and is kept apart so that the others need not be weakened.
`FragmentOf` relates the fragment in memory to the one in the file, run by run (`RunOf`):
sizes, durations and the place after `next_run()` has added the bases (`Placed`), for
each of the three kinds of base.  The runs left lie behind the reader (`RunsBehind`), and
`next_run()` takes the nearest of them.  That a run is left as long as a sample of the fragment is
missing ties the runs back to the counts of samples per track (`CountsOf`), so that a
walk that goes on to the next box has delivered all that lies in front of it; at the last
box these are all samples of the file.

Only model-checked: liveness (of the waits of `Reader`, the seeks and the
deletion of `NetStream`, the end of a walk of `IsomBoxes`), which is beyond the prover, and
the properties of the two runs that expect a violation.  That the files of `MCIsom` are
laid out is evaluated, not proved.

## 5. Findings

1. A peek that drains the chunk at hand loses the read head (`reader.cc:163`,
   `321`): `input` is null after construction and never set to the chunk.
2. A peeked read that spans chunks keeps only the last (`reader.cc:76`): `write()`
   returns before it appends the chunk.  The runs that check what is read
   keep peeks away from it (`PeekUse`).
3. Early returns of `wait()` leave `read_length` set (`reader.cc:187-194`).
   As long as the reader has an error this is harmless, since every operation
   returns at once; a rewind that clears the error makes it bite.  It also makes
   `write()` take a worker that suspended of its own accord for a waiting one,
   leave the stream running and deliver on top of data that is left, against the
   comment at `reader.cc:85`.

What the models met besides, about which the repository says nothing that a run
could refute:

* **Live WebM.**  The second cluster of unknown size in a segment makes the search for
  its parent read outside of the element stack (`mkv.cc:1127-1132`: with one entry left
  `depth - 2` and then the index wrap).  Conforming files do this.  An element of
  unknown size under which a misplaced one comes makes the stack grow without its
  bound (`mkv.cc:1089`, `1154`).
* A block shorter than its header has a size that wraps, and gets a packet that is too
  small (`mkv.cc:1684`, `pool.h:26`, `73`).
* A codec that the library lacks frees a context that was never set (`opus.cc:46`,
  `av.cc:217`).
* A demuxer that asks for a smaller packet after a failed allocation cuts it from null
  (`pool.h:72`).
* A seek on a stream that has ended starts nothing, and the read after it waits for
  ever (`net.cc:102-111`).
* A probe that drains the first chunk, or spans chunks, loses the file's head (finding 1
  and 2, in `Format`).
* Matroska has packets of every codec but AAC parsed, and fails for all that have no
  parser, FLAC and MP3 among them (`mkv.cc:1587`, `codec.cc:101`); the track whose parser
  is used is that of a field which no demuxer sets (`format.cc:82`).
* `receive_frame()` into a frame in use loses its references (`av.cc:140-160`); frames
  point into each other (`frame.h:56`).
* `read_sidx()` gives back its index, when an entry gets no memory or is not supported,
  through a pointer into a vector that may have grown or be inside of another
  (`isom.cc:1208`).  Nothing reads these indexes, and they are not modelled.
* A search that does not end (`isom.cc:1664`), errors that are dropped (`isom.cc:803`,
  `1589`, `mkv.cc:1397`), a second `open()` (`format.cc:66`), a rewind that clears the
  error of a skip (`reader.cc:335`), a stream without an owner (`format.cc:41`).

## 6. Plan

1. `Reader`, `ByteSource` and their proofs (done).
2. `NetStream` and `StreamContract` (done).
3. `PacketPool` and `PacketMemory` with their proofs (done).
4. `Format`: probing, reading and closing, and its proofs (done).
5. `Isom` and `IsomBoxes`, and the proofs about boxes and the list of tracks (done).
6. `Matroska` and its proofs (done).
7. `Codec` and the proof that memory is counted (done).
8. The refinements of `ByteSource` and `StreamContract` (done).
9. `IsomProofs`: the cursors of the ISO demuxer in its tables, and its packets as the
   samples of a file (done).

### Not modelled

* Fibers: a context switch in assembly, taken as an atomic transfer of control.
* libavcodec and xurl, which are not part of the repository, beyond what the
  code relies on; the translation of their error codes.
* What the parsers of `codecs/` compute (that there is one, and that it may refuse, is
  in `Format`), the AAC configuration and the bit reader under it, rationals: pure functions of a few
  lines without state, whose arithmetic a unit test reaches.
* Of the ISO demuxer, segment indexes (and how `read_sidx()` frees them), edit lists
  and the scanning reader, which nothing uses; of the Matroska demuxer, the values of elements other than the
  time of a cluster, and the arithmetic of variable-length integers.
* Filters (stubs), the file resource (empty), seek of the formats (empty),
  logging and names.
