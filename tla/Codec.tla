-------------------------------- MODULE Codec --------------------------------
(***************************************************************************)
(* The codecs (codec.cc, codecs/av.cc) between the packets of a demuxer,   *)
(* the frames of the application (frame.h) and libavcodec: who holds a     *)
(* reference to which block of memory, and what a codec's life allocates.  *)
(*                                                                         *)
(* A block is counted by its refcount alone (buffer.cc, and the AVBuffer   *)
(* of the library, which has the same layout); a packet, a frame, the      *)
(* library's queues and the demuxer's current buffer point to it.  Packets *)
(* are slices of a shared block.  The library keeps up to Depth units, and *)
(* every call of it may fail instead without having taken anything: such a *)
(* call only translates the error code, and is a stuttering step here.     *)
(***************************************************************************)
EXTENDS Integers, Sequences, FiniteSets

CONSTANTS
  Blocks,           \* addresses of blocks of memory
  Packets, Frames,  \* the application's packets and frames
  Decoders, Encoders,
  NoBlock,          \* null
  Depth,            \* units that the library keeps for a codec
  Slices,           \* packets that fit into a block of the pool
  Library           \* the codecs that the library was built with

ASSUME CodecAssumption ==
  /\ NoBlock \notin Blocks /\ IsFiniteSet(Blocks)
  /\ IsFiniteSet(Packets) /\ IsFiniteSet(Frames) /\ IsFiniteSet(Decoders) /\ IsFiniteSet(Encoders)
  /\ Depth \in Nat \ {0} /\ Slices \in Nat \ {0}
  /\ Library \subseteq Decoders \union Encoders

Codecs == Decoders \union Encoders

VARIABLES
  context,      \* the AVCodecContext of each codec: its state, and its pointer to extradata
  config,       \* the configuration of the track is allocated
  count,        \* refcount of each block
  current,      \* the demuxer's block, and how many packets still fit into it
  ref,          \* the reference of each packet
  frame,        \* the references of each frame: bufs and extended_buf
  held,         \* the units in the library's queue: what each of them refers to
  draining,     \* the library was told that no more packets come
  lost          \* history: references that were overwritten in a frame, for each block

vars == <<context, config, count, current, ref, frame, held, draining, lost>>

NoFrame == [bufs |-> {}, extended |-> {}]
NoContext == [state |-> "none", extradata |-> FALSE]

Init ==
  /\ context = [c \in Codecs |-> NoContext] /\ config = TRUE
  /\ count = [b \in Blocks |-> 0]
  /\ current = [block |-> NoBlock, left |-> 0]
  /\ ref = [p \in Packets |-> NoBlock] /\ frame = [f \in Frames |-> NoFrame]
  /\ held = [c \in Codecs |-> <<>>] /\ draining = [c \in Codecs |-> FALSE]
  /\ lost = [b \in Blocks |-> 0]

IsOpen(c) == context[c].state = "open"

-----------------------------------------------------------------------------
(* References *)

Gain(n, S) == [b \in Blocks |-> IF b \in S THEN n[b] + 1 ELSE n[b]]
Lose(n, S) == [b \in Blocks |-> IF b \in S THEN n[b] - 1 ELSE n[b]]

(* Blocks that the allocator may hand out. *)
Fresh(n) == {b \in Blocks : n[b] = 0}

BlocksOf(r) == {r} \ {NoBlock}
All(fr) == fr.bufs \union fr.extended

LoseAll(n, units) ==
  [b \in Blocks |-> n[b] - Cardinality({i \in DOMAIN units : b \in units[i]})]

-----------------------------------------------------------------------------
(* xe_codec::open, xe_av_codec::open and the destructor *)

Stages == {"id", "codec", "library", "context", "open"}

(* init() asks for the codec before it asks for a context (opus.cc:46).    *)
MayFail(c, stage) ==
  /\ stage = "library" => c \notin Library
  /\ stage \in {"context", "open"} => c \in Library

(* Where a failure at a stage leaves the context: there is no codec yet;   *)
(* the pointer was never set; it is null; the library refused to open it.  *)
Reached(stage) ==
  [state |-> CASE stage \in {"id", "codec"} -> "none" [] stage = "library" -> "unset"
               [] stage = "context" -> "null" [] stage = "open" -> "allocated",
   extradata |-> FALSE]

(* mutant: extradata goes on pointing to the configuration of the track *)
Opened_KeepsExtradata == [state |-> "open", extradata |-> TRUE]

Opened == [state |-> "open", extradata |-> FALSE]

(* mutant: a codec whose init has failed is forgotten *)
Discarded_Forgotten(x) == {x}

(* The destructor frees what the pointer points to.  Where it was never    *)
(* set that may be anything: the program ends there, unless it is null.    *)
Discarded(x) ==
  IF x.state = "unset" THEN {NoContext, [x EXCEPT !.state = "crashed"]} ELSE {NoContext}

Open(c) ==
  /\ context[c] = NoContext /\ config /\ c \in Library
  /\ context' = [context EXCEPT ![c] = Opened]
  /\ UNCHANGED <<config, count, current, ref, frame, held, draining, lost>>

OpenFails(c, stage) ==
  /\ context[c] = NoContext /\ MayFail(c, stage)
  /\ \E x \in Discarded(Reached(stage)) : context' = [context EXCEPT ![c] = x]
  /\ UNCHANGED <<config, count, current, ref, frame, held, draining, lost>>

(* The destructor: the library drops its queue and frees the extradata.    *)
Delete(c) ==
  /\ IsOpen(c)
  /\ context' = [context EXCEPT ![c] = NoContext]
  /\ config' = (config /\ ~context[c].extradata)
  /\ count' = LoseAll(count, held[c])
  /\ held' = [held EXCEPT ![c] = <<>>] /\ draining' = [draining EXCEPT ![c] = FALSE]
  /\ UNCHANGED <<current, ref, frame, lost>>

-----------------------------------------------------------------------------
(* What goes in *)

(* The demuxer fills a packet: xe_demuxer::alloc_packet() gives up what    *)
(* the packet had and cuts a slice from its block, or from a new one.      *)
Fill(p) ==
  /\ LET n == Lose(count, BlocksOf(ref[p]))
     IN  IF current.left > 0
           THEN /\ count' = Gain(n, {current.block})
                /\ ref' = [ref EXCEPT ![p] = current.block]
                /\ current' = [current EXCEPT !.left = @ - 1]
           ELSE LET m == Lose(n, BlocksOf(current.block))
                IN  \E b \in Fresh(m) :
                      /\ count' = Gain(Gain(m, {b}), {b})
                      /\ ref' = [ref EXCEPT ![p] = b]
                      /\ current' = [block |-> b, left |-> Slices - 1]
  /\ UNCHANGED <<context, config, frame, held, draining, lost>>

(* The AVPacket or AVFrame on the stack only lends its references: the     *)
(* library takes some of its own, and the caller keeps what it has.        *)
Sent(c, S) ==
  /\ Len(held[c]) < Depth /\ ~draining[c]
  /\ held' = [held EXCEPT ![c] = Append(@, S)]
  /\ count' = Gain(count, S)

SendPacket(c, p) ==
  /\ IsOpen(c) /\ ref[p] # NoBlock
  /\ Sent(c, {ref[p]})
  /\ UNCHANGED <<context, config, current, ref, frame, draining, lost>>

SendFrame(c, f) ==
  /\ IsOpen(c) /\ frame[f] # NoFrame
  /\ Sent(c, All(frame[f]))
  /\ UNCHANGED <<context, config, current, ref, frame, draining, lost>>

(* drain() sends a null packet, which only a decoder takes. *)
Drain(c) ==
  /\ IsOpen(c) /\ ~draining[c]
  /\ draining' = [draining EXCEPT ![c] = TRUE]
  /\ UNCHANGED <<context, config, count, current, ref, frame, held, lost>>

Flush(c) ==
  /\ IsOpen(c)
  /\ count' = LoseAll(count, held[c])
  /\ held' = [held EXCEPT ![c] = <<>>] /\ draining' = [draining EXCEPT ![c] = FALSE]
  /\ UNCHANGED <<context, config, current, ref, frame, lost>>

-----------------------------------------------------------------------------
(* What comes out *)

(* The library is done with the oldest unit. *)
Consumed(c) == Lose(count, Head(held[c]))
Rest(c) == [held EXCEPT ![c] = Tail(@)]

(* mutant: bufs is not zeroed, and av_frame_unref() finds the references *)
Left_Bufs(av) == [av EXCEPT !.extended = {}]

(* What receive_frame() leaves in the AVFrame on the stack once its        *)
(* references have moved: bufs is zeroed, extended_buf is null.            *)
Left(av) == [bufs |-> {}, extended |-> {}]

(* receive_frame() overwrites the target: references of a frame in use     *)
(* are lost.  A frame of more channels than bufs has places for has        *)
(* extended buffers too.                                                   *)
ReceiveFrame(c, f) ==
  /\ IsOpen(c) /\ held[c] # <<>>
  /\ \E bufs, extended \in SUBSET Fresh(Consumed(c)) :
       LET av == [bufs |-> bufs, extended |-> extended]
       IN  /\ Cardinality(bufs) = 1 /\ Cardinality(extended) <= 1
           /\ bufs \intersect extended = {}
           /\ frame' = [frame EXCEPT ![f] = av]
           /\ count' = Lose(Gain(Consumed(c), All(av)), All(Left(av)))
  /\ lost' = Gain(lost, All(frame[f]))
  /\ held' = Rest(c)
  /\ UNCHANGED <<context, config, current, ref, draining>>

(* xe_buffer_ref::operator=(AVBufferRef&) gives up the old reference first. *)
Assigned(n, p) == Lose(n, BlocksOf(ref[p]))

ReceivePacket(c, p) ==
  /\ IsOpen(c) /\ held[c] # <<>>
  /\ \E b \in Fresh(Consumed(c)) :
       /\ ref' = [ref EXCEPT ![p] = b]
       /\ count' = Assigned(Gain(Consumed(c), {b}), p)
  /\ held' = Rest(c)
  /\ UNCHANGED <<context, config, current, frame, draining, lost>>

(* The data is broken: the library drops the unit and reports an error. *)
UnitIsDropped(c) ==
  /\ IsOpen(c) /\ held[c] # <<>>
  /\ held' = Rest(c) /\ count' = Consumed(c)
  /\ UNCHANGED <<context, config, current, ref, frame, draining, lost>>

-----------------------------------------------------------------------------
(* The application's packets and frames *)

UnrefPacket(p) ==
  /\ count' = Lose(count, BlocksOf(ref[p]))
  /\ ref' = [ref EXCEPT ![p] = NoBlock]
  /\ UNCHANGED <<context, config, current, frame, held, draining, lost>>

UnrefFrame(f) ==
  /\ count' = Lose(count, All(frame[f]))
  /\ frame' = [frame EXCEPT ![f] = NoFrame]
  /\ UNCHANGED <<context, config, current, ref, held, draining, lost>>

(* mutant: the extended buffers of the source are not cleared *)
MovedFrom_KeepsExtended(fr) == [fr EXCEPT !.bufs = {}]

(* What operator= leaves in the frame that it takes the references from. *)
MovedFrom(fr) == [fr EXCEPT !.bufs = {}, !.extended = {}]

(* operator=(xe_frame&&) of g to f *)
MoveFrame(f, g) ==
  /\ f # g
  /\ count' = Lose(count, All(frame[f]))
  /\ frame' = [frame EXCEPT ![f] = frame[g], ![g] = MovedFrom(frame[g])]
  /\ UNCHANGED <<context, config, current, ref, held, draining, lost>>

-----------------------------------------------------------------------------

Running == \A c \in Codecs : context[c].state # "crashed"

Next ==
  /\ Running
  /\ \/ \E c \in Codecs : Open(c)
     \/ \E c \in Codecs, s \in Stages : OpenFails(c, s)
     \/ \E c \in Codecs : Delete(c)
     \/ \E p \in Packets : Fill(p)
     \/ \E c \in Decoders, p \in Packets : SendPacket(c, p)
     \/ \E c \in Encoders, f \in Frames : SendFrame(c, f)
     \/ \E c \in Decoders : Drain(c)
     \/ \E c \in Codecs : Flush(c)
     \/ \E c \in Decoders, f \in Frames : ReceiveFrame(c, f)
     \/ \E c \in Encoders, p \in Packets : ReceivePacket(c, p)
     \/ \E c \in Codecs : UnitIsDropped(c)
     \/ \E p \in Packets : UnrefPacket(p)
     \/ \E f \in Frames : UnrefFrame(f)
     \/ \E f, g \in Frames : MoveFrame(f, g)

Spec == Init /\ [][Next]_vars

-----------------------------------------------------------------------------
(* Properties *)

Holders(b) ==
    Cardinality({p \in Packets : ref[p] = b})
  + Cardinality({f \in Frames : b \in frame[f].bufs})
  + Cardinality({f \in Frames : b \in frame[f].extended})
  + Cardinality({u \in Codecs \X (1..Depth) : u[2] <= Len(held[u[1]]) /\ b \in held[u[1]][u[2]]})
  + (IF current.block = b THEN 1 ELSE 0)

(* The refcount of every block is the number of packets, frames, units in  *)
(* the library and demuxers that point to it, and of the references that   *)
(* an application lost by receiving into a frame in use: memory is not     *)
(* freed under a holder, nor lost otherwise, although lending (send_packet,*)
(* send_frame) and handing over (receive_frame, receive_packet, operator=) *)
(* a reference copy the same AVBufferRef and differ only in what is done   *)
(* afterwards.  Of the codecs that the library has, a context is allocated *)
(* for exactly those that are open, whatever stage an open failed at (the  *)
(* others may end the program, see Discarded), and no codec takes with it  *)
(* the configuration of the track, to which the context pointed meanwhile. *)
MemoryIsCounted ==
  /\ \A b \in Blocks : count[b] = Holders(b) + lost[b]
  /\ \A c \in Library : context[c] \in {NoContext, Opened}
  /\ config
=============================================================================
