----------------------------- MODULE PacketPool -----------------------------
(***************************************************************************)
(* The memory of packets: xe_buffer and xe_buffer_ref (buffer.cc), slices  *)
(* of a demuxer's current buffer and the pool of buffers (pool.h), and     *)
(* xe_demuxer::alloc_packet (demuxer.cc).                                  *)
(*                                                                         *)
(* A packet holds a reference to a buffer and a slice of its bytes.  The   *)
(* application and the codecs copy and drop packets as they like: every    *)
(* holder of a reference outside of the demuxers is a member of Packets.   *)
(***************************************************************************)
EXTENDS Integers, Sequences, FiniteSets

CONSTANTS
  Buffers,              \* addresses at which a buffer may be allocated
  Packets,              \* holders of packets
  Demuxers,             \* the demuxers that share the pool
  Sizes,                \* sizes of packets
  NoBuffer,             \* null
  XE_BUFFER_SIZE, XE_BUFFER_PADDING,
  Word,                 \* the values of a size_t are those below Word
  Keeps,                \* demuxers that ask for a packet again that got no memory
  MayFail               \* allocations of memory may fail

ASSUME SizeAssumption ==
  /\ XE_BUFFER_SIZE \in Nat \ {0} /\ XE_BUFFER_PADDING \in Nat \ {0}
  /\ Sizes \subseteq Nat /\ Word \in Nat

(* A size and its padding fit into a size_t: isom.cc has sizes of 32 bit.  *)
(* mkv.cc:1684 has one of 64 bit, which wraps for a block that is shorter  *)
(* than its header (Matroska!Payload): nothing is claimed for that one.    *)
ASSUME FitAssumption == \A n \in Sizes : n + XE_BUFFER_PADDING < Word

ASSUME NameAssumption ==
  /\ NoBuffer \notin Buffers
  /\ IsFiniteSet(Packets) /\ IsFiniteSet(Demuxers) /\ Packets \intersect Demuxers = {}
ASSUME ChoiceAssumption == MayFail \in BOOLEAN /\ Keeps \subseteq Demuxers

VARIABLES
  heap,         \* refcount and size (0: not allocated) of the buffers, and the pool's list
  current,      \* the xe_packet_buffer of each demuxer
  packet,       \* the reference of each packet and its slice
  wants,        \* the sizes each demuxer may ask for next, none once it is deleted
  destroyed,    \* the pool's destructor has run
  crashed       \* the demuxer that took a reference to null

vars == <<heap, current, packet, wants, destroyed, crashed>>

NoSlice == [buf |-> NoBuffer, from |-> 0, len |-> 0]

Init ==
  /\ heap = [refcount |-> [b \in Buffers |-> 0], size |-> [b \in Buffers |-> 0], list |-> <<>>]
  /\ current = [d \in Demuxers |-> [buf |-> NoBuffer, head |-> 0, left |-> 0]]
  /\ packet = [p \in Packets |-> NoSlice]
  /\ wants = [d \in Demuxers |-> Sizes] /\ destroyed = FALSE /\ crashed = {}

-----------------------------------------------------------------------------
(* xe_buffer, xe_buffer_ref; restore() *)

Referenced(h, b) == [h EXCEPT !.refcount[b] = @ + 1]

(* A buffer of the common size is created with restore() as its free       *)
(* function, any other is given back to the system.                        *)
Pooled(h, b) == h.size[b] = XE_BUFFER_SIZE

Restored(h, b) == [h EXCEPT !.list = <<b>> \o @]

Freed(h, b) == IF Pooled(h, b) THEN Restored(h, b) ELSE [h EXCEPT !.size[b] = 0]

(* mutant: off by one, the buffer is freed when one reference is left *)
Unreferenced_Early(h, b) ==
  IF b = NoBuffer THEN h
  ELSE LET less == [h EXCEPT !.refcount[b] = @ - 1]
       IN  IF less.refcount[b] <= 1 THEN Freed(less, b) ELSE less

Unreferenced(h, b) ==
  IF b = NoBuffer THEN h
  ELSE LET less == [h EXCEPT !.refcount[b] = @ - 1]
       IN  IF less.refcount[b] = 0 THEN Freed(less, b) ELSE less

-----------------------------------------------------------------------------
(* xe_packet_buffer, xe_packet_buffer_pool *)

(* The sum of two values of a size_t. *)
Padded(n) == (n + XE_BUFFER_PADDING) % Word

Has(c, n) == c.left > Padded(n)

(* The size of a buffer that a packet of n bytes is to be cut from. *)
Rounded(n) == IF Padded(n) > XE_BUFFER_SIZE THEN Padded(n) ELSE XE_BUFFER_SIZE

TakesPooled(h, n) == Rounded(n) = XE_BUFFER_SIZE /\ h.list # <<>>

(* mutant: the buffer stays on the list *)
TakeHead_Stays(h) == Referenced(h, Head(h.list))

TakeHead(h) == [Referenced(h, Head(h.list)) EXCEPT !.list = Tail(@)]

Created(h, b, n) == [h EXCEPT !.refcount[b] = 1, !.size[b] = Rounded(n)]

(* get_buffer(), whose first step has led to h: what it may take. *)
Buffer(h, n) ==
  IF TakesPooled(h, n)
    THEN {[heap |-> TakeHead(h), buf |-> Head(h.list)]}
    ELSE {[heap |-> Created(h, b, n), buf |-> b] : b \in {b \in Buffers : h.size[b] = 0}}

Cut(c, n) == [buf |-> c.buf, head |-> c.head + Padded(n), left |-> c.left - Padded(n)]

(* alloc() of n bytes for packet p from the buffer c of demuxer d.  The    *)
(* packet has all of its bytes and the padding behind them.                *)
Sliced(h, c, d, p, n) ==
  IF c.buf = NoBuffer
    THEN crashed' = {d} /\ UNCHANGED <<heap, current, packet>>
    ELSE /\ heap' = Referenced(h, c.buf)
         /\ packet' = [packet EXCEPT ![p] = [buf |-> c.buf, from |-> c.head,
                                             len |-> n + XE_BUFFER_PADDING]]
         /\ current' = [current EXCEPT ![d] = Cut(c, n)]
         /\ UNCHANGED crashed

-----------------------------------------------------------------------------
(* Operations *)

Alive == crashed = {}

Asks(d, n) == Alive /\ n \in wants[d]

(* alloc_packet() succeeds.  The packet's own reference goes first, and    *)
(* get_buffer() drops the demuxer's before it looks for another buffer.    *)
AllocPacket(d, p, n) ==
  /\ Asks(d, n)
  /\ LET h == Unreferenced(heap, packet[p].buf)
         c == current[d]
     IN  IF Has(c, n)
           THEN Sliced(h, c, d, p, n)
           ELSE \E got \in Buffer(Unreferenced(h, c.buf), n) :
                  Sliced(got.heap, [buf |-> got.buf, head |-> 0, left |-> got.heap.size[got.buf]],
                         d, p, n)
  /\ wants' = [wants EXCEPT ![d] = Sizes]
  /\ UNCHANGED destroyed

(* mutant: the room is noted before the buffer is there *)
AllocFails_NotesRoom(d, p, n) ==
  /\ Asks(d, n) /\ MayFail
  /\ ~Has(current[d], n)
  /\ LET h == Unreferenced(Unreferenced(heap, packet[p].buf), current[d].buf)
     IN  ~TakesPooled(h, n) /\ heap' = h
  /\ packet' = [packet EXCEPT ![p] = NoSlice]
  /\ current' = [current EXCEPT ![d] = [buf |-> NoBuffer, head |-> @.head, left |-> Rounded(n)]]
  /\ wants' = [wants EXCEPT ![d] = IF d \in Keeps THEN {n} ELSE Sizes]
  /\ UNCHANGED <<destroyed, crashed>>

(* The memory for a new node or buffer is not to be had: head and left of  *)
(* the demuxer's buffer remain, and the packet is asked for again (Keeps,  *)
(* mkv.cc:1832) or given up for one of any size (isom.cc:1719).            *)
AllocFails(d, p, n) ==
  /\ Asks(d, n) /\ MayFail
  /\ ~Has(current[d], n)
  /\ LET h == Unreferenced(Unreferenced(heap, packet[p].buf), current[d].buf)
     IN  ~TakesPooled(h, n) /\ heap' = h
  /\ packet' = [packet EXCEPT ![p] = NoSlice]
  /\ current' = [current EXCEPT ![d] = [buf |-> NoBuffer, head |-> @.head, left |-> @.left]]
  /\ wants' = [wants EXCEPT ![d] = IF d \in Keeps THEN {n} ELSE Sizes]
  /\ UNCHANGED <<destroyed, crashed>>

(* The packet is unreferenced. *)
Drop(p) ==
  /\ packet[p].buf # NoBuffer /\ Alive
  /\ heap' = Unreferenced(heap, packet[p].buf)
  /\ packet' = [packet EXCEPT ![p] = NoSlice]
  /\ UNCHANGED <<current, wants, destroyed, crashed>>

(* q takes another reference to the bytes of p. *)
Copy(p, q) ==
  /\ p # q /\ packet[p].buf # NoBuffer /\ Alive
  /\ heap' = Referenced(Unreferenced(heap, packet[q].buf), packet[p].buf)
  /\ packet' = [packet EXCEPT ![q] = packet[p]]
  /\ UNCHANGED <<current, wants, destroyed, crashed>>

(* The format is closed: the demuxer is deleted, and its buffer with it. *)
Close(d) ==
  /\ wants[d] # {} /\ Alive
  /\ heap' = Unreferenced(heap, current[d].buf)
  /\ current' = [current EXCEPT ![d] = [buf |-> NoBuffer, head |-> 0, left |-> 0]]
  /\ wants' = [wants EXCEPT ![d] = {}]
  /\ UNCHANGED <<packet, destroyed, crashed>>

Listed == {heap.list[i] : i \in DOMAIN heap.list}

(* ~xe_packet_buffer_pool(): the pool outlives the formats that use it and *)
(* the packets cut from its buffers.                                       *)
Destroy ==
  /\ (\A d \in Demuxers : wants[d] = {}) /\ ~destroyed /\ Alive
  /\ \A p \in Packets : packet[p].buf # NoBuffer => ~Pooled(heap, packet[p].buf)
  /\ destroyed' = TRUE
  /\ heap' = [heap EXCEPT !.list = <<>>,
                          !.size = [b \in Buffers |-> IF b \in Listed THEN 0 ELSE @[b]]]
  /\ UNCHANGED <<current, packet, wants, crashed>>

(* Everything has been given back, or the program is gone. *)
Halted ==
  /\ ~Alive \/ (destroyed /\ \A p \in Packets : packet[p] = NoSlice)
  /\ UNCHANGED vars

Next ==
  \/ \E d \in Demuxers, p \in Packets, n \in Sizes : AllocPacket(d, p, n) \/ AllocFails(d, p, n)
  \/ \E p \in Packets : Drop(p)
  \/ \E p, q \in Packets : Copy(p, q)
  \/ \E d \in Demuxers : Close(d)
  \/ Destroy
  \/ Halted

Spec == Init /\ [][Next]_vars

-----------------------------------------------------------------------------
(* Properties *)

Holders(b) ==
  {p \in Packets : packet[p].buf = b} \union {d \in Demuxers : current[d].buf = b}

(* The count of a buffer is the number of references to it (buffer.cc:39, *)
(* 43): no reference is lost or dropped twice by any path.                 *)
RefsCounted == \A b \in Buffers : heap.refcount[b] = Cardinality(Holders(b))

(* Only buffers nobody refers to are on the pool's list, each once         *)
(* (pool.h:44, 72).                                                        *)
ListIsUnused ==
  /\ \A i \in DOMAIN heap.list : /\ Holders(heap.list[i]) = {}
                                 /\ Pooled(heap, heap.list[i])
  /\ \A i, j \in DOMAIN heap.list : heap.list[i] = heap.list[j] => i = j

(* Every buffer in existence is referred to or on the list: none is lost   *)
(* until the pool is gone, and none that is referred to has been freed     *)
(* (buffer.cc:12, 44, pool.h:101).                                         *)
NothingLost == \A b \in Buffers : heap.size[b] > 0 <=> Holders(b) # {} \/ b \in Listed

(* Slices and their padding are inside of their buffer, and in front of    *)
(* what is left of it for the demuxer (pool.h:26, 30).                     *)
SlicesInBuffer ==
  /\ \A p \in Packets : packet[p].buf # NoBuffer =>
       packet[p].from + packet[p].len <= heap.size[packet[p].buf]
  /\ \A d \in Demuxers : current[d].buf # NoBuffer =>
       /\ current[d].head + current[d].left = heap.size[current[d].buf]
       /\ \A p \in Packets : packet[p].buf = current[d].buf =>
            packet[p].from + packet[p].len <= current[d].head

(* alloc() is not called without a buffer (pool.h:31) by a demuxer that    *)
(* asks for the packet again whose allocation has failed (mkv.cc:1841):    *)
(* get_buffer() that fails leaves the size of a buffer that is gone, which *)
(* was too small.  A demuxer that asks for another packet may do it.       *)
NeverNull == crashed \intersect Keeps = {}

(* Each demuxer cuts from a buffer of its own. *)
BuffersApart ==
  \A d, e \in Demuxers : current[d].buf = current[e].buf => d = e \/ current[d].buf = NoBuffer

(* A demuxer without a buffer has no room for what it will ask for. *)
RoomIsReal ==
  \A d \in Keeps : current[d].buf = NoBuffer => \A n \in wants[d] : ~Has(current[d], n)

(* What the operations preserve (pool.h:25, 71): the counts, the list and  *)
(* the slices are right together, and no two demuxers share a buffer.      *)
PoolInv ==
  RefsCounted /\ ListIsUnused /\ NothingLost /\ SlicesInBuffer /\ BuffersApart /\ RoomIsReal

(* The bytes of a packet are its own until it is dropped (pool.h:30, 72). *)
Memory == INSTANCE PacketMemory WITH held <- packet

ImplementsMemory == Memory!Spec
=============================================================================
