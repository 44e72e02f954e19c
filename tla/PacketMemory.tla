---------------------------- MODULE PacketMemory ----------------------------
(***************************************************************************)
(* What the memory of packets promises to its users: the bytes of a packet *)
(* are its own and those of its copies, from the allocation to the unref   *)
(* of the last of them.                                                    *)
(***************************************************************************)
EXTENDS Integers

CONSTANTS Packets, NoBuffer

(* held[p] is the memory of packet p: len bytes at offset from of a buffer. *)
VARIABLE held

Nothing == [buf |-> NoBuffer, from |-> 0, len |-> 0]

Init == held = [p \in Packets |-> Nothing]

Apart(r, s) == \/ NoBuffer \in {r.buf, s.buf}
               \/ r.buf # s.buf
               \/ r.from + r.len <= s.from
               \/ s.from + s.len <= r.from

Replaced(p) == held' = [held EXCEPT ![p] = held'[p]]

(* The memory of a new packet is that of no other packet. *)
Alloc(p) == Replaced(p) /\ \A q \in Packets \ {p} : Apart(held'[p], held[q])

Copy(p, q) == held[p] # Nothing /\ held' = [held EXCEPT ![q] = held[p]]

Drop(p) == held' = [held EXCEPT ![p] = Nothing]

Next ==
  \/ \E p \in Packets : Alloc(p) \/ Drop(p)
  \/ \E p, q \in Packets : Copy(p, q)

Spec == Init /\ [][Next]_held
=============================================================================
