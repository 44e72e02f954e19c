--------------------------- MODULE StreamContract ---------------------------
(***************************************************************************)
(* What a stream promises to the reader behind its callbacks: it delivers  *)
(* the bytes of the resource in order from the offset last asked for, and  *)
(* nothing any more once it has ended or has been closed, until a seek     *)
(* revives it.                                                             *)
(***************************************************************************)
EXTENDS Naturals

CONSTANT Size            \* bytes in the resource

VARIABLES
  state,                 \* "new", "open", "ended", "closed"
  pos,                   \* offset of the next byte
  at                     \* offset of the chunk delivered last

vars == <<state, pos, at>>

Init == state = "new" /\ pos = 0 /\ at = 0

Open == state = "new" /\ state' = "open" /\ UNCHANGED <<pos, at>>

Deliver ==
  /\ state = "open"
  /\ at' = pos
  /\ pos' \in pos + 1 .. Size
  /\ UNCHANGED state

End == state \in {"new", "open"} /\ state' = "ended" /\ UNCHANGED <<pos, at>>

(* The request for the new offset may fail at once. *)
Seek ==
  /\ state # "closed"
  /\ state' \in {"open", "ended"}
  /\ pos' \in 0..Size
  /\ UNCHANGED at

Close == state' = "closed" /\ UNCHANGED <<pos, at>>

Next == Open \/ Deliver \/ End \/ Seek \/ Close

Spec == Init /\ [][Next]_vars
=============================================================================
