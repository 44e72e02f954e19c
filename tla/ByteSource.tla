----------------------------- MODULE ByteSource -----------------------------
(***************************************************************************)
(* What xe_reader promises to a demuxer: a cursor over the bytes of one    *)
(* stream.  A read returns the bytes at the cursor, possibly after some    *)
(* time and in several pieces, and moves the cursor behind them; a cursor  *)
(* can be skipped ahead, set, and returned to where a peek began.  Once an *)
(* operation has failed, only setting or returning the cursor clears it.   *)
(* Nothing is said of chunks, buffers, fibers or pausing.                  *)
(***************************************************************************)
EXTENDS Naturals, Sequences

CONSTANT StreamSize

VARIABLES
  pos,       \* the cursor
  mark,      \* where the latest peek began
  marked,    \* a peek is on
  from, got, \* where the latest read began and the bytes it has returned
  reading,   \* it has not completed yet
  failed     \* an operation has failed

vars == <<pos, mark, marked, from, got, reading, failed>>

(* The k bytes of the stream from offset o on. *)
Run(o, k) == [i \in 1..k |-> o + i - 1]

Init ==
  /\ pos = 0 /\ mark = 0 /\ marked = FALSE
  /\ from = 0 /\ got = <<>> /\ reading = FALSE /\ failed = FALSE

(* A read or skip that has ended without failure has done all of it. *)
CompleteUnlessFailed == reading' \/ failed' \/ Len(got') = pos' - from'

Sticky == failed => failed'

Read ==
  /\ ~reading
  /\ pos' > pos /\ from' = pos
  /\ got' = Run(pos, Len(got')) /\ Len(got') <= pos' - pos
  /\ failed => got' = <<>> /\ ~reading'
  /\ CompleteUnlessFailed /\ Sticky
  /\ UNCHANGED <<mark, marked>>

Arrive ==
  /\ reading
  /\ got' = Run(from, Len(got')) /\ Len(got') >= Len(got) /\ Len(got') <= pos - from
  /\ CompleteUnlessFailed /\ Sticky
  /\ UNCHANGED <<pos, from, mark, marked>>

Skip ==
  /\ ~reading /\ ~reading'
  /\ pos' > pos /\ Sticky
  /\ UNCHANGED <<mark, marked, from, got>>

Seek ==
  /\ ~reading /\ ~marked
  /\ pos' \in 0..StreamSize /\ ~failed'
  /\ UNCHANGED <<mark, marked, from, got, reading>>

Mark ==
  /\ ~reading /\ ~marked /\ marked' /\ mark' = pos
  /\ UNCHANGED <<pos, from, got, reading, failed>>

Rewind ==
  /\ ~reading /\ marked /\ ~marked'
  /\ pos' = mark /\ (failed' => failed)
  /\ UNCHANGED <<mark, from, got, reading>>

Fail == failed' /\ UNCHANGED <<pos, mark, marked, from, got, reading>>

Next == Read \/ Arrive \/ Skip \/ Seek \/ Mark \/ Rewind \/ Fail

Spec == Init /\ [][Next]_vars
=============================================================================
