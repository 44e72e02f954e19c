----------------------------- MODULE NetStream ------------------------------
(***************************************************************************)
(* xe_net_stream (src/xetrov/resource/net.cc): a stream over one request   *)
(* of the network library.  A seek ends the request, and the end starts it *)
(* again at the new offset; inside of a callback the request cannot be     *)
(* ended, so the flags stop, reopen and closing carry the wish to the end  *)
(* of the callback and to the callback of the end.                         *)
(*                                                                         *)
(* The library and the owner of the stream are external.  The library      *)
(* (ctx, request) is what net.cc assumes of it: a write callback that      *)
(* returns an error ends the request with that error, ctx.end() ends it    *)
(* with XE_ABORTED before it returns, headers and the pause of a request   *)
(* survive its end.  The owner (xe_reader and its worker) calls the stream *)
(* from the callbacks and from outside.                                    *)
(***************************************************************************)
EXTENDS Integers

CONSTANTS
  Size,             \* bytes in the resource
  Chunks,           \* sizes of chunks
  Targets,          \* offsets the owner seeks to
  Failures,         \* the calls of the library that may fail: "start", "transferctl", "write", "io"
  EndsIdle,         \* whether ctx.end() of an idle request calls done_cb, too: the possible answers
  SeekInDone        \* the owner may seek inside of the done callback

ASSUME SizeAssumption == Size \in Nat /\ Chunks \subseteq Nat \ {0} /\ Targets \subseteq 0..Size
ASSUME ChoiceAssumption ==
  /\ Failures \subseteq {"start", "transferctl", "write", "io"}
  /\ EndsIdle \subseteq BOOLEAN /\ SeekInDone \in BOOLEAN

VARIABLES
  opened, callback, reopen, stop, closing, current_start,   \* fields of xe_net_stream
  request,      \* the library's request
  frame,        \* the owner's callback on the stack: "none", "write", "done"
  chunk,        \* the size of the chunk it was called with
  nested,       \* that callback runs inside of a close() of the owner
  deleted,      \* xe_delete(&stream)
  ends_idle,    \* the library's answer, which never changes
  \* history: what the owner is entitled to expect
  want,         \* the offset of the next chunk
  at,           \* the offset of the latest chunk
  live,         \* it has asked for data and has not been told of an end
  gone          \* it has called close()

flagVars == <<reopen, stop, closing>>
ownerVars == <<want, at, live, gone>>
vars == <<opened, callback, flagVars, current_start, request, frame, chunk, nested, deleted,
          ends_idle, ownerVars>>

Ends == {"ok", "ABORTED", "IO", "START"}
Requests == [state : {"none", "idle", "running", "failed", "closed"}, pos : 0..Size,
             range : 0..Size, paused : BOOLEAN, error : Ends]

Init ==
  /\ opened = FALSE /\ callback = FALSE
  /\ reopen = FALSE /\ stop = FALSE /\ closing = FALSE /\ current_start = 0
  /\ request = [state |-> "none", pos |-> 0, range |-> 0, paused |-> FALSE, error |-> "ok"]
  /\ frame = "none" /\ chunk = 0 /\ nested = FALSE /\ deleted = FALSE
  /\ ends_idle \in EndsIdle
  /\ want = 0 /\ at = 0 /\ live = FALSE /\ gone = FALSE

-----------------------------------------------------------------------------
(* open() *)

(* mutant: the request goes on with the flags of the seek *)
Cleared_Never == UNCHANGED <<stop, reopen>>

(* open() begins anew. *)
Cleared == stop' = FALSE /\ reopen' = FALSE

(* The first byte of the Range header: it is written only for a start      *)
(* other than zero, and stays on the request.                              *)
RangeFrom(start) == IF start # 0 THEN start ELSE request.range

Started(start) ==
  request' = [request EXCEPT !.state = "running", !.range = RangeFrom(start),
                             !.pos = RangeFrom(start)]

(* A header cannot be set, or the request cannot be started. *)
NotStarted(start) ==
  /\ "start" \in Failures
  /\ \/ request' = [request EXCEPT !.state = "idle"]
     \/ request' = [request EXCEPT !.state = "idle", !.range = RangeFrom(start)]

(* The owner opens the stream, once. *)
Open ==
  /\ ~opened /\ ~gone
  /\ \/ /\ opened' = TRUE
        /\ Cleared
        /\ \/ Started(0) /\ live' = TRUE
           \/ NotStarted(0) /\ live' = FALSE
     \/ /\ "start" \in Failures            \* ctx.open()
        /\ UNCHANGED <<opened, stop, reopen, request, live>>
  /\ UNCHANGED <<callback, closing, current_start, frame, chunk, nested, deleted, ends_idle, want, at, gone>>

-----------------------------------------------------------------------------
(* done_cb() *)

Reopens(reo, error) == reo /\ error = "ABORTED"

(* The end is reported to the owner, or a closed stream deletes itself. *)
Reported(cl) ==
  IF cl
    THEN deleted' = TRUE /\ UNCHANGED <<callback, frame>>
    ELSE callback' = TRUE /\ frame' = "done" /\ UNCHANGED deleted

(* mutant: the end is reported although the request has been started again *)
DoneCb_NoReturn(error, reo, st, cl, start) ==
  IF Reopens(reo, error)
    THEN Cleared /\ (Started(start) \/ NotStarted(start)) /\ Reported(cl)
    ELSE /\ reopen' = reo /\ stop' = st
         /\ request' = [request EXCEPT !.state = "idle"]
         /\ Reported(cl)

(* done_cb(error), with the flags of the stream reo, st and cl and the     *)
(* offset start.                                                           *)
DoneCb(error, reo, st, cl, start) ==
  IF Reopens(reo, error)
    THEN /\ Cleared
         /\ \/ Started(start) /\ UNCHANGED <<callback, frame, deleted>>
            \/ NotStarted(start) /\ Reported(cl)
    ELSE /\ reopen' = reo /\ stop' = st
         /\ request' = [request EXCEPT !.state = "idle"]
         /\ Reported(cl)

(* ctx.end(request) outside of a callback, in a call that leaves the flag  *)
(* reopen as reo and the offset as start.                                  *)
EndRequest(reo, start) ==
  IF request.state = "running" \/ (ends_idle /\ request.state = "idle")
    THEN DoneCb("ABORTED", reo, stop, closing, start)
    ELSE reopen' = reo /\ UNCHANGED <<stop, request, callback, frame, deleted>>

(* The owner has been told, if this step told it. *)
Told == live' = (live /\ ~(frame # "done" /\ frame' = "done"))

-----------------------------------------------------------------------------
(* Calls of the owner *)

MayCall == opened /\ ~gone /\ ~nested /\ request.state # "failed"

SeekInside ==
  /\ reopen' = TRUE /\ stop' = TRUE
  /\ UNCHANGED <<request, callback, frame, deleted>>

Seek(o) ==
  /\ MayCall /\ (frame = "done" => SeekInDone)
  /\ current_start' = o
  /\ IF callback THEN SeekInside ELSE EndRequest(TRUE, o)
  /\ want' = o
  /\ live' = ~(frame # "done" /\ frame' = "done")
  /\ UNCHANGED <<opened, closing, chunk, nested, ends_idle, at, gone>>

(* mutant: a seek of the same callback survives *)
Abandoned_KeepsReopen == stop' = TRUE /\ UNCHANGED <<reopen, request, callback, frame, deleted>>

(* abort() inside of a callback. *)
Abandoned ==
  /\ stop' = TRUE /\ reopen' = FALSE
  /\ UNCHANGED <<request, callback, frame, deleted>>

Aborted == IF callback THEN Abandoned ELSE EndRequest(reopen, current_start)

Abort ==
  /\ MayCall
  /\ Aborted
  /\ Told
  /\ UNCHANGED <<opened, closing, current_start, chunk, nested, ends_idle, want, at, gone>>

Pause(paused) ==
  /\ MayCall /\ request.paused # paused
  /\ \/ /\ request' = [request EXCEPT !.paused = paused]
        /\ UNCHANGED <<flagVars, callback, frame, deleted, live>>
     \/ "transferctl" \in Failures /\ Aborted /\ Told /\ UNCHANGED closing
  /\ UNCHANGED <<opened, current_start, chunk, nested, ends_idle, want, at, gone>>

(* mutant: the stream is deleted under its callback *)
CloseInside_DeletesNow ==
  /\ stop' = TRUE /\ reopen' = FALSE /\ closing' = TRUE /\ deleted' = TRUE
  /\ UNCHANGED <<request, callback, frame>>

(* mutant: the wish is not recorded *)
CloseInside_Forgets == Abandoned /\ UNCHANGED closing

CloseInside == Abandoned /\ closing' = TRUE

(* close(): the request is closed at once, or after the done callback that *)
(* ending it has caused.                                                   *)
Close ==
  /\ MayCall
  /\ gone' = TRUE
  /\ IF callback
       THEN CloseInside /\ UNCHANGED nested
       ELSE /\ EndRequest(reopen, current_start)
            /\ nested' = TRUE
            /\ UNCHANGED closing
  /\ Told
  /\ UNCHANGED <<opened, current_start, chunk, ends_idle, want, at>>

(* The rest of close(). *)
CloseRequest ==
  /\ nested /\ frame = "none" /\ request.state # "closed"
  /\ request' = [request EXCEPT !.state = "closed"]
  /\ UNCHANGED <<opened, callback, flagVars, current_start, frame, chunk, nested, deleted,
                 ends_idle, ownerVars>>

-----------------------------------------------------------------------------
(* Calls of the library *)

LoopIdle == frame = "none" /\ (nested => request.state = "closed")

WriteCb(n) ==
  /\ LoopIdle /\ request.state = "running" /\ ~request.paused
  /\ request.pos + n <= Size
  /\ callback' = TRUE /\ frame' = "write" /\ chunk' = n
  /\ at' = request.pos
  /\ want' = want + n
  /\ UNCHANGED <<opened, flagVars, current_start, request, nested, deleted, ends_idle, live, gone>>

(* mutant: a seek, abort or close of the callback is forgotten *)
WriteResult_Plain(err) == err

(* What write_cb returns when the owner's callback has returned err. *)
WriteResult(err) == IF err = "ok" /\ stop THEN "ABORTED" ELSE err

WriteReturns ==
  /\ frame = "write"
  /\ callback' = FALSE /\ frame' = "none" /\ chunk' = 0
  /\ \E err \in {"ok"} \union (IF "write" \in Failures THEN {"IO"} ELSE {}) :
       request' = IF WriteResult(err) = "ok"
                    THEN [request EXCEPT !.pos = @ + chunk]
                    ELSE [request EXCEPT !.state = "failed", !.error = WriteResult(err)]
  /\ UNCHANGED <<opened, flagVars, current_start, nested, deleted, ends_idle, ownerVars>>

(* The request ends: by itself, with an error of the network, or because a *)
(* write callback returned one.                                            *)
RequestEnds(error) ==
  /\ LoopIdle
  /\ \/ request.state = "running" /\ ~request.paused /\ request.pos = Size /\ error = "ok"
     \/ request.state = "running" /\ "io" \in Failures /\ error = "IO"
     \/ request.state = "failed" /\ error = request.error
  /\ DoneCb(error, reopen, stop, closing, current_start)
  /\ Told
  /\ UNCHANGED <<opened, closing, current_start, chunk, nested, ends_idle, want, at, gone>>

DoneReturns ==
  /\ frame = "done"
  /\ callback' = FALSE /\ frame' = "none"
  /\ UNCHANGED <<opened, flagVars, current_start, request, chunk, nested, deleted, ends_idle, ownerVars>>

(* The owner is not obliged to do anything with a stream that has ended. *)
Halted ==
  /\ frame = "none" /\ request.state \in {"none", "idle", "closed"}
  /\ UNCHANGED vars

-----------------------------------------------------------------------------

OwnerStep ==
  \/ Open
  \/ \E o \in Targets : Seek(o)
  \/ \E paused \in BOOLEAN : Pause(paused)
  \/ Abort
  \/ Close

LibraryStep ==
  \/ \E n \in Chunks : WriteCb(n)
  \/ \E error \in Ends : RequestEnds(error)
  \/ CloseRequest

ReturnStep == WriteReturns \/ DoneReturns

Next == OwnerStep \/ LibraryStep \/ ReturnStep \/ Halted

Spec == Init /\ [][Next]_vars

(* Callbacks return, and a request whose callback has returned an error is *)
(* ended.                                                                  *)
FairSpec == Spec /\ WF_vars(ReturnStep) /\ WF_vars(LibraryStep)

-----------------------------------------------------------------------------
(* Properties *)

(* A request is not left running when a seek, an abort or a close has been *)
(* asked for and the callback it was asked in has returned (net.cc:20, 31).*)
WishesAreObeyed ==
  frame = "none" /\ request.state = "running" /\ ~nested => ~reopen /\ ~stop /\ ~closing

(* The stream deletes itself only when nobody uses it any more: the owner  *)
(* has closed it and the request has ended (net.cc:38).                    *)
DeletedLast == deleted => gone /\ frame = "none" /\ request.state = "idle"

(* The owner is told of the end of its data once, unless the library       *)
(* reports the end of idle requests and the owner ends one: the reader     *)
(* takes done() for the end of the wait it is in (net.cc:40).              *)
DoneOnce == [][frame # "done" /\ frame' = "done" => live \/ ends_idle]_vars

(* The owner's view, as a stream of StreamContract. *)
Contract == INSTANCE StreamContract WITH
  pos <- want,
  state <- IF gone THEN "closed" ELSE IF live THEN "open"
           ELSE IF opened THEN "ended" ELSE "new"

(* Over a library that reports the ends of running requests only, every    *)
(* step is one of the contract or leaves it alone: chunks are consecutive  *)
(* from the offset the owner asked for last, whatever callbacks it asked   *)
(* from, and none comes after the end or a close (net.cc:28, 102).         *)
ImplementsContract ==
  Contract!Init /\ [][ends_idle \/ [Contract!Next]_Contract!vars]_vars

(* After a seek, the request runs at the offset of the latest seek, unless *)
(* the owner is told of an end or closes the stream; of a stream that has  *)
(* ended, if the library reports the end of idle requests (net.cc:102).    *)
SeekIsCarriedOut ==
  reopen /\ live /\ (ends_idle \/ request.state = "running")
                 ~> \/ request.state = "running" /\ ~reopen /\ request.pos = want
                    \/ ~live
                    \/ gone

(* A stream closed under a write() deletes itself (net.cc:133). *)
CloseCompletes == gone /\ frame = "write" ~> deleted

=============================================================================
