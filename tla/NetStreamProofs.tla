--------------------------- MODULE NetStreamProofs --------------------------
(***************************************************************************)
(* What holds of xe_net_stream for resources, chunks and seeks of any      *)
(* size, with any of the library's calls failing, and for owners that seek *)
(* inside of the done callback, too.  The inductive invariant is NetInv:   *)
(* the flags of a request that runs carry what its owner has asked for     *)
(* inside of a callback, and, over a library that reports the ends of      *)
(* running requests only, a running request stands where the owner is told *)
(* it stands.                                                              *)
(***************************************************************************)
EXTENDS NetStream, TLAPS

USE SizeAssumption, ChoiceAssumption

NetTypes ==
  /\ opened \in BOOLEAN /\ callback \in BOOLEAN /\ reopen \in BOOLEAN /\ stop \in BOOLEAN
  /\ closing \in BOOLEAN /\ current_start \in 0..Size /\ request \in Requests
  /\ frame \in {"none", "write", "done"} /\ chunk \in Nat /\ nested \in BOOLEAN
  /\ deleted \in BOOLEAN /\ ends_idle \in BOOLEAN
  /\ want \in Nat /\ at \in Nat /\ live \in BOOLEAN /\ gone \in BOOLEAN

(* The request has been started and its end is still to come. *)
Pending == request.state \in {"running", "failed"}

(* A stream that has not been opened has asked for nothing. *)
Unopened ==
  ~opened => /\ request.state = "none" /\ request.range = 0
             /\ ~live /\ ~gone /\ want = 0 /\ frame = "none"

(* What is asked for inside of a callback stops the write() it was asked   *)
(* in, and the flags tell which it was: a seek, or a close, which no seek  *)
(* follows.                                                                *)
Flags ==
  /\ callback <=> frame # "none"
  /\ frame = "write" => request.state = "running" /\ request.pos + chunk <= Size
  /\ frame = "done" => request.state = "idle"
  /\ frame = "write" /\ (reopen \/ closing) => stop
  /\ frame = "none" /\ request.state = "running" /\ ~nested => ~reopen /\ ~stop /\ ~closing
  /\ closing => gone /\ ~nested /\ ~reopen
  /\ nested => gone /\ frame # "write"
  /\ deleted => closing /\ frame = "none" /\ request.state = "idle"

(* What the owner of a library that reports the ends of running requests   *)
(* only is entitled to.  (A seek to the start of the resource leaves the   *)
(* Range header of an earlier one on the request, net.cc:88; without such  *)
(* seeks the request runs where the owner believes it does.)               *)
Progress ==
  /\ Pending => live
  /\ gone /\ Pending => closing
  /\ reopen => want = current_start /\ (want = 0 => 0 \in Targets)
  /\ 0 \notin Targets /\ request.state = "running" /\ ~stop =>
       want = request.pos + (IF frame = "write" THEN chunk ELSE 0)

NetInv == NetTypes /\ Unopened /\ Flags /\ (~ends_idle => Progress)

LEMMA InitNet == Init => NetInv
<1> SUFFICES ASSUME Init PROVE NetInv
  OBVIOUS
<1>1. NetTypes
  <2>1. ends_idle \in BOOLEAN
    BY DEF Init
  <2>2. request \in Requests /\ current_start \in 0..Size
    BY DEF Init, Requests, Ends
  <2> QED BY <2>1, <2>2 DEF Init, NetTypes
<1> QED BY <1>1 DEF Init, NetInv, Unopened, Flags, Progress, Pending

-----------------------------------------------------------------------------
(* What done_cb() comes to *)

(* The request has been started again ... *)
Restarted(start) ==
  /\ reopen' = FALSE /\ stop' = FALSE /\ request' \in Requests
  /\ request'.state = "running" /\ request'.pos = RangeFrom(start)
  /\ UNCHANGED <<callback, frame, deleted>>

(* ... or its end has been reported, unless the stream has deleted itself. *)
Ended(reo, cl) ==
  /\ reopen' \in BOOLEAN /\ stop' \in BOOLEAN /\ (reopen' => reo)
  /\ request' \in Requests /\ request'.state = "idle"
  /\ IF cl THEN deleted' /\ deleted' \in BOOLEAN /\ UNCHANGED <<callback, frame>>
     ELSE callback' /\ callback' \in BOOLEAN /\ frame' = "done" /\ UNCHANGED deleted

LEMMA StartedRequest ==
  ASSUME NetTypes, NEW start \in 0..Size
  PROVE  /\ RangeFrom(start) \in 0..Size
         /\ Started(start) =>
              /\ request' \in Requests
              /\ request'.state = "running" /\ request'.pos = RangeFrom(start)
         /\ NotStarted(start) => request' \in Requests /\ request'.state = "idle"
<1>1. RangeFrom(start) \in 0..Size
  BY DEF RangeFrom, NetTypes, Requests
<1> QED BY <1>1 DEF Started, NotStarted, NetTypes, Requests

LEMMA DoneCbOutcome ==
  ASSUME NetTypes, NEW error, NEW reo \in BOOLEAN, NEW st \in BOOLEAN, NEW cl \in BOOLEAN,
         NEW start \in 0..Size, DoneCb(error, reo, st, cl, start)
  PROVE  (reo /\ error = "ABORTED" /\ Restarted(start)) \/ Ended(reo, cl)
<1>1. Reported(cl) =>
        IF cl THEN deleted' /\ deleted' \in BOOLEAN /\ UNCHANGED <<callback, frame>>
        ELSE callback' /\ callback' \in BOOLEAN /\ frame' = "done" /\ UNCHANGED deleted
  BY DEF Reported
<1>2. CASE Reopens(reo, error)
  BY <1>1, <1>2, StartedRequest DEF DoneCb, Reopens, Cleared, Restarted, Ended
<1>3. CASE ~Reopens(reo, error)
  <2>1. request' = [request EXCEPT !.state = "idle"] /\ reopen' = reo /\ stop' = st
        /\ Reported(cl)
    BY <1>3 DEF DoneCb
  <2>2. request' \in Requests /\ request'.state = "idle"
    BY <2>1 DEF NetTypes, Requests
  <2> QED BY <1>1, <2>1, <2>2 DEF Ended
<1> QED BY <1>2, <1>3

(* ctx.end() outside of a callback. *)
LEMMA EndRequestOutcome ==
  ASSUME NetTypes, NEW reo \in BOOLEAN, NEW start \in 0..Size, EndRequest(reo, start)
  PROVE  \/ (request.state = "running" \/ ends_idle) /\ reo /\ Restarted(start)
         \/ (request.state = "running" \/ ends_idle) /\ Ended(reo, closing)
         \/ /\ request.state # "running" /\ reopen' = reo
            /\ UNCHANGED <<stop, request, callback, frame, deleted>>
<1>1. stop \in BOOLEAN /\ closing \in BOOLEAN
  BY DEF NetTypes
<1>2. CASE request.state = "running" \/ (ends_idle /\ request.state = "idle")
  BY <1>1, <1>2, DoneCbOutcome DEF EndRequest
<1>3. CASE ~(request.state = "running" \/ (ends_idle /\ request.state = "idle"))
  BY <1>3 DEF EndRequest
<1> QED BY <1>2, <1>3

(* abort(), inside of a callback and outside. *)
LEMMA AbortedOutcome ==
  ASSUME NetTypes, Aborted
  PROVE  \/ /\ callback /\ stop' /\ stop' \in BOOLEAN /\ ~reopen' /\ reopen' \in BOOLEAN
            /\ UNCHANGED <<request, callback, frame, deleted>>
         \/ /\ ~callback
            /\ \/ (request.state = "running" \/ ends_idle) /\ reopen /\ Restarted(current_start)
               \/ (request.state = "running" \/ ends_idle) /\ Ended(reopen, closing)
               \/ /\ request.state # "running"
                  /\ UNCHANGED <<reopen, stop, request, callback, frame, deleted>>
<1>1. CASE callback
  BY <1>1 DEF Aborted, Abandoned
<1>2. CASE ~callback
  <2>1. EndRequest(reopen, current_start) /\ reopen \in BOOLEAN /\ current_start \in 0..Size
    BY <1>2 DEF Aborted, NetTypes
  <2> QED BY <1>2, <2>1, EndRequestOutcome
<1> QED BY <1>1, <1>2

-----------------------------------------------------------------------------
(* Every step keeps the invariant *)

LEMMA OpenNet == ASSUME NetInv, Open PROVE NetInv'
<1>1. /\ NetTypes /\ ~opened /\ ~gone /\ ~closing /\ ~nested /\ ~deleted /\ frame = "none"
      /\ ~live /\ want = 0 /\ request.state = "none" /\ request.range = 0 /\ ~callback
  BY DEF Open, NetInv, Unopened, Flags
<1>2. UNCHANGED <<callback, closing, current_start, frame, chunk, nested, deleted, ends_idle,
                  want, at, gone>>
  BY DEF Open
<1>3. CASE opened' = TRUE /\ Cleared /\ Started(0) /\ live' = TRUE
  <2>1. request' \in Requests /\ request'.state = "running" /\ request'.pos = 0
    BY <1>1, <1>3, StartedRequest DEF RangeFrom
  <2>2. ~stop' /\ ~reopen' /\ stop' \in BOOLEAN /\ reopen' \in BOOLEAN
    BY <1>3 DEF Cleared
  <2>3. NetTypes'
    BY <1>1, <1>2, <1>3, <2>1, <2>2 DEF NetTypes
  <2>4. Unopened'
    BY <1>3 DEF Unopened
  <2>5. Flags'
    BY <1>1, <1>2, <2>1, <2>2 DEF Flags
  <2>6. Progress'
    BY <1>1, <1>2, <1>3, <2>1, <2>2 DEF Progress
  <2> QED BY <2>3, <2>4, <2>5, <2>6 DEF NetInv
<1>4. CASE opened' = TRUE /\ Cleared /\ NotStarted(0) /\ live' = FALSE
  <2>1. request' \in Requests /\ request'.state = "idle"
    BY <1>1, <1>4, StartedRequest
  <2>2. ~stop' /\ ~reopen' /\ stop' \in BOOLEAN /\ reopen' \in BOOLEAN
    BY <1>4 DEF Cleared
  <2>3. NetTypes'
    BY <1>1, <1>2, <1>4, <2>1, <2>2 DEF NetTypes
  <2>4. Unopened'
    BY <1>4 DEF Unopened
  <2>5. Flags'
    BY <1>1, <1>2, <2>1, <2>2 DEF Flags
  <2>6. Progress'
    BY <1>1, <1>2, <2>1, <2>2 DEF Progress, Pending
  <2> QED BY <2>3, <2>4, <2>5, <2>6 DEF NetInv
<1>5. CASE UNCHANGED <<opened, stop, reopen, request, live>>
  BY <1>2, <1>5 DEF NetInv, NetTypes, Unopened, Flags, Progress, Pending
<1> QED BY <1>3, <1>4, <1>5 DEF Open

(* A seek that is not inside of a callback starts the request again. *)
LEMMA SeekNet == ASSUME NetInv, NEW o \in Targets, Seek(o) PROVE NetInv'
<1>1. /\ NetTypes /\ opened /\ ~gone /\ ~closing /\ ~nested /\ ~deleted
      /\ callback <=> frame # "none"
      /\ request.state # "failed"
      /\ o \in 0..Size /\ o \in Nat
  BY DEF Seek, MayCall, NetInv, Flags
<1>2. /\ UNCHANGED <<opened, closing, chunk, nested, ends_idle, at, gone>>
      /\ current_start' = o /\ want' = o
      /\ live' = ~(frame # "done" /\ frame' = "done") /\ live' \in BOOLEAN
  BY DEF Seek
<1>3. Unopened'
  BY <1>1, <1>2 DEF Unopened
<1>4. CASE callback
  <2>1. /\ reopen' /\ stop' /\ reopen' \in BOOLEAN /\ stop' \in BOOLEAN
        /\ UNCHANGED <<request, callback, frame, deleted>>
    BY <1>4 DEF Seek, SeekInside
  <2>2. NetTypes'
    BY <1>1, <1>2, <2>1 DEF NetTypes
  <2>3. Flags'
    BY <1>1, <1>2, <1>4, <2>1 DEF NetInv, Flags
  <2>4. Progress'
    BY <1>1, <1>2, <2>1 DEF Progress
  <2> QED BY <1>2, <1>3, <2>2, <2>3, <2>4 DEF NetInv
<1>5. CASE ~callback
  <2>1. EndRequest(TRUE, o) /\ frame = "none"
    BY <1>1, <1>5 DEF Seek
  <2>2. CASE Restarted(o)
    <3>1. NetTypes'
      BY <1>1, <1>2, <2>2 DEF NetTypes, Restarted
    <3>2. Flags'
      BY <1>1, <1>2, <2>1, <2>2 DEF Flags, Restarted
    <3>3. Progress'
      <4>1. 0 \notin Targets => RangeFrom(o) = o
        BY DEF RangeFrom
      <4>2. /\ 0 \notin Targets => request'.pos = o
            /\ frame' = "none" /\ ~reopen' /\ live'
        BY <1>2, <2>1, <2>2, <4>1 DEF Restarted
      <4> QED BY <1>1, <1>2, <4>2 DEF Progress
    <3> QED BY <1>2, <1>3, <3>1, <3>2, <3>3 DEF NetInv
  <2>3. CASE Ended(TRUE, closing)
    <3>1. NetTypes'
      BY <1>1, <1>2, <2>3 DEF NetTypes, Ended
    <3>2. Flags'
      BY <1>1, <1>2, <2>1, <2>3 DEF Flags, Ended
    <3>3. Progress'
      BY <1>1, <1>2, <2>1, <2>3 DEF Progress, Pending, Ended
    <3> QED BY <1>2, <1>3, <3>1, <3>2, <3>3 DEF NetInv
  <2>4. CASE /\ request.state # "running" /\ reopen' = TRUE
             /\ UNCHANGED <<stop, request, callback, frame, deleted>>
    <3>1. NetTypes'
      BY <1>1, <1>2, <2>4 DEF NetTypes
    <3>2. Flags'
      BY <1>1, <1>2, <2>1, <2>4 DEF Flags
    <3>3. Progress'
      BY <1>1, <1>2, <2>1, <2>4 DEF Progress, Pending
    <3> QED BY <1>2, <1>3, <3>1, <3>2, <3>3 DEF NetInv
  <2> QED BY <1>1, <2>1, <2>2, <2>3, <2>4, EndRequestOutcome
<1> QED BY <1>4, <1>5 DEF NetTypes

(* abort(), or a pause that could not be carried out. *)
LEMMA AbortedNet ==
  ASSUME NetInv, MayCall, Aborted, Told,
         UNCHANGED <<opened, closing, current_start, chunk, nested, ends_idle, want, at, gone>>
  PROVE  NetInv'
<1>1. /\ NetTypes /\ opened /\ ~gone /\ ~closing /\ ~nested /\ ~deleted
      /\ callback <=> frame # "none"
      /\ request.state # "failed"
      /\ request.state = "running" /\ frame = "none" => ~reopen
  BY DEF MayCall, NetInv, Flags
<1>2. live' \in BOOLEAN /\ (frame' # "done" \/ frame = "done" => live' = live)
  BY <1>1 DEF Told, NetTypes
<1>3. Unopened'
  BY <1>1 DEF Unopened
<1>4. CASE /\ callback /\ stop' /\ stop' \in BOOLEAN /\ ~reopen' /\ reopen' \in BOOLEAN
           /\ UNCHANGED <<request, callback, frame, deleted>>
  <2>1. NetTypes'
    BY <1>1, <1>2, <1>4 DEF NetTypes
  <2>2. Flags'
    BY <1>1, <1>4 DEF NetInv, Flags
  <2>3. Progress => Progress'
    BY <1>1, <1>2, <1>4 DEF Progress, Pending
  <2> QED BY <1>3, <2>1, <2>2, <2>3 DEF NetInv
<1>5. CASE ~callback /\ (request.state = "running" \/ ends_idle) /\ reopen
           /\ Restarted(current_start)
  <2>1. ends_idle /\ frame = "none"
    BY <1>1, <1>5
  <2>2. NetTypes'
    BY <1>1, <1>2, <1>5 DEF NetTypes, Restarted
  <2>3. Flags'
    BY <1>1, <1>5, <2>1 DEF Flags, Restarted
  <2> QED BY <1>3, <2>1, <2>2, <2>3 DEF NetInv
<1>6. CASE ~callback /\ Ended(reopen, closing)
  <2>1. NetTypes'
    BY <1>1, <1>2, <1>6 DEF NetTypes, Ended
  <2>2. Flags'
    BY <1>1, <1>6 DEF Flags, Ended
  <2>3. Progress => Progress'
    BY <1>1, <1>6 DEF Progress, Pending, Ended
  <2> QED BY <1>3, <2>1, <2>2, <2>3 DEF NetInv
<1>7. CASE UNCHANGED <<reopen, stop, request, callback, frame, deleted>>
  <2>1. live' = live
    BY <1>1, <1>7 DEF Told, NetTypes
  <2> QED BY <1>7, <2>1 DEF NetInv, NetTypes, Unopened, Flags, Progress, Pending
<1> QED BY <1>1, <1>4, <1>5, <1>6, <1>7, AbortedOutcome

LEMMA AbortNet == ASSUME NetInv, Abort PROVE NetInv'
BY AbortedNet DEF Abort

LEMMA PauseNet == ASSUME NetInv, NEW paused \in BOOLEAN, Pause(paused) PROVE NetInv'
<1>1. CASE /\ request' = [request EXCEPT !.paused = paused]
           /\ UNCHANGED <<flagVars, callback, frame, deleted, live>>
           /\ UNCHANGED <<opened, current_start, chunk, nested, ends_idle, want, at, gone>>
  <2>1. /\ request' \in Requests /\ request'.state = request.state
        /\ request'.pos = request.pos /\ request'.range = request.range
    BY <1>1 DEF NetInv, NetTypes, Requests
  <2> QED BY <1>1, <2>1 DEF NetInv, NetTypes, Unopened, Flags, Progress, Pending, flagVars
<1>2. CASE Aborted /\ Told /\ UNCHANGED closing
  BY <1>2, AbortedNet DEF Pause
<1> QED BY <1>1, <1>2 DEF Pause

(* A close inside of a callback leaves the rest to it; any other one ends  *)
(* the request at once.                                                    *)
LEMMA CloseNet == ASSUME NetInv, Close PROVE NetInv'
<1>1. /\ NetTypes /\ opened /\ ~gone /\ ~closing /\ ~nested /\ ~deleted
      /\ callback <=> frame # "none"
      /\ request.state # "failed"
      /\ request.state = "running" /\ frame = "none" => ~reopen
  BY DEF Close, MayCall, NetInv, Flags
<1>2. /\ UNCHANGED <<opened, current_start, chunk, ends_idle, want, at>>
      /\ gone' = TRUE
  BY DEF Close
<1>3. live' \in BOOLEAN /\ (frame' # "done" \/ frame = "done" => live' = live)
  BY <1>1 DEF Close, Told, NetTypes
<1>4. Unopened'
  BY <1>1, <1>2 DEF Unopened
<1>5. CASE callback
  <2>1. /\ stop' = TRUE /\ reopen' = FALSE /\ closing' = TRUE
        /\ UNCHANGED <<request, callback, frame, deleted, nested>>
    BY <1>5 DEF Close, CloseInside, Abandoned
  <2>2. NetTypes'
    BY <1>1, <1>2, <1>3, <2>1 DEF NetTypes
  <2>3. Flags'
    BY <1>1, <1>2, <1>5, <2>1 DEF NetInv, Flags
  <2>4. Progress => Progress'
    BY <1>1, <1>2, <1>3, <2>1 DEF Progress, Pending
  <2> QED BY <1>2, <1>4, <2>2, <2>3, <2>4 DEF NetInv
<1>6. CASE ~callback
  <2>1. EndRequest(reopen, current_start) /\ nested' = TRUE /\ closing' = closing
        /\ frame = "none"
    BY <1>1, <1>6 DEF Close
  <2>2. CASE (request.state = "running" \/ ends_idle) /\ reopen /\ Restarted(current_start)
    <3>1. ends_idle
      BY <1>1, <2>1, <2>2
    <3>2. NetTypes'
      BY <1>1, <1>2, <1>3, <2>1, <2>2 DEF NetTypes, Restarted
    <3>3. Flags'
      BY <1>1, <1>2, <2>1, <2>2 DEF Flags, Restarted
    <3> QED BY <1>2, <1>4, <3>1, <3>2, <3>3 DEF NetInv
  <2>3. CASE Ended(reopen, closing)
    <3>1. NetTypes'
      BY <1>1, <1>2, <1>3, <2>1, <2>3 DEF NetTypes, Ended
    <3>2. Flags'
      BY <1>1, <1>2, <2>1, <2>3 DEF Flags, Ended
    <3>3. Progress => Progress'
      BY <1>1, <1>2, <2>1, <2>3 DEF Progress, Pending, Ended
    <3> QED BY <1>2, <1>4, <3>1, <3>2, <3>3 DEF NetInv
  <2>4. CASE /\ request.state # "running" /\ reopen' = reopen
             /\ UNCHANGED <<stop, request, callback, frame, deleted>>
    <3>1. NetTypes'
      BY <1>1, <1>2, <1>3, <2>1, <2>4 DEF NetTypes
    <3>2. Flags'
      BY <1>1, <1>2, <2>1, <2>4 DEF Flags
    <3>3. Progress => Progress'
      BY <1>1, <1>2, <2>1, <2>4 DEF Progress, Pending
    <3> QED BY <1>2, <1>4, <3>1, <3>2, <3>3 DEF NetInv
  <2>5. reopen \in BOOLEAN /\ current_start \in 0..Size
    BY <1>1 DEF NetTypes
  <2> QED BY <1>1, <2>1, <2>2, <2>3, <2>4, <2>5, EndRequestOutcome
<1> QED BY <1>5, <1>6

LEMMA CloseRequestNet == ASSUME NetInv, CloseRequest PROVE NetInv'
<1>1. request' \in Requests /\ request'.state = "closed"
  BY DEF CloseRequest, NetInv, NetTypes, Requests
<1>2. nested /\ gone /\ frame = "none" /\ ~closing /\ ~deleted
  BY DEF CloseRequest, NetInv, Flags
<1>3. UNCHANGED <<opened, callback, flagVars, current_start, frame, chunk, nested, deleted,
                  ends_idle, ownerVars>>
  BY DEF CloseRequest
<1>4. NetTypes'
  BY <1>1, <1>3 DEF NetInv, NetTypes, flagVars, ownerVars
<1>5. Unopened'
  BY <1>2, <1>3 DEF NetInv, Unopened, ownerVars
<1>6. Flags'
  BY <1>1, <1>2, <1>3 DEF NetInv, Flags, flagVars, ownerVars
<1>7. Progress => Progress'
  BY <1>1, <1>3 DEF Progress, Pending, flagVars, ownerVars
<1> QED BY <1>3, <1>4, <1>5, <1>6, <1>7 DEF NetInv

(* The library calls only while the owner may still be called. *)
LEMMA WriteCbNet ==
  ASSUME NetInv, NEW n \in Chunks, WriteCb(n)
  PROVE  /\ NetInv'
         /\ ~ends_idle => opened /\ live /\ ~gone
         /\ ~ends_idle /\ 0 \notin Targets => at' = want /\ want' \in want + 1 .. Size
<1>1. /\ NetTypes /\ frame = "none" /\ request.state = "running" /\ ~nested
      /\ ~reopen /\ ~stop /\ ~closing /\ ~deleted /\ opened
  BY DEF WriteCb, LoopIdle, NetInv, Flags, Unopened
<1>2. /\ UNCHANGED <<opened, flagVars, current_start, request, nested, deleted, ends_idle, live,
                     gone>>
      /\ callback' = TRUE /\ frame' = "write" /\ chunk' = n
      /\ at' = request.pos /\ want' = want + n /\ request.pos + n <= Size
  BY DEF WriteCb
<1>3. n \in Nat /\ n # 0 /\ request.pos \in Nat /\ want \in Nat
  BY <1>1 DEF NetTypes, Requests
<1>4. NetTypes'
  BY <1>1, <1>2, <1>3 DEF NetTypes, flagVars
<1>5. Unopened'
  BY <1>1, <1>2 DEF Unopened
<1>6. Flags'
  BY <1>1, <1>2 DEF NetInv, Flags, flagVars
<1>7. Progress => live /\ ~gone /\ (0 \notin Targets => want = request.pos)
  BY <1>1, <1>3 DEF Progress, Pending
<1>8. Progress => Progress'
  BY <1>1, <1>2, <1>3, <1>7 DEF Progress, Pending, flagVars
<1>9. Progress /\ 0 \notin Targets => at' = want /\ want' \in want + 1 .. Size
  BY <1>2, <1>3, <1>7
<1> QED BY <1>1, <1>2, <1>4, <1>5, <1>6, <1>7, <1>8, <1>9 DEF NetInv

LEMMA WriteReturnsNet == ASSUME NetInv, WriteReturns PROVE NetInv'
<1>1. /\ NetTypes /\ frame = "write" /\ request.state = "running" /\ ~nested /\ opened
      /\ ~deleted /\ (~stop => ~reopen /\ ~closing) /\ request.pos + chunk <= Size
      /\ closing => gone /\ ~reopen
  BY DEF WriteReturns, NetInv, Flags, Unopened
<1>2. /\ UNCHANGED <<opened, flagVars, current_start, nested, deleted, ends_idle, ownerVars>>
      /\ callback' = FALSE /\ frame' = "none" /\ chunk' = 0
  BY DEF WriteReturns
<1>3. PICK err \in {"ok", "IO"} :
        request' = IF WriteResult(err) = "ok"
                     THEN [request EXCEPT !.pos = @ + chunk]
                     ELSE [request EXCEPT !.state = "failed", !.error = WriteResult(err)]
  BY DEF WriteReturns
<1>4. chunk \in Nat /\ request.pos \in Nat /\ request \in Requests /\ want \in Nat
  BY <1>1 DEF NetTypes, Requests
<1>5. Unopened'
  BY <1>1, <1>2 DEF Unopened
<1>6. CASE WriteResult(err) = "ok"
  <2>1. ~stop
    BY <1>6 DEF WriteResult
  <2>2. request' = [request EXCEPT !.pos = request.pos + chunk]
    BY <1>3, <1>6
  <2>3. request.pos + chunk \in 0..Size
    BY <1>1, <1>4
  <2>4. /\ request' \in Requests /\ request'.state = "running"
        /\ request'.pos = request.pos + chunk
    BY <1>1, <1>4, <2>2, <2>3 DEF Requests
  <2>5. NetTypes'
    BY <1>1, <1>2, <2>4 DEF NetTypes, flagVars, ownerVars
  <2>6. Flags'
    BY <1>1, <1>2, <2>1, <2>4 DEF Flags, flagVars, ownerVars
  <2>7. Progress => Progress'
    BY <1>1, <1>2, <1>4, <2>1, <2>4 DEF Progress, Pending, flagVars, ownerVars
  <2> QED BY <1>2, <1>5, <2>5, <2>6, <2>7 DEF NetInv
<1>7. CASE WriteResult(err) # "ok"
  <2>1. WriteResult(err) \in Ends
    BY DEF WriteResult, Ends
  <2>2. request' \in Requests /\ request'.state = "failed"
    BY <1>3, <1>4, <1>7, <2>1 DEF Requests
  <2>3. NetTypes'
    BY <1>1, <1>2, <2>2 DEF NetTypes, flagVars, ownerVars
  <2>4. Flags'
    BY <1>1, <1>2, <2>2 DEF Flags, flagVars, ownerVars
  <2>5. Progress => Progress'
    BY <1>1, <1>2, <2>2 DEF Progress, Pending, flagVars, ownerVars
  <2> QED BY <1>2, <1>5, <2>3, <2>4, <2>5 DEF NetInv
<1> QED BY <1>6, <1>7

(* A request that ends after a seek is started again where it was asked to.*)
LEMMA RequestEndsNet == ASSUME NetInv, NEW error \in Ends, RequestEnds(error) PROVE NetInv'
<1>1. /\ NetTypes /\ frame = "none" /\ Pending /\ ~nested /\ ~deleted /\ ~callback /\ opened
      /\ closing => gone /\ ~reopen
  BY DEF RequestEnds, LoopIdle, NetInv, Flags, Unopened, Pending
<1>2. UNCHANGED <<opened, closing, current_start, chunk, nested, ends_idle, want, at, gone>>
  BY DEF RequestEnds
<1>3. live' \in BOOLEAN /\ (frame' = "none" => live' = live)
  BY <1>1 DEF RequestEnds, Told, NetTypes
<1>4. Unopened'
  BY <1>1, <1>2 DEF Unopened
<1>5. CASE reopen /\ Restarted(current_start)
  <2>1. NetTypes'
    BY <1>1, <1>2, <1>3, <1>5 DEF NetTypes, Restarted
  <2>2. Flags'
    BY <1>1, <1>2, <1>5 DEF Flags, Restarted
  <2>3. Progress => Progress'
    <3> SUFFICES ASSUME Progress PROVE Progress'
      OBVIOUS
    <3>1. want = current_start /\ (want = 0 => 0 \in Targets) /\ live /\ ~gone
      BY <1>1, <1>5 DEF Progress
    <3>2. (0 \notin Targets => request'.pos = want) /\ want \in Nat
      BY <1>1, <1>5, <3>1 DEF Restarted, RangeFrom, NetTypes
    <3> QED BY <1>1, <1>2, <1>3, <1>5, <3>1, <3>2 DEF Progress, Restarted
  <2> QED BY <1>2, <1>4, <2>1, <2>2, <2>3 DEF NetInv
<1>6. CASE Ended(reopen, closing)
  <2>1. NetTypes'
    BY <1>1, <1>2, <1>3, <1>6 DEF NetTypes, Ended
  <2>2. Flags'
    BY <1>1, <1>2, <1>6 DEF Flags, Ended
  <2>3. Progress => Progress'
    BY <1>1, <1>2, <1>6 DEF Progress, Pending, Ended
  <2> QED BY <1>2, <1>4, <2>1, <2>2, <2>3 DEF NetInv
<1>7. /\ reopen \in BOOLEAN /\ stop \in BOOLEAN /\ closing \in BOOLEAN
      /\ current_start \in 0..Size
  BY <1>1 DEF NetTypes
<1> QED BY <1>1, <1>5, <1>6, <1>7, DoneCbOutcome DEF RequestEnds

LEMMA DoneReturnsNet == ASSUME NetInv, DoneReturns PROVE NetInv'
<1>1. /\ UNCHANGED <<opened, flagVars, current_start, request, chunk, nested, deleted,
                     ends_idle, ownerVars>>
      /\ frame = "done" /\ callback' = FALSE /\ frame' = "none"
  BY DEF DoneReturns
<1>2. NetTypes /\ request.state = "idle" /\ opened /\ ~deleted
  BY <1>1 DEF NetInv, Flags, Unopened
<1>3. NetTypes'
  BY <1>1, <1>2 DEF NetTypes, flagVars, ownerVars
<1>4. Unopened'
  BY <1>1, <1>2 DEF Unopened
<1>5. Flags'
  BY <1>1, <1>2 DEF NetInv, Flags, flagVars, ownerVars
<1>6. Progress => Progress'
  BY <1>1, <1>2 DEF Progress, Pending, flagVars, ownerVars
<1> QED BY <1>1, <1>3, <1>4, <1>5, <1>6 DEF NetInv

LEMMA NetStep == NetInv /\ [Next]_vars => NetInv'
<1> SUFFICES ASSUME NetInv, [Next]_vars PROVE NetInv'
  OBVIOUS
<1>1. CASE UNCHANGED vars
  BY <1>1 DEF NetInv, NetTypes, Unopened, Flags, Progress, Pending, vars, flagVars, ownerVars
<1>2. CASE OwnerStep
  BY <1>2, OpenNet, SeekNet, PauseNet, AbortNet, CloseNet DEF OwnerStep
<1>3. CASE LibraryStep
  BY <1>3, WriteCbNet, RequestEndsNet, CloseRequestNet DEF LibraryStep
<1>4. CASE ReturnStep
  BY <1>4, WriteReturnsNet, DoneReturnsNet DEF ReturnStep
<1> QED BY <1>1, <1>2, <1>3, <1>4 DEF Next, Halted

(* The flags carry every wish of the owner to the end of the request. *)
THEOREM NetStreamCorrect == Spec => []NetInv
BY InitNet, NetStep, PTL DEF Spec

(* When the callback in which a seek, an abort or a close was asked for    *)
(* has returned, no request is left running that ignores it (net.cc:20,    *)
(* 31).                                                                    *)
THEOREM NetWishesAreObeyed == Spec => []WishesAreObeyed
<1>1. NetInv => WishesAreObeyed
  BY DEF NetInv, Flags, WishesAreObeyed
<1> QED BY <1>1, NetStreamCorrect, PTL

(* A stream deletes itself only when its owner has closed it, its request  *)
(* has ended and no callback of it is on the stack (net.cc:38).            *)
THEOREM NetDeletedLast == Spec => []DeletedLast
<1>1. NetInv => DeletedLast
  BY DEF NetInv, Flags, DeletedLast
<1> QED BY <1>1, NetStreamCorrect, PTL

(* A step calls the done callback only if a request was still to end, or   *)
(* the library ends idle ones, too.                                        *)
LEMMA DoneOnceStep ==
  ASSUME NetInv, [Next]_vars, frame # "done", frame' = "done" PROVE live \/ ends_idle
<1>1. NetTypes /\ (Pending => live \/ ends_idle)
  BY DEF NetInv, Progress
<1>2. request.state = "running" => live \/ ends_idle
  BY <1>1 DEF Pending
<1>3. ASSUME NEW o \in Targets, Seek(o) PROVE live \/ ends_idle
  <2>1. CASE callback
    BY <1>3, <2>1 DEF Seek, SeekInside
  <2>2. CASE ~callback
    BY <1>1, <1>2, <1>3, <2>2, EndRequestOutcome DEF Seek, Restarted
  <2> QED BY <2>1, <2>2
<1>4. CASE Aborted
  BY <1>1, <1>2, <1>4, AbortedOutcome DEF Restarted
<1>5. CASE Close
  <2>1. CASE callback
    BY <1>5, <2>1 DEF Close, CloseInside, Abandoned
  <2>2. CASE ~callback
    <3>1. reopen \in BOOLEAN /\ current_start \in 0..Size
      BY <1>1 DEF NetTypes
    <3> QED BY <1>1, <1>2, <1>5, <2>2, <3>1, EndRequestOutcome DEF Close, Restarted
  <2> QED BY <2>1, <2>2
<1>6. ASSUME NEW error \in Ends, RequestEnds(error) PROVE live \/ ends_idle
  BY <1>1, <1>6 DEF RequestEnds, Pending
<1>7. CASE OwnerStep
  BY <1>3, <1>4, <1>5, <1>7 DEF OwnerStep, Open, Abort, Pause
<1>8. CASE LibraryStep
  BY <1>6, <1>8 DEF LibraryStep, WriteCb, CloseRequest
<1>9. CASE ReturnStep
  BY <1>9 DEF ReturnStep, WriteReturns, DoneReturns
<1> QED BY <1>7, <1>8, <1>9 DEF Next, Halted, vars

(* The owner is told of the end once (net.cc:40). *)
THEOREM NetDoneOnce == Spec => DoneOnce
<1>1. NetInv /\ [Next]_vars
        => [frame # "done" /\ frame' = "done" => live \/ ends_idle]_vars
  BY DoneOnceStep
<1> QED BY <1>1, NetStreamCorrect, PTL DEF Spec, DoneOnce

-----------------------------------------------------------------------------
(* The owner's view is the contract of a stream *)

LEMMA InitContract == Init => Contract!Init
BY DEF Init, Contract!Init

(* The owner's view of a step that may tell it of an end. *)
LEMMA TellContract ==
  ASSUME NetInv, [Next]_vars, ~ends_idle, Told, opened, UNCHANGED <<opened, want, at, gone>>
  PROVE  [Contract!Next]_Contract!vars
<1>1. live \in BOOLEAN
  BY DEF NetInv, NetTypes
<1>2. live' = live \/ (live /\ ~live')
  BY <1>1, DoneOnceStep DEF Told
<1>3. CASE live' = live
  BY <1>3 DEF Contract!vars
<1>4. CASE live /\ ~live'
  BY <1>4 DEF Contract!Next, Contract!End, Contract!vars
<1> QED BY <1>2, <1>3, <1>4

LEMMA OwnerContract ==
  ASSUME NetInv, [Next]_vars, ~ends_idle, OwnerStep PROVE [Contract!Next]_Contract!vars
<1>1. CASE Open
  <2>1. ~gone /\ ~live /\ ~opened /\ UNCHANGED <<want, at, gone>>
    BY <1>1 DEF Open, NetInv, Unopened
  <2>2. CASE opened' = TRUE /\ live' = TRUE
    BY <2>1, <2>2 DEF Contract!Next, Contract!Open
  <2>3. CASE opened' = TRUE /\ live' = FALSE
    BY <2>1, <2>3 DEF Contract!Next, Contract!End
  <2>4. CASE UNCHANGED <<opened, live>>
    BY <2>1, <2>4 DEF Contract!vars
  <2> QED BY <1>1, <2>2, <2>3, <2>4 DEF Open
<1>2. ASSUME NEW o \in Targets, Seek(o) PROVE Contract!Next
  <2>1. ~gone /\ opened /\ UNCHANGED <<opened, at, gone>> /\ want' = o /\ o \in 0..Size
    BY <1>2 DEF Seek, MayCall
  <2> QED BY <2>1 DEF Contract!Next, Contract!Seek
<1>3. CASE Abort
  BY <1>3, TellContract DEF Abort, MayCall
<1>4. ASSUME NEW paused \in BOOLEAN, Pause(paused) PROVE [Contract!Next]_Contract!vars
  <2>1. opened /\ UNCHANGED <<opened, want, at, gone>>
    BY <1>4 DEF Pause, MayCall
  <2>2. CASE live' = live
    BY <2>1, <2>2 DEF Contract!vars
  <2>3. CASE Told
    BY <2>1, <2>3, TellContract
  <2> QED BY <1>4, <2>2, <2>3 DEF Pause
<1>5. CASE Close
  BY <1>5 DEF Close, Contract!Next, Contract!Close
<1> QED BY <1>1, <1>2, <1>3, <1>4, <1>5 DEF OwnerStep

LEMMA ContractStep ==
  ASSUME 0 \notin Targets
  PROVE  NetInv /\ [Next]_vars => ends_idle \/ [Contract!Next]_Contract!vars
<1> SUFFICES ASSUME NetInv, [Next]_vars, ~ends_idle PROVE [Contract!Next]_Contract!vars
  OBVIOUS
<1>1. CASE UNCHANGED vars
  BY <1>1 DEF vars, ownerVars, Contract!vars
<1>2. CASE OwnerStep
  BY <1>2, OwnerContract
<1>3. ASSUME NEW n \in Chunks, WriteCb(n) PROVE Contract!Next
  <2>1. UNCHANGED <<opened, live, gone>>
    BY <1>3 DEF WriteCb
  <2> QED BY <1>3, <2>1, WriteCbNet DEF Contract!Next, Contract!Deliver
<1>4. ASSUME NEW error \in Ends, RequestEnds(error) PROVE [Contract!Next]_Contract!vars
  <2>1. opened
    BY <1>4 DEF RequestEnds, NetInv, Unopened
  <2> QED BY <1>4, <2>1, TellContract DEF RequestEnds
<1>5. CASE CloseRequest \/ WriteReturns \/ DoneReturns
  <2>1. CASE CloseRequest
    BY <2>1 DEF CloseRequest, ownerVars, Contract!vars
  <2>2. CASE WriteReturns
    BY <2>2 DEF WriteReturns, ownerVars, Contract!vars
  <2>3. CASE DoneReturns
    BY <2>3 DEF DoneReturns, ownerVars, Contract!vars
  <2> QED BY <1>5, <2>1, <2>2, <2>3
<1> QED BY <1>1, <1>2, <1>3, <1>4, <1>5 DEF Next, LibraryStep, ReturnStep, Halted

(* Whatever callbacks its owner seeks, aborts and closes from, the stream  *)
(* delivers consecutive chunks from the offset asked for last and nothing  *)
(* after the end or a close (net.cc:28, 102).  The owner does not seek to  *)
(* the start of the resource, where a stale Range header would move it     *)
(* (net.cc:88).                                                            *)
THEOREM NetImplementsContract == ASSUME 0 \notin Targets PROVE Spec => ImplementsContract
<1>1. Init => Contract!Init
  BY InitContract
<1>2. NetInv /\ [Next]_vars => (ends_idle \/ [Contract!Next]_Contract!vars)
  BY ContractStep
<1>3. NetInv /\ [Next]_vars => [ends_idle \/ [Contract!Next]_Contract!vars]_vars
  BY <1>2
<1> QED BY <1>1, <1>3, NetStreamCorrect, PTL DEF Spec, ImplementsContract
=============================================================================
