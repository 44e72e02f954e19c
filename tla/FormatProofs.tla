---------------------------- MODULE FormatProofs ----------------------------
(***************************************************************************)
(* The properties of Format, for files of every size and whichever side    *)
(* closes: nothing is left behind by a close, and a file goes to the       *)
(* demuxer of its format.                                                  *)
(***************************************************************************)
EXTENDS Format, TLAPS

Probes == {"probe1", "probe2"}
Errors == {None, "EOF", "FAILED", "ABORTED"}

Readers ==
  [set : BOOLEAN, off : Nat, skew : Int, need : Int, peek : Nat, peeking : BOOLEAN,
   input : Int, saved : Int, base : Int, fault : BOOLEAN, err : Errors, status : Errors,
   waiting : BOOLEAN, vain : BOOLEAN, callback : BOOLEAN, closing : BOOLEAN]

(* The types that the argument needs. *)
TypeOK ==
  /\ reader \in Readers
  /\ got \in Nat /\ first \in Nat
  /\ file.kind \in {"isom", "matroska", "other"}

(* A suspended call waits in the reader, for a stream that is going to end *)
(* or, in a demuxer, in vain; the stream of a probe is going to end.       *)
Waiting ==
  /\ reader.waiting => running = "loop" /\ pc \in InDemuxer \union Probes /\ (Active \/ reader.vain)
  /\ reader.vain => reader.waiting /\ pc \in InDemuxer /\ ~Active
  /\ running = "loop" => (pc \in InDemuxer \union Probes => reader.waiting) /\ pc # "opening"
  /\ pc \in Probes => reader.status # None \/ Active

(* What has been set up when the worker gets somewhere. *)
Order ==
  /\ pc \in {"start", "opening"} => /\ stream = "none" /\ loop = "idle"
                                  /\ reader = FirstReader /\ got = 0 /\ first = 0
  /\ pc \in InDemuxer \union Probes \union {"opened"} => reader.set
  /\ pc = "closing" => reader.closing /\ (running = "worker" => stream = "closed")
  /\ reader.closing => pc \in {"closing", "closed"}

(* The byte at hand has been delivered, or the worker waits for it, or has *)
(* an error, which comes from the stream.                                  *)
ReadHead ==
  /\ reader.err # None => reader.status # None
  /\ reader.skew >= 0
  /\ ~reader.waiting /\ reader.err = None => reader.off + reader.skew <= got
  /\ reader.waiting => reader.need > 0 /\ reader.off + reader.skew = got + reader.need

(* The first probe starts at the first byte.  A rewind goes back to there, *)
(* or past a chunk that was shorter than one read: a chunk on which a read *)
(* has ended is saved when the worker waits again.                         *)
Probed ==
  /\ pc \in Probes => reader.peeking /\ reader.peek = 0 /\ reader.input >= 0 /\ reader.saved >= 0
  /\ pc \in Probes => reader.base >= 0 /\ reader.base <= got
  /\ pc = "probe1" => reader.skew = 0 /\ reader.base <= 1 /\ reader.off \in {0, 2, 4}
  /\ pc = "probe2" => reader.skew <= 1 /\ reader.off \in {0, 1, 2}
  /\ pc = "probe2" => file.kind # "isom" \/ reader.status # None

IsSaved ==
  pc = "probe1" =>
    /\ got > 0 => reader.saved + reader.input > 0
    /\ running = "worker" /\ reader.status = None /\ got > 0 => loop = "callback"
    /\ reader.waiting /\ (got = 0 \/ (reader.saved = 0 /\ loop # "callback")) => reader.off <= 2

(* Probes that have a long first chunk need no other, and keep it. *)
Whole ==
  pc \in Probes =>
    /\ first = 0 => /\ got = 0 /\ reader.input = 0
                    /\ reader.saved = 0 /\ reader.base = 0 /\ reader.skew = 0
    /\ first > 4 => /\ reader.saved = 0 /\ reader.base = 0 /\ reader.skew = 0
                    /\ got > 4 /\ ~reader.waiting

(* A worker that the loop's close has driven out of a wait finds an end    *)
(* wherever it reads, and cannot seek: it has an error, or what a probe    *)
(* has left is shorter than a header.                                      *)
DrivenOut ==
  loop = "closing" =>
    /\ reader.set /\ stream = "closed" /\ reader.status # None /\ ~reader.waiting
    /\ \/ got < 4
       \/ reader.err # None /\ pc \notin Probes \union {"start", "opening"}

(* A format that has been closed does not go on. *)
Closed ==
  demuxer = "deleted" =>
    /\ pc \notin Probes \union {"start", "opening"}
    /\ pc \in InDemuxer => reader.waiting /\ reader.vain
    /\ reader.set => stream = "closed"

Progress == ReadHead /\ Probed /\ IsSaved /\ Whole

FormatInv == TypeOK /\ Waiting /\ Order /\ Progress /\ DrivenOut /\ Closed

-----------------------------------------------------------------------------
(* The probes need eight bytes, and then four. *)
LEMMA Lists ==
  /\ ProbeLength[1] = 4 /\ ProbeLength[2] = 2 /\ ProbeRead[1] = 2 /\ ProbeRead[2] = 1
  /\ Formats[1] = "isom" /\ Formats[2] = "matroska" /\ Len(Formats) = 2
BY DEF ProbeLength, ProbeRead, Formats

LEMMA FieldTypes ==
  ASSUME TypeOK
  PROVE  /\ reader.off \in Nat /\ reader.peek \in Nat /\ got \in Nat /\ first \in Nat
         /\ reader.skew \in Int /\ reader.need \in Int /\ reader.input \in Int
         /\ reader.saved \in Int /\ reader.base \in Int
         /\ reader.err \in Errors /\ reader.status \in Errors
BY DEF TypeOK, Readers

LEMMA InitInv == Init => FormatInv
BY DEF Init, FormatInv, TypeOK, Readers, Errors, Waiting, Order, Progress, ReadHead, Probed,
  IsSaved, Whole, DrivenOut, Closed, InDemuxer, Probes, FirstReader, None

LEMMA ReadInv ==
  ASSUME NEW n \in Wanted, FormatInv, Read(n)
  PROVE  FormatInv'
<1> DEFINE end == reader.off + reader.skew + n
<1>a. /\ reader \in Readers /\ reader.off \in Nat /\ reader.skew \in Int /\ reader.skew >= 0
      /\ got \in Nat /\ first \in Nat /\ reader.err = None /\ ~reader.waiting
      /\ reader.off + reader.skew <= got /\ running = "worker"
  BY FieldTypes DEF Read, FormatInv, TypeOK, Waiting, Progress, ReadHead
<1>b. /\ n \in {1, 2} /\ pc \in InDemuxer \union Probes
      /\ pc = "probe1" => n = 2 /\ reader.off \in {0, 2}
      /\ pc = "probe2" => n = 1 /\ reader.off \in {0, 1}
  BY <1>a, Lists DEF Wanted, Probing, At, ProbeIsOver, InDemuxer, Probes, FormatInv, Progress,
    Probed
<1>c. /\ UNCHANGED <<file, closer, stream, got, first, demuxer, parser, pc, loop>>
      /\ \/ reader' = [reader EXCEPT !.off = @ + n] /\ running' = running /\ end <= got
         \/ /\ reader' = [reader EXCEPT !.off = @ + n, !.err = reader.status]
            /\ running' = running /\ reader.status # None
         \/ /\ reader' = [reader EXCEPT !.off = @ + n, !.waiting = TRUE, !.vain = ~Active,
                                       !.need = end - got]
            /\ running' = "loop" /\ end > got /\ reader.status = None
  BY <1>a, <1>b DEF Read
<1>d. /\ reader'.off = reader.off + n /\ reader'.off \in Nat
      /\ reader' \in Readers
      /\ reader'.set = reader.set /\ reader'.skew = reader.skew /\ reader'.peek = reader.peek
      /\ reader'.peeking = reader.peeking /\ reader'.input = reader.input
      /\ reader'.saved = reader.saved /\ reader'.base = reader.base
      /\ reader'.fault = reader.fault /\ reader'.status = reader.status
      /\ reader'.closing = reader.closing /\ reader'.callback = reader.callback
  <2>1. reader.off + n \in Nat /\ end - got \in Int /\ reader.status \in Errors
    BY <1>a, <1>b, FieldTypes DEF FormatInv
  <2>2. CASE reader' = [reader EXCEPT !.off = @ + n]
    BY <1>a, <2>1, <2>2 DEF Readers
  <2>3. CASE reader' = [reader EXCEPT !.off = @ + n, !.err = reader.status]
    BY <1>a, <2>1, <2>3 DEF Readers
  <2>4. CASE reader' = [reader EXCEPT !.off = @ + n, !.waiting = TRUE, !.vain = ~Active,
                                    !.need = end - got]
    <3>1. (~Active) \in BOOLEAN
      BY DEF Active
    <3> QED BY <1>a, <2>1, <2>4, <3>1 DEF Readers
  <2> QED BY <1>c, <2>2, <2>3, <2>4
<1>1. TypeOK'
  BY <1>c, <1>d DEF FormatInv, TypeOK
<1>2. Waiting'
  <2>1. pc' = pc /\ stream' = stream /\ reader'.status = reader.status
    BY <1>c, <1>d
  <2>2. CASE running' = running
    BY <1>a, <1>c, <2>1, <2>2 DEF Waiting, FormatInv, Active, Readers
  <2>3. CASE running' # running
    <3>1. reader'.waiting /\ running' = "loop" /\ reader'.vain = ~Active /\ reader.status = None
      BY <1>a, <1>c, <2>3 DEF Readers
    <3>2. pc \in Probes => Active
      BY <3>1 DEF FormatInv, Waiting
    <3> QED BY <1>b, <2>1, <3>1, <3>2 DEF Waiting, Active, InDemuxer, Probes
  <2> QED BY <2>2, <2>3
<1>3. Order'
  BY <1>b, <1>c, <1>d DEF FormatInv, Order, InDemuxer, Probes
<1>4. ReadHead'
  <2>1. CASE running' = running /\ end <= got /\ reader' = [reader EXCEPT !.off = @ + n]
    BY <1>a, <1>b, <1>c, <2>1 DEF ReadHead, FormatInv, Progress, Readers
  <2>2. CASE reader.status # None /\ reader' = [reader EXCEPT !.off = @ + n, !.err = reader.status]
    BY <1>a, <1>c, <2>2 DEF ReadHead, FormatInv, Progress, Readers
  <2>3. CASE /\ end > got
             /\ reader' = [reader EXCEPT !.off = @ + n, !.waiting = TRUE, !.vain = ~Active,
                                        !.need = end - got]
    BY <1>a, <1>b, <1>c, <2>3 DEF ReadHead, FormatInv, Progress, Readers
  <2> QED BY <1>c, <2>1, <2>2, <2>3
<1>5. Probed' /\ IsSaved' /\ Whole'
  <2>1. Probed'
    BY <1>b, <1>c, <1>d DEF FormatInv, Progress, Probed, Probes
  <2>2. IsSaved'
    <3>1. CASE ~reader'.waiting
      BY <1>a, <1>c, <1>d, <3>1 DEF FormatInv, Progress, IsSaved
    <3>2. CASE reader'.waiting
      <4>1. reader.status = None /\ running' = "loop"
        BY <1>a, <1>c, <3>2 DEF Readers
      <4>2. pc = "probe1" /\ got = 0 => reader'.off <= 2
        BY <1>a, <1>b, <1>d DEF FormatInv, Progress, Probed
      <4>3. pc = "probe1" /\ got > 0 => loop = "callback" /\ reader.saved + reader.input > 0
        BY <1>a, <4>1 DEF FormatInv, Progress, IsSaved
      <4> QED BY <1>a, <1>c, <1>d, <4>1, <4>2, <4>3 DEF IsSaved
    <3> QED BY <3>1, <3>2
  <2>3. Whole'
    <3>1. pc \in Probes /\ first > 4 => ~reader'.waiting
      <4> HAVE pc \in Probes /\ first > 4
      <4>1. got > 4 /\ reader.skew = 0
        BY DEF FormatInv, Progress, Whole
      <4>2. end <= 4
        BY <1>a, <1>b, <4>1 DEF Probes
      <4>3. ~(end > got)
        BY <1>a, <1>b, <4>1, <4>2
      <4> QED BY <1>a, <1>c, <4>3 DEF Readers
    <3> QED BY <1>c, <1>d, <3>1 DEF FormatInv, Progress, Whole
  <2> QED BY <2>1, <2>2, <2>3
<1>6. DrivenOut'
  <2> SUFFICES ASSUME loop = "closing" PROVE DrivenOut'
    BY <1>c DEF DrivenOut
  <2>1. reader.status # None /\ got < 4 /\ reader.set /\ stream = "closed"
    BY <1>a DEF FormatInv, DrivenOut
  <2>2. ~reader'.waiting
    BY <1>a, <1>c, <2>1 DEF Readers
  <2> QED BY <1>c, <1>d, <2>1, <2>2 DEF DrivenOut
<1>7. Closed'
  BY <1>a, <1>b, <1>c, <1>d DEF FormatInv, Closed
<1> QED BY <1>1, <1>2, <1>3, <1>4, <1>5, <1>6, <1>7 DEF FormatInv, Progress

LEMMA ReadFaultsInv ==
  ASSUME NEW n \in Wanted, FormatInv, ReadFaults(n)
  PROVE  FormatInv'
<1>a. pc \in InDemuxer \union Probes
  BY DEF Wanted, Probing, At, InDemuxer, Probes
<1>1. TypeOK'
  BY DEF ReadFaults, FormatInv, TypeOK
<1>2. Waiting'
  BY DEF ReadFaults, FormatInv, Waiting, InDemuxer, Probes, Active
<1>3. Order'
  BY <1>a DEF ReadFaults, FormatInv, Order, InDemuxer, Probes
<1>4. Progress'
  BY DEF ReadFaults, FormatInv, Progress, ReadHead, Probed, IsSaved, Whole, Probes
<1>5. DrivenOut'
  BY DEF ReadFaults, FormatInv, DrivenOut, Probes
<1>6. Closed'
  BY <1>a DEF ReadFaults, FormatInv, Closed, InDemuxer, Probes
<1> QED BY <1>1, <1>2, <1>3, <1>4, <1>5, <1>6 DEF FormatInv

LEMMA StreamWritesInv ==
  ASSUME NEW n \in 1..Size, FormatInv, StreamWrites(n)
  PROVE  FormatInv'
<1> DEFINE base == IF reader.saved = 0 THEN got ELSE reader.base
<1>a. /\ reader \in Readers /\ reader.off \in Nat /\ reader.skew \in Int /\ reader.skew >= 0
      /\ got \in Nat /\ first \in Nat /\ reader.need \in Int /\ reader.need > 0
      /\ reader.base \in Int /\ reader.saved \in Int /\ reader.waiting
      /\ reader.off + reader.skew = got + reader.need
      /\ n \in Nat /\ n > 0
      /\ pc \in InDemuxer \union Probes /\ running = "loop" /\ loop = "idle"
      /\ stream = "running"
  BY FormatAssumption, FieldTypes DEF StreamWrites, FormatInv, TypeOK, Waiting, Progress,
    ReadHead
<1>b. /\ UNCHANGED <<file, closer, stream, demuxer, parser, pc>>
      /\ got' = got + n /\ first' = IF first = 0 THEN n ELSE first
  BY DEF StreamWrites
<1>c. /\ Noted(reader, n) \in Readers
      /\ Noted(reader, n).set = reader.set /\ Noted(reader, n).off = reader.off
      /\ Noted(reader, n).skew = reader.skew /\ Noted(reader, n).need = reader.need
      /\ Noted(reader, n).peek = reader.peek /\ Noted(reader, n).peeking = reader.peeking
      /\ Noted(reader, n).saved = reader.saved /\ Noted(reader, n).fault = reader.fault
      /\ Noted(reader, n).err = reader.err /\ Noted(reader, n).status = reader.status
      /\ Noted(reader, n).waiting = reader.waiting /\ Noted(reader, n).vain = reader.vain
      /\ Noted(reader, n).callback = reader.callback
      /\ Noted(reader, n).closing = reader.closing
      /\ reader.peeking => Noted(reader, n).input = n /\ Noted(reader, n).base = base
  <2>1. CASE ~reader.peeking
    BY <1>a, <2>1 DEF Noted
  <2>2. CASE reader.peeking
    <3>1. Noted(reader, n) = [reader EXCEPT !.input = n, !.base = base]
      BY <1>a, <2>2 DEF Noted, Readers
    <3>2. base \in Int /\ n \in Int
      BY <1>a
    <3> HIDE DEF base
    <3> QED BY <1>a, <3>1, <3>2 DEF Readers
  <2> QED BY <2>1, <2>2
<1>n. reader.need - n \in Int
  BY <1>a
<1>d. /\ reader' \in Readers
      /\ reader'.set = reader.set /\ reader'.off = reader.off /\ reader'.skew = reader.skew
      /\ reader'.peek = reader.peek /\ reader'.peeking = reader.peeking
      /\ reader'.saved = reader.saved /\ reader'.fault = reader.fault
      /\ reader'.err = reader.err /\ reader'.status = reader.status
      /\ reader'.closing = reader.closing
      /\ reader.peeking => reader'.input = n /\ reader'.base = base
      /\ \/ /\ n < reader.need /\ running' = running /\ loop' = loop
            /\ reader'.need = reader.need - n /\ reader'.waiting /\ reader'.vain = reader.vain
         \/ /\ n >= reader.need /\ running' = "worker" /\ loop' = "callback"
            /\ ~reader'.waiting /\ reader'.vain = reader.vain
  <2>1. CASE n < reader.need
    <3>1. /\ reader' = [Noted(reader, n) EXCEPT !.need = @ - n]
          /\ running' = running /\ loop' = loop
      BY <2>1 DEF StreamWrites
    <3> HIDE DEF base
    <3> QED BY <1>a, <1>c, <1>n, <2>1, <3>1 DEF Readers
  <2>2. CASE ~(n < reader.need)
    <3>1. /\ reader' = [Noted(reader, n) EXCEPT !.need = 0, !.waiting = FALSE, !.callback = TRUE]
          /\ running' = "worker" /\ loop' = "callback"
      BY <2>2 DEF StreamWrites, ToWorker
    <3> HIDE DEF base
    <3>2. 0 \in Int
      OBVIOUS
    <3>3. reader' \in Readers
      BY <1>c, <3>1, <3>2, ZenonT(30) DEF Readers
    <3>4. /\ reader'.set = Noted(reader, n).set /\ reader'.off = Noted(reader, n).off
          /\ reader'.skew = Noted(reader, n).skew /\ reader'.peek = Noted(reader, n).peek
          /\ reader'.peeking = Noted(reader, n).peeking /\ reader'.saved = Noted(reader, n).saved
          /\ reader'.fault = Noted(reader, n).fault /\ reader'.err = Noted(reader, n).err
          /\ reader'.status = Noted(reader, n).status /\ reader'.base = Noted(reader, n).base
          /\ reader'.closing = Noted(reader, n).closing /\ reader'.input = Noted(reader, n).input
          /\ reader'.vain = Noted(reader, n).vain /\ ~reader'.waiting
      BY <1>c, <3>1 DEF Readers
    <3> QED BY <1>a, <1>c, <2>2, <3>1, <3>3, <3>4
  <2> QED BY <2>1, <2>2
<1>1. TypeOK'
  BY <1>a, <1>b, <1>d DEF FormatInv, TypeOK
<1>2. Waiting'
  BY <1>a, <1>b, <1>d DEF FormatInv, Waiting, Active, InDemuxer, Probes
<1>3. Order'
  BY <1>a, <1>b, <1>d DEF FormatInv, Order, InDemuxer, Probes
<1>4. ReadHead'
  BY <1>a, <1>b, <1>d DEF FormatInv, Progress, ReadHead
<1>p. pc \in Probes =>
        /\ reader.peeking /\ reader.saved >= 0 /\ reader.base >= 0 /\ reader.base <= got
        /\ pc = "probe1" => reader.skew = 0 /\ reader.base <= 1 /\ reader.off \in {0, 2, 4}
        /\ pc = "probe2" => reader.skew <= 1 /\ reader.off \in {0, 1, 2}
        /\ pc = "probe1" /\ reader.saved = 0 => got <= 1
  BY <1>a DEF FormatInv, Progress, Probed, IsSaved
<1>5. Probed'
  BY <1>a, <1>b, <1>d, <1>p DEF FormatInv, Progress, Probed, Probes
<1>6. IsSaved'
  <2> SUFFICES ASSUME pc = "probe1" PROVE IsSaved'
    BY <1>b DEF IsSaved
  <2>1. reader'.input = n /\ reader'.saved = reader.saved /\ reader.saved >= 0
    BY <1>d, <1>p DEF Probes
  <2>2. reader.saved = 0 /\ loop # "callback" => reader.off <= 2
    BY <1>a DEF FormatInv, Progress, IsSaved
  <2> QED BY <1>a, <1>b, <1>d, <2>1, <2>2 DEF IsSaved
<1>7. Whole'
  <2> SUFFICES ASSUME pc \in Probes PROVE Whole'
    BY <1>b DEF Whole
  <2>1. first <= 4 /\ (first = 0 => got = 0 /\ reader.saved = 0 /\ reader.skew = 0)
    BY <1>a DEF FormatInv, Progress, Whole
  <2>2. first' > 4 => first = 0 /\ n > 4
    BY <1>a, <1>b, <2>1
  <2>3. reader.off <= 4
    BY <1>p DEF Probes
  <2> QED BY <1>a, <1>b, <1>d, <1>p, <2>1, <2>2, <2>3 DEF Whole
<1>8. DrivenOut'
  BY <1>a, <1>d DEF DrivenOut
<1>9. Closed'
  BY <1>a, <1>b, <1>d DEF FormatInv, Closed, InDemuxer, Probes, Order
<1> QED BY <1>1, <1>2, <1>3, <1>4, <1>5, <1>6, <1>7, <1>8, <1>9 DEF FormatInv, Progress

(* What Done changes. *)
LEMMA DoneFacts ==
  ASSUME reader \in Readers, NEW error \in Errors \ {None}
  PROVE  /\ Done(reader, error) \in Readers
         /\ Done(reader, error).set = reader.set /\ Done(reader, error).off = reader.off
         /\ Done(reader, error).skew = reader.skew /\ Done(reader, error).need = reader.need
         /\ Done(reader, error).peek = reader.peek
         /\ Done(reader, error).peeking = reader.peeking
         /\ Done(reader, error).input = reader.input /\ Done(reader, error).saved = reader.saved
         /\ Done(reader, error).base = reader.base /\ Done(reader, error).fault = reader.fault
         /\ Done(reader, error).vain = reader.vain
         /\ Done(reader, error).closing = reader.closing
         /\ Done(reader, error).status # None /\ ~Done(reader, error).waiting
         /\ Done(reader, error).err = IF reader.waiting /\ reader.err = None
                                       THEN Done(reader, error).status ELSE reader.err
<1> DEFINE s == IF reader.status = None THEN error ELSE reader.status
<1>1. s \in Errors /\ s # None /\ reader.err \in Errors
  BY DEF Readers, Errors, None
<1>2. /\ ~reader.waiting => Done(reader, error) = [reader EXCEPT !.status = s]
      /\ reader.waiting /\ reader.err = None =>
           Done(reader, error) = [reader EXCEPT !.status = s, !.err = s, !.waiting = FALSE,
                                                !.callback = TRUE]
      /\ reader.waiting /\ reader.err # None =>
           Done(reader, error) = [reader EXCEPT !.status = s, !.err = reader.err,
                                                !.waiting = FALSE, !.callback = TRUE]
  BY DEF Done, Readers
<1> HIDE DEF s
<1>3. CASE ~reader.waiting
  BY <1>1, <1>2, <1>3 DEF Readers
<1>4. CASE reader.waiting /\ reader.err = None
  <2>1. Done(reader, error) \in Readers
    BY <1>1, <1>2, <1>4, ZenonT(30) DEF Readers
  <2>2. /\ Done(reader, error).set = reader.set /\ Done(reader, error).off = reader.off
        /\ Done(reader, error).skew = reader.skew /\ Done(reader, error).need = reader.need
        /\ Done(reader, error).peek = reader.peek
        /\ Done(reader, error).peeking = reader.peeking
        /\ Done(reader, error).input = reader.input /\ Done(reader, error).saved = reader.saved
        /\ Done(reader, error).base = reader.base /\ Done(reader, error).fault = reader.fault
        /\ Done(reader, error).vain = reader.vain
        /\ Done(reader, error).closing = reader.closing
        /\ Done(reader, error).status # None /\ ~Done(reader, error).waiting
        /\ Done(reader, error).err = s /\ Done(reader, error).status = s
    BY <1>1, <1>2, <1>4 DEF Readers
  <2> QED BY <1>4, <2>1, <2>2
<1>5. CASE reader.waiting /\ reader.err # None
  <2>1. Done(reader, error) \in Readers
    BY <1>1, <1>2, <1>5, ZenonT(30) DEF Readers
  <2>2. /\ Done(reader, error).set = reader.set /\ Done(reader, error).off = reader.off
        /\ Done(reader, error).skew = reader.skew /\ Done(reader, error).need = reader.need
        /\ Done(reader, error).peek = reader.peek
        /\ Done(reader, error).peeking = reader.peeking
        /\ Done(reader, error).input = reader.input /\ Done(reader, error).saved = reader.saved
        /\ Done(reader, error).base = reader.base /\ Done(reader, error).fault = reader.fault
        /\ Done(reader, error).vain = reader.vain
        /\ Done(reader, error).closing = reader.closing
        /\ Done(reader, error).status # None /\ ~Done(reader, error).waiting
        /\ Done(reader, error).err = reader.err /\ Done(reader, error).status = s
    BY <1>1, <1>2, <1>5 DEF Readers
  <2> QED BY <1>5, <2>1, <2>2
<1> QED BY <1>3, <1>4, <1>5

LEMMA RestoredFacts ==
  ASSUME FormatInv, pc \in Probes, running = "worker"
  PROVE  /\ Restored(reader) \in Readers
         /\ Restored(reader).off = 0 /\ Restored(reader).peek = 0
         /\ Restored(reader).skew = reader.base
         /\ Restored(reader).set /\ Restored(reader).need = reader.need
         /\ Restored(reader).input = reader.input /\ Restored(reader).saved = reader.saved
         /\ Restored(reader).base = reader.base /\ Restored(reader).status = reader.status
         /\ ~Restored(reader).waiting /\ ~Restored(reader).vain
         /\ Restored(reader).closing = reader.closing
         /\ Restored(reader).callback = reader.callback
         /\ Restored(reader).err \in {None, reader.err}
         /\ first > 4 => ~Restored(reader).fault
<1>1. /\ reader \in Readers /\ reader.peek = 0 /\ ~reader.waiting /\ ~reader.vain
      /\ reader.set
  BY DEF FormatInv, TypeOK, Progress, Probed, Waiting, Order
<1> DEFINE skew  == reader.base - reader.peek
           fault == reader.input > 0 /\ (reader.saved > 0 \/ reader.off + reader.skew >= got)
           err   == IF reader.saved + reader.input > 0 THEN None ELSE reader.err
<1>2. Restored(reader) = [reader EXCEPT !.peeking = FALSE, !.off = reader.peek, !.skew = skew,
                                        !.fault = fault, !.err = err]
  BY <1>1 DEF Restored, Readers
<1>3. /\ skew \in Int /\ skew = reader.base /\ fault \in BOOLEAN
      /\ err \in Errors /\ err \in {None, reader.err} /\ reader.peek \in Nat
  BY <1>1, FieldTypes DEF FormatInv, Errors
<1>4. first > 4 => ~fault
  BY FieldTypes DEF FormatInv, Progress, Whole, Probed, Probes
<1> HIDE DEF skew, fault, err
<1>5. Restored(reader) \in Readers
  BY <1>1, <1>2, <1>3, ZenonT(30) DEF Readers
<1> QED BY <1>1, <1>2, <1>3, <1>4, <1>5 DEF Readers

LEMMA PeekingFacts ==
  ASSUME NEW r \in Readers, got \in Nat
  PROVE  /\ Peeking(r) \in Readers /\ Peeking(r).peeking
         /\ Peeking(r).peek = r.off /\ Peeking(r).base = r.off + r.skew
         /\ Peeking(r).input = IF r.saved > 0 THEN r.input ELSE got - (r.off + r.skew)
         /\ Peeking(r).set = r.set /\ Peeking(r).off = r.off /\ Peeking(r).skew = r.skew
         /\ Peeking(r).need = r.need /\ Peeking(r).saved = r.saved /\ Peeking(r).err = r.err
         /\ Peeking(r).status = r.status /\ Peeking(r).waiting = r.waiting
         /\ Peeking(r).vain = r.vain /\ Peeking(r).closing = r.closing
<1> DEFINE input == IF r.saved > 0 THEN r.input ELSE got - (r.off + r.skew)
           base  == r.off + r.skew
<1>1. Peeking(r) = [r EXCEPT !.peeking = TRUE, !.peek = r.off, !.base = base, !.input = input]
  BY DEF Peeking, Readers
<1>2. input \in Int /\ base \in Int /\ r.off \in Nat
  BY DEF Readers
<1> HIDE DEF input, base
<1>3. Peeking(r) \in Readers
  BY <1>1, <1>2, ZenonT(30) DEF Readers
<1>4. input = (IF r.saved > 0 THEN r.input ELSE got - (r.off + r.skew)) /\ base = r.off + r.skew
  BY DEF input, base
<1> QED BY <1>1, <1>3, <1>4 DEF Readers

LEMMA StreamEndsInv ==
  ASSUME NEW error \in {"EOF", "FAILED"}, FormatInv, StreamEnds(error)
  PROVE  FormatInv'
<1>1. /\ UNCHANGED <<file, got, first, demuxer, pc>> /\ Active /\ stream' = "ended"
      /\ running = "loop" /\ loop = "idle"
      /\ IF reader.waiting THEN running' = "worker" /\ loop' = "callback"
                           ELSE UNCHANGED <<running, loop>>
      /\ reader' = Done(reader, error) /\ error \in Errors \ {None} /\ reader \in Readers
  BY DEF StreamEnds, FormatInv, TypeOK, Errors, None
<1>2. /\ reader' \in Readers /\ reader'.set = reader.set /\ reader'.off = reader.off
      /\ reader'.skew = reader.skew /\ reader'.peek = reader.peek
      /\ reader'.peeking = reader.peeking /\ reader'.input = reader.input
      /\ reader'.saved = reader.saved /\ reader'.base = reader.base /\ reader'.vain = reader.vain
      /\ reader'.closing = reader.closing /\ reader'.status # None /\ ~reader'.waiting
      /\ reader'.err = IF reader.waiting /\ reader.err = None THEN reader'.status ELSE reader.err
  BY <1>1, DoneFacts
<1>a. TypeOK'
  BY <1>1, <1>2 DEF FormatInv, TypeOK
<1>b. Waiting'
  BY <1>1, <1>2 DEF FormatInv, Waiting
<1>c. Order'
  BY <1>1, <1>2 DEF FormatInv, Order, Waiting, Active, InDemuxer, Probes
<1>d. Progress'
  BY <1>1, <1>2 DEF FormatInv, Progress, ReadHead, Probed, IsSaved, Whole
<1>e. DrivenOut'
  BY <1>1, <1>2 DEF DrivenOut
<1>f. Closed'
  BY <1>1, <1>2 DEF FormatInv, Closed, Active, Order
<1> QED BY <1>a, <1>b, <1>c, <1>d, <1>e, <1>f DEF FormatInv

LEMMA DemuxerSeeksInv ==
  ASSUME NEW offset \in 0..Size, FormatInv, DemuxerSeeks(offset)
  PROVE  FormatInv'
<1>1. /\ UNCHANGED <<file, first, demuxer, pc, running, loop>> /\ pc \in InDemuxer
      /\ stream' \in {stream, "ended"} /\ (stream' # stream => Active)
      /\ got' = offset /\ offset \in Nat /\ running = "worker"
      /\ reader.err = None /\ reader.off >= 4 /\ reader \in Readers
      /\ reader' = [reader EXCEPT !.off = offset, !.skew = 0, !.fault = FALSE, !.status = None]
  BY FormatAssumption, Lists DEF DemuxerSeeks, FormatInv, TypeOK
<1>2. ~reader.waiting /\ ~reader.vain /\ reader.set
  BY <1>1 DEF FormatInv, Waiting, Order
<1>3. 0 \in Int /\ None \in Errors
  BY DEF Errors
<1>4. /\ reader' \in Readers
      /\ reader'.set = reader.set /\ reader'.off = offset /\ reader'.skew = 0
      /\ reader'.err = reader.err /\ reader'.waiting = reader.waiting
      /\ reader'.vain = reader.vain /\ reader'.closing = reader.closing
  <2>1. reader' \in Readers
    BY <1>1, <1>3, ZenonT(30) DEF Readers
  <2> QED BY <1>1, <2>1 DEF Readers
<1>a. TypeOK'
  BY <1>1, <1>4 DEF FormatInv, TypeOK
<1>b. Waiting'
  BY <1>1, <1>2, <1>4 DEF Waiting, InDemuxer, Probes
<1>c. Order'
  BY <1>1, <1>2, <1>4 DEF FormatInv, Order, InDemuxer
<1>d. Progress'
  BY <1>1, <1>2, <1>4 DEF Progress, ReadHead, Probed, IsSaved, Whole, InDemuxer, Probes
<1>e. DrivenOut'
  <2>1. reader.off + reader.skew <= got /\ reader.skew >= 0
    BY <1>1, <1>2 DEF FormatInv, Progress, ReadHead
  <2>2. loop # "closing"
    BY <1>1, <2>1, FieldTypes DEF FormatInv, DrivenOut
  <2> QED BY <1>1, <2>2 DEF DrivenOut
<1>f. Closed'
  BY <1>1, <1>2 DEF FormatInv, Closed
<1> QED BY <1>a, <1>b, <1>c, <1>d, <1>e, <1>f DEF FormatInv

LEMMA LoopStartsWorkerInv ==
  ASSUME FormatInv, LoopStartsWorker
  PROVE  FormatInv'
<1>1. TypeOK'
  BY DEF LoopStartsWorker, FormatInv, TypeOK
<1>2. Waiting'
  BY DEF LoopStartsWorker, FormatInv, Waiting, Active, Order, FirstReader, InDemuxer,
    Probes
<1>3. Order'
  BY DEF LoopStartsWorker, FormatInv, At, Order, InDemuxer, Probes
<1>4. Progress'
  BY DEF LoopStartsWorker, FormatInv, Progress, ReadHead, Probed, IsSaved, Whole, Probes
<1>5. DrivenOut'
  BY DEF LoopStartsWorker, FormatInv, DrivenOut
<1>6. Closed'
  BY DEF LoopStartsWorker, FormatInv, At, Closed
<1> QED BY <1>1, <1>2, <1>3, <1>4, <1>5, <1>6 DEF FormatInv

LEMMA OpenFailsInv ==
  ASSUME NEW left, FormatInv, OpenFails(left)
  PROVE  FormatInv'
<1>1. TypeOK'
  BY DEF OpenFails, FormatInv, TypeOK
<1>2. Waiting'
  BY DEF OpenFails, FormatInv, At, Waiting, Active, Order, FirstReader, Fails, InDemuxer, Probes
<1>3. Order'
  BY DEF OpenFails, FormatInv, At, Order, InDemuxer, Probes, Fails, FirstReader
<1>4. Progress'
  BY DEF OpenFails, FormatInv, Progress, ReadHead, Probed, IsSaved, Whole, Probes, Fails, At
<1>5. DrivenOut'
  BY DEF OpenFails, FormatInv, DrivenOut, At, Order, FirstReader
<1>6. Closed'
  BY DEF OpenFails, FormatInv, At, Closed, Fails
<1> QED BY <1>1, <1>2, <1>3, <1>4, <1>5, <1>6 DEF FormatInv

LEMMA StreamOpensInv ==
  ASSUME FormatInv, StreamOpens
  PROVE  FormatInv'
<1> DEFINE r == [FirstReader EXCEPT !.set = TRUE]
<1>1. /\ UNCHANGED <<file, got, first, demuxer, running, loop>>
      /\ running = "worker" /\ pc' = "probe1" /\ stream' = "running"
      /\ reader = FirstReader /\ got = 0 /\ first = 0 /\ reader' = Peeking(r)
      /\ demuxer # "deleted" /\ loop # "closing"
  <2>1. /\ reader = FirstReader /\ got = 0 /\ first = 0 /\ running = "worker" /\ pc = "opening"
    BY DEF StreamOpens, At, FormatInv, Order
  <2>2. demuxer # "deleted" /\ loop # "closing"
    BY <2>1 DEF FormatInv, Closed, DrivenOut, FirstReader
  <2>3. reader' = Peeking([reader EXCEPT !.set = TRUE])
    BY DEF StreamOpens
  <2> QED BY <2>1, <2>2, <2>3 DEF StreamOpens
<1>2. /\ r \in Readers /\ r.set /\ r.off = 0 /\ r.skew = 0 /\ r.saved = 0 /\ r.err = None
      /\ r.status = None /\ ~r.waiting /\ ~r.vain /\ ~r.closing
  <2>1. FirstReader \in Readers
    BY DEF FirstReader, Readers, Errors
  <2>2. r \in Readers
    BY <2>1, Zenon DEF Readers
  <2> QED BY <2>1, <2>2 DEF FirstReader, Readers
<1> HIDE DEF r
<1>3. /\ reader' \in Readers /\ reader'.peeking /\ reader'.peek = 0 /\ reader'.base = 0
      /\ reader'.input = 0 /\ reader'.set /\ reader'.off = 0 /\ reader'.skew = 0
      /\ reader'.saved = 0 /\ reader'.err = None /\ reader'.status = None
      /\ ~reader'.waiting /\ ~reader'.vain /\ ~reader'.closing
  BY <1>1, <1>2, PeekingFacts
<1>a. TypeOK'
  BY <1>1, <1>3 DEF FormatInv, TypeOK
<1>b. Waiting'
  BY <1>1, <1>3 DEF Waiting, Active, Probes
<1>c. Order'
  BY <1>1, <1>3 DEF Order
<1>d. Progress'
  BY <1>1, <1>3 DEF Progress, ReadHead, Probed, IsSaved, Whole
<1>e. DrivenOut'
  BY <1>1 DEF DrivenOut
<1>f. Closed'
  BY <1>1 DEF Closed
<1> QED BY <1>a, <1>b, <1>c, <1>d, <1>e, <1>f DEF FormatInv

(* The worker is in a probe that is over. *)
LEMMA ProbingFacts ==
  ASSUME NEW i \in 1..2, FormatInv, Probing(i)
  PROVE  /\ pc \in Probes /\ pc = (IF i = 1 THEN "probe1" ELSE "probe2") /\ running = "worker"
         /\ reader \in Readers /\ reader.peek = 0 /\ reader.base >= 0 /\ reader.base <= got
         /\ i = 1 => reader.base <= 1
         /\ reader.saved >= 0 /\ reader.input >= 0 /\ got \in Nat /\ first \in Nat
         /\ reader.set /\ ~reader.closing /\ demuxer # "deleted"
         /\ reader.err # None => reader.status # None
         /\ reader.status # None \/ Active
         /\ loop = "closing" => stream = "closed" /\ reader.status # None /\ got < 4
         /\ reader.base \in Int /\ reader.saved \in Int /\ reader.input \in Int
BY FieldTypes DEF Probing, At, FormatInv, TypeOK, Waiting, Order, Progress, ReadHead, Probed,
  DrivenOut, Closed, Probes

LEMMA ProbeMatchesInv ==
  ASSUME NEW i \in 1..2, FormatInv, ProbeMatches(i)
  PROVE  FormatInv'
<1>1. /\ UNCHANGED <<file, stream, got, first, running, loop>> /\ Probing(i)
      /\ reader' = Restored(reader) /\ pc' \in {"demuxer_open", "failed"}
      /\ demuxer' \in {demuxer, Formats[i]} /\ Formats[i] # "deleted"
  BY Lists DEF ProbeMatches, Fails
<1>2. reader' \in Readers
  BY <1>1, ProbingFacts, RestoredFacts
<1>a. TypeOK'
  BY <1>1, <1>2 DEF FormatInv, TypeOK
<1>b. Waiting'
  BY <1>1, ProbingFacts, RestoredFacts DEF Waiting, Probes
<1>c. Order'
  BY <1>1, ProbingFacts, RestoredFacts DEF Order
<1>d. Progress'
  BY <1>1, <1>2, ProbingFacts, RestoredFacts DEF Progress, ReadHead, Probed, IsSaved, Whole, Probes
<1>e. DrivenOut'
  BY <1>1, ProbingFacts, RestoredFacts DEF DrivenOut
<1>f. Closed'
  BY <1>1, ProbingFacts DEF Closed
<1> QED BY <1>a, <1>b, <1>c, <1>d, <1>e, <1>f DEF FormatInv

LEMMA ProbeDoesNotMatchInv ==
  ASSUME NEW i \in 1..2, FormatInv, ProbeDoesNotMatch(i)
  PROVE  FormatInv'
<1>1. /\ UNCHANGED <<file, stream, got, first, demuxer, running, loop>> /\ Probing(i)
      /\ \/ reader' = Restored(reader) /\ pc' \in {"failed", "unknown_format"}
         \/ /\ i = 1 /\ reader' = Peeking(Restored(reader)) /\ pc' = "probe2"
            /\ FALSE \in Verdicts(1) /\ Restored(reader).err = None
  <2>1. /\ UNCHANGED <<file, stream, got, first, demuxer, running, loop>> /\ Probing(i)
        /\ FALSE \in Verdicts(i)
        /\ IF Restored(reader).err # None
             THEN reader' = Restored(reader) /\ pc' = "failed"
           ELSE IF i < Len(Formats)
             THEN reader' = Peeking(Restored(reader)) /\ pc' = "probe2"
             ELSE reader' = Restored(reader) /\ pc' = "unknown_format"
    BY DEF ProbeDoesNotMatch, Fails
  <2>2. i < Len(Formats) <=> i = 1
    BY Lists
  <2> QED BY <2>1, <2>2
<1>2. /\ reader' \in Readers /\ ~reader'.waiting /\ ~reader'.vain /\ reader'.set
      /\ reader'.status = reader.status /\ reader'.closing = reader.closing
      /\ reader'.off = 0 /\ reader'.skew = reader.base /\ reader'.err \in {None, reader.err}
  BY <1>1, ProbingFacts, RestoredFacts, PeekingFacts
<1>a. TypeOK'
  BY <1>1, <1>2 DEF FormatInv, TypeOK
<1>b. Waiting'
  BY <1>1, <1>2, ProbingFacts DEF Waiting, Active
<1>c. Order'
  BY <1>1, <1>2, ProbingFacts DEF Order
<1>d. Progress'
  <2>1. ReadHead'
    BY <1>1, <1>2, ProbingFacts DEF ReadHead, Readers
  <2>2. CASE pc' # "probe2"
    BY <1>1, <2>1, <2>2 DEF Progress, Probed, IsSaved, Whole, Probes
  <2>3. CASE pc' = "probe2"
    <3>1. /\ i = 1 /\ pc = "probe1" /\ FALSE \in Verdicts(1) /\ reader.base <= 1
          /\ reader' = Peeking(Restored(reader)) /\ Restored(reader) \in Readers
      BY <1>1, <2>3, ProbingFacts, RestoredFacts
    <3>2. /\ reader'.peeking /\ reader'.peek = 0 /\ reader'.base = reader.base
          /\ reader'.saved = reader.saved
          /\ reader'.input = IF reader.saved > 0 THEN reader.input ELSE got - reader.base
      BY <1>1, <3>1, ProbingFacts, RestoredFacts, PeekingFacts
    <3>3. file.kind # "isom" \/ reader.status # None
      <4>1. CASE reader.err # None
        BY <4>1 DEF FormatInv, Progress, ReadHead
      <4>2. CASE reader.err = None
        <5>1. reader.peek + reader.skew = 0
          BY <3>1 DEF FormatInv, Progress, Probed, Probes
        <5>2. Verdicts(1) = {file.kind = "isom"}
          BY <4>2, <5>1, Lists DEF Verdicts
        <5> QED BY <3>1, <5>2, Zenon
      <4> QED BY <4>1, <4>2
    <3>4. Probed'
      BY <1>1, <1>2, <2>3, <3>1, <3>2, <3>3, ProbingFacts DEF Probed
    <3>5. IsSaved'
      BY <2>3 DEF IsSaved
    <3>6. Whole'
      BY <1>1, <1>2, <3>1, <3>2, ProbingFacts DEF FormatInv, Progress, Whole, Probes
    <3> QED BY <2>1, <3>4, <3>5, <3>6 DEF Progress
  <2> QED BY <2>2, <2>3
<1>e. DrivenOut'
  BY <1>1, <1>2, ProbingFacts DEF DrivenOut
<1>f. Closed'
  BY <1>1, ProbingFacts DEF Closed
<1> QED BY <1>a, <1>b, <1>c, <1>d, <1>e, <1>f DEF FormatInv

LEMMA DemuxerOpensInv ==
  ASSUME FormatInv, DemuxerOpens
  PROVE  FormatInv'
<1>1. TypeOK'
  BY DEF DemuxerOpens, FormatInv, TypeOK
<1>2. Waiting'
  BY DEF DemuxerOpens, FormatInv, At, Waiting, Active, InDemuxer, Probes
<1>3. Order'
  BY DEF DemuxerOpens, FormatInv, At, Order, InDemuxer, Probes
<1>4. Progress'
  BY DEF DemuxerOpens, FormatInv, Progress, ReadHead, Probed, IsSaved, Whole, Probes, At
<1>5. DrivenOut'
  BY DEF DemuxerOpens, FormatInv, DrivenOut, Probes
<1>6. Closed'
  BY DEF DemuxerOpens, FormatInv, At, Closed, InDemuxer, Probes
<1> QED BY <1>1, <1>2, <1>3, <1>4, <1>5, <1>6 DEF FormatInv

(* The stream is aborted or closed. *)
LEMMA EndedFacts ==
  ASSUME reader \in Readers
  PROVE  /\ EndedBy(reader) \in Readers /\ EndedBy(reader).set = reader.set
         /\ EndedBy(reader).off = reader.off /\ EndedBy(reader).skew = reader.skew
         /\ EndedBy(reader).need = reader.need /\ EndedBy(reader).peek = reader.peek
         /\ EndedBy(reader).peeking = reader.peeking /\ EndedBy(reader).input = reader.input
         /\ EndedBy(reader).saved = reader.saved /\ EndedBy(reader).base = reader.base
         /\ EndedBy(reader).vain = reader.vain /\ EndedBy(reader).closing = reader.closing
         /\ Active => /\ EndedBy(reader).status # None /\ ~EndedBy(reader).waiting
                      /\ EndedBy(reader).err = IF reader.waiting /\ reader.err = None
                                                THEN EndedBy(reader).status ELSE reader.err
         /\ ~Active => EndedBy(reader) = reader
<1> "ABORTED" \in Errors \ {None}
  BY DEF Errors, None
<1>1. CASE Active
  BY <1>1, DoneFacts DEF EndedBy
<1>2. CASE ~Active
  BY <1>2 DEF EndedBy
<1> QED BY <1>1, <1>2

LEMMA DemuxerRefusesInv ==
  ASSUME FormatInv, DemuxerRefuses
  PROVE  FormatInv'
<1>1. /\ UNCHANGED <<file, got, first, demuxer, running, loop>>
      /\ pc = "demuxer_open" /\ running = "worker" /\ pc' = "failed"
      /\ reader' \in {reader, EndedBy(reader)} /\ stream' \in {stream, "stopping", "ended"}
      /\ (stream' # stream => Active)
      /\ reader \in Readers /\ reader.set /\ ~reader.waiting /\ ~reader.vain /\ ~reader.closing
      /\ demuxer # "deleted"
  BY DEF DemuxerRefuses, At, Fails, FormatInv, TypeOK, Waiting, Order, Closed, InDemuxer
<1>2. /\ reader' \in Readers /\ reader'.set = reader.set /\ reader'.off = reader.off
      /\ reader'.skew = reader.skew /\ reader'.closing = reader.closing
      /\ reader'.vain = reader.vain /\ ~reader'.waiting /\ reader'.err = reader.err
      /\ reader'.status = reader.status \/ reader'.status # None
  BY <1>1, EndedFacts
<1>a. TypeOK'
  BY <1>1, <1>2 DEF FormatInv, TypeOK
<1>b. Waiting'
  BY <1>1, <1>2 DEF Waiting, Probes
<1>c. Order'
  BY <1>1, <1>2 DEF Order, InDemuxer, Probes
<1>d. Progress'
  BY <1>1, <1>2 DEF FormatInv, Progress, ReadHead, Probed, IsSaved, Whole, Probes
<1>e. DrivenOut'
  BY <1>1, <1>2 DEF FormatInv, DrivenOut, Probes, Active
<1>f. Closed'
  BY <1>1 DEF Closed
<1> QED BY <1>a, <1>b, <1>c, <1>d, <1>e, <1>f DEF FormatInv

LEMMA ReadPacketInv ==
  ASSUME FormatInv, ReadPacket
  PROVE  FormatInv'
<1>1. TypeOK'
  BY DEF ReadPacket, FormatInv, TypeOK
<1>2. Waiting'
  BY DEF ReadPacket, FormatInv, At, Waiting, Active, InDemuxer, Probes
<1>3. Order'
  BY DEF ReadPacket, FormatInv, At, Order, InDemuxer, Probes
<1>4. Progress'
  BY DEF ReadPacket, FormatInv, Progress, ReadHead, Probed, IsSaved, Whole, Probes, At
<1>5. DrivenOut'
  BY DEF ReadPacket, FormatInv, DrivenOut, Probes
<1>6. Closed'
  BY DEF ReadPacket, FormatInv, At, Closed
<1> QED BY <1>1, <1>2, <1>3, <1>4, <1>5, <1>6 DEF FormatInv

LEMMA ReadPacketReturnsInv ==
  ASSUME NEW error, FormatInv, ReadPacketReturns(error)
  PROVE  FormatInv'
<1>1. TypeOK'
  BY DEF ReadPacketReturns, FormatInv, TypeOK
<1>2. Waiting'
  BY DEF ReadPacketReturns, FormatInv, At, Waiting, Active, InDemuxer, Probes
<1>3. Order'
  BY DEF ReadPacketReturns, FormatInv, At, Order, InDemuxer, Probes
<1>4. Progress'
  BY DEF ReadPacketReturns, FormatInv, Progress, ReadHead, Probed, IsSaved, Whole, Probes, At
<1>5. DrivenOut'
  BY DEF ReadPacketReturns, FormatInv, DrivenOut, Probes
<1>6. Closed'
  BY DEF ReadPacketReturns, FormatInv, At, Closed, InDemuxer, Probes
<1> QED BY <1>1, <1>2, <1>3, <1>4, <1>5, <1>6 DEF FormatInv

LEMMA WorkerSuspendsInv ==
  ASSUME FormatInv, WorkerSuspends
  PROVE  FormatInv'
<1>1. TypeOK'
  BY DEF WorkerSuspends, FormatInv, TypeOK
<1>2. Waiting'
  BY DEF WorkerSuspends, FormatInv, At, Waiting, Active, InDemuxer, Probes, Outside
<1>3. Order'
  BY DEF WorkerSuspends, FormatInv, At, Order
<1>4. Progress'
  BY DEF WorkerSuspends, FormatInv, Progress, ReadHead, Probed, IsSaved, Whole, Probes
<1>5. DrivenOut'
  BY DEF WorkerSuspends, FormatInv, DrivenOut
<1>6. Closed'
  BY DEF WorkerSuspends, FormatInv, At, Closed
<1> QED BY <1>1, <1>2, <1>3, <1>4, <1>5, <1>6 DEF FormatInv

LEMMA LoopResumesWorkerInv ==
  ASSUME FormatInv, LoopResumesWorker
  PROVE  FormatInv'
<1>1. TypeOK'
  BY DEF LoopResumesWorker, FormatInv, TypeOK
<1>2. Waiting'
  BY DEF LoopResumesWorker, FormatInv, At, Waiting, Active, InDemuxer, Probes, Outside
<1>3. Order'
  BY DEF LoopResumesWorker, FormatInv, At, Order, Outside
<1>4. Progress'
  BY DEF LoopResumesWorker, FormatInv, Progress, ReadHead, Probed, IsSaved, Whole, Probes,
    Outside
<1>5. DrivenOut'
  BY DEF LoopResumesWorker, FormatInv, DrivenOut
<1>6. Closed'
  BY DEF LoopResumesWorker, FormatInv, At, Closed
<1> QED BY <1>1, <1>2, <1>3, <1>4, <1>5, <1>6 DEF FormatInv

LEMMA LoopClosesInv ==
  ASSUME FormatInv, LoopCloses
  PROVE  FormatInv'
<1>1. /\ UNCHANGED <<file, got, first, pc>> /\ running = "loop" /\ loop = "idle"
      /\ pc \notin {"start", "opening"} /\ demuxer # "deleted" /\ reader \in Readers
  BY DEF LoopCloses, FormatInv, TypeOK, Waiting
<1>2. CASE ~reader.set
  <2>1. /\ demuxer' = "deleted" /\ UNCHANGED <<stream, reader, loop, running>>
        /\ pc \notin InDemuxer \union Probes
    BY <1>2 DEF LoopCloses, FormatInv, Order
  <2>a. TypeOK'
    BY <1>1, <2>1 DEF FormatInv, TypeOK
  <2>b. Waiting' /\ Order'
    BY <1>1, <2>1 DEF FormatInv, Waiting, Order, Active
  <2>c. Progress' /\ DrivenOut'
    BY <1>1, <2>1 DEF FormatInv, Progress, ReadHead, Probed, IsSaved, Whole, DrivenOut
  <2>d. Closed'
    BY <1>1, <1>2, <2>1 DEF Closed
  <2> QED BY <2>a, <2>b, <2>c, <2>d DEF FormatInv
<1>3. CASE reader.set
  <2>1. /\ stream' = "closed" /\ reader' = EndedBy(reader)
        /\ \/ Active /\ reader.waiting /\ loop' = "closing" /\ running' = "worker" /\ demuxer' = demuxer
           \/ ~(Active /\ reader.waiting) /\ demuxer' = "deleted" /\ UNCHANGED <<loop, running>>
    BY <1>3 DEF LoopCloses
  <2>2. /\ reader' \in Readers /\ reader'.set /\ reader'.off = reader.off
        /\ reader'.skew = reader.skew /\ reader'.need = reader.need /\ reader'.peek = reader.peek
        /\ reader'.peeking = reader.peeking /\ reader'.input = reader.input
        /\ reader'.saved = reader.saved /\ reader'.base = reader.base
        /\ reader'.vain = reader.vain /\ reader'.closing = reader.closing
        /\ Active => /\ reader'.status # None /\ ~reader'.waiting
                     /\ reader'.err = IF reader.waiting /\ reader.err = None
                                       THEN reader'.status ELSE reader.err
        /\ ~Active => reader' = reader
    BY <1>1, <1>3, <2>1, EndedFacts
  <2>3. /\ reader.waiting => pc \in InDemuxer \union Probes /\ (Active \/ reader.vain)
        /\ reader.vain => reader.waiting /\ pc \in InDemuxer /\ ~Active
        /\ pc \in InDemuxer \union Probes => reader.waiting
        /\ InDemuxer \intersect Probes = {}
    BY <1>1 DEF FormatInv, Waiting, InDemuxer, Probes
  <2>a. TypeOK'
    BY <1>1, <2>2 DEF FormatInv, TypeOK
  <2>b. Waiting'
    <3>1. ~Active'
      BY <2>1 DEF Active
    <3>2. pc \in Probes => Active
      BY <2>3
    <3>3. reader.vain => ~Active /\ reader'.waiting
      BY <2>2, <2>3
    <3>4. reader'.waiting => ~Active /\ reader.vain
      BY <2>2, <2>3
    <3> QED BY <1>1, <2>1, <2>2, <2>3, <3>1, <3>2, <3>3, <3>4 DEF Waiting
  <2>c. Order'
    BY <1>1, <1>3, <2>1, <2>2 DEF FormatInv, Order
  <2>d. ReadHead'
    BY <1>1, <2>1, <2>2, <2>3 DEF FormatInv, Progress, ReadHead, None
  <2>e. Probed' /\ Whole'
    BY <1>1, <2>1, <2>2 DEF FormatInv, Progress, Probed, Whole
  <2>f. IsSaved'
    <3>1. pc = "probe1" => Active
      BY <2>3 DEF Probes
    <3> QED BY <1>1, <2>1, <2>2, <3>1 DEF FormatInv, Progress, IsSaved
  <2>g. DrivenOut'
    <3> SUFFICES ASSUME loop' = "closing" PROVE DrivenOut'
      BY DEF DrivenOut
    <3>1. Active /\ reader.waiting
      BY <1>1, <2>1
    <3>2. reader'.err # None
      BY <2>2, <3>1
    <3>3. pc \in Probes => got < 4
      BY <2>3, <3>1, FieldTypes DEF FormatInv, Progress, ReadHead, Probed, Probes
    <3> QED BY <1>1, <2>1, <2>2, <3>1, <3>2, <3>3 DEF DrivenOut
  <2>h. Closed'
    BY <1>1, <2>1, <2>2, <2>3 DEF Closed
  <2> QED BY <2>a, <2>b, <2>c, <2>d, <2>e, <2>f, <2>g, <2>h DEF FormatInv, Progress
<1> QED BY <1>2, <1>3

(* The reader has left its callback. *)
LEMMA LeftFacts ==
  ASSUME NEW r \in Readers
  PROVE  LET q == [r EXCEPT !.callback = FALSE]
         IN  /\ q \in Readers /\ q.set = r.set /\ q.off = r.off /\ q.skew = r.skew
             /\ q.need = r.need /\ q.peek = r.peek /\ q.peeking = r.peeking
             /\ q.input = r.input /\ q.saved = r.saved /\ q.base = r.base /\ q.err = r.err
             /\ q.status = r.status /\ q.waiting = r.waiting /\ q.vain = r.vain
             /\ q.closing = r.closing
<1>1. [r EXCEPT !.callback = FALSE] \in Readers
  BY Zenon DEF Readers
<1> QED BY <1>1 DEF Readers

LEMMA LoopHasClosedInv ==
  ASSUME FormatInv, LoopHasClosed
  PROVE  FormatInv'
<1>1. /\ UNCHANGED <<file, stream, got, first, pc, running>> /\ running = "loop"
      /\ loop = "closing" /\ loop' = "idle" /\ demuxer' = "deleted" /\ reader \in Readers
      /\ reader' = [reader EXCEPT !.callback = FALSE]
  BY DEF LoopHasClosed, FormatInv, TypeOK
<1>2. /\ reader' \in Readers /\ reader'.set = reader.set /\ reader'.off = reader.off
      /\ reader'.skew = reader.skew /\ reader'.need = reader.need
      /\ reader'.waiting = reader.waiting /\ reader'.vain = reader.vain
      /\ reader'.err = reader.err /\ reader'.status = reader.status
      /\ reader'.closing = reader.closing
  BY <1>1, LeftFacts
<1>3. /\ reader.set /\ stream = "closed" /\ ~reader.waiting
      /\ pc \notin InDemuxer \union Probes \union {"start", "opening"}
  <2>1. reader.set /\ stream = "closed" /\ ~reader.waiting
    BY <1>1 DEF FormatInv, DrivenOut
  <2> QED BY <1>1, <2>1 DEF FormatInv, Waiting, Order, FirstReader
<1>a. TypeOK'
  BY <1>1, <1>2 DEF FormatInv, TypeOK
<1>b. Waiting' /\ Order'
  BY <1>1, <1>2, <1>3 DEF FormatInv, Waiting, Order, Active
<1>c. Progress'
  BY <1>1, <1>2, <1>3 DEF FormatInv, Progress, ReadHead, Probed, IsSaved, Whole, Probes
<1>d. DrivenOut' /\ Closed'
  BY <1>1, <1>3 DEF DrivenOut, Closed
<1> QED BY <1>a, <1>b, <1>c, <1>d DEF FormatInv

LEMMA WorkerClosesInv ==
  ASSUME FormatInv, WorkerCloses
  PROVE  FormatInv'
<1>1. /\ UNCHANGED <<file, got, first, loop>> /\ running = "worker" /\ pc \in Outside
      /\ reader \in Readers /\ ~reader.waiting /\ ~reader.vain
  BY DEF WorkerCloses, FormatInv, TypeOK, Waiting
<1>2. CASE reader.set /\ reader.callback
  <2>1. /\ reader' = [reader EXCEPT !.closing = TRUE] /\ pc' = "closing" /\ running' = "loop"
        /\ UNCHANGED <<stream, demuxer>>
    BY <1>2 DEF WorkerCloses
  <2>2. reader' \in Readers
    BY <1>1, <2>1, Zenon DEF Readers
  <2>3. /\ reader'.set = reader.set /\ reader'.off = reader.off /\ reader'.skew = reader.skew
        /\ reader'.err = reader.err /\ reader'.status = reader.status /\ reader'.closing
        /\ reader'.waiting = reader.waiting /\ reader'.vain = reader.vain
    BY <1>1, <2>1 DEF Readers
  <2>a. TypeOK'
    BY <1>1, <2>2 DEF FormatInv, TypeOK
  <2>b. Waiting' /\ Order'
    BY <1>1, <2>1, <2>3 DEF Waiting, Order, InDemuxer, Probes
  <2>c. Progress'
    BY <1>1, <2>1, <2>3 DEF FormatInv, Progress, ReadHead, Probed, IsSaved, Whole, Probes
  <2>d. DrivenOut' /\ Closed'
    BY <1>1, <2>1, <2>3 DEF FormatInv, DrivenOut, Closed, InDemuxer, Probes
  <2> QED BY <2>a, <2>b, <2>c, <2>d DEF FormatInv
<1>3. CASE ~(reader.set /\ reader.callback)
  <2>1. /\ stream' = (IF reader.set THEN "closed" ELSE stream) /\ demuxer' = "deleted"
        /\ reader' \in {reader, EndedBy(reader)} /\ pc' = "closed" /\ running' = running
    BY <1>3 DEF WorkerCloses
  <2>2. /\ reader' \in Readers /\ reader'.set = reader.set /\ reader'.off = reader.off
        /\ reader'.skew = reader.skew /\ reader'.err = reader.err
        /\ reader'.status = reader.status \/ reader'.status # None
        /\ ~reader'.waiting /\ ~reader'.vain
    BY <1>1, <2>1, EndedFacts
  <2>a. TypeOK'
    BY <1>1, <2>2 DEF FormatInv, TypeOK
  <2>b. Waiting' /\ Order'
    BY <1>1, <2>1, <2>2 DEF Waiting, Order, InDemuxer, Probes
  <2>c. Progress'
    BY <1>1, <2>1, <2>2 DEF FormatInv, Progress, ReadHead, Probed, IsSaved, Whole, Probes
  <2>d. DrivenOut' /\ Closed'
    BY <1>1, <2>1, <2>2 DEF FormatInv, DrivenOut, Closed, InDemuxer, Probes
  <2> QED BY <2>a, <2>b, <2>c, <2>d DEF FormatInv
<1> QED BY <1>2, <1>3

LEMMA CallbackReturnsInv ==
  ASSUME FormatInv, CallbackReturns
  PROVE  FormatInv'
<1> DEFINE q == [reader EXCEPT !.callback = FALSE]
<1>1. /\ UNCHANGED <<file, got, first, demuxer, pc>> /\ running = "loop" /\ loop = "callback"
      /\ reader \in Readers /\ loop' \in {"closed", "idle"}
      /\ \/ reader.closing /\ stream' = "closed" /\ running' = "worker" /\ reader' = q
         \/ ~reader.closing /\ UNCHANGED <<stream, running>> /\ reader' = Saved(q)
  BY DEF CallbackReturns, ToWorker, FormatInv, TypeOK
<1>2. /\ q \in Readers /\ q.set = reader.set /\ q.off = reader.off /\ q.skew = reader.skew
      /\ q.need = reader.need /\ q.peek = reader.peek /\ q.peeking = reader.peeking
      /\ q.input = reader.input /\ q.saved = reader.saved /\ q.base = reader.base
      /\ q.err = reader.err /\ q.status = reader.status /\ q.waiting = reader.waiting
      /\ q.vain = reader.vain /\ q.closing = reader.closing
  BY <1>1, LeftFacts
<1> HIDE DEF q
<1>3. /\ reader' \in Readers /\ reader'.set = reader.set /\ reader'.off = reader.off
      /\ reader'.skew = reader.skew /\ reader'.need = reader.need /\ reader'.peek = reader.peek
      /\ reader'.peeking = reader.peeking /\ reader'.base = reader.base
      /\ reader'.err = reader.err /\ reader'.status = reader.status
      /\ reader'.waiting = reader.waiting /\ reader'.vain = reader.vain
      /\ reader'.closing = reader.closing
      /\ \/ reader'.input = reader.input /\ reader'.saved = reader.saved
         \/ reader'.input = 0 /\ reader'.saved = reader.saved + reader.input
      /\ ~reader.closing /\ reader.peeking =>
           reader'.input = 0 /\ reader'.saved = reader.saved + reader.input
  <2>1. CASE reader' = q /\ (reader.closing \/ ~reader.peeking)
    BY <1>2, <2>1
  <2>2. CASE reader' = Saved(q) /\ reader.peeking
    <3>1. reader' = [q EXCEPT !.saved = q.saved + q.input, !.input = 0]
      BY <1>2, <2>2 DEF Saved, Readers
    <3>2. q.saved + q.input \in Int /\ 0 \in Int
      BY <1>2 DEF Readers
    <3>3. reader' \in Readers
      BY <1>2, <3>1, <3>2, ZenonT(30) DEF Readers
    <3> QED BY <1>2, <3>1, <3>3 DEF Readers
  <2> QED BY <1>1, <1>2, <2>1, <2>2 DEF Saved
<1>4. /\ pc \in Probes => /\ ~reader.closing /\ reader.peeking /\ reader.waiting
                          /\ reader.input >= 0 /\ reader.saved >= 0 /\ first <= 4
      /\ reader.closing => pc \in {"closing", "closed"}
  BY <1>1, FieldTypes DEF FormatInv, Order, Progress, Probed, Whole, Waiting, Probes
<1>a. TypeOK'
  BY <1>1, <1>3 DEF FormatInv, TypeOK
<1>b. Waiting'
  BY <1>1, <1>3, <1>4 DEF FormatInv, Waiting, Active, InDemuxer, Probes
<1>c. Order'
  BY <1>1, <1>3, <1>4 DEF FormatInv, Order, Waiting, FirstReader
<1>d. ReadHead'
  BY <1>1, <1>3 DEF FormatInv, Progress, ReadHead
<1>e. Probed'
  BY <1>1, <1>3, <1>4, FieldTypes DEF FormatInv, Progress, Probed, Probes
<1>f. IsSaved'
  <2> SUFFICES ASSUME pc = "probe1" PROVE IsSaved'
    BY <1>1 DEF IsSaved
  <2>1. /\ ~reader.closing /\ reader'.input = 0 /\ reader'.saved = reader.saved + reader.input
        /\ running' = "loop"
    BY <1>1, <1>3, <1>4 DEF Probes
  <2>2. got > 0 => reader.saved + reader.input > 0
    BY DEF FormatInv, Progress, IsSaved
  <2>3. reader.waiting /\ got = 0 => reader.off <= 2
    BY DEF FormatInv, Progress, IsSaved
  <2> QED BY <1>1, <1>3, <2>1, <2>2, <2>3, FieldTypes DEF FormatInv, IsSaved
<1>g. Whole'
  <2> SUFFICES ASSUME pc \in Probes PROVE Whole'
    BY <1>1 DEF Whole
  <2>1. first = 0 => /\ got = 0 /\ reader.input = 0 /\ reader.saved = 0 /\ reader.base = 0
                     /\ reader.skew = 0
    BY DEF FormatInv, Progress, Whole
  <2> QED BY <1>1, <1>3, <1>4, <2>1, FieldTypes DEF FormatInv, Whole
<1>h. DrivenOut' /\ Closed'
  BY <1>1, <1>3, <1>4 DEF FormatInv, DrivenOut, Closed
<1> QED BY <1>a, <1>b, <1>c, <1>d, <1>e, <1>f, <1>g, <1>h DEF FormatInv, Progress

LEMMA WorkerHasClosedInv ==
  ASSUME FormatInv, WorkerHasClosed
  PROVE  FormatInv'
<1>1. TypeOK'
  BY DEF WorkerHasClosed, FormatInv, TypeOK
<1>2. Waiting'
  BY DEF WorkerHasClosed, FormatInv, At, Waiting, Active, InDemuxer, Probes
<1>3. Order'
  BY DEF WorkerHasClosed, FormatInv, At, Order, InDemuxer, Probes
<1>4. Progress'
  BY DEF WorkerHasClosed, FormatInv, Progress, ReadHead, Probed, IsSaved, Whole, Probes, At
<1>5. DrivenOut'
  BY DEF WorkerHasClosed, FormatInv, DrivenOut, Probes
<1>6. Closed'
  BY DEF WorkerHasClosed, FormatInv, At, Closed, Order, InDemuxer, Probes
<1> QED BY <1>1, <1>2, <1>3, <1>4, <1>5, <1>6 DEF FormatInv

LEMMA ClosedCallbackReturnsInv ==
  ASSUME FormatInv, ClosedCallbackReturns
  PROVE  FormatInv'
<1>1. TypeOK'
  BY DEF ClosedCallbackReturns, FormatInv, TypeOK
<1>2. Waiting'
  BY DEF ClosedCallbackReturns, FormatInv, At, Waiting, Active
<1>3. Order'
  BY DEF ClosedCallbackReturns, FormatInv, At, Order
<1>4. Progress'
  BY DEF ClosedCallbackReturns, FormatInv, Progress, ReadHead, Probed, IsSaved, Whole, Probes
<1>5. DrivenOut'
  BY DEF ClosedCallbackReturns, FormatInv, DrivenOut
<1>6. Closed'
  BY DEF ClosedCallbackReturns, FormatInv, At, Closed
<1> QED BY <1>1, <1>2, <1>3, <1>4, <1>5, <1>6 DEF FormatInv

-----------------------------------------------------------------------------
(* Every step of the format, its worker and its stream keeps the invariant *)
(* (format.cc:31).                                                         *)
THEOREM StepInv == FormatInv /\ [Next]_vars => FormatInv'
<1> SUFFICES ASSUME FormatInv, [Next]_vars PROVE FormatInv'
  OBVIOUS
<1>0. CASE UNCHANGED vars
  BY <1>0 DEF vars, FormatInv, TypeOK, Waiting, Order, Progress, ReadHead, Probed, IsSaved,
    Whole, DrivenOut, Closed, Active
<1>1. CASE \E n \in Wanted : Read(n)
  BY <1>1, ReadInv
<1>2. CASE \E n \in Wanted : ReadFaults(n)
  BY <1>2, ReadFaultsInv
<1>3. CASE \E n \in 1..Size : StreamWrites(n)
  BY <1>3, StreamWritesInv
<1>4. CASE \E error \in {"EOF", "FAILED"} : StreamEnds(error)
  BY <1>4, StreamEndsInv
<1>5. CASE \E offset \in 0..Size : DemuxerSeeks(offset)
  BY <1>5, DemuxerSeeksInv
<1>6. CASE LoopStartsWorker
  BY <1>6, LoopStartsWorkerInv
<1>7. CASE \E left \in {"none", "idle", "running"} : OpenFails(left)
  BY <1>7, OpenFailsInv
<1>8. CASE StreamOpens
  BY <1>8, StreamOpensInv
<1>9. CASE \E i \in 1..2 : ProbeMatches(i)
  BY <1>9, ProbeMatchesInv
<1>10. CASE \E i \in 1..2 : ProbeDoesNotMatch(i)
  BY <1>10, ProbeDoesNotMatchInv
<1>11. CASE DemuxerOpens
  BY <1>11, DemuxerOpensInv
<1>12. CASE DemuxerRefuses
  BY <1>12, DemuxerRefusesInv
<1>13. CASE ReadPacket
  BY <1>13, ReadPacketInv
<1>14. CASE \E error \in {None, "demuxer", "parser"} : ReadPacketReturns(error)
  BY <1>14, ReadPacketReturnsInv
<1>15. CASE WorkerSuspends
  BY <1>15, WorkerSuspendsInv
<1>16. CASE LoopResumesWorker
  BY <1>16, LoopResumesWorkerInv
<1>17. CASE LoopCloses
  BY <1>17, LoopClosesInv
<1>18. CASE LoopHasClosed
  BY <1>18, LoopHasClosedInv
<1>19. CASE WorkerCloses
  BY <1>19, WorkerClosesInv
<1>20. CASE CallbackReturns
  BY <1>20, CallbackReturnsInv
<1>21. CASE WorkerHasClosed
  BY <1>21, WorkerHasClosedInv
<1>22. CASE ClosedCallbackReturns
  BY <1>22, ClosedCallbackReturnsInv
<1> QED
  BY <1>0, <1>1, <1>2, <1>3, <1>4, <1>5, <1>6, <1>7, <1>8, <1>9, <1>10, <1>11, <1>12,
    <1>13, <1>14, <1>15, <1>16, <1>17, <1>18, <1>19, <1>20, <1>21, <1>22 DEF Next

(* The invariant holds in every state of every use of a format.            *)
THEOREM FormatCorrect == Spec => []FormatInv
<1>1. Init => FormatInv
  BY InitInv
<1>2. FormatInv /\ [Next]_vars => FormatInv'
  BY StepInv
<1> QED BY <1>1, <1>2, PTL DEF Spec

(* When close() deletes the demuxer the stream is closed and no call of    *)
(* the demuxer is left that it could wake (format.cc:93).                  *)
THEOREM CloseLeavesNothing == Spec => []NothingLeftBehind
<1>1. FormatInv => NothingLeftBehind
  BY DEF FormatInv, Waiting, Closed, NothingLeftBehind, Active
<1> QED BY <1>1, FormatCorrect, PTL

(* The probes lead to the demuxer of the file's format, at the first byte, *)
(* when the first chunk of the stream is longer than the longest of them   *)
(* (format.cc:45, reader.cc:311).                                          *)
THEOREM ProbesFindTheFormat == Spec => FormatIsFound
<1> DEFINE Found ==
      first > ProbeLength[1] =>
        /\ pc # "demuxer_open" /\ pc' = "demuxer_open" =>
             demuxer' = file.kind /\ reader'.off + reader'.skew = 0 /\ ~reader'.fault
        /\ pc # "unknown_format" /\ pc' = "unknown_format" =>
             file.kind = "other" \/ reader.status # None
<1>1. FormatInv /\ [Next]_vars => [Found]_vars
  <2> SUFFICES ASSUME FormatInv, Next PROVE Found
    OBVIOUS
  <2>1. ASSUME NEW i \in 1..2, ProbeMatches(i) PROVE Found
    <3> SUFFICES ASSUME first > 4, pc' = "demuxer_open" PROVE
          demuxer' = file.kind /\ reader'.off + reader'.skew = 0 /\ ~reader'.fault
      BY <2>1, Lists DEF ProbeMatches, Fails
    <3>1. /\ Probing(i) /\ TRUE \in Verdicts(i) /\ reader' = Restored(reader)
          /\ demuxer' = Formats[i]
      BY <2>1 DEF ProbeMatches, Fails
    <3>2. /\ pc \in Probes /\ running = "worker" /\ reader.base = 0
          /\ reader.peek + reader.skew = 0
      BY <3>1, ProbingFacts DEF FormatInv, Progress, Whole
    <3>3. reader'.off + reader'.skew = 0 /\ ~reader'.fault
      BY <3>1, <3>2, RestoredFacts
    <3>4. reader.err = None
      BY <3>1, Zenon DEF Verdicts
    <3>5. Verdicts(i) = {file.kind = Formats[i]}
      BY <3>2, <3>4 DEF Verdicts
    <3>6. file.kind = Formats[i]
      BY <3>1, <3>5, Zenon
    <3> QED BY <3>1, <3>3, <3>6
  <2>2. ASSUME NEW i \in 1..2, ProbeDoesNotMatch(i) PROVE Found
    <3>1. CASE first > 4 /\ pc' = "unknown_format"
      <4>1. Probing(i) /\ FALSE \in Verdicts(i) /\ i = 2
        <5>1. /\ Probing(i) /\ FALSE \in Verdicts(i)
              /\ IF Restored(reader).err # None THEN pc' = "failed"
                ELSE IF i < Len(Formats) THEN pc' = "probe2" ELSE pc' = "unknown_format"
          BY <2>2 DEF ProbeDoesNotMatch, Fails
        <5>2. i < Len(Formats) <=> i = 1
          BY Lists
        <5>3. i = 1 \/ i = 2
          OBVIOUS
        <5>4. ~(i < Len(Formats))
          BY <3>1, <5>1
        <5> QED BY <5>1, <5>2, <5>3, <5>4
      <4>2. pc = "probe2" /\ reader.peek + reader.skew = 0
        BY <3>1, <4>1, ProbingFacts DEF FormatInv, Progress, Whole
      <4>3. file.kind # "isom" \/ reader.status # None
        BY <4>2 DEF FormatInv, Progress, Probed
      <4>4. file.kind # "matroska" \/ reader.status # None
        <5>1. CASE reader.err # None
          BY <5>1 DEF FormatInv, Progress, ReadHead
        <5>2. CASE reader.err = None
          <6>1. Verdicts(2) = {file.kind = "matroska"}
            BY <4>2, <5>2, Lists DEF Verdicts
          <6> QED BY <4>1, <6>1, Zenon
        <5> QED BY <5>1, <5>2
      <4> QED BY <3>1, <4>3, <4>4 DEF FormatInv, TypeOK
    <3>2. pc' # "demuxer_open"
      BY <2>2 DEF ProbeDoesNotMatch, Fails
    <3> QED BY <3>1, <3>2, Lists
  <2>3. ASSUME NEW n, Read(n) \/ ReadFaults(n) \/ StreamWrites(n) PROVE Found
    <3>1. pc' = pc \/ pc' = "crashed"
      BY <2>3 DEF Read, ReadFaults, StreamWrites
    <3> QED BY <3>1
  <2>4. ASSUME NEW x, StreamEnds(x) \/ DemuxerSeeks(x) PROVE Found
    <3>1. pc' = pc
      BY <2>4 DEF StreamEnds, DemuxerSeeks
    <3> QED BY <3>1
  <2>5. CASE \/ LoopStartsWorker \/ StreamOpens
             \/ \E left \in {"none", "idle", "running"} : OpenFails(left)
    <3>1. pc' \in {"opening", "probe1", "failed"}
      BY <2>5 DEF LoopStartsWorker, OpenFails, StreamOpens, Fails
    <3> QED BY <3>1
  <2>6. CASE \/ DemuxerOpens \/ DemuxerRefuses \/ ReadPacket
             \/ (\E error \in {None, "demuxer", "parser"} : ReadPacketReturns(error))
             \/ WorkerSuspends \/ LoopResumesWorker
    BY <2>6 DEF DemuxerOpens, DemuxerRefuses, ReadPacket, ReadPacketReturns,
      WorkerSuspends, LoopResumesWorker, Fails
  <2>7. CASE LoopCloses \/ LoopHasClosed \/ WorkerCloses \/ CallbackReturns \/ WorkerHasClosed
             \/ ClosedCallbackReturns
    BY <2>7 DEF LoopCloses, LoopHasClosed, WorkerCloses, CallbackReturns, WorkerHasClosed,
      ClosedCallbackReturns
  <2> QED BY <2>1, <2>2, <2>3, <2>4, <2>5, <2>6, <2>7 DEF Next
<1> QED BY <1>1, FormatCorrect, PTL DEF Spec, FormatIsFound

=============================================================================
