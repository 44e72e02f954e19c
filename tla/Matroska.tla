------------------------------ MODULE Matroska ------------------------------
(***************************************************************************)
(* The Matroska demuxer (mkv.cc): the walk over nested elements by         *)
(* xe_matroska_reader::read_children, and xe_matroska::open and            *)
(* read_packet that call it.                                               *)
(*                                                                         *)
(* The file is written by the model while the demuxer reads it, one        *)
(* element at a time: path is where the next element really is in a file   *)
(* that is nested as Matroska prescribes.  A header is two steps of the    *)
(* code, id and size, of HeaderSizes bytes together.                       *)
(***************************************************************************)
EXTENDS Integers, Sequences

CONSTANTS
  Ids,            \* the elements of the files
  HeaderSizes, Sizes, BlockHeader,
  UnknownIds,     \* elements that may have an unknown size
  Times, Timecodes,
  Files,          \* what files are at their start: "readable", "sized"
  MaxOffset,      \* bound of a file that is readable
  MaxDamaged,     \* bound of any other
  UNKNOWN_LENGTH  \* EBML_UNKNOWN_LENGTH

STACK_SIZE == 16
NoTime == -1
NoBlock == [time |-> NoTime, size |-> 0, at |-> 0]

(* The elements that read_children() knows and what they must be in. *)
Grammar ==
  [EBML_HEADER |-> "EBML_ROOT", EBML_READER_VERSION |-> "EBML_HEADER",
   EBML_MAX_ID_LENGTH |-> "EBML_HEADER", EBML_MAX_SIZE_LENGTH |-> "EBML_HEADER",
   EBML_DOCTYPE |-> "EBML_HEADER", EBML_DOCTYPE_READER_VERSION |-> "EBML_HEADER",
   MKV_SEGMENT |-> "EBML_ROOT",
   MKV_SEGMENT_INFO |-> "MKV_SEGMENT", MKV_SEGMENT_DURATION |-> "MKV_SEGMENT_INFO",
   MKV_SEGMENT_TIMECODE_SCALE |-> "MKV_SEGMENT_INFO",
   MKV_SEEK_HEAD |-> "MKV_SEGMENT", MKV_SEEK |-> "MKV_SEEK_HEAD",
   MKV_SEEK_ID |-> "MKV_SEEK", MKV_SEEK_POSITION |-> "MKV_SEEK",
   MKV_TRACKS |-> "MKV_SEGMENT", MKV_TRACK |-> "MKV_TRACKS",
   MKV_TRACK_NUMBER |-> "MKV_TRACK", MKV_TRACK_TYPE |-> "MKV_TRACK",
   MKV_TRACK_DEFAULT_DURATION |-> "MKV_TRACK", MKV_TRACK_TIMECODE_SCALE |-> "MKV_TRACK",
   MKV_TRACK_CODEC_ID |-> "MKV_TRACK", MKV_TRACK_CODEC_PRIVATE |-> "MKV_TRACK",
   MKV_TRACK_AUDIO |-> "MKV_TRACK",
   MKV_TRACK_AUDIO_SAMPLING_FREQUENCY |-> "MKV_TRACK_AUDIO",
   MKV_TRACK_AUDIO_OUTPUT_SAMPLING_FREQUENCY |-> "MKV_TRACK_AUDIO",
   MKV_TRACK_AUDIO_CHANNELS |-> "MKV_TRACK_AUDIO",
   MKV_TRACK_AUDIO_BIT_DEPTH |-> "MKV_TRACK_AUDIO",
   MKV_CUES |-> "MKV_SEGMENT", MKV_CUE_POINT |-> "MKV_CUES",
   MKV_CUE_TIME |-> "MKV_CUE_POINT", MKV_CUE_TRACK_POSITION |-> "MKV_CUE_POINT",
   MKV_CUE_TRACK |-> "MKV_CUE_TRACK_POSITION",
   MKV_CUE_CLUSTER_POSITION |-> "MKV_CUE_TRACK_POSITION",
   MKV_CLUSTER |-> "MKV_SEGMENT", MKV_CLUSTER_TIMECODE |-> "MKV_CLUSTER",
   MKV_CLUSTER_SIMPLE_BLOCK |-> "MKV_CLUSTER"]

(* Elements of elements. *)
Masters ==
  {"EBML_HEADER", "MKV_SEGMENT", "MKV_SEGMENT_INFO", "MKV_SEEK_HEAD", "MKV_SEEK", "MKV_TRACKS",
   "MKV_TRACK", "MKV_TRACK_AUDIO", "MKV_CUES", "MKV_CUE_POINT", "MKV_CUE_TRACK_POSITION",
   "MKV_CLUSTER"}

Owners == {"MKV_SEEK", "MKV_TRACK", "MKV_CUE_POINT"}

ASSUME IdAssumption == "EBML_ROOT" \notin Ids /\ UnknownIds \subseteq Ids \intersect Masters
ASSUME SizeAssumption ==
  /\ Sizes \subseteq Nat /\ HeaderSizes \subseteq Nat \ {0, 1}
  /\ BlockHeader \in Nat \ {0, 1} /\ MaxOffset \in Nat /\ MaxDamaged \in Nat
  /\ UNKNOWN_LENGTH \in Nat /\ \A size \in Sizes \union {BlockHeader} : size < UNKNOWN_LENGTH
ASSUME TimeAssumption == Times \subseteq Nat /\ Timecodes \subseteq Nat
ASSUME FileAssumption == Files \subseteq {"readable", "sized"}

VARIABLES
  pc,                \* who called read_children(), or what comes after it
  result,            \* of the last call of the demuxer
  opened,
  reader,            \* offset and error of the xe_reader
  stack,             \* the elements in stack[0] .. stack[depth - 1]
  end,               \* the field of the element on the stack of read_children()
  ptr,               \* the union: the object that the open element fills in
  segment_offset, cluster_timecode, sample_size, sample_time,
  outside,           \* memory outside of the stack or of a packet was used
  file,              \* what the file has been so far: "readable", "sized" or "any"
  path, clock, due   \* its open elements, time of the cluster, block not yet delivered

stream == <<reader, path, clock, due>>
fields == <<ptr, segment_offset, cluster_timecode, sample_size, sample_time>>
caller == <<pc, result, opened>>
vars == <<caller, stack, end, outside, fields, file, stream>>

Init ==
  /\ pc = "idle" /\ result = "OK" /\ opened = FALSE
  /\ reader = [offset |-> 0, error |-> "OK"]
  /\ stack = <<>> /\ end = 0 /\ outside = FALSE
  /\ ptr = [id |-> "EBML_ROOT", at |-> 0]
  /\ segment_offset = 0 /\ cluster_timecode = 0 /\ sample_size = 0 /\ sample_time = 0
  /\ file \in Files /\ path = <<>> /\ clock = NoTime /\ due = NoBlock

-----------------------------------------------------------------------------
(* The file *)

Over(e) == e.end = reader.offset

(* An open element of the file ends where its size says, and one of        *)
(* unknown size where an element begins that cannot be in it.              *)
Ended(e, id) == e.end = reader.offset \/ (e.unknown /\ id \in DOMAIN Grammar)

After(size, h) == reader.offset + h + (IF size = UNKNOWN_LENGTH THEN 0 ELSE size)

EndsAt(k, size, h) ==
  IF size # UNKNOWN_LENGTH THEN After(size, h) ELSE IF k = 0 THEN 0 ELSE path[k].end

(* The element may be put into path[k]: every element has at least the     *)
(* two bytes of a header.                                                  *)
Fits(k, size, h) ==
  \A j \in 1..k : path[j].end # 0 =>
    /\ ~Over(path[j])
    /\ After(size, h) <= path[j].end
    /\ After(size, h) + 1 # path[j].end

Ending(k) == {j \in k+1..Len(path) : ~Over(path[j])}

(* What the demuxer can read of unknown sizes: no element of the second    *)
(* level ends elements of unknown size, but for one that follows its like  *)
(* (mkv.cc:1125), and only the outermost has no bound (mkv.cc:1145).  The  *)
(* second cluster of a segment whose clusters have no size is not so.      *)
Readable(k, id, size) ==
  /\ k = 1 /\ Ending(k) # {} => Ending(k) = {2, 3} /\ path[2].id = id
  /\ size = UNKNOWN_LENGTH /\ k > 0 => path[k].end # 0

(* Blocks have a payload, no lacing and a cluster that has a time. *)
Complete(id, size) ==
  /\ id \in Masters => size # 1
  /\ id = "MKV_CLUSTER_TIMECODE" => size # 0
  /\ id = "MKV_CLUSTER_SIMPLE_BLOCK" => size > BlockHeader /\ clock # NoTime

(* The element is nested as Matroska prescribes. *)
Nested(k, id, size, h) ==
  /\ IF id \in DOMAIN Grammar
       THEN Grammar[id] = IF k = 0 THEN "EBML_ROOT" ELSE path[k].id
       ELSE k > 0 => ~Over(path[k])
  /\ \A j \in k+1..Len(path) : Ended(path[j], id)
  /\ Fits(k, size, h) /\ Complete(id, size)

(* The element has a size that holds what it begins with. *)
Sized(id, size) ==
  size # UNKNOWN_LENGTH /\ (id = "MKV_CLUSTER_SIMPLE_BLOCK" => size >= BlockHeader)

(* The next element of the file.  A file is readable as long as it is      *)
(* nested and the demuxer can tell where elements end; other elements that *)
(* are in the right place may follow, and anything after the first of      *)
(* them.  A file is sized as long as any elements that have sizes come in  *)
(* any order.                                                              *)
Written(id, size, h) ==
  \/ /\ file = "readable"
     /\ \E k \in 0..Len(path) :
          /\ Nested(k, id, size, h) /\ (size = UNKNOWN_LENGTH => id \in UnknownIds)
          /\ path' = Append(SubSeq(path, 1, k),
                            [id |-> id, unknown |-> size = UNKNOWN_LENGTH, end |-> EndsAt(k, size, h)])
          /\ file' = IF Readable(k, id, size) THEN file ELSE "any"
  \/ /\ file # "readable" /\ path' = path
     /\ file' = IF Sized(id, size) THEN file ELSE "any"

-----------------------------------------------------------------------------
(* The stack of elements *)

Top == stack[Len(stack)]
TopId == IF stack = <<>> THEN "EBML_ROOT" ELSE Top.id
TopUnknown == stack # <<>> /\ Top.size = UNKNOWN_LENGTH

(* element_has() at the offset of the reader. *)
Has(e, bytes) ==
  IF e.size = UNKNOWN_LENGTH THEN e.end = 0 \/ e.end >= bytes + reader.offset
  ELSE e.offset + e.size >= bytes + reader.offset

(* mutant: elements are handled wherever they are *)
Misplaced_Never(id) == FALSE

(* The parent is not on top and top cannot end here. *)
Misplaced(id) ==
  TopId # Grammar[id] /\ ~(TopUnknown /\ (Grammar[id] = "EBML_ROOT" \/ Len(stack) > 1))

(* mutant: the element that follows its like is not looked for *)
Twin_Ignored(id) == FALSE

Twin(id) == Len(stack) > 1 /\ stack[Len(stack) - 1].id = id

Ancestors(id) == {k \in 1..Len(stack) - 1 : stack[k].id = Grammar[id]}

(* mutant: elements of unknown size do not end *)
Depth_Keeps(id) == Len(stack)

(* The loop that looks for the parent, from entry i below the top of d     *)
(* entries, goes on with what is left after it has found it.               *)
Popping(parent) ==
  LET left[i \in 0..Len(stack), d \in 0..Len(stack)] ==
        IF d < 2 \/ i > d - 2 THEN d
        ELSE left[i + 1, IF stack[d - i - 1].id = parent THEN d - (i + 1) ELSE d]
  IN  left[0, Len(stack)]

(* How many entries remain when the elements that end at id are popped: up *)
(* to the parent, if it is on the stack once.                              *)
Depth(id) ==
  IF TopId = Grammar[id] THEN Len(stack)
  ELSE IF Grammar[id] = "EBML_ROOT" THEN 0
  ELSE IF Twin(id) THEN Len(stack) - 2
  ELSE IF Ancestors(id) = {} THEN Len(stack)
  ELSE IF \A j, k \in Ancestors(id) : j = k THEN CHOOSE k \in Ancestors(id) : TRUE
  ELSE Popping(Grammar[id])

(* When one entry remains, depth - 2 and the index wrap, and the loop goes *)
(* on outside of the stack.  Nothing checks that an entry is left to push  *)
(* an element.                                                             *)
LooksOutside(id) ==
  /\ TopId # Grammar[id] /\ Grammar[id] # "EBML_ROOT"
  /\ ~Twin(id) /\ Ancestors(id) # {} /\ Depth(id) = 1

IsFull(s) == Len(s) >= STACK_SIZE

(* mutant: the bound of the parent is forgotten *)
EndIn_Unbounded(s) == IF s = <<>> THEN 0 ELSE end

(* The bound of an element of unknown size that is pushed on s. *)
EndIn(s) ==
  IF s = <<>> THEN 0
  ELSE LET top == s[Len(s)]
       IN  IF top.size # UNKNOWN_LENGTH THEN top.offset + top.size
           ELSE IF top.end # 0 THEN top.end ELSE end

Element(id, size, h, e) == [id |-> id, offset |-> reader.offset + h, size |-> size, end |-> e]

-----------------------------------------------------------------------------
(* The calls and what read_children() returns to *)

(* The local element of read_children() is not initialised. *)
Uninitialised == {0, 1}

Open ==
  /\ pc = "idle" /\ ~opened /\ result = "OK"
  /\ pc' = "open" /\ end' \in Uninitialised
  /\ UNCHANGED <<result, opened, stack, outside, fields, stream>>

ReadPacket ==
  /\ pc = "idle" /\ opened
  /\ result = "OK" \/ (result = "XE_ENOMEM" /\ sample_size # 0)
  /\ IF sample_size # 0 THEN pc' = "take" /\ end' = end
     ELSE pc' = "packet" /\ end' \in Uninitialised
  /\ UNCHANGED <<result, opened, stack, outside, fields, stream>>

Fail(err) == pc' = "idle" /\ result' = err /\ UNCHANGED opened

(* read_children() returns 0.  open() may not get the memory for its copy  *)
(* of the tracks.                                                          *)
Return ==
  IF pc = "open" THEN
    /\ pc' = "idle"
    /\ \/ result' = "OK" /\ opened' = TRUE
       \/ result' = "XE_ENOMEM" /\ UNCHANGED opened
  ELSE IF sample_size' = 0 THEN Fail("XE_EOF")
  ELSE pc' = "take" /\ UNCHANGED <<result, opened>>

(* A block that is shorter than its header has a size that wraps, and with *)
(* the padding wraps once more.                                            *)
Payload(size) == (size - BlockHeader) % (UNKNOWN_LENGTH + 1)
Wrapped == sample_size > UNKNOWN_LENGTH - BlockHeader

(* read_packet() has a block: its payload is what the reader reads next,   *)
(* into a packet that is too small if the size has wrapped.                *)
Take ==
  /\ pc = "take" /\ ~outside
  /\ \/ Fail("XE_ENOMEM") /\ UNCHANGED <<reader, sample_size, due, outside>>
     \/ /\ reader.error = "OK" /\ ~Wrapped
        /\ reader' = [reader EXCEPT !.offset = @ + sample_size]
        /\ Fail("OK") /\ sample_size' = 0 /\ due' = NoBlock /\ UNCHANGED outside
     \/ /\ reader.error = "OK" /\ Wrapped /\ outside' = TRUE
        /\ UNCHANGED <<caller, reader, sample_size, due>>
     \/ \E e \in {"XE_EOF", "XE_EXTERNAL"} :
          /\ reader.error \in {"OK", e}
          /\ reader' = [reader EXCEPT !.error = e]
          /\ Fail(e) /\ sample_size' = 0 /\ UNCHANGED <<due, outside>>
  /\ UNCHANGED <<stack, end, ptr, segment_offset, cluster_timecode, sample_time, path, clock>>

-----------------------------------------------------------------------------
(* One round of read_children() *)

InChildren == pc \in {"open", "packet"} /\ ~outside

Ready == stack # <<>> => Has(Top, 2)

FinishElement ==
  /\ InChildren /\ ~Ready
  /\ stack' = SubSeq(stack, 1, Len(stack) - 1)
  /\ UNCHANGED <<caller, end, outside, fields, stream>>

Broken(e) ==
  /\ reader.error \in {"OK", e}
  /\ reader' = [reader EXCEPT !.error = e]
  /\ UNCHANGED <<path, clock, due>>

(* mutant: every failure is taken for the end *)
IdFails_AsEof(e) ==
  /\ InChildren /\ Ready
  /\ Broken(e) /\ Fail("XE_EOF")
  /\ UNCHANGED <<stack, end, outside, fields>>

(* The end of the file in an element without a bound is the end of it. *)
IdFails(e) ==
  /\ InChildren /\ Ready
  /\ Broken(e)
  /\ UNCHANGED <<end, outside, fields>>
  /\ IF e = "XE_EOF" /\ TopUnknown /\ Top.end = 0
       THEN stack' = <<>> /\ Return
       ELSE UNCHANGED stack /\ Fail(e)

SizeFails(e) ==
  /\ InChildren /\ Ready
  /\ Broken(e) /\ Fail(e)
  /\ UNCHANGED <<stack, end, outside, fields>>

(* The header is no number. *)
HeaderInvalid ==
  /\ InChildren /\ Ready /\ file # "readable"
  /\ Fail("XE_INVALID_DATA")
  /\ UNCHANGED <<stack, end, outside, fields, stream>>

(* A header has been read. *)
Header(id, size, h) ==
  /\ InChildren /\ Ready /\ reader.error = "OK"
  /\ Written(id, size, h)

At(offset) == reader' = [reader EXCEPT !.offset = offset]

(* The round is over, and the loop unless the reader is in the element,    *)
(* whose end is e if its size is unknown.                                  *)
RoundEnds(size, e) ==
  IF size = UNKNOWN_LENGTH /\ e # 0 /\ e < reader'.offset THEN Return ELSE UNCHANGED caller

Refused(id, size) == size = UNKNOWN_LENGTH /\ id \in DOMAIN Grammar \ Masters

(* An element in the wrong place is not pushed, and its content is taken   *)
(* for elements.  read_children() returns from a block in any case.        *)
Ignore(id, size, h) ==
  /\ Header(id, size, h) /\ id \in DOMAIN Grammar /\ ~Refused(id, size) /\ Misplaced(id)
  /\ At(reader.offset + h)
  /\ UNCHANGED <<stack, end, outside, fields, clock, due>>
  /\ IF id = "MKV_CLUSTER_SIMPLE_BLOCK" THEN Return ELSE RoundEnds(size, end)

(* A value has no size, wherever it is. *)
RefuseUnknown(id, h) ==
  /\ Header(id, UNKNOWN_LENGTH, h) /\ Refused(id, UNKNOWN_LENGTH)
  /\ At(reader.offset + h)
  /\ UNCHANGED <<stack, end, outside, fields, clock, due>>
  /\ IF id = "MKV_CLUSTER_SIMPLE_BLOCK" THEN Return ELSE Fail("XE_INVALID_DATA")

(* element_handler() up to the parse function: s is the stack below id. *)
Handled(id, size, h, s) ==
  /\ Header(id, size, h) /\ id \in DOMAIN Grammar /\ ~Refused(id, size) /\ ~Misplaced(id)
  /\ s = SubSeq(stack, 1, Depth(id))
  /\ outside' = (LooksOutside(id) \/ IsFull(s))

(* A master: what its parse function allocates.  The rest is its children. *)
Enter(id, size, h) ==
  /\ id \in Masters
  /\ \E s \in {SubSeq(stack, 1, Depth(id))} :
       /\ Handled(id, size, h, s)
       /\ end' = IF size = UNKNOWN_LENGTH THEN EndIn(s) ELSE end
       /\ stack' = Append(s, Element(id, size, h, IF size = UNKNOWN_LENGTH THEN end' ELSE 0))
  /\ At(reader.offset + h)
  /\ UNCHANGED <<cluster_timecode, sample_size, sample_time, due>>
  /\ clock' = IF id = "MKV_CLUSTER" THEN NoTime ELSE clock
  /\ segment_offset' = IF id = "MKV_SEGMENT" THEN reader.offset + h ELSE segment_offset
  /\ IF id \in Owners
       THEN \/ ptr' = [id |-> id, at |-> reader.offset + h] /\ RoundEnds(size, end')
            \/ ptr' = [id |-> "EBML_ROOT", at |-> 0] /\ Fail("XE_ENOMEM")
       ELSE /\ UNCHANGED ptr
            /\ RoundEnds(size, end') \/ (id = "MKV_CUE_TRACK_POSITION" /\ Fail("XE_ENOMEM"))

Leaves == DOMAIN Grammar \ (Masters \union {"MKV_CLUSTER_SIMPLE_BLOCK"})

(* read_uint() leaves its result alone when the element is empty. *)
TimecodeRead(id, size, t) ==
  /\ cluster_timecode' = IF id = "MKV_CLUSTER_TIMECODE" /\ size # 0 THEN t ELSE cluster_timecode
  /\ clock' = IF id = "MKV_CLUSTER_TIMECODE" THEN t ELSE clock

(* A value is read and what follows it in its element skipped. *)
ReadLeaf(id, size, h, t) ==
  /\ id \in Leaves
  /\ Handled(id, size, h, SubSeq(stack, 1, Depth(id)))
  /\ stack' = SubSeq(stack, 1, Depth(id))
  /\ At(reader.offset + h + size)
  /\ TimecodeRead(id, size, t)
  /\ UNCHANGED <<caller, end, ptr, segment_offset, sample_size, sample_time, due>>

(* The value is not accepted, for any reason: the element stays on the     *)
(* stack.                                                                  *)
LeafInvalid(id, size, h) ==
  /\ id \in Leaves
  /\ \E s \in {SubSeq(stack, 1, Depth(id))} :
       Handled(id, size, h, s) /\ stack' = Append(s, Element(id, size, h, 0))
  /\ At(reader.offset + h + size)
  /\ Fail("XE_INVALID_DATA")
  /\ UNCHANGED <<end, fields, clock, due>>

(* The content cannot be read. *)
LeafFails(id, size, h, e) ==
  /\ id \in Leaves
  /\ \E s \in {SubSeq(stack, 1, Depth(id))} :
       /\ Handled(id, size, h, s)
       /\ stack' \in {s, Append(s, Element(id, size, h, 0))}
  /\ reader' = [offset |-> reader.offset + h, error |-> e]
  /\ Fail(e)
  /\ UNCHANGED <<end, fields, clock, due>>

(* mutant: blocks have absolute times *)
SampleTime_Absolute(t) == t

SampleTime(t) == cluster_timecode + t

(* A block stays on the stack until its payload has been taken.  Nothing   *)
(* is done about laced blocks and those whose number is invalid.           *)
ReadBlock(id, size, h, t, plain) ==
  /\ id = "MKV_CLUSTER_SIMPLE_BLOCK"
  /\ plain \/ file # "readable"
  /\ \E s \in {SubSeq(stack, 1, Depth(id))} :
       Handled(id, size, h, s) /\ stack' = Append(s, Element(id, size, h, 0))
  /\ At(reader.offset + h + BlockHeader)
  /\ IF plain
       THEN /\ sample_size' = Payload(size) /\ sample_time' = SampleTime(t)
            /\ due' = [time |-> clock + t, size |-> Payload(size),
                       at |-> reader.offset + h + BlockHeader]
       ELSE UNCHANGED <<sample_size, sample_time, due>>
  /\ Return
  /\ UNCHANGED <<end, ptr, segment_offset, cluster_timecode, clock>>

(* Errors in a block are dropped: its number cannot be read, or what       *)
(* follows it.                                                             *)
BlockFails(id, size, h, e) ==
  /\ id = "MKV_CLUSTER_SIMPLE_BLOCK"
  /\ \E s \in {SubSeq(stack, 1, Depth(id))} :
       Handled(id, size, h, s) /\ stack' = Append(s, Element(id, size, h, 0))
  /\ reader' = [offset |-> reader.offset + h + 1, error |-> e]
  /\ \/ UNCHANGED <<sample_size, sample_time>>
     \/ sample_size' = (size - 1) % (UNKNOWN_LENGTH + 1) /\ sample_time' = SampleTime(0)
  /\ Return
  /\ UNCHANGED <<end, ptr, segment_offset, cluster_timecode, clock, due>>

(* Unknown to the demuxer: pushed, popped and skipped, by a size that      *)
(* wraps if there is none.                                                 *)
SkipElement(id, size, h) ==
  /\ id \notin DOMAIN Grammar
  /\ Header(id, size, h)
  /\ outside' = IsFull(stack)
  /\ IF size = UNKNOWN_LENGTH THEN At(reader.offset + h - 1) ELSE At(reader.offset + h + size)
  /\ UNCHANGED <<stack, end, fields, clock, due>>
  /\ RoundEnds(size, end)

SkipFails(id, size, h, e) ==
  /\ id \notin DOMAIN Grammar
  /\ Header(id, size, h)
  /\ reader' = [offset |-> reader.offset + h, error |-> e]
  /\ Fail(e)
  /\ outside' = IsFull(stack)
  /\ UNCHANGED <<stack, end, fields, clock, due>>

-----------------------------------------------------------------------------
(* Nothing is called any more: a call has failed, or the program. *)
Halted == outside \/ (pc = "idle" /\ result # "OK")

ReaderErrors == {"XE_EOF", "XE_EXTERNAL"}

Call ==
  \/ Open \/ ReadPacket \/ Take
  \/ FinishElement \/ HeaderInvalid
  \/ \E e \in ReaderErrors : IdFails(e) \/ SizeFails(e)

NextElement ==
  \E id \in Ids, size \in Sizes \union {UNKNOWN_LENGTH}, h \in HeaderSizes :
    /\ After(size, h) <= IF file = "readable" THEN MaxOffset ELSE MaxDamaged
    /\ \/ Ignore(id, size, h)
       \/ RefuseUnknown(id, h)
       \/ Enter(id, size, h)
       \/ \E t \in Timecodes : ReadLeaf(id, size, h, t)
       \/ LeafInvalid(id, size, h)
       \/ \E t \in Times, plain \in BOOLEAN : ReadBlock(id, size, h, t, plain)
       \/ SkipElement(id, size, h)
       \/ \E e \in ReaderErrors :
            \/ LeafFails(id, size, h, e)
            \/ BlockFails(id, size, h, e)
            \/ SkipFails(id, size, h, e)

Next ==
  \/ Call /\ UNCHANGED file
  \/ NextElement
  \/ Halted /\ UNCHANGED vars

Spec == Init /\ [][Next]_vars

-----------------------------------------------------------------------------
(* Properties *)

TypeOK ==
  /\ pc \in {"idle", "open", "packet", "take"} /\ {opened, outside} \subseteq BOOLEAN
  /\ file \in {"readable", "sized", "any"}
  /\ result \in {"OK", "XE_ENOMEM", "XE_INVALID_DATA"} \union ReaderErrors
  /\ reader \in [offset : Nat, error : {"OK"} \union ReaderErrors]
  /\ stack \in Seq([id : DOMAIN Grammar, offset : Nat, size : Nat, end : Nat])
  /\ end \in Nat
  /\ ptr \in [id : Owners \union {"EBML_ROOT"}, at : Nat]
  /\ segment_offset \in Nat /\ cluster_timecode \in Nat
  /\ sample_size \in Nat /\ sample_time \in Nat
  /\ path \in Seq([id : Ids, unknown : BOOLEAN, end : Nat])
  /\ clock \in Nat \union {NoTime}
  /\ due \in [time : Nat \union {NoTime}, size : Nat, at : Nat]

Sound == file # "any"

(* An element is only handled inside of the one it belongs in, in files    *)
(* that are readable, and in any others as long as their elements have     *)
(* sizes (mkv.cc:1119).                                                    *)
StackIsNested ==
  Sound => \A k \in DOMAIN stack :
    Grammar[stack[k].id] = IF k = 1 THEN "EBML_ROOT" ELSE stack[k - 1].id

(* The union holds the object of the element that is open, and not one of  *)
(* an element read before; positions count from the segment they are in    *)
(* (mkv.cc:921, 1505).                                                     *)
ObjectsAreOpen ==
  Sound /\ result = "OK" => \A k \in DOMAIN stack :
    /\ stack[k].id \in Owners => ptr = [id |-> stack[k].id, at |-> stack[k].offset]
    /\ stack[k].id = "MKV_SEGMENT" => segment_offset = stack[k].offset

(* No entry outside of the stack is looked at (mkv.cc:1129) or written     *)
(* (mkv.cc:1089), and no packet is too small for its block (mkv.cc:1846):  *)
(* not in a readable file, nor in one of any elements that have sizes.     *)
NeverOutside == Sound => ~outside

(* Where elements of the stack and of the file end. *)
EndOf(e) == IF e.size = UNKNOWN_LENGTH THEN e.end ELSE e.offset + e.size
Frames == [k \in DOMAIN stack |-> [id |-> stack[k].id, end |-> EndOf(stack[k])]]
Places == [k \in DOMAIN path |-> [id |-> path[k].id, end |-> path[k].end]]
Unfinished(f) == {<<k, f[k]>> : k \in {j \in DOMAIN f : f[j].end # reader.offset}}

(* The demuxer is in the elements of the file that it reads, at the levels *)
(* they have there, as long as it can tell where they end (mkv.cc:1234,    *)
(* 1121, 1143; Readable).                                                  *)
FollowsFile == reader.error = "OK" /\ file = "readable" => Unfinished(Frames) = Unfinished(Places)

(* A packet has the payload and the time of the next block of the file,    *)
(* and no block is passed over (mkv.cc:1660, 1835).                        *)
BlocksInTurn ==
  reader.error = "OK" /\ file = "readable" =>
    IF due = NoBlock THEN sample_size = 0
    ELSE sample_size = due.size /\ sample_time = due.time /\ reader.offset = due.at

(* The end is only reported at the end of the file, or when the reader has *)
(* failed inside of a block, whose errors are dropped (mkv.cc:1395, 1837). *)
EofIsTheEnd ==
  result = "XE_EOF" /\ file = "readable" =>
    \/ reader.error = "XE_EOF"
    \/ reader.error = "XE_EXTERNAL" /\ TopId = "MKV_CLUSTER_SIMPLE_BLOCK"

=============================================================================
