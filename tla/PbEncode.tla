------------------------------ MODULE PbEncode ------------------------------
(***************************************************************************)
(* pb_encode of an MQTTMessage into a buffer: what a leaf does to build    *)
(* its reply.  A submessage is encoded twice, the first time only to know  *)
(* its length; the second time into a stream of just that length.  When    *)
(* the buffer is full the encoder gives up, and the leaf sends             *)
(* bytes_written bytes of the buffer all the same.                         *)
(***************************************************************************)
EXTENDS PbFields

CONSTANTS
    Sources,  \* bound: the messages that are encoded
    BufSizes  \* bound: the sizes of the buffer

ASSUME EncodeAssumption ==
    /\ Sources \subseteq [Cells -> Nat]
    /\ BufSizes \subseteq Nat

VARIABLES
    src,      \* the cells of the struct that is encoded
    bufsize,  \* sizeof(tx_buf)
    out,      \* what has been written to the buffer
    dest,     \* where the next byte goes, the state of the innermost stream
    frames,   \* a frame for each pb_encode that is running
    enc       \* what the innermost one does, or how pb_encode ended

encVars == <<src, bufsize, out, dest, frames, enc>>

-----------------------------------------------------------------------------
(***************************************************************************)
(* Fields.                                                                 *)
(***************************************************************************)

\* Mutant: the has_ of a submessage is not looked at.
HasField_always(s, it) == TRUE

\* safe_read_bool(field->pSize)
HasField(s, it) == \E c \in Span(it.pSize, 1) : s[c] # 0

\* pb_check_proto3_default_value, of a field without has_ that holds a value.
HasDefault(s, it) == \A c \in Span(it.pData, it.data_size) : s[c] = 0

\* The tests encode_field begins with.
Present(s, it) ==
    CASE PB_HTYPE(it.type) = PB_HTYPE_ONEOF -> s[it.pSize] = it.tag
      [] PB_HTYPE(it.type) # PB_HTYPE_ONEOF /\ it.pSize # NoAddress -> HasField(s, it)
      [] OTHER -> ~HasDefault(s, it)

\* The bytes pb_encode_varint writes of a tag or a length.
VarintBytes(n) == IF n < 128 THEN 1 ELSE 2

\* pb_enc_bool, pb_enc_varint and pb_enc_fixed.  An integer of 2 stands for a
\* negative one, whose sign extension takes ten bytes; enums are below 128.
ValueBytes(type, v) ==
    CASE PB_LTYPE(type) = PB_LTYPE_FIXED32 -> 4
      [] PB_LTYPE(type) = PB_LTYPE_FIXED64 -> 8
      [] PB_LTYPE(type) = PB_LTYPE_VARINT /\ v >= 2 -> 10
      [] OTHER -> 1

\* pb_encode_tag_for_field
TagOf(it) ==
    LET wt == WireType[PB_LTYPE(it.type)]
    IN  TagItem(it.tag, wt, VarintBytes(8 * it.tag + wt))

ValueOf(s, it) == ValItem(s[it.pData], ValueBytes(it.type, s[it.pData]))

\* The sum of the first n numbers.
Total(numbers, n) ==
    LET upTo[i \in 0..n] == IF i = 0 THEN 0 ELSE upTo[i - 1] + numbers[i]
    IN  upTo[n]

\* What pb_encode writes of a field, if size is what submessages take.
FieldBytes(s, size, it) ==
    IF ~Present(s, it) THEN 0
    ELSE TagOf(it).n +
         IF PB_LTYPE_IS_SUBMSG(it.type)
         THEN VarintBytes(size[it.submsg_desc][it.pData]) + size[it.submsg_desc][it.pData]
         ELSE ValueOf(s, it).n

\* The first pass of pb_encode_submessage, into a sizing stream: the bytes
\* of each message, wherever it is in the struct.
Sizes(s) ==
    LET size[desc \in Messages] ==
            [message \in 0..72 |->
                LET count == Descriptor[desc].field_count
                    it == Walk(desc, message)
                IN  Total([n \in 1..count |-> FieldBytes(s, size, it[n])], count)]
    IN  size

pb_get_encoded_size(s, submsg, address) == Sizes(s)[submsg][address]

LenOf(s, it) ==
    LET Written(size) == LenItem(size, VarintBytes(size))
    IN  Written(pb_get_encoded_size(s, it.submsg_desc, it.pData))

-----------------------------------------------------------------------------
(***************************************************************************)
(* Streams.                                                                *)
(***************************************************************************)

Innermost == frames[Len(frames)]
Outer == SubSeq(frames, 1, Len(frames) - 1)

\* A pb_ostream_t and an iterator; done when the iterator is through.  Of the
\* properties only: where in the buffer the stream begins.
OStream(iter, start, max_size) ==
    [iter |-> iter, start |-> start, max_size |-> max_size,
     bytes_written |-> 0, done |-> FALSE]

\* Mutant: the last byte of the buffer is not used.
Fits_strict(fr, n) == fr.bytes_written + n < fr.max_size

\* What pb_write tests.
Fits(fr, n) == fr.bytes_written + n <= fr.max_size

Wrote(fr, n) == [fr EXCEPT !.bytes_written = @ + n]

\* pb_field_iter_next, the end of the loop of pb_encode.
NextField(fr) ==
    LET next == pb_field_iter_next(fr.iter)
    IN  [fr EXCEPT !.iter = next, !.done = next.index = 0]

\* pb_write and buf_write of two items, one after the other: Then is the frame
\* after both.
WriteBoth(a, b, Then) ==
    IF ~Fits(Innermost, a.n)
    THEN enc' = "failing" /\ UNCHANGED <<out, dest, frames>>
    ELSE IF ~Fits(Innermost, a.n + b.n)
    THEN /\ enc' = "failing"
         /\ out' = Append(out, a) /\ dest' = dest + a.n
         /\ frames' = Append(Outer, Wrote(Innermost, a.n))
    ELSE out' = out \o <<a, b>> /\ dest' = dest + a.n + b.n /\ Then

-----------------------------------------------------------------------------
(***************************************************************************)
(* pb_encode.                                                              *)
(***************************************************************************)

Encoding == enc = "field" /\ ~Innermost.done

\* encode_field of a field that is not there.
SkipAbsent ==
    /\ Encoding /\ ~Present(src, Innermost.iter)
    /\ frames' = Append(Outer, NextField(Innermost))
    /\ UNCHANGED <<src, bufsize, out, dest, enc>>

\* encode_basic_field of a field that holds a value.
WriteValue ==
    LET tag == TagOf(Innermost.iter)
        val == ValueOf(src, Innermost.iter)
    IN  /\ Encoding /\ Present(src, Innermost.iter) /\ ~PB_LTYPE_IS_SUBMSG(Innermost.iter.type)
        /\ WriteBoth(tag, val,
               /\ frames' = Append(Outer, NextField(Wrote(Innermost, tag.n + val.n)))
               /\ UNCHANGED enc)
        /\ UNCHANGED <<src, bufsize>>

\* Mutant: the parent stream is not asked whether the submessage fits.
SubmessageFits_unasked(fr, size) == TRUE

\* "stream full", before anything of the submessage is written.
SubmessageFits(fr, size) == size \in 0..(fr.max_size - fr.bytes_written)

\* encode_basic_field of a submessage: the tag, and pb_encode_submessage up
\* to its second pass.
BeginSubmessage ==
    LET it == Innermost.iter
        Begins(tag, size) ==
            LET fr == Wrote(Innermost, tag.n + size.n)
                sub == OStream(pb_field_iter_begin(it.submsg_desc, it.pData),
                             dest + tag.n + size.n, size.size)
            IN  WriteBoth(tag, size,
                    IF SubmessageFits(fr, size.size)
                    THEN frames' = Outer \o <<fr, sub>> /\ UNCHANGED enc
                    ELSE frames' = Append(Outer, fr) /\ enc' = "failing")
    IN  /\ Encoding /\ Present(src, it) /\ PB_LTYPE_IS_SUBMSG(it.type)
        /\ Begins(TagOf(it), LenOf(src, it))
        /\ UNCHANGED <<src, bufsize>>

\* Mutant: the parent stream does not count the submessage.
Counted_not(fr, sub) == fr

\* Mutant: the submessage is counted by its limit and by its bytes.
Counted_twice(fr, sub) == Wrote(fr, sub.max_size + sub.bytes_written)

\* The parent stream goes on after the substream.
Counted(fr, sub) == Wrote(fr, sub.bytes_written)

\* pb_encode of a submessage is through, and pb_encode_submessage returns; or
\* an error, "submsg size changed" among them, unwinds.
EndSubmessage ==
    LET fr == Counted(Outer[Len(Outer)], Innermost)
        ok == enc = "field" /\ Innermost.bytes_written = Innermost.max_size
    IN  /\ Len(frames) > 1
        /\ (enc = "field" /\ Innermost.done) \/ enc = "failing"
        /\ enc' = IF ok THEN "field" ELSE "failing"
        /\ frames' = [Outer EXCEPT ![Len(Outer)] = IF ok THEN NextField(fr) ELSE fr]
        /\ UNCHANGED <<src, bufsize, out, dest>>

\* pb_encode returns to the leaf.
EncodeReturn ==
    /\ Len(frames) = 1
    /\ \/ enc = "field" /\ Innermost.done /\ enc' = "ok"
       \/ enc = "failing" /\ enc' = "failed"
    /\ UNCHANGED <<src, bufsize, out, dest, frames>>

EncodeNext ==
    \/ SkipAbsent \/ WriteValue \/ BeginSubmessage \/ EndSubmessage \/ EncodeReturn

EncodeInit ==
    /\ src \in Sources /\ bufsize \in BufSizes
    /\ out = <<>> /\ dest = 0
    /\ frames = <<OStream(pb_field_iter_begin("MQTTMessage", 0), 0, bufsize)>>
    /\ enc = "field"

EncodeSpec == EncodeInit /\ [][EncodeNext]_encVars

-----------------------------------------------------------------------------
(***************************************************************************)
(* Properties.                                                             *)
(***************************************************************************)

\* The bytes of the first n items of out.
OutBytes(n) == Total([i \in 1..n |-> out[i].n], n)

\* Types; pb_encode never runs more than three deep, no stream has written
\* more than its limit, and dest is the end of what is in the buffer.
EncodeTypeOK ==
    /\ src \in [Cells -> Nat] /\ bufsize \in Nat
    /\ dest = OutBytes(Len(out))
    /\ enc \in {"field", "failing", "ok", "failed"}
    /\ Len(frames) \in 1..3
    /\ \A i \in DOMAIN frames :
         /\ frames[i].bytes_written \in Nat /\ frames[i].max_size \in Nat
         /\ frames[i].bytes_written <= frames[i].max_size

\* Nothing is written beyond the end of the buffer, although each stream asks
\* its own limit only (pb_encode.c:84-99, 746-765).
WithinBuffer == dest <= bufsize

\* However it ended, bytes_written is what is in the buffer: the leaf sends
\* that many bytes and no other (mesh.cpp:131-142).
SentIsWritten == enc \in {"ok", "failed"} => frames[1].bytes_written = dest

MQTTMessage_size == 73

\* A buffer of MQTTMessage_size bytes holds every message: the encoder does
\* not fail, and what it wrote is as long as its sizing pass had found.
SizeIsEnough ==
    /\ bufsize >= MQTTMessage_size => enc \in {"field", "ok"}
    /\ enc = "ok" => frames[1].bytes_written = pb_get_encoded_size(src, "MQTTMessage", 0)
=============================================================================
