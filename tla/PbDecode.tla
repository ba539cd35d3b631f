------------------------------ MODULE PbDecode ------------------------------
(***************************************************************************)
(* pb_decode of an MQTTMessage: the decoder of the receive task.  It walks *)
(* through the bytes with a stream per message and submessage, finds the   *)
(* field of each tag with an iterator, and writes to the struct through    *)
(* the addresses the iterator gives it; the two members of the oneof share *)
(* one address.  The bytes come from another node, or from PbEncode.       *)
(*                                                                         *)
(* A value is 0 or one of a few others, and a varint is read in one step   *)
(* (PbVarint reads its bytes).                                             *)
(***************************************************************************)
EXTENDS PbFields

CONSTANTS
    Lens,         \* bound: the bytes a message of another node may have
    VarintSizes,  \* bound: the bytes a varint of another node may take
    Values        \* bound: what a field of another node may hold

ASSUME DecodeAssumption ==
    /\ Lens \subseteq Nat
    /\ VarintSizes \subseteq Nat \ {0}
    /\ Values \subseteq Nat /\ 0 \in Values

VARIABLES
    input,  \* the bytes of PbEncode, or Elsewhere
    at,     \* how many of its items have been read
    len,    \* bytes of the whole message
    stack,  \* a frame for each pb_decode_inner that is running
    pc,     \* what the innermost one does next, or how pb_decode ended
    wire,   \* wire_type of the field that was found
    mem     \* the cells of the struct

vars == <<input, at, len, stack, pc, wire, mem>>

\* The bytes come from another node and are chosen as they are read.
Elsewhere == <<>>

Put(m, cells, v) == [c \in Cells |-> IF c \in cells THEN v ELSE m[c]]

-----------------------------------------------------------------------------
(***************************************************************************)
(* Default values, and what marks a field as present.                      *)
(***************************************************************************)

\* The cells pb_message_set_to_defaults clears.
DefaultCells[desc \in Messages] ==
    [message \in 0..72 |->
        UNION {IF PB_HTYPE(it.type) = PB_HTYPE_ONEOF THEN Span(it.pSize, 2)
               ELSE Span(it.pSize, 1)
                    \cup IF it.submsg_desc # NULL /\ HasSubmessages(it.submsg_desc)
                         THEN DefaultCells[it.submsg_desc][it.pData]
                         ELSE Span(it.pData, it.data_size)
               : it \in {Walk(desc, message)[n] : n \in 1..Descriptor[desc].field_count}}]

pb_message_set_to_defaults(m, desc, message) ==
    Put(m, DefaultCells[desc][message], 0)

\* Mutant: the other member's bytes are left in the union.
ClearMember_none(m, it) == m

\* The member of a oneof that was not selected starts from zeros.
ClearMember(m, it) ==
    LET zeros == Put(m, Span(it.pData, it.data_size), 0)
    IN  IF HasSubmessages(it.submsg_desc)
        THEN pb_message_set_to_defaults(zeros, it.submsg_desc, it.pData)
        ELSE zeros

\* decode_static_field, before decode_basic_field.
decode_static_field(m, it) ==
    IF PB_HTYPE(it.type) = PB_HTYPE_ONEOF
    THEN Put(IF m[it.pSize] # it.tag THEN ClearMember(m, it) ELSE m,
             Span(it.pSize, 2), it.tag)
    ELSE Put(m, Span(it.pSize, 1), 1)

-----------------------------------------------------------------------------
(***************************************************************************)
(* Streams.                                                                *)
(***************************************************************************)

Top == stack[Len(stack)]
Below == SubSeq(stack, 1, Len(stack) - 1)

\* A pb_istream_t (its position and bytes_left) and an iterator.  Of the
\* properties only: where the stream ends.
Frame(iter, pos, left) ==
    [iter |-> iter, pos |-> pos, left |-> left, end |-> pos + left]

\* Mutant: one byte beyond the end is still read.
Enough_more(count) == count <= Top.left + 1

\* What pb_read and pb_readbyte test first.
Enough(count) == count <= Top.left

\* pb_read and pb_readbyte: the frame after count bytes.
pb_read(fr, count) == [fr EXCEPT !.pos = @ + count, !.left = @ - count]

\* Mutant: a substream too long for its parent is cut to what there is.
pb_make_string_substream_cut(fr, size, iter) ==
    LET there == IF fr.left < size THEN fr.left ELSE size
    IN  <<[fr EXCEPT !.left = @ - there], Frame(iter, fr.pos, there)>>

\* The parent stream and the substream; none if the parent stream is too short.
pb_make_string_substream(fr, size, iter) ==
    IF fr.left < size THEN <<>>
    ELSE <<[fr EXCEPT !.left = @ - size], Frame(iter, fr.pos, size)>>

\* Mutant: the parent goes on where the substream began.
Resume_stale(fr, sub) == fr

\* pb_close_string_substream: it reads what is left of the substream, and the
\* parent goes on after it.
Resume(fr, sub) == [fr EXCEPT !.pos = sub.pos + sub.left]

-----------------------------------------------------------------------------
(***************************************************************************)
(* What is read next.                                                      *)
(***************************************************************************)

\* The sizes a value of another node can have.
SizesOf(wt) ==
    CASE wt = PB_WT_32BIT -> {4} [] wt = PB_WT_64BIT -> {8} [] OTHER -> VarintSizes

\* Tags of fields, 0, and a tag no message has; 3 is a wire type nobody reads.
TagItems == {TagItem(t, w, n) : t \in 0..7, w \in {0, 1, 2, 3, 5}, n \in VarintSizes}
LenItems == {LenItem(s, n) : s \in 0..(Top.left + 1), n \in VarintSizes}
ValItems(wt) == {ValItem(v, n) : v \in Values, n \in SizesOf(wt)}

\* The items of kind k that can be read next; of another node, any of them.
Offered(k, any) ==
    IF input = Elsewhere THEN any
    ELSE {input[i] : i \in {j \in {at + 1} \cap DOMAIN input : input[j].k = k}}

\* A read may fail: the bytes end within a value, or never end a varint.
Unreadable == input = Elsewhere \/ Top.left = 0

\* The bytes of PbEncode are not what the decoder takes them for.
Misread(k) ==
    /\ Top.left > 0
    /\ \A i \in Offered(k, {}) : i.n > Top.left
    /\ input # Elsewhere

-----------------------------------------------------------------------------
(***************************************************************************)
(* pb_decode_inner.  Stops is an error that unwinds every frame.           *)
(***************************************************************************)

Stops(result) == pc' = result /\ UNCHANGED <<at, stack, wire>>

Reads(i, fr) == stack' = Append(Below, fr) /\ at' = at + 1 /\ Enough(i.n)

\* pb_decode_tag, the test for tag 0, pb_field_iter_find, and the search for an
\* extension, which finds none and is made once.
ReadTag ==
    /\ pc = "tag" /\ Top.left > 0
    /\ \/ \E i \in Offered("tag", TagItems) :
             LET search == pb_field_iter_find(Top.iter, i.tag)
             IN  /\ i.tag # 0
                 /\ Reads(i, [pb_read(Top, i.n) EXCEPT !.iter =
                                  IF search.found THEN search.iter
                                  ELSE pb_field_iter_find_extension(search.iter)])
                 /\ wire' = i.wire
                 /\ pc' = IF search.found THEN "field" ELSE "unknown"
       \/ /\ Unreadable \/ \E i \in Offered("tag", {}) : i.tag = 0
          /\ Stops("failed")
       \/ Misread("tag") /\ Stops("misread")
    /\ UNCHANGED <<input, len, mem>>

\* What pb_skip_field takes of an item that begins a value of this wire type.
SkipSize(i) == IF wire = PB_WT_STRING THEN i.n + i.size ELSE i.n

\* No field has the tag.
SkipField ==
    /\ pc = "unknown"
    /\ \/ /\ wire \in {PB_WT_VARINT, PB_WT_64BIT, PB_WT_STRING, PB_WT_32BIT}
          /\ \E i \in IF wire = PB_WT_STRING THEN Offered("len", LenItems)
                      ELSE Offered("val", ValItems(wire)) :
                /\ Enough(SkipSize(i))
                /\ Reads(i, pb_read(Top, SkipSize(i)))
          /\ pc' = "tag"
          /\ UNCHANGED wire
       \/ input = Elsewhere /\ Stops("failed")
       \/ input # Elsewhere /\ Stops("misread")
    /\ UNCHANGED <<input, len, mem>>

FieldHasWire == wire = WireType[PB_LTYPE(Top.iter.type)]

\* decode_field with the wrong wire type.
WrongWire ==
    /\ pc = "field" /\ ~FieldHasWire
    /\ mem' = decode_static_field(mem, Top.iter)
    /\ Stops("failed")
    /\ UNCHANGED <<input, len>>

\* decode_field for a field that holds a value.  An enum that takes more than
\* 32 bits, so five bytes at least, is "integer too large"; what uint32_t keeps
\* of it has been stored.
DecodeValue ==
    LET Stored(v) == Put(decode_static_field(mem, Top.iter),
                         Span(Top.iter.pData, Top.iter.data_size), v)
    IN  /\ pc = "field" /\ FieldHasWire /\ ~PB_LTYPE_IS_SUBMSG(Top.iter.type)
        /\ \/ \E i \in Offered("val", ValItems(wire)) :
                 /\ Reads(i, pb_read(Top, i.n))
                 /\ mem' = Stored(i.v)
                 /\ pc' = "tag"
                 /\ UNCHANGED wire
           \/ Unreadable /\ Stops("failed") /\ mem' = decode_static_field(mem, Top.iter)
           \/ /\ input = Elsewhere /\ PB_LTYPE(Top.iter.type) = PB_LTYPE_UVARINT
              /\ Top.left >= 5
              /\ Stops("failed")
              /\ \E v \in Values : mem' = Stored(v)
           \/ Misread("val") /\ Stops("misread") /\ UNCHANGED mem
        /\ UNCHANGED <<input, len>>

\* decode_field for a submessage, up to its pb_decode_inner, which runs with
\* PB_DECODE_NOINIT.
OpenSubmessage ==
    /\ pc = "field" /\ FieldHasWire /\ PB_LTYPE_IS_SUBMSG(Top.iter.type)
    /\ \/ \E i \in Offered("len", LenItems) :
             LET sub == pb_field_iter_begin(Top.iter.submsg_desc, Top.iter.pData)
                 streams == pb_make_string_substream(pb_read(Top, i.n), i.size, sub)
             IN  /\ Enough(i.n)
                 /\ IF streams = <<>> THEN Stops("failed")
                    ELSE /\ stack' = Below \o streams
                         /\ at' = at + 1 /\ pc' = "tag"
                         /\ UNCHANGED wire
       \/ Unreadable /\ Stops("failed")
       \/ Misread("len") /\ Stops("misread")
    /\ mem' = decode_static_field(mem, Top.iter)
    /\ UNCHANGED <<input, len>>

\* The stream of a submessage is used up.
CloseSubmessage ==
    /\ pc = "tag" /\ Top.left = 0 /\ Len(stack) > 1
    /\ stack' = [Below EXCEPT ![Len(Below)] = Resume(@, Top)]
    /\ UNCHANGED <<input, at, len, pc, wire, mem>>

\* The stream of the message is used up.
Return ==
    /\ pc = "tag" /\ Top.left = 0 /\ Len(stack) = 1
    /\ pc' = "ok"
    /\ UNCHANGED <<input, at, len, stack, wire, mem>>

Next ==
    \/ ReadTag \/ SkipField \/ WrongWire \/ DecodeValue \/ OpenSubmessage
    \/ CloseSubmessage \/ Return

\* The struct as the receive task resets it before every message.
MQTTMessage_init_default == [c \in Cells |-> 0]

\* pb_istream_from_buffer, and the stream and iterator pb_decode begins with.
FirstStack(n) == <<Frame(pb_field_iter_begin("MQTTMessage", 0), 0, n)>>

FreshStruct == pb_message_set_to_defaults(MQTTMessage_init_default, "MQTTMessage", 0)

Init ==
    /\ len \in Lens
    /\ input = Elsewhere /\ at = 0
    /\ stack = FirstStack(len)
    /\ pc = "tag" /\ wire = 0
    /\ mem = FreshStruct

Spec == Init /\ [][Next]_vars

-----------------------------------------------------------------------------
(***************************************************************************)
(* Properties.                                                             *)
(***************************************************************************)

Running == {"tag", "field", "unknown"}

\* Types; pb_decode_inner never runs more than three deep, on a task stack of
\* fixed size.
TypeOK ==
    /\ at \in Nat /\ len \in Nat
    /\ pc \in Running \cup {"ok", "failed", "misread"}
    /\ wire \in 0..5
    /\ mem \in [Cells -> Nat]
    /\ Len(stack) \in 1..3
    /\ \A i \in DOMAIN stack : stack[i].pos \in Nat /\ stack[i].left \in Nat

\* The streams of nested messages share the bytes out without a gap or an
\* overlap: each ends where its parent goes on, none beyond the message, and
\* a message that is accepted was read to its last byte.
BytesSharedOut ==
    /\ stack[1].end = len
    /\ Top.pos + Top.left = Top.end
    /\ \A i \in 1..(Len(stack) - 1) : stack[i].left + stack[i + 1].end = stack[i].end
    /\ pc = "ok" => Top.pos = len

\* However it got there, an iterator has the indices and the addresses of the
\* field it is at, and finds from there each field its message has.
IteratorTrue ==
    LET it == Top.iter
        fields == FieldList[it.descriptor]
    IN  /\ \E n \in DOMAIN fields : it = IterAt(it.descriptor, it.message, n)
        /\ \A tag \in 1..7 :
             LET search == pb_field_iter_find(it, tag)
             IN  /\ search.found <=> \E n \in DOMAIN fields : fields[n].tag = tag
                 /\ search.found => search.iter.tag = tag

\* How the app finds out what an MQTTMessage has.
HasCell == [Timestamp |-> 4, LatLng |-> 52]
WhichCell == 24
MemberTag == [Kart |-> 3, LatLng |-> 3, Track |-> 4]

\* A part of the message is <<message, n>>: its field n, or itself if n = 0.
Parts(Kind(_)) ==
    UNION {{<<m, n>> : n \in {k \in DOMAIN FieldList[m] : Kind(FieldList[m][k])}}
           : m \in Messages}
Leaves == Parts(LAMBDA f : f.ltype # "MESSAGE")
Subs == {<<m, 0>> : m \in Messages \ {"MQTTMessage"}}
Members == {<<"Kart", 0>>, <<"Track", 0>>}
WithinMember(x) == IF x[1] = "LatLng" THEN <<"Kart", 0>> ELSE <<x[1], 0>>

\* What a reader of struct m who tests which_ and has_ sees.
InReach(m, x) ==
    /\ x[1] \in DOMAIN MemberTag => m[WhichCell] = MemberTag[x[1]]
    /\ x[1] \in DOMAIN HasCell => m[HasCell[x[1]]] # 0
SeenValue(m) ==
    [l \in Leaves |->
        IF InReach(m, l) THEN m[Place[l[1]] + FieldList[l[1]][l[2]].offset] ELSE 0]
SeenPresent(m) == {s \in Subs : InReach(m, s)}

Message == INSTANCE ProtoMessage WITH
    Leaf <- Leaves, Sub <- Subs, Member <- Members, Within <- WithinMember,
    Value <- Values, value <- SeenValue(mem), present <- SeenPresent(mem),
    result <- IF pc \in Running THEN "decoding" ELSE pc

\* What the decoder does to the struct, two members in one place and all, is
\* what the protocol buffers rules do to the message.
ImplementsProtoMessage == Message!Spec
=============================================================================
