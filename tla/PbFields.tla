------------------------------ MODULE PbFields ------------------------------
(***************************************************************************)
(* The messages of the race control system as nanopb sees them: the        *)
(* FIELDLIST of each message, the packed descriptor PB_BIND makes of it,   *)
(* and the iterator that decoder and encoder walk over the descriptor      *)
(* with.  The iterator counts words and submessages as it goes, and never  *)
(* looks a position up.                                                    *)
(***************************************************************************)
EXTENDS Naturals, Sequences, FiniteSets

-----------------------------------------------------------------------------
(***************************************************************************)
(* Types.  All fields of these messages are STATIC.                        *)
(***************************************************************************)

PB_LTYPE_BOOL       == 0
PB_LTYPE_VARINT     == 1
PB_LTYPE_UVARINT    == 2
PB_LTYPE_FIXED32    == 4
PB_LTYPE_FIXED64    == 5
PB_LTYPE_SUBMESSAGE == 8

PB_HTYPE_OPTIONAL == 16   \* and PB_HTYPE_SINGULAR
PB_HTYPE_ONEOF    == 48

PB_LTYPE(type) == type % 16
PB_HTYPE(type) == 16 * ((type \div 16) % 4)
PB_LTYPE_IS_SUBMSG(type) == PB_LTYPE(type) = PB_LTYPE_SUBMESSAGE

PB_LTYPE_MAP ==
    [BOOL |-> PB_LTYPE_BOOL, INT32 |-> PB_LTYPE_VARINT, INT64 |-> PB_LTYPE_VARINT,
     UENUM |-> PB_LTYPE_UVARINT, FLOAT |-> PB_LTYPE_FIXED32,
     DOUBLE |-> PB_LTYPE_FIXED64, MESSAGE |-> PB_LTYPE_SUBMESSAGE]

PB_HTYPE_MAP ==
    [SINGULAR |-> PB_HTYPE_OPTIONAL, OPTIONAL |-> PB_HTYPE_OPTIONAL,
     ONEOF |-> PB_HTYPE_ONEOF]

\* Words of a field's descriptor.
PB_FI_WIDTH(ltype) == IF ltype = "MESSAGE" THEN 2 ELSE 1

-----------------------------------------------------------------------------
(***************************************************************************)
(* The structs.  Each member has an offset and a size in bytes, and is     *)
(* aligned to its largest part; enums take four bytes.                     *)
(***************************************************************************)

StructMember(offset, size) == [offset |-> offset, size |-> size]

MQTTMessage_struct ==
    [topic |-> StructMember(0, 4),
     has_timestamp |-> StructMember(4, 1), timestamp |-> StructMember(8, 16),
     which_payload |-> StructMember(24, 2),
     kart_status |-> StructMember(32, 40), track_status |-> StructMember(32, 8)]

Timestamp_struct == [seconds |-> StructMember(0, 8), nanos |-> StructMember(8, 4)]

Kart_struct ==
    [is_kart_connected |-> StructMember(0, 1), kart_id |-> StructMember(4, 4),
     control |-> StructMember(8, 4), speed |-> StructMember(12, 4),
     steering_angle |-> StructMember(16, 4),
     has_position |-> StructMember(20, 1), position |-> StructMember(24, 16)]

LatLng_struct == [latitude |-> StructMember(0, 8), longitude |-> StructMember(8, 8)]

Track_struct == [allowed_control |-> StructMember(0, 4), flag_state |-> StructMember(4, 4)]

pb_delta(struct, m1, m2) == struct[m1].offset - struct[m2].offset

\* Where the member is, and how far before it its has_ or which_ is (0: it has
\* none).
PB_DATA_OFFSET_STATIC(struct, name) == struct[name].offset
PB_DATA_SIZE_STATIC(struct, name) == struct[name].size
PB_SIZE_OFFSET_STATIC(htype, struct, name) ==
    CASE htype = "SINGULAR" -> 0
      [] htype = "ONEOF" -> pb_delta(struct, name, "which_payload")
      [] htype = "OPTIONAL" -> pb_delta(struct, name, [timestamp |-> "has_timestamp",
                                                       position |-> "has_position"][name])

-----------------------------------------------------------------------------
(***************************************************************************)
(* The messages.  X is a line of a FIELDLIST.                              *)
(***************************************************************************)

NULL == "NULL"

\* The message a field holds.
MSGTYPE(name) ==
    CASE name = "timestamp" -> "Timestamp" [] name = "position" -> "LatLng"
      [] name = "kart_status" -> "Kart" [] name = "track_status" -> "Track"
      [] OTHER -> NULL

X(struct, htype, ltype, name, tag) ==
    [htype |-> htype, ltype |-> ltype, tag |-> tag,
     offset |-> PB_DATA_OFFSET_STATIC(struct, name),
     size |-> PB_DATA_SIZE_STATIC(struct, name),
     delta |-> PB_SIZE_OFFSET_STATIC(htype, struct, name),
     sub |-> MSGTYPE(name)]

MQTTMessage_FIELDLIST ==
    <<X(MQTTMessage_struct, "SINGULAR", "UENUM",   "topic",        1),
      X(MQTTMessage_struct, "OPTIONAL", "MESSAGE", "timestamp",    2),
      X(MQTTMessage_struct, "ONEOF",    "MESSAGE", "kart_status",  3),
      X(MQTTMessage_struct, "ONEOF",    "MESSAGE", "track_status", 4)>>

Timestamp_FIELDLIST ==
    <<X(Timestamp_struct, "SINGULAR", "INT64", "seconds", 1),
      X(Timestamp_struct, "SINGULAR", "INT32", "nanos",   2)>>

Kart_FIELDLIST ==
    <<X(Kart_struct, "SINGULAR", "BOOL",    "is_kart_connected", 1),
      X(Kart_struct, "SINGULAR", "INT32",   "kart_id",           2),
      X(Kart_struct, "SINGULAR", "UENUM",   "control",           3),
      X(Kart_struct, "SINGULAR", "FLOAT",   "speed",             4),
      X(Kart_struct, "SINGULAR", "FLOAT",   "steering_angle",    5),
      X(Kart_struct, "OPTIONAL", "MESSAGE", "position",          6)>>

LatLng_FIELDLIST ==
    <<X(LatLng_struct, "SINGULAR", "DOUBLE", "latitude",  1),
      X(LatLng_struct, "SINGULAR", "DOUBLE", "longitude", 2)>>

Track_FIELDLIST ==
    <<X(Track_struct, "SINGULAR", "UENUM", "allowed_control", 1),
      X(Track_struct, "SINGULAR", "UENUM", "flag_state",      2)>>

FieldList ==
    [MQTTMessage |-> MQTTMessage_FIELDLIST, Timestamp |-> Timestamp_FIELDLIST,
     Kart |-> Kart_FIELDLIST, LatLng |-> LatLng_FIELDLIST,
     Track |-> Track_FIELDLIST]

Messages == DOMAIN FieldList

-----------------------------------------------------------------------------
(***************************************************************************)
(* PB_BIND.  A 32-bit word is given as its two halves.                     *)
(***************************************************************************)

Word(lo, hi) == [lo |-> lo, hi |-> hi]

Type(f) == PB_HTYPE_MAP[f.htype] + PB_LTYPE_MAP[f.ltype]

\* The low half of the first word: length, tag and type.
LowHalf(len, f) == len + ((4 * f.tag) % 256) + 256 * Type(f)

PB_FIELDINFO_1(f) ==
    <<Word(LowHalf(0, f), (f.offset % 256) + 256 * (f.delta % 16) + 4096 * (f.size % 16))>>

PB_FIELDINFO_2(f) ==
    <<Word(LowHalf(1, f), 1 + 4096 * (f.delta % 16)),
      Word(f.offset % 65536, (f.size % 4096) + 4096 * ((f.tag \div 64) % 16))>>

FieldInfo(f) ==
    IF PB_FI_WIDTH(f.ltype) = 1 THEN PB_FIELDINFO_1(f) ELSE PB_FIELDINFO_2(f)

PB_FITS(value, bits) == value \in 0..(2 ^ bits - 1)

PB_FIELDINFO_ASSERT_1(f) ==
    PB_FITS(f.tag, 6) /\ PB_FITS(f.offset, 8) /\ PB_FITS(f.delta, 4) /\ PB_FITS(f.size, 4)

PB_FIELDINFO_ASSERT_2(f) ==
    PB_FITS(f.tag, 10) /\ PB_FITS(f.offset, 16) /\ PB_FITS(f.delta, 4) /\ PB_FITS(f.size, 12)

\* The static assertions of the build: each field fits its words.
FieldInfoFits ==
    \A m \in Messages : \A n \in DOMAIN FieldList[m] :
        LET f == FieldList[m][n]
        IN  IF PB_FI_WIDTH(f.ltype) = 1 THEN PB_FIELDINFO_ASSERT_1(f)
            ELSE PB_FIELDINFO_ASSERT_2(f)

ASSUME FieldInfoAssumption == FieldInfoFits

\* What each field has in an array, one after the other.
Concat(fields, Info(_)) ==
    LET upTo[n \in 0..Len(fields)] ==
            IF n = 0 THEN <<>> ELSE upTo[n - 1] \o Info(fields[n])
    IN  upTo[Len(fields)]

SubmsgInfo(f) == IF f.sub = NULL THEN <<>> ELSE <<f.sub>>

PB_BIND(fields) ==
    [field_info |-> Append(Concat(fields, FieldInfo), Word(0, 0)),
     submsg_info |-> Append(Concat(fields, SubmsgInfo), NULL),
     field_count |-> Len(fields),
     largest_tag |-> fields[Len(fields)].tag]

Descriptor == [m \in Messages |-> PB_BIND(FieldList[m])]

-----------------------------------------------------------------------------
(***************************************************************************)
(* The iterator.  Addresses are offsets in the outermost struct.           *)
(***************************************************************************)

\* pSize of a field without has_ or which_.
NoAddress == 999

FieldInfoAt(iter) ==
    Descriptor[iter.descriptor].field_info[iter.field_info_index + 1]

\* What the one or two words of a field say of it.
Loaded(iter, word0, word1) ==
    LET one == word0.lo % 4 = 0
        size_offset == IF one THEN (word0.hi \div 256) % 16 ELSE word0.hi \div 4096
        pField == iter.message + (IF one THEN word0.hi % 256 ELSE word1.lo)
    IN  [iter EXCEPT
           !.tag = ((word0.lo % 256) \div 4) + (IF one THEN 0 ELSE 64 * (word1.hi \div 4096)),
           !.data_size = IF one THEN word0.hi \div 4096 ELSE word1.hi % 4096,
           !.type = word0.lo \div 256,
           !.pData = pField,
           !.pSize = IF size_offset = 0 THEN NoAddress ELSE pField - size_offset,
           !.submsg_desc =
               IF PB_LTYPE_IS_SUBMSG(word0.lo \div 256)
               THEN Descriptor[iter.descriptor].submsg_info[iter.submessage_index + 1]
               ELSE NULL]

load_descriptor_values(iter) ==
    Loaded(iter, FieldInfoAt(iter), FieldInfoAt([iter EXCEPT !.field_info_index = @ + 1]))

\* Mutant: the type tested is that of the field loaded last, which
\* pb_field_iter_find has left behind.
SubmessagesPassed_stale(iter) == IF PB_LTYPE_IS_SUBMSG(iter.type) THEN 1 ELSE 0

\* How far submessage_index moves past the field the iterator is at.
SubmessagesPassed(iter) ==
    IF PB_LTYPE_IS_SUBMSG(FieldInfoAt(iter).lo \div 256) THEN 1 ELSE 0

advance_iterator(iter) ==
    IF iter.index + 1 >= Descriptor[iter.descriptor].field_count
    THEN [iter EXCEPT !.index = 0, !.field_info_index = 0, !.submessage_index = 0]
    ELSE [iter EXCEPT
            !.index = @ + 1,
            !.field_info_index = @ + 2 ^ (FieldInfoAt(iter).lo % 4),
            !.submessage_index = @ + SubmessagesPassed(iter)]

pb_field_iter_begin(desc, message) ==
    load_descriptor_values(
        [descriptor |-> desc, message |-> message,
         index |-> 0, field_info_index |-> 0, submessage_index |-> 0,
         tag |-> 0, data_size |-> 0, type |-> 0,
         pData |-> 0, pSize |-> 0, submsg_desc |-> NULL])

\* Its result is index # 0: there was a next field.
pb_field_iter_next(iter) == load_descriptor_values(advance_iterator(iter))

\* The do ... while loop of both searches: on from there until there is a hit or
\* the iterator is back at the start, after field_count turns at the latest.
AdvanceUntil(from, start, Hit(_)) ==
    LET count == Descriptor[from.descriptor].field_count
        Turn(it) == IF Hit(it) \/ it.index = start THEN it ELSE advance_iterator(it)
        turns[k \in 1..count] ==
            IF k = 1 THEN advance_iterator(from) ELSE Turn(turns[k - 1])
    IN  load_descriptor_values(turns[count])

\* pb_field_iter_find: where the iterator is left, and whether tag was found.
pb_field_iter_find(iter, tag) ==
    LET Result(it) == [iter |-> it, found |-> it.tag = tag]
    IN  IF iter.tag = tag \/ tag > Descriptor[iter.descriptor].largest_tag
        THEN Result(iter)
        ELSE Result(AdvanceUntil(
                 IF tag < iter.tag
                 THEN [iter EXCEPT !.index = Descriptor[iter.descriptor].field_count]
                 ELSE iter,
                 iter.index, LAMBDA it : load_descriptor_values(it).tag = tag))

\* pb_field_iter_find_extension: once around, looking at the types it passes; no
\* message has a field of type PB_LTYPE_EXTENSION.
PB_LTYPE_EXTENSION == 10
pb_field_iter_find_extension(iter) ==
    AdvanceUntil(iter, iter.index,
        LAMBDA it : PB_LTYPE(FieldInfoAt(it).lo \div 256) = PB_LTYPE_EXTENSION)

\* The iterators of a do ... while (pb_field_iter_next(&iter)) loop.
Walk(desc, message) ==
    LET it[n \in 1..Descriptor[desc].field_count] ==
            IF n = 1 THEN pb_field_iter_begin(desc, message)
            ELSE pb_field_iter_next(it[n - 1])
    IN  it

HasSubmessages(desc) == Descriptor[desc].submsg_info[1] # NULL

-----------------------------------------------------------------------------

\* Where the app finds each message in an MQTTMessage.
Place == [MQTTMessage |-> 0, Timestamp |-> 8, Kart |-> 32, LatLng |-> 56, Track |-> 32]

\* The iterator a field of message desc at address message ought to have.
IterAt(desc, message, n) ==
    LET f == FieldList[desc][n]
        before == {k \in 1..(n - 1) : PB_FI_WIDTH(FieldList[desc][k].ltype) = 2}
    IN  [descriptor |-> desc, message |-> message, index |-> n - 1,
         field_info_index |-> (n - 1) + Cardinality(before),
         submessage_index |-> Cardinality(before),
         tag |-> f.tag, data_size |-> f.size, type |-> Type(f),
         pData |-> message + f.offset,
         pSize |-> IF f.delta = 0 THEN NoAddress ELSE message + f.offset - f.delta,
         submsg_desc |-> f.sub]

-----------------------------------------------------------------------------
(***************************************************************************)
(* The struct and the bytes.  A cell is four bytes of the struct, with one *)
(* value; fields of eight bytes have their value in both cells.  An item   *)
(* is what one write of the encoder or one read of the decoder moves, and  *)
(* n its size in bytes.                                                    *)
(***************************************************************************)

\* sizeof(MQTTMessage) is 72.
Cells == {4 * i : i \in 0..17}

Span(address, size) == {c \in Cells : address <= c /\ c < address + size}

PB_WT_VARINT == 0
PB_WT_64BIT  == 1
PB_WT_STRING == 2
PB_WT_32BIT  == 5

TagItem(tag, wt, n) == [k |-> "tag", tag |-> tag, wire |-> wt, n |-> n]
LenItem(size, n)    == [k |-> "len", size |-> size, n |-> n]
ValItem(v, n)       == [k |-> "val", v |-> v, n |-> n]

WireType ==
    [t \in 0..8 |->
        CASE t = PB_LTYPE_FIXED32 -> PB_WT_32BIT
          [] t = PB_LTYPE_FIXED64 -> PB_WT_64BIT
          [] t = PB_LTYPE_SUBMESSAGE -> PB_WT_STRING
          [] OTHER -> PB_WT_VARINT]
=============================================================================
