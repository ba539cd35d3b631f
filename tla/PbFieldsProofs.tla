--------------------------- MODULE PbFieldsProofs ---------------------------
(***************************************************************************)
(* Proofs about PbFields: what PB_BIND packs into the words of a           *)
(* descriptor is what the iterator unpacks, for every field that passes    *)
(* the static assertions; and however the iterator moves over the five     *)
(* messages, it is at the field it should be at.                           *)
(***************************************************************************)
EXTENDS PbFields, SequenceTheorems, FiniteSetTheorems, TLAPS

-----------------------------------------------------------------------------
(***************************************************************************)
(* Fields.                                                                 *)
(***************************************************************************)

SubmessageNames == {"Timestamp", "Kart", "LatLng", "Track"}

\* What a field of the one-word and of the two-word kind may hold.
IsField(f) ==
    /\ f.htype \in {"SINGULAR", "OPTIONAL", "ONEOF"}
    /\ f.ltype \in {"BOOL", "INT32", "INT64", "UENUM", "FLOAT", "DOUBLE", "MESSAGE"}
    /\ f.tag \in 0..63 /\ f.offset \in 0..255 /\ f.delta \in 0..15
    /\ f.size \in 0..255
    /\ f.ltype # "MESSAGE" => f.size \in 0..15
    /\ f.sub \in SubmessageNames \cup {NULL}
    /\ f.sub = NULL <=> f.ltype # "MESSAGE"

LEMMA MessageNames == Messages = {"MQTTMessage", "Timestamp", "Kart", "LatLng", "Track"}
BY DEF Messages, FieldList

\* A line of a FIELDLIST with its numbers.
Line(htype, ltype, tag, offset, size, delta, sub) ==
    [htype |-> htype, ltype |-> ltype, tag |-> tag, offset |-> offset,
     size |-> size, delta |-> delta, sub |-> sub]

LEMMA MQTTMessageLines ==
    FieldList["MQTTMessage"] =
      <<Line("SINGULAR", "UENUM", 1, 0, 4, 0, NULL),
        Line("OPTIONAL", "MESSAGE", 2, 8, 16, 4, "Timestamp"),
        Line("ONEOF", "MESSAGE", 3, 32, 40, 8, "Kart"),
        Line("ONEOF", "MESSAGE", 4, 32, 8, 8, "Track")>>
<1>1. X(MQTTMessage_struct, "SINGULAR", "UENUM", "topic", 1)
        = Line("SINGULAR", "UENUM", 1, 0, 4, 0, NULL)
  BY DEF X, Line, MQTTMessage_struct, StructMember, MSGTYPE, PB_DATA_OFFSET_STATIC,
         PB_DATA_SIZE_STATIC, PB_SIZE_OFFSET_STATIC, pb_delta, NULL
<1>2. X(MQTTMessage_struct, "OPTIONAL", "MESSAGE", "timestamp", 2)
        = Line("OPTIONAL", "MESSAGE", 2, 8, 16, 4, "Timestamp")
  BY DEF X, Line, MQTTMessage_struct, StructMember, MSGTYPE, PB_DATA_OFFSET_STATIC,
         PB_DATA_SIZE_STATIC, PB_SIZE_OFFSET_STATIC, pb_delta, NULL
<1>3. X(MQTTMessage_struct, "ONEOF", "MESSAGE", "kart_status", 3)
        = Line("ONEOF", "MESSAGE", 3, 32, 40, 8, "Kart")
  BY DEF X, Line, MQTTMessage_struct, StructMember, MSGTYPE, PB_DATA_OFFSET_STATIC,
         PB_DATA_SIZE_STATIC, PB_SIZE_OFFSET_STATIC, pb_delta, NULL
<1>4. X(MQTTMessage_struct, "ONEOF", "MESSAGE", "track_status", 4)
        = Line("ONEOF", "MESSAGE", 4, 32, 8, 8, "Track")
  BY DEF X, Line, MQTTMessage_struct, StructMember, MSGTYPE, PB_DATA_OFFSET_STATIC,
         PB_DATA_SIZE_STATIC, PB_SIZE_OFFSET_STATIC, pb_delta, NULL
<1>5. FieldList["MQTTMessage"] = MQTTMessage_FIELDLIST
  BY DEF FieldList
<1> QED BY <1>1, <1>2, <1>3, <1>4, <1>5, Zenon DEF MQTTMessage_FIELDLIST

LEMMA TimestampLines ==
    FieldList["Timestamp"] =
      <<Line("SINGULAR", "INT64", 1, 0, 8, 0, NULL),
        Line("SINGULAR", "INT32", 2, 8, 4, 0, NULL)>>
<1>1. X(Timestamp_struct, "SINGULAR", "INT64", "seconds", 1)
        = Line("SINGULAR", "INT64", 1, 0, 8, 0, NULL)
  BY DEF X, Line, Timestamp_struct, StructMember, MSGTYPE, PB_DATA_OFFSET_STATIC,
         PB_DATA_SIZE_STATIC, PB_SIZE_OFFSET_STATIC, NULL
<1>2. X(Timestamp_struct, "SINGULAR", "INT32", "nanos", 2)
        = Line("SINGULAR", "INT32", 2, 8, 4, 0, NULL)
  BY DEF X, Line, Timestamp_struct, StructMember, MSGTYPE, PB_DATA_OFFSET_STATIC,
         PB_DATA_SIZE_STATIC, PB_SIZE_OFFSET_STATIC, NULL
<1>3. FieldList["Timestamp"] = Timestamp_FIELDLIST
  BY DEF FieldList
<1> QED BY <1>1, <1>2, <1>3, Zenon DEF Timestamp_FIELDLIST

LEMMA KartLines ==
    FieldList["Kart"] =
      <<Line("SINGULAR", "BOOL", 1, 0, 1, 0, NULL),
        Line("SINGULAR", "INT32", 2, 4, 4, 0, NULL),
        Line("SINGULAR", "UENUM", 3, 8, 4, 0, NULL),
        Line("SINGULAR", "FLOAT", 4, 12, 4, 0, NULL),
        Line("SINGULAR", "FLOAT", 5, 16, 4, 0, NULL),
        Line("OPTIONAL", "MESSAGE", 6, 24, 16, 4, "LatLng")>>
<1>1. X(Kart_struct, "SINGULAR", "BOOL", "is_kart_connected", 1)
        = Line("SINGULAR", "BOOL", 1, 0, 1, 0, NULL)
  BY DEF X, Line, Kart_struct, StructMember, MSGTYPE, PB_DATA_OFFSET_STATIC,
         PB_DATA_SIZE_STATIC, PB_SIZE_OFFSET_STATIC, NULL
<1>2. X(Kart_struct, "SINGULAR", "INT32", "kart_id", 2)
        = Line("SINGULAR", "INT32", 2, 4, 4, 0, NULL)
  BY DEF X, Line, Kart_struct, StructMember, MSGTYPE, PB_DATA_OFFSET_STATIC,
         PB_DATA_SIZE_STATIC, PB_SIZE_OFFSET_STATIC, NULL
<1>3. X(Kart_struct, "SINGULAR", "UENUM", "control", 3)
        = Line("SINGULAR", "UENUM", 3, 8, 4, 0, NULL)
  BY DEF X, Line, Kart_struct, StructMember, MSGTYPE, PB_DATA_OFFSET_STATIC,
         PB_DATA_SIZE_STATIC, PB_SIZE_OFFSET_STATIC, NULL
<1>4. X(Kart_struct, "SINGULAR", "FLOAT", "speed", 4)
        = Line("SINGULAR", "FLOAT", 4, 12, 4, 0, NULL)
  BY DEF X, Line, Kart_struct, StructMember, MSGTYPE, PB_DATA_OFFSET_STATIC,
         PB_DATA_SIZE_STATIC, PB_SIZE_OFFSET_STATIC, NULL
<1>5. X(Kart_struct, "SINGULAR", "FLOAT", "steering_angle", 5)
        = Line("SINGULAR", "FLOAT", 5, 16, 4, 0, NULL)
  BY DEF X, Line, Kart_struct, StructMember, MSGTYPE, PB_DATA_OFFSET_STATIC,
         PB_DATA_SIZE_STATIC, PB_SIZE_OFFSET_STATIC, NULL
<1>6. X(Kart_struct, "OPTIONAL", "MESSAGE", "position", 6)
        = Line("OPTIONAL", "MESSAGE", 6, 24, 16, 4, "LatLng")
  BY DEF X, Line, Kart_struct, StructMember, MSGTYPE, PB_DATA_OFFSET_STATIC,
         PB_DATA_SIZE_STATIC, PB_SIZE_OFFSET_STATIC, pb_delta, NULL
<1>7. FieldList["Kart"] = Kart_FIELDLIST
  BY DEF FieldList
<1> QED BY <1>1, <1>2, <1>3, <1>4, <1>5, <1>6, <1>7, Zenon DEF Kart_FIELDLIST

LEMMA LatLngLines ==
    FieldList["LatLng"] =
      <<Line("SINGULAR", "DOUBLE", 1, 0, 8, 0, NULL),
        Line("SINGULAR", "DOUBLE", 2, 8, 8, 0, NULL)>>
<1>1. X(LatLng_struct, "SINGULAR", "DOUBLE", "latitude", 1)
        = Line("SINGULAR", "DOUBLE", 1, 0, 8, 0, NULL)
  BY DEF X, Line, LatLng_struct, StructMember, MSGTYPE, PB_DATA_OFFSET_STATIC,
         PB_DATA_SIZE_STATIC, PB_SIZE_OFFSET_STATIC, NULL
<1>2. X(LatLng_struct, "SINGULAR", "DOUBLE", "longitude", 2)
        = Line("SINGULAR", "DOUBLE", 2, 8, 8, 0, NULL)
  BY DEF X, Line, LatLng_struct, StructMember, MSGTYPE, PB_DATA_OFFSET_STATIC,
         PB_DATA_SIZE_STATIC, PB_SIZE_OFFSET_STATIC, NULL
<1>3. FieldList["LatLng"] = LatLng_FIELDLIST
  BY DEF FieldList
<1> QED BY <1>1, <1>2, <1>3, Zenon DEF LatLng_FIELDLIST

LEMMA TrackLines ==
    FieldList["Track"] =
      <<Line("SINGULAR", "UENUM", 1, 0, 4, 0, NULL),
        Line("SINGULAR", "UENUM", 2, 4, 4, 0, NULL)>>
<1>1. X(Track_struct, "SINGULAR", "UENUM", "allowed_control", 1)
        = Line("SINGULAR", "UENUM", 1, 0, 4, 0, NULL)
  BY DEF X, Line, Track_struct, StructMember, MSGTYPE, PB_DATA_OFFSET_STATIC,
         PB_DATA_SIZE_STATIC, PB_SIZE_OFFSET_STATIC, NULL
<1>2. X(Track_struct, "SINGULAR", "UENUM", "flag_state", 2)
        = Line("SINGULAR", "UENUM", 2, 4, 4, 0, NULL)
  BY DEF X, Line, Track_struct, StructMember, MSGTYPE, PB_DATA_OFFSET_STATIC,
         PB_DATA_SIZE_STATIC, PB_SIZE_OFFSET_STATIC, NULL
<1>3. FieldList["Track"] = Track_FIELDLIST
  BY DEF FieldList
<1> QED BY <1>1, <1>2, <1>3, Zenon DEF Track_FIELDLIST

\* The fields of a message are in the order of their tags, without a gap.
Listed(fields) ==
    /\ Len(fields) \in 2..6
    /\ \A n \in 1..Len(fields) : IsField(fields[n]) /\ fields[n].tag = n

LEMMA AllListed == \A m \in Messages : Listed(FieldList[m])
<1>1. Listed(FieldList["MQTTMessage"])
  BY MQTTMessageLines DEF Listed, IsField, SubmessageNames, Line, NULL
<1>2. Listed(FieldList["Timestamp"])
  BY TimestampLines DEF Listed, IsField, SubmessageNames, Line, NULL
<1>3. Listed(FieldList["Kart"])
  <2>1. PICK kart : kart = FieldList["Kart"]
    OBVIOUS
  <2>2. /\ Len(kart) = 6
        /\ kart[1] = Line("SINGULAR", "BOOL", 1, 0, 1, 0, NULL)
        /\ kart[2] = Line("SINGULAR", "INT32", 2, 4, 4, 0, NULL)
        /\ kart[3] = Line("SINGULAR", "UENUM", 3, 8, 4, 0, NULL)
        /\ kart[4] = Line("SINGULAR", "FLOAT", 4, 12, 4, 0, NULL)
        /\ kart[5] = Line("SINGULAR", "FLOAT", 5, 16, 4, 0, NULL)
        /\ kart[6] = Line("OPTIONAL", "MESSAGE", 6, 24, 16, 4, "LatLng")
    BY <2>1, KartLines
  <2>3. IsField(kart[1]) /\ kart[1].tag = 1
    BY <2>2 DEF IsField, SubmessageNames, Line, NULL
  <2>4. IsField(kart[2]) /\ kart[2].tag = 2
    BY <2>2 DEF IsField, SubmessageNames, Line, NULL
  <2>5. IsField(kart[3]) /\ kart[3].tag = 3
    BY <2>2 DEF IsField, SubmessageNames, Line, NULL
  <2>6. IsField(kart[4]) /\ kart[4].tag = 4
    BY <2>2 DEF IsField, SubmessageNames, Line, NULL
  <2>7. IsField(kart[5]) /\ kart[5].tag = 5
    BY <2>2 DEF IsField, SubmessageNames, Line, NULL
  <2>8. IsField(kart[6]) /\ kart[6].tag = 6
    BY <2>2 DEF IsField, SubmessageNames, Line, NULL
  <2>9. \A n \in 1..6 : n = 1 \/ n = 2 \/ n = 3 \/ n = 4 \/ n = 5 \/ n = 6
    OBVIOUS
  <2>10. \A n \in 1..6 : IsField(kart[n]) /\ kart[n].tag = n
    BY <2>3, <2>4, <2>5, <2>6, <2>7, <2>8, <2>9
  <2> QED BY <2>1, <2>2, <2>10 DEF Listed
<1>4. Listed(FieldList["LatLng"])
  BY LatLngLines DEF Listed, IsField, SubmessageNames, Line, NULL
<1>5. Listed(FieldList["Track"])
  BY TrackLines DEF Listed, IsField, SubmessageNames, Line, NULL
<1> QED BY <1>1, <1>2, <1>3, <1>4, <1>5, MessageNames, Zenon

LEMMA CountOf ==
    ASSUME NEW m \in Messages
    PROVE  \E count \in 2..6 : Len(FieldList[m]) = count /\ DOMAIN FieldList[m] = 1..count
<1>1. CASE m = "MQTTMessage"
  BY <1>1, MQTTMessageLines
<1>2. CASE m = "Timestamp"
  BY <1>2, TimestampLines
<1>3. CASE m = "Kart"
  BY <1>3, KartLines
<1>4. CASE m = "LatLng"
  BY <1>4, LatLngLines
<1>5. CASE m = "Track"
  BY <1>5, TrackLines
<1> QED BY <1>1, <1>2, <1>3, <1>4, <1>5, MessageNames

-----------------------------------------------------------------------------
(***************************************************************************)
(* Words.                                                                  *)
(***************************************************************************)

LEMMA TypeParts ==
    ASSUME NEW f, IsField(f)
    PROVE  /\ Type(f) \in 0..63
           /\ PB_LTYPE(Type(f)) = PB_LTYPE_MAP[f.ltype]
           /\ PB_HTYPE(Type(f)) = PB_HTYPE_MAP[f.htype]
           /\ PB_LTYPE_IS_SUBMSG(Type(f)) <=> f.ltype = "MESSAGE"
<1>1. /\ PB_HTYPE_MAP[f.htype] \in {16, 48}
      /\ PB_LTYPE_MAP[f.ltype] \in {0, 1, 2, 4, 5, 8}
      /\ PB_LTYPE_MAP[f.ltype] = 8 <=> f.ltype = "MESSAGE"
  BY DEF IsField, PB_HTYPE_MAP, PB_LTYPE_MAP, PB_HTYPE_OPTIONAL, PB_HTYPE_ONEOF,
         PB_LTYPE_BOOL, PB_LTYPE_VARINT, PB_LTYPE_UVARINT, PB_LTYPE_FIXED32,
         PB_LTYPE_FIXED64, PB_LTYPE_SUBMESSAGE
<1> DEFINE h == PB_HTYPE_MAP[f.htype]
           l == PB_LTYPE_MAP[f.ltype]
<1> HIDE DEF h, l
<1>2. h \in {16, 48} /\ l \in {0, 1, 2, 4, 5, 8} /\ Type(f) = h + l
  BY <1>1 DEF h, l, Type
<1>3. /\ h + l \in 0..63 /\ (h + l) % 16 = l /\ 16 * (((h + l) \div 16) % 4) = h
  BY <1>2
<1> QED BY <1>1, <1>2, <1>3
        DEF h, l, PB_LTYPE, PB_HTYPE, PB_LTYPE_IS_SUBMSG, PB_LTYPE_SUBMESSAGE

\* PB_FIELDINFO_1 and the unpacking of it.
LEMMA Unpack1 ==
    ASSUME NEW f, IsField(f), f.ltype # "MESSAGE", NEW w, w = PB_FIELDINFO_1(f)[1]
    PROVE  /\ w.lo % 4 = 0 /\ (w.lo % 256) \div 4 = f.tag /\ w.lo \div 256 = Type(f)
           /\ w.hi % 256 = f.offset /\ (w.hi \div 256) % 16 = f.delta
           /\ w.hi \div 4096 = f.size
<1> DEFINE type == Type(f)
           tag == f.tag
           offset == f.offset
           delta == f.delta
           size == f.size
<1>1. /\ type \in 0..63 /\ tag \in 0..63 /\ offset \in 0..255 /\ delta \in 0..15
      /\ size \in 0..15
  BY TypeParts DEF IsField
<1>2. /\ w.lo = 0 + ((4 * tag) % 256) + 256 * type
      /\ w.hi = (offset % 256) + 256 * (delta % 16) + 4096 * (size % 16)
  BY DEF PB_FIELDINFO_1, LowHalf, Word
<1> HIDE DEF type, tag, offset, delta, size
<1>3. w.lo = 4 * tag + 256 * type
  BY <1>1, <1>2
<1>4. w.hi = offset + 256 * delta + 4096 * size
  BY <1>1, <1>2
<1>5. w.lo % 4 = 0 /\ (w.lo % 256) \div 4 = tag /\ w.lo \div 256 = type
  BY <1>1, <1>3
<1>6. w.hi % 256 = offset /\ (w.hi \div 256) % 16 = delta /\ w.hi \div 4096 = size
  BY <1>1, <1>4
<1> QED BY <1>5, <1>6 DEF type, tag, offset, delta, size

LEMMA Unpack2 ==
    ASSUME NEW f, IsField(f), NEW w, w = PB_FIELDINFO_2(f)[1], NEW v, v = PB_FIELDINFO_2(f)[2]
    PROVE  /\ w.lo % 4 = 1
           /\ ((w.lo % 256) \div 4) + 64 * (v.hi \div 4096) = f.tag
           /\ w.lo \div 256 = Type(f)
           /\ w.hi \div 4096 = f.delta
           /\ v.lo = f.offset /\ v.hi % 4096 = f.size
<1> DEFINE type == Type(f)
           tag == f.tag
           offset == f.offset
           delta == f.delta
           size == f.size
<1>1. /\ type \in 0..63 /\ tag \in 0..63 /\ offset \in 0..255 /\ delta \in 0..15
      /\ size \in 0..255
  BY TypeParts DEF IsField
<1>2. /\ w.lo = 1 + ((4 * tag) % 256) + 256 * type
      /\ w.hi = 1 + 4096 * (delta % 16)
      /\ v.lo = offset % 65536
      /\ v.hi = (size % 4096) + 4096 * ((tag \div 64) % 16)
  BY DEF PB_FIELDINFO_2, LowHalf, Word
<1> HIDE DEF type, tag, offset, delta, size
<1>3. w.lo = 1 + 4 * tag + 256 * type
  BY <1>1, <1>2
<1>4. w.hi = 1 + 4096 * delta
  BY <1>1, <1>2
<1>5. v.lo = offset /\ v.hi = size
  BY <1>1, <1>2
<1>6. w.lo % 4 = 1 /\ (w.lo % 256) \div 4 = tag /\ w.lo \div 256 = type
  BY <1>1, <1>3
<1>7. w.hi \div 4096 = delta
  BY <1>1, <1>4
<1>8. v.hi \div 4096 = 0 /\ v.hi % 4096 = size
  BY <1>1, <1>5
<1>9. ((w.lo % 256) \div 4) + 64 * (v.hi \div 4096) = tag
  BY <1>1, <1>6, <1>8
<1> QED BY <1>5, <1>6, <1>7, <1>8, <1>9 DEF type, tag, offset, delta, size

-----------------------------------------------------------------------------
(***************************************************************************)
(* Where PB_BIND puts a field: its words after those of the fields before  *)
(* it, its submessage after theirs.                                        *)
(***************************************************************************)

Width(f) == PB_FI_WIDTH(f.ltype)

SubmessagesBefore(fields, n) == {k \in 1..(n - 1) : PB_FI_WIDTH(fields[k].ltype) = 2}
Passed(fields, n) == Cardinality(SubmessagesBefore(fields, n))
Start(fields, n)  == (n - 1) + Passed(fields, n)

LEMMA PassedFinite ==
    ASSUME NEW fields, NEW n \in Nat \ {0}
    PROVE  IsFiniteSet(SubmessagesBefore(fields, n)) /\ Passed(fields, n) \in Nat
<1>1. 1 \in Int /\ n - 1 \in Int
  OBVIOUS
<1>2. IsFiniteSet(1..(n - 1))
  BY <1>1, FS_Interval
<1>3. SubmessagesBefore(fields, n) \in SUBSET (1..(n - 1))
  BY DEF SubmessagesBefore
<1>4. IsFiniteSet(SubmessagesBefore(fields, n))
  BY <1>2, <1>3, FS_Subset
<1> QED BY <1>4, FS_CardinalityType DEF Passed

LEMMA PassedFirst ==
    ASSUME NEW fields
    PROVE  Passed(fields, 1) = 0
<1>1. SubmessagesBefore(fields, 1) = {}
  BY DEF SubmessagesBefore
<1> QED BY <1>1, FS_EmptySet DEF Passed

LEMMA PassedNext ==
    ASSUME NEW fields, NEW n \in Nat \ {0}
    PROVE  Passed(fields, n + 1)
             = Passed(fields, n) + (IF PB_FI_WIDTH(fields[n].ltype) = 2 THEN 1 ELSE 0)
<1> DEFINE S == SubmessagesBefore(fields, n)
           T == SubmessagesBefore(fields, n + 1)
<1>1. IsFiniteSet(S)
  BY PassedFinite
<1>2. n \notin S /\ \A k : k \in 1..(n + 1 - 1) <=> k \in 1..(n - 1) \/ k = n
  BY DEF SubmessagesBefore
<1>3. CASE PB_FI_WIDTH(fields[n].ltype) = 2
  <2>1. T = S \cup {n}
    BY <1>2, <1>3 DEF SubmessagesBefore
  <2> HIDE DEF S, T
  <2>2. Cardinality(T) = Cardinality(S) + 1
    BY <1>1, <1>2, <2>1, FS_AddElement
  <2> QED BY <1>3, <2>2 DEF Passed, S, T
<1>4. CASE PB_FI_WIDTH(fields[n].ltype) # 2
  <2>1. T = S
    BY <1>2, <1>4 DEF SubmessagesBefore
  <2>2. Passed(fields, n) \in Nat
    BY PassedFinite
  <2>3. Passed(fields, n + 1) = Passed(fields, n)
    BY <2>1 DEF Passed
  <2> QED BY <1>4, <2>2, <2>3
<1> QED BY <1>3, <1>4

LEMMA PassedGrows ==
    ASSUME NEW fields, NEW n \in Nat \ {0}, NEW m \in 1..n
    PROVE  Passed(fields, m) <= Passed(fields, n)
<1>1. SubmessagesBefore(fields, m) \in SUBSET SubmessagesBefore(fields, n)
  BY DEF SubmessagesBefore
<1>2. IsFiniteSet(SubmessagesBefore(fields, n))
  BY PassedFinite
<1> QED BY <1>1, <1>2, FS_Subset DEF Passed

\* The words of the first n fields.
Words == [lo : Int, hi : Int]

LaysWords(s, fields, n) ==
    /\ s \in Seq(Words)
    /\ Len(s) = Start(fields, n + 1)
    /\ \A m \in 1..n :
         /\ s[Start(fields, m) + 1] = FieldInfo(fields[m])[1]
         /\ Width(fields[m]) = 2 => s[Start(fields, m) + 2] = FieldInfo(fields[m])[2]

LEMMA FieldInfoWords ==
    ASSUME NEW f, IsField(f)
    PROVE  /\ FieldInfo(f) \in Seq(Words)
           /\ Len(FieldInfo(f)) = Width(f)
           /\ Width(f) \in {1, 2}
           /\ Width(f) = 2 <=> f.ltype = "MESSAGE"
           /\ FieldInfo(f) = IF f.ltype = "MESSAGE" THEN PB_FIELDINFO_2(f)
                             ELSE PB_FIELDINFO_1(f)
<1>1. /\ Width(f) \in {1, 2} /\ (Width(f) = 2 <=> f.ltype = "MESSAGE")
      /\ FieldInfo(f) = IF f.ltype = "MESSAGE" THEN PB_FIELDINFO_2(f)
                        ELSE PB_FIELDINFO_1(f)
  BY DEF Width, PB_FI_WIDTH, FieldInfo
<1> DEFINE type == Type(f)
           tag == f.tag
           offset == f.offset
           delta == f.delta
           size == f.size
<1>2. /\ tag \in 0..63 /\ offset \in 0..255 /\ delta \in 0..15 /\ size \in 0..255
      /\ type \in 0..63
  BY TypeParts DEF IsField
<1>4. CASE f.ltype # "MESSAGE"
  <2> DEFINE lo == 0 + ((4 * tag) % 256) + 256 * type
             hi == (offset % 256) + 256 * (delta % 16) + 4096 * (size % 16)
             w == Word(lo, hi)
  <2>2. FieldInfo(f) = <<w>>
    BY <1>1, <1>4 DEF PB_FIELDINFO_1, LowHalf
  <2>1. w \in Words
    <3> HIDE DEF type, tag, offset, delta, size
    <3>1. lo \in Int /\ hi \in Int
      BY <1>2
    <3> HIDE DEF lo, hi
    <3> QED BY <3>1 DEF Word, Words
  <2> HIDE DEF w
  <2>3. <<w>> \in Seq(Words) /\ Len(<<w>>) = 1
    BY <2>1
  <2> QED BY <1>1, <1>4, <2>2, <2>3
<1>5. CASE f.ltype = "MESSAGE"
  <2> DEFINE lo == 1 + ((4 * tag) % 256) + 256 * type
             hi == 1 + 4096 * (delta % 16)
             lo2 == offset % 65536
             hi2 == (size % 4096) + 4096 * ((tag \div 64) % 16)
             w == Word(lo, hi)
             v == Word(lo2, hi2)
  <2>2. FieldInfo(f) = <<w, v>>
    BY <1>1, <1>5 DEF PB_FIELDINFO_2, LowHalf
  <2>1. w \in Words /\ v \in Words
    <3> HIDE DEF type, tag, offset, delta, size
    <3>1. lo \in Int /\ hi \in Int /\ lo2 \in Int /\ hi2 \in Int
      BY <1>2
    <3> HIDE DEF lo, hi, lo2, hi2
    <3> QED BY <3>1 DEF Word, Words
  <2> HIDE DEF w, v
  <2>3. <<w, v>> \in Seq(Words) /\ Len(<<w, v>>) = 2
    BY <2>1
  <2> QED BY <1>1, <1>5, <2>2, <2>3
<1> QED BY <1>4, <1>5

LEMMA WordsOfNext ==
    ASSUME NEW fields, NEW n \in Nat, IsField(fields[n + 1]),
           \A m \in 1..n : IsField(fields[m]),
           NEW s, LaysWords(s, fields, n)
    PROVE  LaysWords(s \o FieldInfo(fields[n + 1]), fields, n + 1)
<1> DEFINE f == fields[n + 1]
           e == FieldInfo(f)
           t == s \o e
           len == Start(fields, n + 1)
<1>1. /\ e \in Seq(Words) /\ Len(e) = Width(f) /\ Width(f) \in {1, 2}
  BY FieldInfoWords
<1>2. s \in Seq(Words) /\ Len(s) = len
  BY DEF LaysWords
<1>3. n + 1 \in Nat \ {0} /\ n + 1 - 1 = n /\ n + 1 + 1 - 1 = n + 1
  OBVIOUS
<1>4. Passed(fields, n + 1) \in Nat /\ len = n + Passed(fields, n + 1)
  BY <1>3, PassedFinite DEF Start
<1>5. Start(fields, n + 1 + 1) = len + Width(f)
  <2>1. Passed(fields, n + 1 + 1) = Passed(fields, n + 1) + (IF Width(f) = 2 THEN 1 ELSE 0)
    BY <1>3, PassedNext DEF Width
  <2> QED BY <1>1, <1>3, <1>4, <2>1 DEF Start
<1>6. ASSUME NEW m \in 1..n
      PROVE  /\ Start(fields, m) \in Nat
             /\ Start(fields, m) + Width(fields[m]) <= len
  <2>1. m \in Nat \ {0} /\ m + 1 \in 1..(n + 1)
    OBVIOUS
  <2>2. Passed(fields, m) \in Nat
    BY <2>1, PassedFinite
  <2>3. Passed(fields, m + 1)
          = Passed(fields, m) + (IF PB_FI_WIDTH(fields[m].ltype) = 2 THEN 1 ELSE 0)
    BY <2>1, PassedNext
  <2>4. Passed(fields, m + 1) <= Passed(fields, n + 1)
    BY <1>3, <2>1, PassedGrows
  <2>5. Width(fields[m]) \in {1, 2}
    BY FieldInfoWords
  <2> QED BY <1>4, <2>2, <2>3, <2>4, <2>5 DEF Start, Width
<1> HIDE DEF f, e, len
<1>7. /\ t \in Seq(Words) /\ Len(t) = len + Width(f)
      /\ \A i \in 1..(Len(s) + Len(e)) :
           t[i] = IF i <= Len(s) THEN s[i] ELSE e[i - Len(s)]
  BY <1>1, <1>2, ConcatProperties
<1> HIDE DEF t
<1>8. ASSUME NEW i \in 1..len PROVE t[i] = s[i]
  BY <1>1, <1>2, <1>4, <1>7
<1>9. ASSUME NEW j \in 1..Width(f) PROVE t[len + j] = e[j]
  <2> DEFINE i == len + j
  <2>1. i \in 1..(Len(s) + Len(e)) /\ ~(i <= Len(s)) /\ i - Len(s) = j
    BY <1>1, <1>2, <1>4
  <2> HIDE DEF i
  <2>2. t[i] = e[i - Len(s)]
    BY <1>7, <2>1
  <2> QED BY <2>1, <2>2 DEF i
<1>10. ASSUME NEW m \in 1..(n + 1)
       PROVE  /\ t[Start(fields, m) + 1] = FieldInfo(fields[m])[1]
              /\ Width(fields[m]) = 2 => t[Start(fields, m) + 2] = FieldInfo(fields[m])[2]
  <2>1. CASE m = n + 1
    <3>1. 1 \in 1..Width(f) /\ (Width(f) = 2 => 2 \in 1..Width(f))
      BY <1>1
    <3>2. t[len + 1] = e[1] /\ (Width(f) = 2 => t[len + 2] = e[2])
      BY <1>9, <3>1
    <3> QED BY <2>1, <3>2 DEF len, e, f
  <2>2. CASE m # n + 1
    <3> DEFINE k == Start(fields, m)
    <3>1. m \in 1..n
      BY <2>2
    <3>2. k \in Nat /\ k + Width(fields[m]) <= len /\ Width(fields[m]) \in {1, 2}
      BY <1>6, <3>1, FieldInfoWords
    <3>3. s[k + 1] = FieldInfo(fields[m])[1]
          /\ (Width(fields[m]) = 2 => s[k + 2] = FieldInfo(fields[m])[2])
      BY <3>1 DEF LaysWords
    <3> HIDE DEF k
    <3>4. k + 1 \in 1..len /\ (Width(fields[m]) = 2 => k + 2 \in 1..len)
      BY <1>4, <3>2
    <3>5. t[k + 1] = s[k + 1] /\ (Width(fields[m]) = 2 => t[k + 2] = s[k + 2])
      BY <1>8, <3>4
    <3> QED BY <3>3, <3>5 DEF k
  <2> QED BY <2>1, <2>2
<1>11. Len(t) = Start(fields, n + 1 + 1)
  BY <1>5, <1>7
<1> QED BY <1>7, <1>10, <1>11 DEF LaysWords, t, e, f

LEMMA NoWords ==
    ASSUME NEW fields
    PROVE  LaysWords(<<>>, fields, 0)
<1>1. Start(fields, 0 + 1) = 0
  BY PassedFirst DEF Start
<1>2. <<>> \in Seq(Words) /\ Len(<<>>) = 0
  BY EmptySeq
<1>3. 1..0 = {}
  OBVIOUS
<1> QED BY <1>1, <1>2, <1>3 DEF LaysWords

\* No message has more than six fields: what Concat's recursion makes of them
\* can be written down.
LEMMA ConcatRuns ==
    ASSUME NEW entries, NEW count \in 2..6
    PROVE  \E upTo : upTo = [n \in 0..count |->
                               IF n = 0 THEN <<>> ELSE upTo[n - 1] \o entries[n]]
<1> DEFINE T(n, rest) == IF n = 0 THEN <<>> ELSE rest \o entries[n]
           P(upTo) == upTo = [n \in 0..count |-> T(n, upTo[n - 1])]
           g0 == <<>>
           g1 == T(1, g0)
           g2 == T(2, g1)
           g3 == T(3, g2)
           g4 == T(4, g3)
           g5 == T(5, g4)
           g6 == T(6, g5)
           g == [n \in 0..count |->
                   IF n = 0 THEN g0 ELSE IF n = 1 THEN g1 ELSE IF n = 2 THEN g2
                   ELSE IF n = 3 THEN g3 ELSE IF n = 4 THEN g4 ELSE IF n = 5 THEN g5
                   ELSE g6]
<1>1. \A rest : T(0, rest) = g0
  OBVIOUS
<1>2. P(g)
  <2> HIDE DEF T, g0, g1, g2, g3, g4, g5, g6
  <2>1. \A n \in 0..count :
          /\ n = 0 => g[n] = g0
          /\ n = 1 => g[n] = g1
          /\ n = 2 => g[n] = g2
          /\ n = 3 => g[n] = g3
          /\ n = 4 => g[n] = g4
          /\ n = 5 => g[n] = g5
          /\ n = 6 => g[n] = g6
    OBVIOUS
  <2>2. /\ g1 = T(1, g0) /\ g2 = T(2, g1) /\ g3 = T(3, g2)
        /\ g4 = T(4, g3) /\ g5 = T(5, g4) /\ g6 = T(6, g5)
    BY DEF g1, g2, g3, g4, g5, g6
  <2>3. g = [n \in 0..count |-> g[n]]
    BY DEF g
  <2> HIDE DEF g
  <2>4. ASSUME NEW n \in 0..count PROVE g[n] = T(n, g[n - 1])
    <3>1. CASE n = 0
      BY <1>1, <2>1, <3>1
    <3>2. CASE n # 0
      <4>1. n - 1 \in 0..count
        BY <3>2
      <4>2. n = 1 \/ n = 2 \/ n = 3 \/ n = 4 \/ n = 5 \/ n = 6
        BY <3>2
      <4> QED BY <2>1, <2>2, <4>1, <4>2
    <3> QED BY <3>1, <3>2
  <2> QED BY <2>3, <2>4
<1> QED
  <2> HIDE DEF g
  <2> QED BY <1>2, Zenon DEF P, T

LEMMA FieldInfoRuns ==
    ASSUME NEW fields, NEW count \in 2..6, Len(fields) = count
    PROVE  \E upTo : /\ Concat(fields, FieldInfo) = upTo[count]
                     /\ upTo[0] = <<>>
                     /\ \A n \in 1..count : upTo[n] = upTo[n - 1] \o FieldInfo(fields[n])
<1> DEFINE entries == [n \in 1..count |-> FieldInfo(fields[n])]
           P(upTo) == upTo = [n \in 0..count |->
                                IF n = 0 THEN <<>> ELSE upTo[n - 1] \o FieldInfo(fields[n])]
           h == CHOOSE upTo : P(upTo)
<1>1. PICK g : g = [n \in 0..count |-> IF n = 0 THEN <<>> ELSE g[n - 1] \o entries[n]]
  <2> HIDE DEF entries
  <2> QED BY ConcatRuns
<1>2. \A n \in 0..count : n # 0 => entries[n] = FieldInfo(fields[n])
  OBVIOUS
<1>3. P(g)
  <2> HIDE DEF entries
  <2> QED BY <1>1, <1>2
<1>4. P(h)
  <2> HIDE DEF P
  <2> QED BY <1>3, Zenon
<1>5. Concat(fields, FieldInfo) = h[count]
  BY Zenon DEF Concat
<1>6. 0 \in 0..count /\ \A n \in 1..count : n \in 0..count /\ n # 0
  OBVIOUS
<1>7. h[0] = <<>> /\ \A n \in 1..count : h[n] = h[n - 1] \o FieldInfo(fields[n])
  <2> HIDE DEF h
  <2> QED BY <1>4, <1>6
<1> HIDE DEF h
<1> QED BY <1>5, <1>7

LEMMA SubmsgInfoRuns ==
    ASSUME NEW fields, NEW count \in 2..6, Len(fields) = count
    PROVE  \E upTo : /\ Concat(fields, SubmsgInfo) = upTo[count]
                     /\ upTo[0] = <<>>
                     /\ \A n \in 1..count : upTo[n] = upTo[n - 1] \o SubmsgInfo(fields[n])
<1> DEFINE entries == [n \in 1..count |-> SubmsgInfo(fields[n])]
           P(upTo) == upTo = [n \in 0..count |->
                                IF n = 0 THEN <<>> ELSE upTo[n - 1] \o SubmsgInfo(fields[n])]
           h == CHOOSE upTo : P(upTo)
<1>1. PICK g : g = [n \in 0..count |-> IF n = 0 THEN <<>> ELSE g[n - 1] \o entries[n]]
  <2> HIDE DEF entries
  <2> QED BY ConcatRuns
<1>2. \A n \in 0..count : n # 0 => entries[n] = SubmsgInfo(fields[n])
  OBVIOUS
<1>3. P(g)
  <2> HIDE DEF entries
  <2> QED BY <1>1, <1>2
<1>4. P(h)
  <2> HIDE DEF P
  <2> QED BY <1>3, Zenon
<1>5. Concat(fields, SubmsgInfo) = h[count]
  BY Zenon DEF Concat
<1>6. 0 \in 0..count /\ \A n \in 1..count : n \in 0..count /\ n # 0
  OBVIOUS
<1>7. h[0] = <<>> /\ \A n \in 1..count : h[n] = h[n - 1] \o SubmsgInfo(fields[n])
  <2> HIDE DEF h
  <2> QED BY <1>4, <1>6
<1> HIDE DEF h
<1> QED BY <1>5, <1>7

LEMMA AllWords ==
    ASSUME NEW fields, Listed(fields), NEW count \in 2..6, Len(fields) = count
    PROVE  LaysWords(Concat(fields, FieldInfo), fields, count)
<1>1. \A n \in 1..count : IsField(fields[n])
  BY DEF Listed
<1>2. PICK upTo : /\ Concat(fields, FieldInfo) = upTo[count]
                  /\ upTo[0] = <<>>
                  /\ \A n \in 1..count :
                       upTo[n] = upTo[n - 1] \o FieldInfo(fields[n])
  BY FieldInfoRuns
<1>3. LaysWords(upTo[0], fields, 0)
  BY <1>2, NoWords
<1>4. ASSUME NEW n \in 0..5, n + 1 <= count, LaysWords(upTo[n], fields, n)
      PROVE  LaysWords(upTo[n + 1], fields, n + 1)
  <2>1. n \in Nat /\ n + 1 \in 1..count /\ n + 1 - 1 = n
    BY <1>1, <1>4
  <2>2. \A m \in 1..n : m \in 1..count
    BY <1>1, <1>4
  <2>3. upTo[n + 1] = upTo[n] \o FieldInfo(fields[n + 1])
    <3> DEFINE k == n + 1
    <3>1. k \in 1..count /\ k - 1 = n
      BY <2>1
    <3> HIDE DEF k
    <3>2. upTo[k] = upTo[k - 1] \o FieldInfo(fields[k])
      BY <1>2, <3>1
    <3> QED BY <3>1, <3>2 DEF k
  <2> QED BY <1>1, <1>4, <2>1, <2>2, <2>3, WordsOfNext
<1>5. LaysWords(upTo[1], fields, 1)
  BY <1>1, <1>3, <1>4
<1>6. LaysWords(upTo[2], fields, 2)
  BY <1>1, <1>4, <1>5
<1>7. 3 <= count => LaysWords(upTo[3], fields, 3)
  BY <1>1, <1>4, <1>6
<1>8. 4 <= count => LaysWords(upTo[4], fields, 4)
  BY <1>1, <1>4, <1>7
<1>9. 5 <= count => LaysWords(upTo[5], fields, 5)
  BY <1>1, <1>4, <1>8
<1>10. 6 <= count => LaysWords(upTo[6], fields, 6)
  BY <1>1, <1>4, <1>9
<1>11. LaysWords(upTo[count], fields, count)
  <2>1. \/ count = 2 \/ count = 3 \/ count = 4
        \/ count = 5 \/ count = 6
    BY <1>1
  <2> QED BY <2>1, <1>6, <1>7, <1>8, <1>9, <1>10
<1> QED BY <1>2, <1>11

\* The submessages of the first n fields.
LaysSubmessages(s, fields, n) ==
    /\ s \in Seq(SubmessageNames)
    /\ Len(s) = Passed(fields, n + 1)
    /\ \A m \in 1..n : Width(fields[m]) = 2 => s[Passed(fields, m) + 1] = fields[m].sub

LEMMA NoSubmessages ==
    ASSUME NEW fields
    PROVE  LaysSubmessages(<<>>, fields, 0)
<1>1. Passed(fields, 0 + 1) = 0
  BY PassedFirst
<1>2. <<>> \in Seq(SubmessageNames) /\ Len(<<>>) = 0
  BY EmptySeq
<1>3. 1..0 = {}
  OBVIOUS
<1> QED BY <1>1, <1>2, <1>3 DEF LaysSubmessages

LEMMA SubmessagesOfNext ==
    ASSUME NEW fields, NEW n \in Nat, IsField(fields[n + 1]),
           \A m \in 1..n : IsField(fields[m]),
           NEW s, LaysSubmessages(s, fields, n)
    PROVE  LaysSubmessages(s \o SubmsgInfo(fields[n + 1]), fields, n + 1)
<1> DEFINE f == fields[n + 1]
           e == SubmsgInfo(f)
           t == s \o e
           len == Passed(fields, n + 1)
           more == IF Width(f) = 2 THEN 1 ELSE 0
           sub == f.sub
<1>1. /\ e \in Seq(SubmessageNames) /\ Len(e) = more
      /\ more = 1 => e[1] = sub
  <2>1. CASE f.ltype = "MESSAGE"
    <3>1. e = <<sub>> /\ sub \in SubmessageNames /\ more = 1
      BY <2>1, FieldInfoWords DEF IsField, SubmsgInfo
    <3> HIDE DEF e, more, sub
    <3> QED BY <3>1
  <2>2. CASE f.ltype # "MESSAGE"
    <3>1. e = <<>> /\ more = 0
      BY <2>2, FieldInfoWords DEF IsField, SubmsgInfo
    <3>2. <<>> \in Seq(SubmessageNames) /\ Len(<<>>) = 0
      BY EmptySeq
    <3> HIDE DEF e, more
    <3> QED BY <3>1, <3>2
  <2> QED BY <2>1, <2>2
<1>2. s \in Seq(SubmessageNames) /\ Len(s) = len
  BY DEF LaysSubmessages
<1>3. n + 1 \in Nat \ {0} /\ n + 1 - 1 = n
  OBVIOUS
<1>4. len \in Nat /\ more \in {0, 1}
  BY <1>3, PassedFinite
<1>5. Passed(fields, n + 1 + 1) = len + more
  BY <1>3, PassedNext DEF Width
<1>6. ASSUME NEW m \in 1..n, Width(fields[m]) = 2
      PROVE  Passed(fields, m) \in Nat /\ Passed(fields, m) + 1 <= len
  <2>1. m \in Nat \ {0} /\ m + 1 \in 1..(n + 1)
    OBVIOUS
  <2>2. Passed(fields, m) \in Nat
    BY <2>1, PassedFinite
  <2>3. Passed(fields, m + 1)
          = Passed(fields, m) + (IF PB_FI_WIDTH(fields[m].ltype) = 2 THEN 1 ELSE 0)
    BY <2>1, PassedNext
  <2>4. Passed(fields, m + 1) <= Passed(fields, n + 1)
    BY <1>3, <2>1, PassedGrows
  <2> QED BY <1>6, <2>2, <2>3, <2>4 DEF Width
<1> HIDE DEF f, e, len, more, sub
<1>7. /\ t \in Seq(SubmessageNames) /\ Len(t) = len + more
      /\ \A i \in 1..(Len(s) + Len(e)) :
           t[i] = IF i <= Len(s) THEN s[i] ELSE e[i - Len(s)]
  BY <1>1, <1>2, ConcatProperties
<1> HIDE DEF t
<1>8. ASSUME NEW i \in 1..len PROVE t[i] = s[i]
  BY <1>1, <1>2, <1>4, <1>7
<1>9. more = 1 => t[len + 1] = e[1]
  <2> DEFINE i == len + 1
  <2>1. more = 1 => i \in 1..(Len(s) + Len(e)) /\ ~(i <= Len(s)) /\ i - Len(s) = 1
    BY <1>1, <1>2, <1>4
  <2> HIDE DEF i
  <2>2. more = 1 => t[i] = e[i - Len(s)]
    BY <1>7, <2>1
  <2> QED BY <2>1, <2>2 DEF i
<1>10. ASSUME NEW m \in 1..(n + 1), Width(fields[m]) = 2
       PROVE  t[Passed(fields, m) + 1] = fields[m].sub
  <2>1. CASE m = n + 1
    <3>1. more = 1
      BY <1>10, <2>1 DEF more, f
    <3>2. t[len + 1] = sub
      BY <1>1, <1>9, <3>1
    <3> QED BY <2>1, <3>2 DEF len, sub, f
  <2>2. CASE m # n + 1
    <3> DEFINE k == Passed(fields, m)
    <3>1. m \in 1..n
      BY <2>2
    <3>2. k \in Nat /\ k + 1 <= len
      BY <1>6, <1>10, <3>1
    <3>3. s[k + 1] = fields[m].sub
      BY <1>10, <3>1 DEF LaysSubmessages
    <3> HIDE DEF k
    <3>4. k + 1 \in 1..len
      BY <1>4, <3>2
    <3>5. t[k + 1] = s[k + 1]
      BY <1>8, <3>4
    <3> QED BY <3>3, <3>5 DEF k
  <2> QED BY <2>1, <2>2
<1>11. Len(t) = Passed(fields, n + 1 + 1)
  BY <1>5, <1>7
<1> QED BY <1>7, <1>10, <1>11 DEF LaysSubmessages, t, e, f

LEMMA AllSubmessages ==
    ASSUME NEW fields, Listed(fields), NEW count \in 2..6, Len(fields) = count
    PROVE  LaysSubmessages(Concat(fields, SubmsgInfo), fields, count)
<1>1. \A n \in 1..count : IsField(fields[n])
  BY DEF Listed
<1>2. PICK upTo : /\ Concat(fields, SubmsgInfo) = upTo[count]
                  /\ upTo[0] = <<>>
                  /\ \A n \in 1..count :
                       upTo[n] = upTo[n - 1] \o SubmsgInfo(fields[n])
  BY SubmsgInfoRuns
<1>3. LaysSubmessages(upTo[0], fields, 0)
  BY <1>2, NoSubmessages
<1>4. ASSUME NEW n \in 0..5, n + 1 <= count, LaysSubmessages(upTo[n], fields, n)
      PROVE  LaysSubmessages(upTo[n + 1], fields, n + 1)
  <2>1. n \in Nat /\ n + 1 \in 1..count /\ n + 1 - 1 = n
    BY <1>1, <1>4
  <2>2. \A m \in 1..n : m \in 1..count
    BY <1>1, <1>4
  <2>3. upTo[n + 1] = upTo[n] \o SubmsgInfo(fields[n + 1])
    <3> DEFINE k == n + 1
    <3>1. k \in 1..count /\ k - 1 = n
      BY <2>1
    <3> HIDE DEF k
    <3>2. upTo[k] = upTo[k - 1] \o SubmsgInfo(fields[k])
      BY <1>2, <3>1
    <3> QED BY <3>1, <3>2 DEF k
  <2> QED BY <1>1, <1>4, <2>1, <2>2, <2>3, SubmessagesOfNext
<1>5. LaysSubmessages(upTo[1], fields, 1)
  BY <1>1, <1>3, <1>4
<1>6. LaysSubmessages(upTo[2], fields, 2)
  BY <1>1, <1>4, <1>5
<1>7. 3 <= count => LaysSubmessages(upTo[3], fields, 3)
  BY <1>1, <1>4, <1>6
<1>8. 4 <= count => LaysSubmessages(upTo[4], fields, 4)
  BY <1>1, <1>4, <1>7
<1>9. 5 <= count => LaysSubmessages(upTo[5], fields, 5)
  BY <1>1, <1>4, <1>8
<1>10. 6 <= count => LaysSubmessages(upTo[6], fields, 6)
  BY <1>1, <1>4, <1>9
<1>11. LaysSubmessages(upTo[count], fields, count)
  <2>1. \/ count = 2 \/ count = 3 \/ count = 4
        \/ count = 5 \/ count = 6
    BY <1>1
  <2> QED BY <2>1, <1>6, <1>7, <1>8, <1>9, <1>10
<1> QED BY <1>2, <1>11

LEMMA StartBounds ==
    ASSUME NEW fields, NEW n \in Nat, NEW m \in 1..n, IsField(fields[m])
    PROVE  /\ Passed(fields, m) \in Nat /\ Start(fields, m) \in Nat
           /\ Start(fields, m + 1) = Start(fields, m) + Width(fields[m])
           /\ Start(fields, m) + Width(fields[m]) <= Start(fields, n + 1)
           /\ Passed(fields, m + 1) = Passed(fields, m)
                                        + (IF Width(fields[m]) = 2 THEN 1 ELSE 0)
           /\ Passed(fields, m + 1) <= Passed(fields, n + 1)
           /\ Passed(fields, n + 1) \in Nat /\ Start(fields, n + 1) \in Nat
<1>1. m \in Nat \ {0} /\ m + 1 \in 1..(n + 1) /\ n + 1 \in Nat \ {0}
  OBVIOUS
<1>2. Passed(fields, m) \in Nat /\ Passed(fields, n + 1) \in Nat
  BY <1>1, PassedFinite
<1>3. Passed(fields, m + 1)
        = Passed(fields, m) + (IF PB_FI_WIDTH(fields[m].ltype) = 2 THEN 1 ELSE 0)
  BY <1>1, PassedNext
<1>4. Passed(fields, m + 1) <= Passed(fields, n + 1)
  BY <1>1, PassedGrows
<1>5. Width(fields[m]) \in {1, 2}
  BY FieldInfoWords
<1> QED BY <1>1, <1>2, <1>3, <1>4, <1>5 DEF Start, Width

LEMMA FieldCount ==
    ASSUME NEW m \in Messages, NEW fields, fields = FieldList[m],
           NEW count \in 2..6, Len(fields) = count
    PROVE  Descriptor[m].field_count = count /\ Descriptor[m].largest_tag = count
<1>1. count \in 1..count
  OBVIOUS
<1>2. fields[count].tag = count
  BY <1>1, AllListed DEF Listed
<1>3. Descriptor[m] = PB_BIND(fields)
  BY DEF Descriptor
<1> QED BY <1>2, <1>3 DEF PB_BIND

\* Descriptor d has the words of the n-th field where an iterator looks for them.
Describes(d, fields, n) ==
    /\ d.field_info[Start(fields, n) + 1] = FieldInfo(fields[n])[1]
    /\ Width(fields[n]) = 2 =>
         /\ d.field_info[Start(fields, n) + 2] = FieldInfo(fields[n])[2]
         /\ d.submsg_info[Passed(fields, n) + 1] = fields[n].sub

\* The descriptor of a message: its fields' words and submessages, each where
\* Start and Passed say.
LEMMA Described ==
    ASSUME NEW m \in Messages, NEW fields, fields = FieldList[m],
           NEW count \in 2..6, Len(fields) = count, NEW n \in 1..count
    PROVE  Describes(Descriptor[m], fields, n)
<1> DEFINE words == Concat(fields, FieldInfo)
           subs == Concat(fields, SubmsgInfo)
           end == Word(0, 0)
           info == Append(words, end)
           names == Append(subs, NULL)
<1>1. Listed(fields)
  BY AllListed
<1>2. LaysWords(words, fields, count) /\ LaysSubmessages(subs, fields, count)
  BY <1>1, AllWords, AllSubmessages
<1>3. \A k \in 1..count : IsField(fields[k]) /\ fields[k].tag = k
  BY <1>1 DEF Listed
<1>4. /\ Descriptor[m].field_info = info /\ Descriptor[m].submsg_info = names
  <2> HIDE DEF words, subs
  <2>1. Descriptor[m] = PB_BIND(FieldList[m])
    BY DEF Descriptor
  <2>2. Descriptor[m] = [field_info |-> info, submsg_info |-> names, field_count |-> count,
                         largest_tag |-> fields[count].tag]
    BY <2>1, Zenon DEF PB_BIND, words, subs
  <2> QED BY <2>2
<1>6. \A i \in 1..Start(fields, count + 1) : info[i] = words[i]
  <2>1. words \in Seq(Words) /\ Len(words) = Start(fields, count + 1)
    BY <1>2 DEF LaysWords
  <2>2. end \in Words
    BY DEF end, Word, Words
  <2> HIDE DEF words, end
  <2> QED BY <2>1, <2>2, AppendProperties
<1>7. \A i \in 1..Passed(fields, count + 1) : names[i] = subs[i]
  <2> DEFINE S == SubmessageNames \cup {NULL}
  <2>1. subs \in Seq(SubmessageNames) /\ Len(subs) = Passed(fields, count + 1)
    BY <1>2 DEF LaysSubmessages
  <2>2. NULL \in S /\ SubmessageNames \subseteq S
    OBVIOUS
  <2> HIDE DEF subs, S
  <2>3. subs \in Seq(S)
    BY <2>1, <2>2, SeqMonotonic
  <2> QED BY <2>1, <2>2, <2>3, AppendProperties
<1> HIDE DEF info, names, words, subs
<1>8. /\ info[Start(fields, n) + 1] = FieldInfo(fields[n])[1]
      /\ Width(fields[n]) = 2 =>
           /\ info[Start(fields, n) + 2] = FieldInfo(fields[n])[2]
           /\ names[Passed(fields, n) + 1] = fields[n].sub
  <2> DEFINE i == Start(fields, n)
             j == Passed(fields, n)
             w == Width(fields[n])
             a == Start(fields, count + 1)
             b == Passed(fields, count + 1)
  <2>1. /\ i \in Nat /\ j \in Nat /\ a \in Nat /\ b \in Nat
        /\ i + w <= a
        /\ w = 2 => j + 1 <= b
    BY <1>3, StartBounds
  <2>2. w \in {1, 2}
    BY <1>3, FieldInfoWords
  <2>3. /\ words[i + 1] = FieldInfo(fields[n])[1]
        /\ w = 2 => words[i + 2] = FieldInfo(fields[n])[2]
        /\ w = 2 => subs[j + 1] = fields[n].sub
    BY <1>2 DEF LaysWords, LaysSubmessages
  <2>4. /\ \A k \in 1..a : info[k] = words[k]
        /\ \A k \in 1..b : names[k] = subs[k]
    BY <1>6, <1>7
  <2>7. i + 1 \in 1..a /\ (w = 2 => i + 2 \in 1..a /\ j + 1 \in 1..b)
    <3> HIDE DEF i, j, w, a, b
    <3> QED BY <2>1, <2>2
  <2>5. /\ info[i + 1] = words[i + 1]
        /\ w = 2 => info[i + 2] = words[i + 2] /\ names[j + 1] = subs[j + 1]
    <3> HIDE DEF i, j, w, a, b
    <3> QED BY <2>4, <2>7
  <2>6. /\ info[i + 1] = FieldInfo(fields[n])[1]
        /\ w = 2 => info[i + 2] = FieldInfo(fields[n])[2] /\ names[j + 1] = fields[n].sub
    BY <2>3, <2>5, Zenon
  <2> QED BY <2>6
<1> QED BY <1>4, <1>8, Zenon DEF Describes

-----------------------------------------------------------------------------
(***************************************************************************)
(* The iterator.                                                           *)
(***************************************************************************)

\* A pb_field_iter_t, whatever is in it.
IsIter(it) ==
    \E V : it \in [descriptor : V, message : V, index : V, field_info_index : V,
                   submessage_index : V, tag : V, data_size : V, type : V,
                   pData : V, pSize : V, submsg_desc : V]

\* it has the indices of field n of message desc at address message; what it
\* has loaded may be another field's.
At(it, desc, message, n) ==
    /\ IsIter(it)
    /\ it.descriptor = desc /\ it.message = message /\ it.index = n - 1
    /\ it.field_info_index = Start(FieldList[desc], n)
    /\ it.submessage_index = Passed(FieldList[desc], n)

\* A record is an iterator if it has the members of one.
LEMMA IterRecord ==
    ASSUME NEW a, NEW b, NEW c, NEW d, NEW e, NEW f, NEW g, NEW h, NEW i, NEW j, NEW k,
           NEW it, it = [descriptor |-> a, message |-> b, index |-> c, field_info_index |-> d,
                         submessage_index |-> e, tag |-> f, data_size |-> g, type |-> h,
                         pData |-> i, pSize |-> j, submsg_desc |-> k]
    PROVE  IsIter(it)
<1>1. PICK V : V = {a, b, c, d, e, f, g, h, i, j, k}
  OBVIOUS
<1>2. /\ a \in V /\ b \in V /\ c \in V /\ d \in V /\ e \in V /\ f \in V
      /\ g \in V /\ h \in V /\ i \in V /\ j \in V /\ k \in V
  BY <1>1
<1>3. it \in [descriptor : V, message : V, index : V, field_info_index : V,
              submessage_index : V, tag : V, data_size : V, type : V,
              pData : V, pSize : V, submsg_desc : V]
  BY <1>2
<1> QED BY <1>3 DEF IsIter

LEMMA IterAtIsAt ==
    ASSUME NEW desc, NEW message, NEW n
    PROVE  /\ At(IterAt(desc, message, n), desc, message, n)
           /\ IterAt(desc, message, n).tag = FieldList[desc][n].tag
<1> DEFINE s == Start(FieldList[desc], n)
           p == Passed(FieldList[desc], n)
           f == FieldList[desc][n]
           i == n - 1
           pData == message + f.offset
           pSize == IF f.delta = 0 THEN NoAddress ELSE message + f.offset - f.delta
           type == Type(f)
<1>1. IterAt(desc, message, n) =
        [descriptor |-> desc, message |-> message, index |-> i,
         field_info_index |-> s, submessage_index |-> p,
         tag |-> f.tag, data_size |-> f.size, type |-> type,
         pData |-> pData, pSize |-> pSize, submsg_desc |-> f.sub]
  BY DEF IterAt, Start, Passed, SubmessagesBefore
<1> HIDE DEF s, p, f, i, pData, pSize, type
<1>2. IsIter(IterAt(desc, message, n))
  BY <1>1, IterRecord
<1>3. PICK it : it = IterAt(desc, message, n)
  OBVIOUS
<1>4. /\ it.descriptor = desc /\ it.message = message /\ it.index = i
      /\ it.field_info_index = s /\ it.submessage_index = p /\ it.tag = f.tag
  BY <1>1, <1>3
<1> QED BY <1>2, <1>3, <1>4 DEF At, s, p, i, f

\* What the iterator makes of a field's words is the field.
LEMMA Unpacked ==
    ASSUME NEW f, IsField(f), NEW w, w = FieldInfo(f)[1],
           NEW v, Width(f) = 2 => v = FieldInfo(f)[2]
    PROVE  /\ ((w.lo % 256) \div 4)
                + (IF w.lo % 4 = 0 THEN 0 ELSE 64 * (v.hi \div 4096)) = f.tag
           /\ (IF w.lo % 4 = 0 THEN w.hi \div 4096 ELSE v.hi % 4096) = f.size
           /\ w.lo \div 256 = Type(f)
           /\ (IF w.lo % 4 = 0 THEN w.hi % 256 ELSE v.lo) = f.offset
           /\ (IF w.lo % 4 = 0 THEN (w.hi \div 256) % 16 ELSE w.hi \div 4096) = f.delta
           /\ w.lo % 4 = Width(f) - 1
<1>1. /\ Width(f) \in {1, 2}
      /\ Width(f) = 2 <=> f.ltype = "MESSAGE"
      /\ FieldInfo(f) = IF f.ltype = "MESSAGE" THEN PB_FIELDINFO_2(f) ELSE PB_FIELDINFO_1(f)
  BY FieldInfoWords
<1>2. f.tag \in Int
  BY DEF IsField
<1>3. CASE f.ltype # "MESSAGE"
  <2>1. w = PB_FIELDINFO_1(f)[1]
    BY <1>1, <1>3
  <2>2. /\ w.lo % 4 = 0 /\ (w.lo % 256) \div 4 = f.tag /\ w.lo \div 256 = Type(f)
        /\ w.hi % 256 = f.offset /\ (w.hi \div 256) % 16 = f.delta
        /\ w.hi \div 4096 = f.size
    BY <1>3, <2>1, Unpack1
  <2>3. ((w.lo % 256) \div 4) + (IF w.lo % 4 = 0 THEN 0 ELSE 64 * (v.hi \div 4096)) = f.tag
    BY <1>2, <2>2
  <2>4. w.lo % 4 = Width(f) - 1
    BY <1>1, <1>3, <2>2
  <2> QED BY <2>2, <2>3, <2>4
<1>4. CASE f.ltype = "MESSAGE"
  <2>1. w = PB_FIELDINFO_2(f)[1] /\ v = PB_FIELDINFO_2(f)[2]
    BY <1>1, <1>4
  <2>2. /\ w.lo % 4 = 1
        /\ ((w.lo % 256) \div 4) + 64 * (v.hi \div 4096) = f.tag
        /\ w.lo \div 256 = Type(f)
        /\ w.hi \div 4096 = f.delta
        /\ v.lo = f.offset /\ v.hi % 4096 = f.size
    BY <2>1, Unpack2
  <2>3. w.lo % 4 = Width(f) - 1 /\ ~(w.lo % 4 = 0)
    BY <1>1, <1>4, <2>2
  <2> QED BY <2>2, <2>3
<1> QED BY <1>3, <1>4

\* The words and the submessage an iterator at field n finds.
LEMMA WordsAt ==
    ASSUME NEW desc \in Messages, NEW n \in DOMAIN FieldList[desc], NEW message, NEW it, At(it, desc, message, n),
           NEW fields, fields = FieldList[desc], NEW f, f = fields[n]
    PROVE  /\ IsField(f)
           /\ FieldInfoAt(it) = FieldInfo(f)[1]
           /\ Width(f) = 2 =>
                /\ FieldInfoAt([it EXCEPT !.field_info_index = @ + 1]) = FieldInfo(f)[2]
                /\ Descriptor[it.descriptor].submsg_info[it.submessage_index + 1] = f.sub
<1>0. PICK count \in 2..6 : Len(fields) = count /\ DOMAIN fields = 1..count
  BY CountOf
<1> DEFINE s == Start(fields, n)
           p == Passed(fields, n)
<1>1. IsField(f)
  BY <1>0, AllListed DEF Listed
<1>2. s \in Nat
  <2>1. n \in Nat \ {0}
    BY <1>0
  <2>2. p \in Nat
    BY <2>1, PassedFinite
  <2> QED BY <2>1, <2>2 DEF Start
<1>3. /\ Descriptor[desc].field_info[s + 1] = FieldInfo(f)[1]
      /\ Width(f) = 2 =>
           /\ Descriptor[desc].field_info[s + 2] = FieldInfo(f)[2]
           /\ Descriptor[desc].submsg_info[p + 1] = f.sub
  <2>1. /\ Descriptor[desc].field_info[s + 1] = FieldInfo(fields[n])[1]
        /\ Width(fields[n]) = 2 =>
             /\ Descriptor[desc].field_info[s + 2] = FieldInfo(fields[n])[2]
             /\ Descriptor[desc].submsg_info[p + 1] = fields[n].sub
    <3>1. PICK k \in 1..count : k = n
      BY <1>0
    <3>2. Len(fields) = count
      BY <1>0
    <3>3. Describes(Descriptor[desc], fields, k)
      BY <3>2, Described
    <3> QED BY <3>1, <3>3, Zenon DEF Describes
  <2> QED BY <2>1
<1>4. /\ it.descriptor = desc /\ it.field_info_index = s /\ it.submessage_index = p
      /\ [it EXCEPT !.field_info_index = @ + 1].descriptor = desc
      /\ [it EXCEPT !.field_info_index = @ + 1].field_info_index = s + 1
  BY DEF At
<1>5. s + 1 + 1 = s + 2
  <2> HIDE DEF s
  <2> QED BY <1>2
<1>6. FieldInfoAt([it EXCEPT !.field_info_index = @ + 1])
        = Descriptor[desc].field_info[s + 2]
  BY <1>4, <1>5, Zenon DEF FieldInfoAt
<1>7. FieldInfoAt(it) = Descriptor[desc].field_info[s + 1]
  BY <1>4, Zenon DEF FieldInfoAt
<1>8. Descriptor[it.descriptor].submsg_info[it.submessage_index + 1]
        = Descriptor[desc].submsg_info[p + 1]
  BY <1>4, Zenon
<1> QED BY <1>1, <1>3, <1>6, <1>7, <1>8, Zenon

\* A field that has been loaded.
LEMMA LoadOf ==
    ASSUME NEW it, it.message \in Int, NEW f, IsField(f),
           FieldInfoAt(it) = FieldInfo(f)[1],
           Width(f) = 2 =>
             /\ FieldInfoAt([it EXCEPT !.field_info_index = @ + 1]) = FieldInfo(f)[2]
             /\ Descriptor[it.descriptor].submsg_info[it.submessage_index + 1] = f.sub
    PROVE  load_descriptor_values(it) =
             [it EXCEPT !.tag = f.tag, !.data_size = f.size, !.type = Type(f),
                        !.pData = it.message + f.offset,
                        !.pSize = IF f.delta = 0 THEN NoAddress
                                  ELSE it.message + f.offset - f.delta,
                        !.submsg_desc = f.sub]
<1>0. PICK w, v, sub :
        /\ w = FieldInfoAt(it)
        /\ v = FieldInfoAt([it EXCEPT !.field_info_index = @ + 1])
        /\ sub = Descriptor[it.descriptor].submsg_info[it.submessage_index + 1]
  OBVIOUS
<1>a. w = FieldInfo(f)[1] /\ (Width(f) = 2 => v = FieldInfo(f)[2] /\ sub = f.sub)
  BY <1>0
<1> DEFINE tag == ((w.lo % 256) \div 4)
                    + (IF w.lo % 4 = 0 THEN 0 ELSE 64 * (v.hi \div 4096))
           size == IF w.lo % 4 = 0 THEN w.hi \div 4096 ELSE v.hi % 4096
           type == w.lo \div 256
           offset == IF w.lo % 4 = 0 THEN w.hi % 256 ELSE v.lo
           delta == IF w.lo % 4 = 0 THEN (w.hi \div 256) % 16 ELSE w.hi \div 4096
           name == IF PB_LTYPE_IS_SUBMSG(type) THEN sub ELSE NULL
           pData == it.message + offset
           pSize == IF delta = 0 THEN NoAddress ELSE (it.message + offset) - delta
           pSize_f == IF f.delta = 0 THEN NoAddress ELSE it.message + f.offset - f.delta
<1>1. tag = f.tag /\ size = f.size /\ type = Type(f) /\ offset = f.offset /\ delta = f.delta
  BY ONLY IsField(f), <1>a, Unpacked
<1>2. name = f.sub
  <2> HIDE DEF type
  <2>1. PB_LTYPE_IS_SUBMSG(Type(f)) <=> f.ltype = "MESSAGE"
    BY TypeParts
  <2>2. Width(f) = 2 <=> f.ltype = "MESSAGE"
    BY FieldInfoWords
  <2>3. f.sub = NULL <=> f.ltype # "MESSAGE"
    BY DEF IsField
  <2> QED BY <1>a, <1>1, <2>1, <2>2, <2>3
<1>3. load_descriptor_values(it) =
        [it EXCEPT !.tag = tag, !.data_size = size, !.type = type,
                   !.pData = pData, !.pSize = pSize, !.submsg_desc = name]
  BY <1>0 DEF load_descriptor_values, Loaded
<1> HIDE DEF tag, size, type, offset, delta, name
<1>4. pData = it.message + f.offset /\ pSize = pSize_f
  <2>1. pSize = IF f.delta = 0 THEN NoAddress ELSE (it.message + f.offset) - f.delta
    BY <1>1, Zenon
  <2>2. f.offset \in Int /\ f.delta \in Int
    BY DEF IsField
  <2>3. (it.message + f.offset) - f.delta = it.message + f.offset - f.delta
    BY <2>2
  <2> QED BY <1>1, <2>1, <2>3, Zenon
<1> DEFINE pData_f == it.message + f.offset
<1> HIDE DEF pData, pSize, pData_f, pSize_f
<1>5. load_descriptor_values(it) =
        [it EXCEPT !.tag = f.tag, !.data_size = f.size, !.type = Type(f),
                   !.pData = pData_f, !.pSize = pSize_f, !.submsg_desc = f.sub]
  BY <1>1, <1>2, <1>3, <1>4 DEF pData_f
<1> QED BY <1>5 DEF pData_f, pSize_f

\* What it loads is the field it is at.
LEMMA LoadTrue ==
    ASSUME NEW desc \in Messages, NEW n \in DOMAIN FieldList[desc], NEW message \in Int,
           NEW it, At(it, desc, message, n)
    PROVE  load_descriptor_values(it) = IterAt(desc, message, n)
<1>1. PICK fields, f : fields = FieldList[desc] /\ f = fields[n]
  OBVIOUS
<1>2. /\ IsField(f)
      /\ FieldInfoAt(it) = FieldInfo(f)[1]
      /\ Width(f) = 2 =>
           /\ FieldInfoAt([it EXCEPT !.field_info_index = @ + 1]) = FieldInfo(f)[2]
           /\ Descriptor[it.descriptor].submsg_info[it.submessage_index + 1] = f.sub
  BY <1>1, WordsAt
<1>3. it.message = message
  BY DEF At
<1> DEFINE pData == it.message + f.offset
           pSize == IF f.delta = 0 THEN NoAddress ELSE it.message + f.offset - f.delta
           s == Start(FieldList[desc], n)
           p == Passed(FieldList[desc], n)
           i == n - 1
           type == Type(f)
<1>4. load_descriptor_values(it) =
        [it EXCEPT !.tag = f.tag, !.data_size = f.size, !.type = type,
                   !.pData = pData, !.pSize = pSize,
                   !.submsg_desc = f.sub]
  <2>1. it.message \in Int
    BY <1>3
  <2> QED BY ONLY <1>2, <2>1, LoadOf
<1>6. IterAt(desc, message, n) =
        [descriptor |-> desc, message |-> message, index |-> i,
         field_info_index |-> s, submessage_index |-> p,
         tag |-> f.tag, data_size |-> f.size, type |-> type,
         pData |-> pData, pSize |-> pSize, submsg_desc |-> f.sub]
  BY <1>1, <1>3 DEF IterAt, Start, Passed, SubmessagesBefore
<1>5. /\ IsIter(it) /\ it.descriptor = desc /\ it.message = message /\ it.index = i
      /\ it.field_info_index = s /\ it.submessage_index = p
  BY DEF At
<1> HIDE DEF s, p, pSize, pData, i, type
<1>8. PICK l : l = [it EXCEPT !.tag = f.tag, !.data_size = f.size, !.type = type,
                      !.pData = pData, !.pSize = pSize, !.submsg_desc = f.sub]
  OBVIOUS
<1>9. l = [descriptor |-> it.descriptor, message |-> it.message, index |-> it.index,
           field_info_index |-> it.field_info_index,
           submessage_index |-> it.submessage_index,
           tag |-> f.tag, data_size |-> f.size, type |-> type,
           pData |-> pData, pSize |-> pSize, submsg_desc |-> f.sub]
  BY ONLY <1>5, <1>8 DEF IsIter
<1> QED BY <1>4, <1>5, <1>6, <1>8, <1>9, Zenon

\* Advancing from wherever the index says it is the last.
LEMMA WrapAt ==
    ASSUME NEW desc \in Messages, NEW count \in 2..6, Len(FieldList[desc]) = count,
           NEW message, NEW it, IsIter(it), it.descriptor = desc, it.message = message,
           it.index \in Nat, it.index + 1 >= count
    PROVE  At(advance_iterator(it), desc, message, 1)
<1>1. Descriptor[it.descriptor].field_count = count
  BY FieldCount
<1>2. PICK l : l = [it EXCEPT !.index = 0, !.field_info_index = 0, !.submessage_index = 0]
  OBVIOUS
<1>3. advance_iterator(it) = l
  BY <1>1, <1>2 DEF advance_iterator
<1>4. l = [descriptor |-> desc, message |-> message, index |-> 0,
           field_info_index |-> 0, submessage_index |-> 0,
           tag |-> it.tag, data_size |-> it.data_size, type |-> it.type,
           pData |-> it.pData, pSize |-> it.pSize, submsg_desc |-> it.submsg_desc]
  BY <1>2 DEF IsIter
<1>5. IsIter(l)
  BY <1>4, IterRecord
<1>6. Passed(FieldList[desc], 1) = 0 /\ Start(FieldList[desc], 1) = 0 /\ 1 - 1 = 0
  BY PassedFirst DEF Start
<1> QED BY <1>3, <1>4, <1>5, <1>6 DEF At

LEMMA FirstWordAt ==
    ASSUME NEW desc \in Messages, NEW n \in DOMAIN FieldList[desc], NEW message,
           NEW it, At(it, desc, message, n)
    PROVE  FieldInfoAt(it) = FieldInfo(FieldList[desc][n])[1]
<1>1. PICK fields, f : fields = FieldList[desc] /\ f = fields[n]
  OBVIOUS
<1>2. /\ IsField(f)
      /\ FieldInfoAt(it) = FieldInfo(f)[1]
      /\ Width(f) = 2 =>
           /\ FieldInfoAt([it EXCEPT !.field_info_index = @ + 1]) = FieldInfo(f)[2]
           /\ Descriptor[it.descriptor].submsg_info[it.submessage_index + 1] = f.sub
  BY <1>1, WordsAt
<1> QED BY <1>1, <1>2, Zenon

LEMMA StepAt ==
    ASSUME NEW desc \in Messages, NEW count \in 2..6, Len(FieldList[desc]) = count,
           NEW n \in 1..count, n # count,
           NEW message, NEW it, At(it, desc, message, n)
    PROVE  At(advance_iterator(it), desc, message, n + 1)
<1>1. PICK fields, f : fields = FieldList[desc] /\ f = fields[n]
  OBVIOUS
<1>2. PICK w : w = FieldInfoAt(it)
  OBVIOUS
<1>3. IsField(f) /\ w = FieldInfo(f)[1]
  <2>1. PICK m \in DOMAIN FieldList[desc] : m = n
    BY CountOf
  <2>2. At(it, desc, message, m) /\ f = fields[m]
    BY <1>1, <2>1, Zenon
  <2>3. IsField(f)
    BY <1>1, AllListed DEF Listed
  <2>4. FieldInfoAt(it) = FieldInfo(f)[1]
    <3>1. FieldInfoAt(it) = FieldInfo(FieldList[desc][m])[1]
      BY <2>2, FirstWordAt
    <3> QED BY <1>1, <2>1, <3>1, Zenon
  <2> QED BY <1>2, <2>3, <2>4
<1>4. /\ w.lo % 4 = Width(f) - 1 /\ w.lo \div 256 = Type(f)
  <2>1. PICK v : v = FieldInfo(f)[2]
    OBVIOUS
  <2> QED BY ONLY <1>3, <2>1, Unpacked
<1>5. Width(f) \in {1, 2}
  BY <1>3, FieldInfoWords
<1>6. 2 ^ (w.lo % 4) = Width(f)
  <2>1. CASE Width(f) = 1
    <3>1. w.lo % 4 = 0
      BY <1>4, <2>1
    <3>2. 2 ^ (w.lo % 4) = 2 ^ 0
      BY <3>1, Zenon
    <3> QED BY <2>1, <3>2
  <2>2. CASE Width(f) = 2
    <3>1. w.lo % 4 = 1
      BY <1>4, <2>2
    <3>2. 2 ^ (w.lo % 4) = 2 ^ 1
      BY <3>1, Zenon
    <3> QED BY <2>2, <3>2
  <2> QED BY <1>5, <2>1, <2>2
<1>7. SubmessagesPassed(it) = IF Width(f) = 2 THEN 1 ELSE 0
  <2>1. PB_LTYPE_IS_SUBMSG(Type(f)) <=> Width(f) = 2
    BY <1>3, TypeParts, FieldInfoWords
  <2> QED BY <1>2, <1>4, <2>1 DEF SubmessagesPassed
<1> DEFINE s == Start(fields, n)
           p == Passed(fields, n)
           more == IF Width(f) = 2 THEN 1 ELSE 0
<1>8. /\ s \in Nat /\ p \in Nat
      /\ Start(fields, n + 1) = s + Width(f) /\ Passed(fields, n + 1) = p + more
  <2>1. n \in Nat /\ n \in 1..n
    OBVIOUS
  <2> QED BY <1>1, <1>3, <2>1, StartBounds
<1>9. /\ IsIter(it) /\ it.descriptor = desc /\ it.message = message /\ it.index = n - 1
      /\ it.field_info_index = s /\ it.submessage_index = p
  BY <1>1 DEF At
<1>10. ~(it.index + 1 >= Descriptor[it.descriptor].field_count)
  <2>1. Descriptor[desc].field_count = count
    BY FieldCount
  <2> QED BY <1>9, <2>1
<1> DEFINE i == it.index + 1
           j == it.field_info_index + 2 ^ (FieldInfoAt(it).lo % 4)
           k == it.submessage_index + SubmessagesPassed(it)
<1>11. advance_iterator(it)
         = [it EXCEPT !.index = i, !.field_info_index = j, !.submessage_index = k]
  BY <1>10 DEF advance_iterator
<1>12. i = (n + 1) - 1 /\ j = Start(fields, n + 1) /\ k = Passed(fields, n + 1)
  <2>1. i = (n + 1) - 1
    BY <1>9
  <2>2. j = s + Width(f)
    BY <1>2, <1>6, <1>9, Zenon
  <2>3. k = p + more
    BY <1>7, <1>9, Zenon
  <2> QED BY <1>8, <2>1, <2>2, <2>3, Zenon
<1> HIDE DEF i, j, k, s, p, more
<1>13. PICK l : l = [it EXCEPT !.index = i, !.field_info_index = j, !.submessage_index = k]
  OBVIOUS
<1>14. l = [descriptor |-> desc, message |-> message, index |-> i,
            field_info_index |-> j, submessage_index |-> k,
            tag |-> it.tag, data_size |-> it.data_size, type |-> it.type,
            pData |-> it.pData, pSize |-> it.pSize, submsg_desc |-> it.submsg_desc]
  BY <1>9, <1>13 DEF IsIter
<1>15. IsIter(l)
  BY <1>14, IterRecord
<1>16. /\ l.descriptor = desc /\ l.message = message /\ l.index = i
       /\ l.field_info_index = j /\ l.submessage_index = k
  BY <1>14
<1>17. At(l, desc, message, n + 1)
  <2>1. l.index = (n + 1) - 1
    BY <1>12, <1>16, Zenon
  <2>2. /\ l.field_info_index = Start(FieldList[desc], n + 1)
        /\ l.submessage_index = Passed(FieldList[desc], n + 1)
    BY <1>1, <1>12, <1>16, Zenon
  <2> QED BY <1>15, <1>16, <2>1, <2>2, Zenon DEF At
<1> QED BY <1>11, <1>13, <1>17, Zenon

LEMMA AdvanceTrue ==
    ASSUME NEW desc \in Messages, NEW count \in 2..6, Len(FieldList[desc]) = count,
           NEW n \in 1..count, NEW message, NEW it, At(it, desc, message, n)
    PROVE  At(advance_iterator(it), desc, message, IF n = count THEN 1 ELSE n + 1)
<1>1. CASE n = count
  <2>1. /\ IsIter(it) /\ it.descriptor = desc /\ it.message = message
        /\ it.index \in Nat /\ it.index + 1 >= count
    BY <1>1 DEF At
  <2> QED BY <1>1, <2>1, WrapAt
<1>2. CASE n # count
  BY <1>2, StepAt
<1> QED BY <1>1, <1>2

\* pb_field_iter_begin is at the first field.
LEMMA BeginTrue ==
    ASSUME NEW desc \in Messages, NEW message \in Int
    PROVE  pb_field_iter_begin(desc, message) = IterAt(desc, message, 1)
<1>1. PICK it : it = [descriptor |-> desc, message |-> message,
                      index |-> 0, field_info_index |-> 0, submessage_index |-> 0,
                      tag |-> 0, data_size |-> 0, type |-> 0,
                      pData |-> 0, pSize |-> 0, submsg_desc |-> NULL]
  OBVIOUS
<1>2. IsIter(it)
  BY <1>1, IterRecord
<1>3. /\ it.descriptor = desc /\ it.message = message /\ it.index = 0
      /\ it.field_info_index = 0 /\ it.submessage_index = 0
  BY <1>1
<1>4. Passed(FieldList[desc], 1) = 0 /\ Start(FieldList[desc], 1) = 0 /\ 1 - 1 = 0
  BY PassedFirst DEF Start
<1>5. At(it, desc, message, 1)
  BY <1>2, <1>3, <1>4 DEF At
<1>6. 1 \in DOMAIN FieldList[desc]
  BY CountOf
<1>7. load_descriptor_values(it) = IterAt(desc, message, 1)
  BY <1>5, <1>6, LoadTrue
<1> QED BY <1>1, <1>7, Zenon DEF pb_field_iter_begin

\* pb_field_iter_next goes on to the next field.
LEMMA NextTrue ==
    ASSUME NEW desc \in Messages, NEW count \in 2..6, Len(FieldList[desc]) = count,
           NEW n \in 1..count, n # count, NEW message \in Int
    PROVE  pb_field_iter_next(IterAt(desc, message, n)) = IterAt(desc, message, n + 1)
<1>1. PICK it : it = IterAt(desc, message, n)
  OBVIOUS
<1>2. At(it, desc, message, n)
  BY <1>1, IterAtIsAt
<1>3. At(advance_iterator(it), desc, message, n + 1)
  BY <1>2, StepAt
<1>4. n + 1 \in DOMAIN FieldList[desc]
  BY CountOf
<1>5. load_descriptor_values(advance_iterator(it)) = IterAt(desc, message, n + 1)
  BY <1>3, <1>4, LoadTrue
<1> QED BY <1>1, <1>5, Zenon DEF pb_field_iter_next

\* A turn of the two searches, and of a walk.
FindTurn(start, tag, it) ==
    IF load_descriptor_values(it).tag = tag \/ it.index = start THEN it
    ELSE advance_iterator(it)

FindLoop(from, start, tag) ==
    AdvanceUntil(from, start, LAMBDA it : load_descriptor_values(it).tag = tag)

ExtensionLoop(from, start) ==
    AdvanceUntil(from, start,
        LAMBDA it : PB_LTYPE(FieldInfoAt(it).lo \div 256) = PB_LTYPE_EXTENSION)

ExtensionTurn(start, it) ==
    IF PB_LTYPE(FieldInfoAt(it).lo \div 256) = PB_LTYPE_EXTENSION \/ it.index = start THEN it
    ELSE advance_iterator(it)

\* What the recursions of the searches and of a walk make of count fields.
FindRun(turns, from, start, tag, count) ==
    /\ FindLoop(from, start, tag) = load_descriptor_values(turns[count])
    /\ turns[1] = advance_iterator(from)
    /\ \A k \in 2..count : turns[k] = FindTurn(start, tag, turns[k - 1])

ExtensionRun(turns, from, start, count) ==
    /\ ExtensionLoop(from, start) = load_descriptor_values(turns[count])
    /\ turns[1] = advance_iterator(from)
    /\ \A k \in 2..count : turns[k] = ExtensionTurn(start, turns[k - 1])

WalkRun(turns, desc, message, count) ==
    /\ Walk(desc, message) = turns
    /\ turns[1] = pb_field_iter_begin(desc, message)
    /\ \A k \in 2..count : turns[k] = pb_field_iter_next(turns[k - 1])

LEMMA FindRuns ==
    ASSUME NEW from, NEW start, NEW tag, NEW count \in 2..6,
           Descriptor[from.descriptor].field_count = count
    PROVE  \E turns : FindRun(turns, from, start, tag, count)
<1> DEFINE Turn(t) == FindTurn(start, tag, t)
           T(k, t) == IF k = 1 THEN advance_iterator(from) ELSE Turn(t)
           P(turns) == turns = [k \in 1..count |-> T(k, turns[k - 1])]
           h == CHOOSE turns : P(turns)
           g1 == advance_iterator(from)
           g2 == T(2, g1)
           g3 == T(3, g2)
           g4 == T(4, g3)
           g5 == T(5, g4)
           g6 == T(6, g5)
           g == [k \in 1..count |->
                   IF k = 1 THEN g1 ELSE IF k = 2 THEN g2 ELSE IF k = 3 THEN g3
                   ELSE IF k = 4 THEN g4 ELSE IF k = 5 THEN g5 ELSE g6]
<1>1. \A t : T(1, t) = g1
  OBVIOUS
<1>2. P(g)
  <2> HIDE DEF T, g1, g2, g3, g4, g5, g6
  <2>1. \A k \in 1..count :
          /\ k = 1 => g[k] = g1
          /\ k = 2 => g[k] = g2
          /\ k = 3 => g[k] = g3
          /\ k = 4 => g[k] = g4
          /\ k = 5 => g[k] = g5
          /\ k = 6 => g[k] = g6
    OBVIOUS
  <2>2. /\ g2 = T(2, g1) /\ g3 = T(3, g2) /\ g4 = T(4, g3) /\ g5 = T(5, g4) /\ g6 = T(6, g5)
    BY DEF g2, g3, g4, g5, g6
  <2>3. g = [k \in 1..count |-> g[k]]
    BY DEF g
  <2> HIDE DEF g
  <2>4. ASSUME NEW k \in 1..count PROVE g[k] = T(k, g[k - 1])
    <3>1. CASE k = 1
      BY <1>1, <2>1, <3>1
    <3>2. CASE k # 1
      <4>1. k - 1 \in 1..count
        BY <3>2
      <4>2. k = 2 \/ k = 3 \/ k = 4 \/ k = 5 \/ k = 6
        BY <3>2
      <4> QED BY <2>1, <2>2, <4>1, <4>2
    <3> QED BY <3>1, <3>2
  <2> QED BY <2>3, <2>4
<1>3. P(h)
  <2> HIDE DEF P, g
  <2> QED BY <1>2, Zenon
<1>4. FindLoop(from, start, tag) = load_descriptor_values(h[count])
  BY Zenon DEF AdvanceUntil, FindLoop, FindTurn
<1>5. \A k \in 1..count : h[k] = T(k, h[k - 1])
  <2> HIDE DEF h, T
  <2> QED BY <1>3 DEF P
<1>6. h[1] = g1
  <2> HIDE DEF h, T, g1
  <2>1. 1 \in 1..count
    OBVIOUS
  <2>2. h[1] = T(1, h[1 - 1])
    BY <1>5, <2>1
  <2> QED BY <1>1, <2>2
<1>7. \A k \in 2..count : h[k] = Turn(h[k - 1])
  <2> HIDE DEF h
  <2>1. \A k \in 2..count : k \in 1..count /\ k # 1
    OBVIOUS
  <2> QED BY <1>5, <2>1
<1> HIDE DEF h
<1>8. FindRun(h, from, start, tag, count)
  BY <1>4, <1>6, <1>7 DEF FindRun
<1> QED BY <1>8, Zenon

LEMMA ExtensionRuns ==
    ASSUME NEW from, NEW start, NEW count \in 2..6,
           Descriptor[from.descriptor].field_count = count
    PROVE  \E turns : ExtensionRun(turns, from, start, count)
<1> DEFINE Turn(t) == ExtensionTurn(start, t)
           T(k, t) == IF k = 1 THEN advance_iterator(from) ELSE Turn(t)
           P(turns) == turns = [k \in 1..count |-> T(k, turns[k - 1])]
           h == CHOOSE turns : P(turns)
           g1 == advance_iterator(from)
           g2 == T(2, g1)
           g3 == T(3, g2)
           g4 == T(4, g3)
           g5 == T(5, g4)
           g6 == T(6, g5)
           g == [k \in 1..count |->
                   IF k = 1 THEN g1 ELSE IF k = 2 THEN g2 ELSE IF k = 3 THEN g3
                   ELSE IF k = 4 THEN g4 ELSE IF k = 5 THEN g5 ELSE g6]
<1>1. \A t : T(1, t) = g1
  OBVIOUS
<1>2. P(g)
  <2> HIDE DEF T, g1, g2, g3, g4, g5, g6
  <2>1. \A k \in 1..count :
          /\ k = 1 => g[k] = g1
          /\ k = 2 => g[k] = g2
          /\ k = 3 => g[k] = g3
          /\ k = 4 => g[k] = g4
          /\ k = 5 => g[k] = g5
          /\ k = 6 => g[k] = g6
    OBVIOUS
  <2>2. /\ g2 = T(2, g1) /\ g3 = T(3, g2) /\ g4 = T(4, g3) /\ g5 = T(5, g4) /\ g6 = T(6, g5)
    BY DEF g2, g3, g4, g5, g6
  <2>3. g = [k \in 1..count |-> g[k]]
    BY DEF g
  <2> HIDE DEF g
  <2>4. ASSUME NEW k \in 1..count PROVE g[k] = T(k, g[k - 1])
    <3>1. CASE k = 1
      BY <1>1, <2>1, <3>1
    <3>2. CASE k # 1
      <4>1. k - 1 \in 1..count
        BY <3>2
      <4>2. k = 2 \/ k = 3 \/ k = 4 \/ k = 5 \/ k = 6
        BY <3>2
      <4> QED BY <2>1, <2>2, <4>1, <4>2
    <3> QED BY <3>1, <3>2
  <2> QED BY <2>3, <2>4
<1>3. P(h)
  <2> HIDE DEF P, g
  <2> QED BY <1>2, Zenon
<1>4. ExtensionLoop(from, start) = load_descriptor_values(h[count])
  BY Zenon DEF AdvanceUntil, ExtensionLoop, ExtensionTurn
<1>5. \A k \in 1..count : h[k] = T(k, h[k - 1])
  <2> HIDE DEF h, T
  <2> QED BY <1>3 DEF P
<1>6. h[1] = g1
  <2> HIDE DEF h, T, g1
  <2>1. 1 \in 1..count
    OBVIOUS
  <2>2. h[1] = T(1, h[1 - 1])
    BY <1>5, <2>1
  <2> QED BY <1>1, <2>2
<1>7. \A k \in 2..count : h[k] = Turn(h[k - 1])
  <2> HIDE DEF h
  <2>1. \A k \in 2..count : k \in 1..count /\ k # 1
    OBVIOUS
  <2> QED BY <1>5, <2>1
<1> HIDE DEF h
<1>8. ExtensionRun(h, from, start, count)
  BY <1>4, <1>6, <1>7 DEF ExtensionRun
<1> QED BY <1>8, Zenon

LEMMA WalkRuns ==
    ASSUME NEW desc, NEW message, NEW count \in 2..6,
           Descriptor[desc].field_count = count
    PROVE  \E turns : WalkRun(turns, desc, message, count)
<1> DEFINE T(k, t) == IF k = 1 THEN pb_field_iter_begin(desc, message) ELSE pb_field_iter_next(t)
           P(turns) == turns = [k \in 1..count |-> T(k, turns[k - 1])]
           h == CHOOSE turns : P(turns)
           g1 == pb_field_iter_begin(desc, message)
           g2 == T(2, g1)
           g3 == T(3, g2)
           g4 == T(4, g3)
           g5 == T(5, g4)
           g6 == T(6, g5)
           g == [k \in 1..count |->
                   IF k = 1 THEN g1 ELSE IF k = 2 THEN g2 ELSE IF k = 3 THEN g3
                   ELSE IF k = 4 THEN g4 ELSE IF k = 5 THEN g5 ELSE g6]
<1>1. \A t : T(1, t) = g1
  OBVIOUS
<1>2. P(g)
  <2> HIDE DEF T, g1, g2, g3, g4, g5, g6
  <2>1. \A k \in 1..count :
          /\ k = 1 => g[k] = g1
          /\ k = 2 => g[k] = g2
          /\ k = 3 => g[k] = g3
          /\ k = 4 => g[k] = g4
          /\ k = 5 => g[k] = g5
          /\ k = 6 => g[k] = g6
    OBVIOUS
  <2>2. /\ g2 = T(2, g1) /\ g3 = T(3, g2) /\ g4 = T(4, g3) /\ g5 = T(5, g4) /\ g6 = T(6, g5)
    BY DEF g2, g3, g4, g5, g6
  <2>3. g = [k \in 1..count |-> g[k]]
    BY DEF g
  <2> HIDE DEF g
  <2>4. ASSUME NEW k \in 1..count PROVE g[k] = T(k, g[k - 1])
    <3>1. CASE k = 1
      BY <1>1, <2>1, <3>1
    <3>2. CASE k # 1
      <4>1. k - 1 \in 1..count
        BY <3>2
      <4>2. k = 2 \/ k = 3 \/ k = 4 \/ k = 5 \/ k = 6
        BY <3>2
      <4> QED BY <2>1, <2>2, <4>1, <4>2
    <3> QED BY <3>1, <3>2
  <2> QED BY <2>3, <2>4
<1>3. P(h)
  <2> HIDE DEF P, g
  <2> QED BY <1>2, Zenon
<1>4. Walk(desc, message) = h
  BY Zenon DEF Walk
<1>5. \A k \in 1..count : h[k] = T(k, h[k - 1])
  <2> HIDE DEF h, T
  <2> QED BY <1>3 DEF P
<1>6. h[1] = g1
  <2> HIDE DEF h, T, g1
  <2>1. 1 \in 1..count
    OBVIOUS
  <2>2. h[1] = T(1, h[1 - 1])
    BY <1>5, <2>1
  <2> QED BY <1>1, <2>2
<1>7. \A k \in 2..count : h[k] = pb_field_iter_next(h[k - 1])
  <2> HIDE DEF h
  <2>1. \A k \in 2..count : k \in 1..count /\ k # 1
    OBVIOUS
  <2> QED BY <1>5, <2>1
<1> HIDE DEF h
<1>8. WalkRun(h, desc, message, count)
  BY <1>4, <1>6, <1>7 DEF WalkRun
<1> QED BY <1>8, Zenon

\* Loading at field m gives field m, whose tag is m.
LEMMA LoadedTag ==
    ASSUME NEW desc \in Messages, NEW count \in 2..6, Len(FieldList[desc]) = count,
           NEW m \in 1..count, NEW message \in Int, NEW t, At(t, desc, message, m)
    PROVE  /\ load_descriptor_values(t) = IterAt(desc, message, m)
           /\ load_descriptor_values(t).tag = m
<1>1. PICK k \in DOMAIN FieldList[desc] : k = m
  BY CountOf
<1>2. At(t, desc, message, k)
  BY <1>1, Zenon
<1>3. load_descriptor_values(t) = IterAt(desc, message, k)
  BY <1>2, LoadTrue
<1>4. load_descriptor_values(t) = IterAt(desc, message, m)
  BY <1>1, <1>3, Zenon
<1>5. FieldList[desc][m].tag = m
  BY AllListed DEF Listed
<1> QED BY <1>4, <1>5, IterAtIsAt

LEMMA FindTurnTrue ==
    ASSUME NEW desc \in Messages, NEW count \in 2..6, Len(FieldList[desc]) = count,
           NEW m \in 1..count, NEW message \in Int, NEW t, At(t, desc, message, m),
           NEW tag \in 1..count, NEW n \in 1..count
    PROVE  /\ m = tag => At(FindTurn(n - 1, tag, t), desc, message, tag)
           /\ m # tag /\ m # n =>
                At(FindTurn(n - 1, tag, t), desc, message, IF m = count THEN 1 ELSE m + 1)
<1>1. load_descriptor_values(t).tag = m
  BY LoadedTag
<1>2. t.index = m - 1
  BY DEF At
<1>3. CASE m = tag
  <2>1. FindTurn(n - 1, tag, t) = t
    BY <1>1, <1>3 DEF FindTurn
  <2> QED BY <1>3, <2>1
<1>4. CASE m # tag /\ m # n
  <2>1. t.index # n - 1
    BY <1>2, <1>4
  <2>2. FindTurn(n - 1, tag, t) = advance_iterator(t)
    BY <1>1, <1>4, <2>1 DEF FindTurn
  <2>3. At(advance_iterator(t), desc, message, IF m = count THEN 1 ELSE m + 1)
    BY AdvanceTrue
  <2> QED BY <1>4, <2>2, <2>3
<1> QED BY <1>3, <1>4

HasFields(desc, count) == Len(FieldList[desc]) = count

\* The search from field n for another field: it goes through the fields
\* from first on, and stays where it finds tag.
LEMMA SearchTrue ==
    ASSUME NEW desc \in Messages, NEW count \in 2..6, HasFields(desc, count),
           NEW n \in 1..count, NEW message \in Int, NEW tag \in 1..count, tag # n,
           NEW first \in 1..count, tag < n => first = 1, tag > n => first = n + 1,
           NEW from, from.descriptor = desc,
           At(advance_iterator(from), desc, message, first)
    PROVE  FindLoop(from, n - 1, tag)
             = IterAt(desc, message, tag)
<1>0. Len(FieldList[desc]) = count
  BY DEF HasFields
<1>1. Descriptor[from.descriptor].field_count = count
  BY <1>0, FieldCount
<1>2. PICK turns : FindRun(turns, from, n - 1, tag, count)
  <2> DEFINE start == n - 1
  <2> HIDE DEF start
  <2>1. \E turns : FindRun(turns, from, start, tag, count)
    BY <1>1, FindRuns
  <2> QED BY <2>1 DEF start
<1> DEFINE pos(k) == IF (first - 1) + k < tag THEN (first - 1) + k ELSE tag
           P(k) == At(turns[k], desc, message, pos(k))
<1>3. P(1)
  <2>1. pos(1) = first
    OBVIOUS
  <2> QED BY <1>2, <2>1 DEF FindRun
<1>4. ASSUME NEW k \in 1..5, k + 1 <= count, P(k) PROVE P(k + 1)
  <2>1. turns[k + 1] = FindTurn(n - 1, tag, turns[k])
    <3> DEFINE j == k + 1
    <3>1. j \in 2..count /\ j - 1 = k
      BY <1>4
    <3> HIDE DEF j
    <3>2. turns[j] = FindTurn(n - 1, tag, turns[j - 1])
      BY <1>2, <3>1 DEF FindRun
    <3> QED BY <3>1, <3>2 DEF j
  <2>2. PICK m \in 1..count : m = pos(k)
    OBVIOUS
  <2>3. At(turns[k], desc, message, m)
    BY <1>4, <2>2
  <2>4. CASE m = tag
    <3>1. pos(k + 1) = tag
      BY <2>2, <2>4
    <3>2. At(FindTurn(n - 1, tag, turns[k]), desc, message, tag)
      BY <2>3, <2>4, <1>0, FindTurnTrue
    <3> QED BY <2>1, <3>1, <3>2
  <2>5. CASE m # tag
    <3>1. m # n /\ m # count /\ pos(k + 1) = m + 1
      BY <2>2, <2>5
    <3>2. At(FindTurn(n - 1, tag, turns[k]), desc, message, IF m = count THEN 1 ELSE m + 1)
      BY <2>3, <2>5, <3>1, <1>0, FindTurnTrue
    <3> QED BY <2>1, <3>1, <3>2
  <2> QED BY <2>4, <2>5
<1> HIDE DEF P
<1>5. P(2)
  BY <1>3, <1>4
<1>6. 3 <= count => P(3)
  BY <1>4, <1>5
<1>7. 4 <= count => P(4)
  BY <1>4, <1>6
<1>8. 5 <= count => P(5)
  BY <1>4, <1>7
<1>9. 6 <= count => P(6)
  BY <1>4, <1>8
<1>10. P(count)
  <2>1. count = 2 \/ count = 3 \/ count = 4 \/ count = 5 \/ count = 6
    OBVIOUS
  <2> QED BY <2>1, <1>5, <1>6, <1>7, <1>8, <1>9
<1>11. pos(count) = tag
  OBVIOUS
<1>12. At(turns[count], desc, message, tag)
  BY <1>10, <1>11 DEF P
<1>13. load_descriptor_values(turns[count]) = IterAt(desc, message, tag)
  <2>1. PICK last : last = turns[count]
    OBVIOUS
  <2>2. At(last, desc, message, tag)
    BY <1>12, <2>1, Zenon
  <2>3. load_descriptor_values(last) = IterAt(desc, message, tag)
    BY ONLY <1>0, <2>2, desc \in Messages, count \in 2..6, tag \in 1..count,
            message \in Int, LoadedTag
  <2> QED BY <2>1, <2>3, Zenon
<1> QED BY <1>2, <1>13 DEF FindRun

\* pb_field_iter_find finds every field the message has, from wherever it is,
\* and leaves the iterator where it is if the tag is too large (pb_common.c:195-244).
THEOREM EachFieldIsFound ==
    ASSUME NEW desc \in Messages, NEW count \in 2..6, Len(FieldList[desc]) = count,
           NEW n \in 1..count, NEW message \in Int, NEW tag \in Nat \ {0}
    PROVE  pb_field_iter_find(IterAt(desc, message, n), tag)
             = [iter |-> IF tag <= count THEN IterAt(desc, message, tag)
                         ELSE IterAt(desc, message, n),
                found |-> tag <= count]
<1>1. PICK it : it = IterAt(desc, message, n)
  OBVIOUS
<1>2. At(it, desc, message, n) /\ it.tag = n
  <2>1. FieldList[desc][n].tag = n
    BY AllListed DEF Listed
  <2> QED BY <1>1, <2>1, IterAtIsAt
<1>3. /\ IsIter(it) /\ it.descriptor = desc /\ it.message = message /\ it.index = n - 1
  BY <1>2 DEF At
<1>4. Descriptor[it.descriptor].largest_tag = count
      /\ Descriptor[it.descriptor].field_count = count
  BY <1>3, FieldCount
<1> DEFINE from == IF tag < it.tag
                   THEN [it EXCEPT !.index = Descriptor[it.descriptor].field_count]
                   ELSE it
           Result(i) == [iter |-> i, found |-> i.tag = tag]
<1>5. pb_field_iter_find(it, tag) =
        IF it.tag = tag \/ tag > Descriptor[it.descriptor].largest_tag THEN Result(it)
        ELSE Result(FindLoop(from, it.index, tag))
  BY DEF pb_field_iter_find, FindLoop
<1>6. CASE tag = n
  <2>1. Result(it) = [iter |-> it, found |-> TRUE]
    BY <1>2, <1>6
  <2>2. pb_field_iter_find(it, tag) = Result(it)
    BY <1>2, <1>5, <1>6
  <2>3. tag <= count
    BY <1>6
  <2> QED BY <1>1, <1>6, <2>1, <2>2, <2>3, Zenon
<1>7. CASE tag > count
  <2>1. it.tag # tag /\ ~(tag <= count)
    BY <1>2, <1>7
  <2>2. pb_field_iter_find(it, tag) = Result(it)
    BY <1>4, <1>5, <1>7
  <2>3. Result(it) = [iter |-> it, found |-> FALSE]
    BY <2>1
  <2>4. pb_field_iter_find(it, tag)
          = [iter |-> IF tag <= count THEN IterAt(desc, message, tag)
                      ELSE IterAt(desc, message, n),
             found |-> FALSE]
    BY <1>1, <2>1, <2>2, <2>3, Zenon
  <2>5. (tag <= count) = FALSE
    BY <2>1
  <2> QED BY <1>1, <2>4, <2>5, Zenon
<1>8. CASE tag # n /\ ~(tag > count)
  <2>1. PICK k \in 1..count : k = tag
    BY <1>8
  <2>2. PICK first \in 1..count : first = IF k < n THEN 1 ELSE n + 1
    BY <1>8, <2>1
  <2>3. from.descriptor = desc
    BY <1>3 DEF IsIter
  <2>4. At(advance_iterator(from), desc, message, first)
    <3>1. CASE k < n
      <4>1. PICK f : f = [it EXCEPT !.index = count]
        OBVIOUS
      <4>2. from = f
        BY <1>2, <1>4, <2>1, <3>1, <4>1
      <4>3. f = [descriptor |-> it.descriptor, message |-> it.message, index |-> count,
                 field_info_index |-> it.field_info_index,
                 submessage_index |-> it.submessage_index,
                 tag |-> it.tag, data_size |-> it.data_size, type |-> it.type,
                 pData |-> it.pData, pSize |-> it.pSize, submsg_desc |-> it.submsg_desc]
        BY <1>3, <4>1 DEF IsIter
      <4>4. IsIter(f)
        BY <4>3, IterRecord
      <4>5. /\ f.descriptor = desc /\ f.message = message
            /\ f.index \in Nat /\ f.index + 1 >= count
        BY <1>3, <4>3
      <4>6. At(advance_iterator(f), desc, message, 1)
        BY <4>4, <4>5, WrapAt
      <4> QED BY <2>2, <3>1, <4>2, <4>6
    <3>2. CASE ~(k < n)
      <4>1. from = it /\ n # count /\ first = n + 1
        BY <1>2, <1>8, <2>1, <2>2, <3>2
      <4>2. At(advance_iterator(it), desc, message, n + 1)
        BY <1>2, <4>1, StepAt
      <4> QED BY <4>1, <4>2
    <3> QED BY <3>1, <3>2
  <2> HIDE DEF from
  <2>5. FindLoop(from, n - 1, k) = IterAt(desc, message, k)
    <3>1. k # n
      BY <1>8, <2>1
    <3>2. (k < n => first = 1) /\ (k > n => first = n + 1)
      BY <2>2, <3>1
    <3>3. HasFields(desc, count)
      BY DEF HasFields
    <3> QED BY <2>3, <2>4, <3>1, <3>2, <3>3, SearchTrue
  <2>6. IterAt(desc, message, k).tag = k
    <3>1. FieldList[desc][k].tag = k
      BY AllListed DEF Listed
    <3> QED BY <3>1, IterAtIsAt
  <2>7. pb_field_iter_find(it, tag) = Result(FindLoop(from, it.index, tag))
    <3>1. ~(it.tag = tag \/ tag > Descriptor[it.descriptor].largest_tag)
      BY <1>2, <1>4, <1>8
    <3> QED BY <1>5, <3>1, Zenon
  <2>8. FindLoop(from, it.index, tag) = IterAt(desc, message, tag)
    BY <1>3, <2>1, <2>5, Zenon
  <2>9. Result(IterAt(desc, message, tag))
          = [iter |-> IterAt(desc, message, tag), found |-> TRUE]
    BY <2>1, <2>6
  <2>10. tag <= count
    BY <2>1
  <2> QED BY <1>1, <2>7, <2>8, <2>9, <2>10, Zenon
<1> QED BY <1>6, <1>7, <1>8

\* Where the search for an extension is after k turns.
Round(n, k, count) == IF n + k <= count THEN n + k ELSE n + k - count

\* No field is an extension: the search for one goes once around and comes back to
\* the field it began at (pb_common.c:246-275).
THEOREM ExtensionSearchComesBack ==
    ASSUME NEW desc \in Messages, NEW count \in 2..6, Len(FieldList[desc]) = count,
           NEW n \in 1..count, NEW message \in Int
    PROVE  pb_field_iter_find_extension(IterAt(desc, message, n)) = IterAt(desc, message, n)
<1>1. PICK it : it = IterAt(desc, message, n)
  OBVIOUS
<1>2. At(it, desc, message, n)
  BY <1>1, IterAtIsAt
<1>3. it.descriptor = desc /\ it.index = n - 1
  BY <1>2 DEF At
<1>4. Descriptor[it.descriptor].field_count = count
  BY <1>3, FieldCount
<1>5. PICK turns : ExtensionRun(turns, it, it.index, count)
  BY <1>4, ExtensionRuns
<1> DEFINE P(k) == At(turns[k], desc, message, Round(n, k, count))
<1>6. P(1)
  <2>1. At(advance_iterator(it), desc, message, IF n = count THEN 1 ELSE n + 1)
    BY <1>2, AdvanceTrue
  <2>2. Round(n, 1, count) = IF n = count THEN 1 ELSE n + 1
    BY DEF Round
  <2> QED BY <1>5, <2>1, <2>2 DEF ExtensionRun
<1>7. ASSUME NEW k \in 1..5, k + 1 <= count, P(k) PROVE P(k + 1)
  <2>1. turns[k + 1] = ExtensionTurn(it.index, turns[k])
    <3> DEFINE j == k + 1
    <3>1. j \in 2..count /\ j - 1 = k
      BY <1>7
    <3> HIDE DEF j
    <3>2. turns[j] = ExtensionTurn(it.index, turns[j - 1])
      BY <1>5, <3>1 DEF ExtensionRun
    <3> QED BY <3>1, <3>2 DEF j
  <2>2. PICK m \in 1..count : m = Round(n, k, count)
    <3>1. Round(n, k, count) \in 1..count
      BY <1>7 DEF Round
    <3> QED BY <3>1
  <2>3. m # n /\ Round(n, k + 1, count) = IF m = count THEN 1 ELSE m + 1
    BY <1>7, <2>2 DEF Round
  <2>4. At(turns[k], desc, message, m)
    BY <1>7, <2>2
  <2>5. turns[k].index # it.index
    <3>1. turns[k].index = m - 1
      BY <2>4 DEF At
    <3> QED BY <1>3, <2>3, <3>1
  <2>6. PB_LTYPE(FieldInfoAt(turns[k]).lo \div 256) # PB_LTYPE_EXTENSION
    <3>1. PICK d \in DOMAIN FieldList[desc] : d = m
      BY CountOf
    <3>2. PICK f : f = FieldList[desc][d]
      OBVIOUS
    <3>3. IsField(f)
      BY <3>1, <3>2, AllListed DEF Listed
    <3>4. FieldInfoAt(turns[k]) = FieldInfo(f)[1]
      <4>1. At(turns[k], desc, message, d)
        BY <2>4, <3>1, Zenon
      <4> QED BY <3>2, <4>1, FirstWordAt
    <3>5. PICK w, v : w = FieldInfoAt(turns[k]) /\ v = FieldInfo(f)[2]
      OBVIOUS
    <3>6. w.lo \div 256 = Type(f)
      BY ONLY <3>3, <3>4, <3>5, Unpacked
    <3>7. PB_LTYPE(Type(f)) = PB_LTYPE_MAP[f.ltype]
      BY <3>3, TypeParts
    <3>8. PB_LTYPE_MAP[f.ltype] # PB_LTYPE_EXTENSION
      BY <3>3 DEF IsField, PB_LTYPE_MAP, PB_LTYPE_EXTENSION, PB_LTYPE_BOOL, PB_LTYPE_VARINT,
                  PB_LTYPE_UVARINT, PB_LTYPE_FIXED32, PB_LTYPE_FIXED64, PB_LTYPE_SUBMESSAGE
    <3> QED BY <3>5, <3>6, <3>7, <3>8, Zenon
  <2>7. turns[k + 1] = advance_iterator(turns[k])
    BY <2>1, <2>5, <2>6 DEF ExtensionTurn
  <2>8. At(advance_iterator(turns[k]), desc, message, IF m = count THEN 1 ELSE m + 1)
    BY <2>4, AdvanceTrue
  <2> QED BY <2>3, <2>7, <2>8
<1> HIDE DEF P
<1>8. P(2)
  BY <1>6, <1>7
<1>9. 3 <= count => P(3)
  BY <1>7, <1>8
<1>10. 4 <= count => P(4)
  BY <1>7, <1>9
<1>11. 5 <= count => P(5)
  BY <1>7, <1>10
<1>12. 6 <= count => P(6)
  BY <1>7, <1>11
<1>13. P(count)
  <2>1. count = 2 \/ count = 3 \/ count = 4 \/ count = 5 \/ count = 6
    OBVIOUS
  <2> QED BY <2>1, <1>8, <1>9, <1>10, <1>11, <1>12
<1>14. Round(n, count, count) = n
  BY DEF Round
<1>15. At(turns[count], desc, message, n)
  BY <1>13, <1>14 DEF P
<1>16. load_descriptor_values(turns[count]) = IterAt(desc, message, n)
  BY <1>15, LoadedTag
<1>17. pb_field_iter_find_extension(it) = ExtensionLoop(it, it.index)
  BY DEF pb_field_iter_find_extension, ExtensionLoop
<1> QED BY <1>1, <1>5, <1>16, <1>17 DEF ExtensionRun

\* A do ... while (pb_field_iter_next(&iter)) loop visits every field of its
\* message once, in order (pb_common.c:122-193).
THEOREM WalkVisitsEachField ==
    ASSUME NEW desc \in Messages, NEW count \in 2..6, Len(FieldList[desc]) = count,
           NEW message \in Int, NEW n \in 1..count
    PROVE  Walk(desc, message)[n] = IterAt(desc, message, n)
<1>1. PICK turns : WalkRun(turns, desc, message, count)
  BY FieldCount, WalkRuns
<1> DEFINE P(k) == turns[k] = IterAt(desc, message, k)
<1>2. P(1)
  BY <1>1, BeginTrue DEF WalkRun
<1>3. ASSUME NEW k \in 1..5, k + 1 <= count, P(k) PROVE P(k + 1)
  <2>1. turns[k + 1] = pb_field_iter_next(turns[k])
    <3> DEFINE j == k + 1
    <3>1. j \in 2..count /\ j - 1 = k
      BY <1>3
    <3> HIDE DEF j
    <3>2. turns[j] = pb_field_iter_next(turns[j - 1])
      BY <1>1, <3>1 DEF WalkRun
    <3> QED BY <3>1, <3>2 DEF j
  <2>2. k \in 1..count /\ k # count
    BY <1>3
  <2>3. pb_field_iter_next(IterAt(desc, message, k)) = IterAt(desc, message, k + 1)
    BY <2>2, NextTrue
  <2> QED BY <1>3, <2>1, <2>3, Zenon
<1> HIDE DEF P
<1>4. P(2)
  BY <1>2, <1>3
<1>5. 3 <= count => P(3)
  BY <1>3, <1>4
<1>6. 4 <= count => P(4)
  BY <1>3, <1>5
<1>7. 5 <= count => P(5)
  BY <1>3, <1>6
<1>8. 6 <= count => P(6)
  BY <1>3, <1>7
<1>9. P(n)
  <2>1. n = 1 \/ n = 2 \/ n = 3 \/ n = 4 \/ n = 5 \/ n = 6
    OBVIOUS
  <2> QED BY <2>1, <1>2, <1>4, <1>5, <1>6, <1>7, <1>8
<1> QED BY <1>1, <1>9, Zenon DEF P, WalkRun

\* The test for submessages: a message of plain values has none
\* (pb_decode.c:558-560, 947-949).
LEMMA PlainMessages ==
    ASSUME NEW desc \in {"Timestamp", "LatLng", "Track"}
    PROVE  ~HasSubmessages(desc)
<1>1. desc \in Messages
  BY MessageNames
<1>2. PICK fields : fields = FieldList[desc]
  OBVIOUS
<1>3. PICK count \in 2..6 : Len(fields) = count
  BY <1>1, <1>2, CountOf
<1>4. Listed(fields)
  BY <1>1, <1>2, AllListed
<1>5. \A n \in 1..count : fields[n].ltype # "MESSAGE"
  BY <1>2, <1>3, TimestampLines, LatLngLines, TrackLines DEF Line
<1>6. SubmessagesBefore(fields, count + 1) = {}
  <2>1. \A n \in 1..count : PB_FI_WIDTH(fields[n].ltype) = 1
    BY <1>5 DEF PB_FI_WIDTH
  <2>2. count + 1 - 1 = count
    OBVIOUS
  <2> QED BY <2>1, <2>2 DEF SubmessagesBefore
<1>7. Passed(fields, count + 1) = 0
  BY <1>6, FS_EmptySet DEF Passed
<1>8. PICK subs : subs = Concat(fields, SubmsgInfo)
  OBVIOUS
<1>9. subs \in Seq(SubmessageNames) /\ Len(subs) = 0
  BY <1>3, <1>4, <1>7, <1>8, AllSubmessages DEF LaysSubmessages
<1>10. Append(subs, NULL)[1] = NULL
  <2>1. subs \in Seq(SubmessageNames \cup {NULL}) /\ NULL \in SubmessageNames \cup {NULL}
    BY <1>9, SeqMonotonic
  <2> QED BY <1>9, <2>1, AppendProperties
<1>11. Descriptor[desc].submsg_info = Append(subs, NULL)
  <2>1. Descriptor[desc] = PB_BIND(fields)
    BY <1>1, <1>2 DEF Descriptor
  <2> QED BY <1>8, <2>1 DEF PB_BIND
<1> QED BY <1>10, <1>11 DEF HasSubmessages

(***************************************************************************)
(* Where the messages are: the frame of a decoder or an encoder that is in *)
(* a message has its iterator at a field of it, at the one place of the    *)
(* struct where that message is.                                           *)
(***************************************************************************)

\* How deep a message is nested.
Depth == [MQTTMessage |-> 1, Timestamp |-> 2, Kart |-> 2, Track |-> 2, LatLng |-> 3]

FrameAt(f, i) ==
    \E desc \in Messages : \E n \in DOMAIN FieldList[desc] :
        f.iter = IterAt(desc, Place[desc], n) /\ Depth[desc] = i

AtFields(s) == \A i \in 1..Len(s) : FrameAt(s[i], i)

\* A submessage is where its field is, and one deeper than the message of the field.
LEMMA PlaceOfSubmessage ==
    ASSUME NEW desc \in Messages, NEW n \in DOMAIN FieldList[desc],
           NEW sub, sub = FieldList[desc][n].sub, sub # NULL
    PROVE  /\ sub \in Messages
           /\ Place[sub] = Place[desc] + FieldList[desc][n].offset
           /\ Depth[sub] = Depth[desc] + 1
<1>1. CASE desc = "MQTTMessage"
  BY <1>1, MQTTMessageLines, MessageNames DEF Line, Place, Depth, NULL
<1>2. CASE desc = "Timestamp"
  BY <1>2, TimestampLines, MessageNames DEF Line, Place, Depth, NULL
<1>3. CASE desc = "Kart"
  BY <1>3, KartLines, MessageNames DEF Line, Place, Depth, NULL
<1>4. CASE desc = "LatLng"
  BY <1>4, LatLngLines, MessageNames DEF Line, Place, Depth, NULL
<1>5. CASE desc = "Track"
  BY <1>5, TrackLines, MessageNames DEF Line, Place, Depth, NULL
<1> QED BY <1>1, <1>2, <1>3, <1>4, <1>5, MessageNames

LEMMA PlaceInStruct == \A m \in Messages : Place[m] \in Nat /\ Depth[m] \in 1..3
BY MessageNames DEF Place, Depth

\* The members of an iterator at a field.
LEMMA IterMembers ==
    ASSUME NEW desc \in Messages, NEW n \in DOMAIN FieldList[desc], NEW message \in Int,
           NEW it, it = IterAt(desc, message, n)
    PROVE  /\ it.descriptor = desc /\ it.message = message
           /\ it.tag = n /\ it.type = Type(FieldList[desc][n])
           /\ it.pData = message + FieldList[desc][n].offset
           /\ it.data_size = FieldList[desc][n].size
           /\ it.pSize = IF FieldList[desc][n].delta = 0 THEN NoAddress
                         ELSE message + FieldList[desc][n].offset - FieldList[desc][n].delta
           /\ it.submsg_desc = FieldList[desc][n].sub
           /\ IsField(FieldList[desc][n])
<1> DEFINE s == Start(FieldList[desc], n)
           p == Passed(FieldList[desc], n)
           f == FieldList[desc][n]
           i == n - 1
           pData == message + f.offset
           pSize == IF f.delta = 0 THEN NoAddress ELSE message + f.offset - f.delta
           type == Type(f)
<1>1. it =
        [descriptor |-> desc, message |-> message, index |-> i,
         field_info_index |-> s, submessage_index |-> p,
         tag |-> f.tag, data_size |-> f.size, type |-> type,
         pData |-> pData, pSize |-> pSize, submsg_desc |-> f.sub]
  BY DEF IterAt, Start, Passed, SubmessagesBefore
<1>2. IsField(f) /\ f.tag = n
  <2>1. n \in 1..Len(FieldList[desc])
    BY CountOf
  <2> QED BY <2>1, AllListed DEF Listed
<1> HIDE DEF s, p, i, pData, pSize, type
<1>3. /\ it.descriptor = desc /\ it.message = message
      /\ it.tag = f.tag /\ it.type = type
      /\ it.pData = pData /\ it.data_size = f.size /\ it.pSize = pSize
      /\ it.submsg_desc = f.sub
  BY <1>1
<1> QED BY <1>2, <1>3 DEF pData, pSize, type

\* The fields: those that hold a value have neither has_ nor which_.
LEMMA FieldTable ==
    ASSUME NEW desc \in Messages, NEW n \in DOMAIN FieldList[desc],
           NEW f, f = FieldList[desc][n]
    PROVE  \/ f.ltype # "MESSAGE" /\ f.htype = "SINGULAR" /\ f.delta = 0
           \/ /\ desc = "MQTTMessage" /\ f.htype = "OPTIONAL" /\ f.sub = "Timestamp"
              /\ f.offset = 8 /\ f.size = 16 /\ f.delta = 4
           \/ /\ desc = "Kart" /\ f.htype = "OPTIONAL" /\ f.sub = "LatLng"
              /\ f.offset = 24 /\ f.size = 16 /\ f.delta = 4
           \/ /\ desc = "MQTTMessage" /\ f.htype = "ONEOF" /\ f.sub = "Kart"
              /\ f.offset = 32 /\ f.size = 40 /\ f.delta = 8 /\ n = 3
           \/ /\ desc = "MQTTMessage" /\ f.htype = "ONEOF" /\ f.sub = "Track"
              /\ f.offset = 32 /\ f.size = 8 /\ f.delta = 8 /\ n = 4
<1>1. CASE desc = "MQTTMessage"
  BY <1>1, MQTTMessageLines DEF Line
<1>2. CASE desc = "Timestamp"
  BY <1>2, TimestampLines DEF Line
<1>3. CASE desc = "Kart"
  BY <1>3, KartLines DEF Line
<1>4. CASE desc = "LatLng"
  BY <1>4, LatLngLines DEF Line
<1>5. CASE desc = "Track"
  BY <1>5, TrackLines DEF Line
<1> QED BY <1>1, <1>2, <1>3, <1>4, <1>5, MessageNames

LEMMA HTypeOf ==
    ASSUME NEW f, IsField(f)
    PROVE  PB_HTYPE(Type(f)) = PB_HTYPE_ONEOF <=> f.htype = "ONEOF"
<1>1. PB_HTYPE(Type(f)) = PB_HTYPE_MAP[f.htype]
  BY TypeParts
<1>2. PB_HTYPE_MAP[f.htype] = PB_HTYPE_ONEOF <=> f.htype = "ONEOF"
  BY DEF IsField, PB_HTYPE_MAP, PB_HTYPE_ONEOF, PB_HTYPE_OPTIONAL
<1> QED BY <1>1, <1>2

\* No message is nested deeper than three.
LEMMA DepthOfStack ==
    ASSUME NEW s, Len(s) \in Nat, Len(s) >= 1, AtFields(s)
    PROVE  Len(s) \in 1..3
<1>1. FrameAt(s[Len(s)], Len(s))
  BY DEF AtFields
<1>2. Len(s) \in 1..3
  BY <1>1, PlaceInStruct DEF FrameAt
<1> QED BY <1>2

\* What holds of a frame's iterator holds of any frame with that iterator.
LEMMA SameIterator ==
    ASSUME NEW f, NEW g, g.iter = f.iter, NEW i, FrameAt(f, i)
    PROVE  FrameAt(g, i)
BY DEF FrameAt
=============================================================================
