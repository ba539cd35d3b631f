------------------------------- MODULE PbVarint ------------------------------
(***************************************************************************)
(* The varints of nanopb.  Three readers walk through the same bytes: the  *)
(* 32-bit decoder of tags, lengths and booleans, the 64-bit decoder of     *)
(* integer fields, and the reader that skips an unknown field.  The bytes  *)
(* come from another node, or from the encoder of this one.                *)
(*                                                                         *)
(* A word is the set of the positions of its bits that are 1, so shifts    *)
(* and masks are exact at the real widths of 8, 32 and 64 bits.            *)
(***************************************************************************)
EXTENDS Naturals, Sequences

CONSTANTS
    BytesAt,   \* for each position, the bytes another node may send there
    Fields,    \* the integer fields that are encoded, with what they hold
    NoField    \* the bytes come from elsewhere

Byte == SUBSET (0..7)
Word == SUBSET (0..63)

\* An integer field of data_size 4 or 8, and the bits it holds.
Field ==
    [ltype : {"VARINT", "UVARINT"}, size : {4}, content : SUBSET (0..31)]
    \cup [ltype : {"VARINT", "UVARINT"}, size : {8}, content : Word]

ASSUME VarintAssumption ==
    /\ BytesAt \in Seq(SUBSET Byte)
    /\ Fields \subseteq Field
    /\ NoField \notin Fields

VARIABLES
    field,  \* the field the encoder wrote, or NoField
    left,   \* bytes_left of the stream
    used,   \* bytes read so far
    d32,    \* pb_decode_varint32: status, result, bytes it took
    d64,    \* pb_decode_varint
    skip    \* pb_skip_varint

vars == <<field, left, used, d32, d64, skip>>

Status == {"reading", "ok", "end-of-stream", "overflow"}
Reader == [st : Status, result : Word, n : Nat]

-----------------------------------------------------------------------------
(***************************************************************************)
(* The encoder.                                                            *)
(***************************************************************************)

Shr(x, k) == {b - k : b \in {c \in x : c >= k}}
Shl(x, k) == {b + k : b \in x}
Low7(x)   == x \cap 0..6

\* The second half of pb_encode_varint_32: byte, and what is left of the high
\* word, of which the j-th turn writes the bits before 7 * j.
EncodeHigh(byte, high) ==
    LET bytes[j \in 0..5] ==
            LET now == IF j = 0 THEN byte ELSE Low7(Shr(high, 7 * (j - 1)))
            IN  IF Shr(high, 7 * j) = {} THEN <<now>>
                ELSE <<now \cup {7}>> \o bytes[j + 1]
    IN  bytes[0]

\* Mutant: the byte both words share takes one bit too many of the high word.
JoinBits_four == 4

\* How many bits of the high word go into the fifth byte.
JoinBits == 3

\* Its first half: up to four bytes of the low word, then the byte both share.
EncodeLow(low, high) ==
    LET bytes[i \in 0..4] ==
            LET byte == Low7(Shr(low, 7 * i))
                more == Shr(low, 7 * (i + 1)) # {} \/ high # {}
            IN  IF i < 4 /\ more THEN <<byte \cup {7}>> \o bytes[i + 1]
                ELSE IF high = {} THEN <<byte>>
                ELSE EncodeHigh(byte \cup Shl(high \cap 0..(JoinBits - 1), 4),
                                Shr(high, JoinBits))
    IN  bytes[0]

pb_encode_varint(value) ==
    IF value \subseteq 0..6 THEN <<value>>
    ELSE EncodeLow(value \cap 0..31, Shr(value, 32))

\* (int64_t)(int32_t)x
SignExtend(x) == (x \cap 0..31) \cup (IF 31 \in x THEN 32..63 ELSE {})

\* What a word of data_size bytes keeps.
Cut(f, value) == IF f.size = 8 THEN value ELSE value \cap 0..31

\* pb_enc_varint: integers of 4 bytes are extended.
pb_enc_varint(f) ==
    pb_encode_varint(IF f.ltype = "VARINT" /\ f.size = 4
                     THEN SignExtend(f.content) ELSE f.content)

\* pb_dec_varint; an error is "integer too large".
pb_dec_varint(f, value) ==
    [ok |-> f.ltype = "VARINT" \/ Cut(f, value) = value, content |-> Cut(f, value)]

-----------------------------------------------------------------------------
(***************************************************************************)
(* The readers.  Each takes one byte b; bitpos is 7 times the number of    *)
(* bytes it took before.                                                   *)
(***************************************************************************)

Bitpos(r) == 7 * r.n

Ends(r, st) == [r EXCEPT !.st = st, !.n = @ + 1]

\* The loops go on while the byte's highest bit is set.
Takes(r, bits, b) ==
    [st |-> IF 7 \in b THEN "reading" ELSE "ok",
     result |-> r.result \cup bits,
     n |-> r.n + 1]

\* Mutant: the tenth byte of a negative number is not expected to differ.
SignExtension_always(bitpos) == 0..7

\* What the bytes past bit 31 of a negative number are.
SignExtension(bitpos) == IF bitpos < 63 THEN 0..7 ELSE {0}

\* A byte past bit 31 may only pad or repeat the sign.
ValidExtension(r, b) ==
    Low7(b) = {} \/ (31 \in r.result /\ b = SignExtension(Bitpos(r)))

\* Mutant: any number of padding bytes is read.
TooLong_never(r) == FALSE

\* bitpos >= 64
TooLong(r) == Bitpos(r) >= 64

\* Mutant: the fifth byte is not masked.
FifthBits_all(b) == Shl(Low7(b), 28)

\* The four bits of the fifth byte that a 32-bit result has room for.
FifthBits(b) == Shl(b \cap 0..3, 28)

\* pb_decode_varint32: one turn of its loop, or its quick case.
pb_decode_varint32(r, b) ==
    CASE Bitpos(r) >= 32 ->
            IF TooLong(r) \/ ~ValidExtension(r, b)
            THEN Ends(r, "overflow") ELSE Takes(r, {}, b)
      [] Bitpos(r) = 28 ->
            IF b \cap 4..6 # {} /\ ~(3..6 \subseteq b)
            THEN Ends(r, "overflow") ELSE Takes(r, FifthBits(b), b)
      [] OTHER -> Takes(r, Shl(Low7(b), Bitpos(r)), b)

\* Mutant: bits beyond the 64th are not refused.
pb_decode_varint_unchecked(r, b) == Takes(r, Shl(Low7(b), Bitpos(r)), b)

pb_decode_varint(r, b) ==
    IF Bitpos(r) >= 63 /\ b \cap 1..7 # {}
    THEN Ends(r, "overflow")
    ELSE Takes(r, Shl(Low7(b), Bitpos(r)), b)

\* Mutant: the field is taken to end at the first zero byte.
pb_skip_varint_zero(r, b) == Takes(r, {}, IF b = {} THEN b ELSE b \cup {7})

pb_skip_varint(r, b) == Takes(r, {}, b)

-----------------------------------------------------------------------------

Fresh == [st |-> "reading", result |-> {}, n |-> 0]

Init ==
    /\ \/ /\ field = NoField
          /\ left \in 0..Len(BytesAt)
       \/ /\ field \in Fields
          /\ left = Len(pb_enc_varint(field))
    /\ used = 0
    /\ d32 = Fresh /\ d64 = Fresh /\ skip = Fresh

Reading(r) == r.st = "reading"
AnyReads == Reading(d32) \/ Reading(d64) \/ Reading(skip)

\* pb_readbyte and pb_read, with a byte left in the stream.
ReadByte(b) ==
    /\ AnyReads /\ left > 0
    /\ left' = left - 1
    /\ used' = used + 1
    /\ d32' = IF Reading(d32) THEN pb_decode_varint32(d32, b) ELSE d32
    /\ d64' = IF Reading(d64) THEN pb_decode_varint(d64, b) ELSE d64
    /\ skip' = IF Reading(skip) THEN pb_skip_varint(skip, b) ELSE skip
    /\ UNCHANGED field

ReadForeign ==
    field = NoField /\ left > 0 /\ \E b \in BytesAt[used + 1] : ReadByte(b)

ReadOwn ==
    field # NoField /\ left > 0
    /\ ReadByte(pb_enc_varint(field)[used + 1])

\* pb_readbyte and pb_read at the end of the stream.
EndOfStream ==
    /\ AnyReads /\ left = 0
    /\ d32' = IF Reading(d32) THEN [d32 EXCEPT !.st = "end-of-stream"] ELSE d32
    /\ d64' = IF Reading(d64) THEN [d64 EXCEPT !.st = "end-of-stream"] ELSE d64
    /\ skip' = IF Reading(skip) THEN [skip EXCEPT !.st = "end-of-stream"] ELSE skip
    /\ UNCHANGED <<field, left, used>>

Next == ReadForeign \/ ReadOwn \/ EndOfStream

Spec == Init /\ [][Next]_vars

-----------------------------------------------------------------------------
(***************************************************************************)
(* Properties.                                                             *)
(***************************************************************************)

\* Types, and each reader that still reads has taken all bytes so far.
TypeOK ==
    /\ field \in Fields \cup {NoField}
    /\ left \in Nat /\ used \in Nat
    /\ d32 \in Reader /\ d64 \in Reader /\ skip \in Reader
    /\ \A r \in {d32, d64, skip} : r.n <= used /\ (Reading(r) => r.n = used)

\* Where both decoders accept, they take the same bytes and agree on the low
\* 32 bits: the size of a field does not depend on which of them reads it.
DecodersAgree ==
    d32.st = "ok" /\ d64.st = "ok"
    => d32.n = d64.n /\ d32.result = d64.result \cap 0..31

\* The 32-bit decoder accepts every encoding, padded or not, of a number that
\* fits 32 bits or is a sign extended 32-bit number.
AcceptsWhatFits ==
    /\ d64.st = "ok"
    /\ d64.result \subseteq 0..31 \/ d64.result = SignExtend(d64.result)
    => d32.st = "ok"

\* Skipping an unknown field takes the bytes decoding it would have taken:
\* the next tag is read at the right place by every version of the schema.
SkipsTheSame ==
    \A r \in {d32, d64} : r.st = "ok" => skip.st = "ok" /\ skip.n = r.n

\* An int32, int64 or enum field comes back as it was, whatever its sign, and the
\* decoder takes exactly the bytes the encoder wrote, ten at most.
FieldRoundTrip ==
    field # NoField /\ ~AnyReads
    => /\ d64.st = "ok" /\ left = 0 /\ d64.n = used /\ used <= 10
       /\ pb_dec_varint(field, d64.result)
            = [ok |-> TRUE, content |-> field.content]

\* No varint makes a decoder read more than eleven bytes, although the
\* reader that skips has no such bound.
BoundedReading == d32.n <= 11 /\ d64.n <= 10
=============================================================================
