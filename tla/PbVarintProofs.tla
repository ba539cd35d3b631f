--------------------------- MODULE PbVarintProofs ---------------------------
(***************************************************************************)
(* Proofs about PbVarint, for all bytes another node may send and for      *)
(* whatever the encoder wrote: the two decoders agree, the reader that     *)
(* skips takes what they take, all stop, the 32-bit decoder refuses no     *)
(* number that fits, and an integer field comes back as it was sent.       *)
(***************************************************************************)
EXTENDS PbVarint, SequenceTheorems, TLAPS

(***************************************************************************)
(* The inductive invariant: while two readers read they are at the same    *)
(* byte, and what the 32-bit decoder has is the low half of what the other *)
(* one has.                                                                *)
(***************************************************************************)

IsReader(r) ==
    /\ r = [st |-> r.st, result |-> r.result, n |-> r.n]
    /\ r.n \in Nat
    /\ r.st \in Status

\* The reader that skips is where r is, or ended where r did.
InStep(r, s) ==
    /\ Reading(r) => Reading(s) /\ s.n = r.n
    /\ r.st = "ok" => s.st = "ok" /\ s.n = r.n

VarInv ==
    /\ IsReader(d32) /\ IsReader(d64) /\ IsReader(skip)
    /\ d32.n <= 11 /\ (Reading(d32) => d32.n <= 10)
    /\ d64.n <= 10 /\ (Reading(d64) => d64.n <= 9)
    /\ InStep(d32, skip) /\ InStep(d64, skip)
    /\ d32.st \in {"reading", "ok"} /\ d64.st \in {"reading", "ok"}
       => d32.result = d64.result \cap 0..31

(***************************************************************************)
(* One byte.                                                               *)
(***************************************************************************)

LEMMA TakesReader ==
    ASSUME NEW r, IsReader(r), NEW bits, NEW b
    PROVE  /\ IsReader(Takes(r, bits, b))
           /\ Takes(r, bits, b).n = r.n + 1
           /\ Takes(r, bits, b).result = r.result \cup bits
           /\ 7 \in b => Takes(r, bits, b).st = "reading"
           /\ 7 \notin b => Takes(r, bits, b).st = "ok"
<1> DEFINE st == IF 7 \in b THEN "reading" ELSE "ok"
           result == r.result \cup bits
<1>1. Takes(r, bits, b) = [st |-> st, result |-> result, n |-> r.n + 1]
  BY DEF Takes
<1>2. st \in Status /\ (7 \in b => st = "reading") /\ (7 \notin b => st = "ok")
  BY DEF Status
<1>3. r.n + 1 \in Nat
  BY DEF IsReader
<1> HIDE DEF st, result
<1> QED BY <1>1, <1>2, <1>3 DEF IsReader, result

LEMMA EndsReader ==
    ASSUME NEW r, IsReader(r)
    PROVE  /\ IsReader(Ends(r, "overflow"))
           /\ Ends(r, "overflow").n = r.n + 1
           /\ Ends(r, "overflow").st = "overflow"
<1> DEFINE n == r.n + 1
<1>1. Ends(r, "overflow") = [r EXCEPT !.st = "overflow", !.n = n]
  BY DEF Ends
<1>2. n \in Nat
  BY DEF IsReader
<1> HIDE DEF n
<1>3. /\ IsReader(Ends(r, "overflow"))
      /\ Ends(r, "overflow").n = n
      /\ Ends(r, "overflow").st = "overflow"
  BY <1>1, <1>2 DEF IsReader, Status
<1> QED BY <1>3 DEF n

\* Where the seven bits of a byte go.
LEMMA ShiftedBits ==
    ASSUME NEW b, NEW k \in Nat, NEW x
    PROVE  x \in Shl(Low7(b), k) <=> \E c \in 0..6 : c \in b /\ x = c + k
BY DEF Shl, Low7

LEMMA Decode32 ==
    ASSUME NEW r, IsReader(r), r.n <= 10, NEW b
    PROVE  \/ pb_decode_varint32(r, b) = Ends(r, "overflow")
           \/ /\ pb_decode_varint32(r, b) = Takes(r, Shl(Low7(b), 7 * r.n) \cap 0..31, b)
              /\ r.n <= 9
<1> DEFINE n == r.n
           bits == Shl(Low7(b), 7 * n) \cap 0..31
<1>1. n \in Nat /\ n <= 10 /\ Bitpos(r) = 7 * n
  BY DEF IsReader, Bitpos
<1>2. CASE n < 4
  <2>1. pb_decode_varint32(r, b) = Takes(r, Shl(Low7(b), 7 * n), b)
    BY <1>1, <1>2 DEF pb_decode_varint32
  <2>2. ASSUME NEW x \in Shl(Low7(b), 7 * n) PROVE x \in 0..31
    BY <1>1, <1>2, ShiftedBits
  <2>3. Shl(Low7(b), 7 * n) = bits
    BY <2>2
  <2> QED BY <1>2, <1>1, <2>1, <2>3
<1>3. CASE n = 4
  <2>1. Bitpos(r) = 28
    BY <1>1, <1>3
  <2>2. FifthBits(b) = bits
    <3>1. ASSUME NEW x PROVE x \in FifthBits(b) <=> \E c \in 0..3 : c \in b /\ x = c + 28
      BY DEF FifthBits, Shl
    <3>2. ASSUME NEW x PROVE x \in bits <=> \E c \in 0..6 : c \in b /\ x = c + 28 /\ x \in 0..31
      BY <1>3, ShiftedBits
    <3> QED BY <3>1, <3>2
  <2>3. CASE b \cap 4..6 # {} /\ ~(3..6 \subseteq b)
    BY <1>3, <2>1, <2>3 DEF pb_decode_varint32
  <2>4. CASE ~(b \cap 4..6 # {} /\ ~(3..6 \subseteq b))
    BY <1>3, <2>1, <2>2, <2>4 DEF pb_decode_varint32
  <2> QED BY <2>3, <2>4
<1>4. CASE n > 4
  <2>1. Bitpos(r) >= 32 /\ (TooLong(r) <=> n = 10)
    BY <1>1, <1>4 DEF TooLong
  <2>2. bits = {}
    <3> SUFFICES ASSUME NEW x \in bits PROVE FALSE
      OBVIOUS
    <3>1. PICK c \in 0..6 : x = c + 7 * n
      BY <1>1, ShiftedBits
    <3> QED BY <1>1, <1>4, <3>1
  <2>3. CASE n = 10 \/ ~ValidExtension(r, b)
    BY <1>1, <1>4, <2>1, <2>3 DEF pb_decode_varint32
  <2>4. CASE n # 10 /\ ValidExtension(r, b)
    BY <1>1, <1>4, <2>1, <2>2, <2>4 DEF pb_decode_varint32
  <2> QED BY <2>3, <2>4
<1> QED BY <1>1, <1>2, <1>3, <1>4

LEMMA Decode64 ==
    ASSUME NEW r, IsReader(r), r.n <= 9, NEW b
    PROVE  \/ pb_decode_varint(r, b) = Ends(r, "overflow")
           \/ /\ pb_decode_varint(r, b) = Takes(r, Shl(Low7(b), 7 * r.n), b)
              /\ r.n = 9 => 7 \notin b
<1>1. Bitpos(r) = 7 * r.n /\ r.n \in Nat
  BY DEF Bitpos, IsReader
<1>2. CASE Bitpos(r) >= 63 /\ b \cap 1..7 # {}
  BY <1>2 DEF pb_decode_varint
<1>3. CASE ~(Bitpos(r) >= 63 /\ b \cap 1..7 # {})
  BY <1>1, <1>3 DEF pb_decode_varint
<1> QED BY <1>2, <1>3

(***************************************************************************)
(* Steps.                                                                  *)
(***************************************************************************)

\* Whatever a reader does with a byte, it has taken one more.
TookOne(r, q) == IsReader(q) /\ q.n = r.n + 1

LEMMA Step32 ==
    ASSUME NEW r, IsReader(r), r.n <= 10, NEW b
    PROVE  LET q == pb_decode_varint32(r, b)
           IN  /\ TookOne(r, q)
               /\ Reading(q) => 7 \in b /\ q.n <= 10
               /\ q.st = "ok" => 7 \notin b
               /\ q.st \in {"reading", "ok"}
                  => q.result = r.result \cup (Shl(Low7(b), 7 * r.n) \cap 0..31)
<1> DEFINE q == pb_decode_varint32(r, b)
           bits == Shl(Low7(b), 7 * r.n) \cap 0..31
<1>1. CASE q = Ends(r, "overflow")
  <2> HIDE DEF q
  <2> QED BY <1>1, EndsReader DEF TookOne, Reading, q
<1>2. CASE q = Takes(r, bits, b) /\ r.n <= 9
  <2>1. r.n + 1 <= 10
    BY <1>2 DEF IsReader
  <2> HIDE DEF q, bits
  <2>2. /\ TookOne(r, q)
        /\ Reading(q) => 7 \in b /\ q.n <= 10
        /\ q.st = "ok" => 7 \notin b
        /\ q.result = r.result \cup bits
    BY <1>2, <2>1, TakesReader DEF TookOne, Reading
  <2> QED BY <2>2 DEF q, bits
<1> QED BY <1>1, <1>2, Decode32

LEMMA Step64 ==
    ASSUME NEW r, IsReader(r), r.n <= 9, NEW b
    PROVE  LET q == pb_decode_varint(r, b)
           IN  /\ TookOne(r, q)
               /\ Reading(q) => 7 \in b /\ q.n <= 9
               /\ q.st = "ok" => 7 \notin b
               /\ q.st \in {"reading", "ok"}
                  => q.result = r.result \cup Shl(Low7(b), 7 * r.n)
<1> DEFINE q == pb_decode_varint(r, b)
           bits == Shl(Low7(b), 7 * r.n)
<1>1. CASE q = Ends(r, "overflow")
  <2> HIDE DEF q
  <2> QED BY <1>1, EndsReader DEF TookOne, Reading, q
<1>2. CASE q = Takes(r, bits, b) /\ (r.n = 9 => 7 \notin b)
  <2>1. r.n \in Nat /\ (7 \in b => r.n + 1 <= 9)
    BY <1>2 DEF IsReader
  <2> HIDE DEF q, bits
  <2>2. /\ TookOne(r, q)
        /\ Reading(q) => 7 \in b /\ q.n <= 9
        /\ q.st = "ok" => 7 \notin b
        /\ q.result = r.result \cup bits
    BY <1>2, <2>1, TakesReader DEF TookOne, Reading
  <2> QED BY <2>2 DEF q, bits
<1> QED BY <1>1, <1>2, Decode64

LEMMA StepSkip ==
    ASSUME NEW r, IsReader(r), NEW b
    PROVE  LET q == pb_skip_varint(r, b)
           IN  /\ TookOne(r, q)
               /\ 7 \in b => Reading(q)
               /\ 7 \notin b => q.st = "ok"
BY TakesReader DEF pb_skip_varint, TookOne, Reading

LEMMA EndOfReader ==
    ASSUME NEW r, IsReader(r)
    PROVE  LET q == [r EXCEPT !.st = "end-of-stream"]
           IN  IsReader(q) /\ q.st = "end-of-stream" /\ q.n = r.n
BY DEF IsReader, Status

LEMMA ReadByteKeeps ==
    ASSUME VarInv, NEW b, ReadByte(b)
    PROVE  VarInv'
<1>1. /\ IF Reading(d32) THEN d32' = pb_decode_varint32(d32, b) ELSE d32' = d32
      /\ IF Reading(d64) THEN d64' = pb_decode_varint(d64, b) ELSE d64' = d64
      /\ IF Reading(skip) THEN skip' = pb_skip_varint(skip, b) ELSE skip' = skip
  BY DEF ReadByte
<1>2. IsReader(d32) /\ IsReader(d64) /\ IsReader(skip)
  BY DEF VarInv
<1> DEFINE Next32 ==
             /\ TookOne(d32, d32')
             /\ Reading(d32') => 7 \in b /\ d32'.n <= 10
             /\ d32'.st = "ok" => 7 \notin b
             /\ d32'.st \in {"reading", "ok"}
                => d32'.result = d32.result \cup (Shl(Low7(b), 7 * d32.n) \cap 0..31)
           Next64 ==
             /\ TookOne(d64, d64')
             /\ Reading(d64') => 7 \in b /\ d64'.n <= 9
             /\ d64'.st = "ok" => 7 \notin b
             /\ d64'.st \in {"reading", "ok"}
                => d64'.result = d64.result \cup Shl(Low7(b), 7 * d64.n)
           NextSkip ==
             /\ TookOne(skip, skip')
             /\ 7 \in b => Reading(skip')
             /\ 7 \notin b => skip'.st = "ok"
<1>3. IF Reading(d32) THEN Next32 ELSE d32' = d32
  BY <1>1, <1>2, Step32 DEF VarInv
<1>4. IF Reading(d64) THEN Next64 ELSE d64' = d64
  BY <1>1, <1>2, Step64 DEF VarInv
<1>5. IF Reading(skip) THEN NextSkip ELSE skip' = skip
  BY <1>1, <1>2, StepSkip
<1>6. IsReader(d32') /\ IsReader(d64') /\ IsReader(skip')
  BY <1>2, <1>3, <1>4, <1>5 DEF TookOne
<1>7. d32'.n <= 11 /\ (Reading(d32') => d32'.n <= 10)
  BY <1>2, <1>3 DEF VarInv, TookOne, IsReader
<1>8. d64'.n <= 10 /\ (Reading(d64') => d64'.n <= 9)
  BY <1>2, <1>4 DEF VarInv, TookOne, IsReader
<1>9. InStep(d32', skip')
  <2>1. CASE Reading(d32)
    BY <1>2, <1>3, <1>5, <2>1 DEF VarInv, InStep, TookOne, Reading
  <2>2. CASE ~Reading(d32)
    BY <1>2, <1>3, <1>5, <2>2 DEF VarInv, InStep, Reading
  <2> QED BY <2>1, <2>2
<1>10. InStep(d64', skip')
  <2>1. CASE Reading(d64)
    BY <1>2, <1>4, <1>5, <2>1 DEF VarInv, InStep, TookOne, Reading
  <2>2. CASE ~Reading(d64)
    BY <1>2, <1>4, <1>5, <2>2 DEF VarInv, InStep, Reading
  <2> QED BY <2>1, <2>2
<1>11. d32'.st \in {"reading", "ok"} /\ d64'.st \in {"reading", "ok"}
       => d32'.result = d64'.result \cap 0..31
  <2> SUFFICES ASSUME d32'.st \in {"reading", "ok"}, d64'.st \in {"reading", "ok"}
               PROVE  d32'.result = d64'.result \cap 0..31
    OBVIOUS
  <2>1. d32.st \in {"reading", "ok"} /\ d64.st \in {"reading", "ok"}
    BY <1>3, <1>4 DEF Reading
  <2>2. d32.result = d64.result \cap 0..31
    BY <2>1 DEF VarInv
  <2>3. (Reading(d32) <=> Reading(d64)) /\ (Reading(d32) => d32.n = d64.n)
    BY <2>1 DEF VarInv, InStep, Reading
  <2>4. CASE Reading(d32)
    <3> DEFINE bits == Shl(Low7(b), 7 * d64.n)
    <3>1. d32'.result = d32.result \cup (bits \cap 0..31)
          /\ d64'.result = d64.result \cup bits
      BY <1>3, <1>4, <2>3, <2>4
    <3> HIDE DEF bits
    <3> QED BY <2>2, <3>1
  <2>5. CASE ~Reading(d32)
    BY <1>3, <1>4, <2>2, <2>3, <2>5
  <2> QED BY <2>4, <2>5
<1> QED BY <1>6, <1>7, <1>8, <1>9, <1>10, <1>11 DEF VarInv, Reading, IsReader, InStep

LEMMA EndOfStreamKeeps == VarInv /\ EndOfStream => VarInv'
<1> SUFFICES ASSUME VarInv, EndOfStream PROVE VarInv'
  OBVIOUS
<1> DEFINE Ended(r, q) == IsReader(q) /\ q.st = "end-of-stream" /\ q.n = r.n
<1>1. IsReader(d32) /\ IsReader(d64) /\ IsReader(skip)
  BY DEF VarInv
<1>2. IF Reading(d32) THEN Ended(d32, d32') ELSE d32' = d32
  BY <1>1, EndOfReader DEF EndOfStream
<1>3. IF Reading(d64) THEN Ended(d64, d64') ELSE d64' = d64
  BY <1>1, EndOfReader DEF EndOfStream
<1>4. IF Reading(skip) THEN Ended(skip, skip') ELSE skip' = skip
  BY <1>1, EndOfReader DEF EndOfStream
<1>5. IsReader(d32') /\ IsReader(d64') /\ IsReader(skip')
  BY <1>1, <1>2, <1>3, <1>4
<1>6. ~Reading(d32') /\ ~Reading(d64') /\ d32'.n = d32.n /\ d64'.n = d64.n
  BY <1>2, <1>3 DEF Reading
<1>7. InStep(d32', skip') /\ InStep(d64', skip')
  BY <1>2, <1>3, <1>4 DEF VarInv, InStep, Reading
<1>8. d32'.st \in {"reading", "ok"} /\ d64'.st \in {"reading", "ok"}
       => d32' = d32 /\ d64' = d64
  BY <1>2, <1>3
<1> QED BY <1>5, <1>6, <1>7, <1>8 DEF VarInv, Reading, IsReader, InStep

LEMMA VarInvInit == Init => VarInv
<1> SUFFICES ASSUME Init PROVE VarInv
  OBVIOUS
<1>1. d32 = Fresh /\ d64 = Fresh /\ skip = Fresh
  BY DEF Init
<1>2. IsReader(Fresh) /\ Fresh.n = 0 /\ Fresh.st = "reading" /\ Fresh.result = {}
  BY DEF Fresh, IsReader, Status
<1> QED BY <1>1, <1>2 DEF VarInv, InStep, Reading

LEMMA VarInvNext == VarInv /\ [Next]_vars => VarInv'
<1> SUFFICES ASSUME VarInv, [Next]_vars PROVE VarInv'
  OBVIOUS
<1>1. CASE ReadForeign
  BY <1>1, ReadByteKeeps DEF ReadForeign
<1>2. CASE ReadOwn
  BY <1>2, ReadByteKeeps DEF ReadOwn
<1>3. CASE EndOfStream
  BY <1>3, EndOfStreamKeeps
<1>4. CASE UNCHANGED vars
  BY <1>4 DEF VarInv, vars, Reading, IsReader, InStep
<1> QED BY <1>1, <1>2, <1>3, <1>4 DEF Next

THEOREM VarintInvariant == Spec => []VarInv
BY VarInvInit, VarInvNext, PTL DEF Spec

\* For all bytes: a varint both decoders accept has the same bytes and the same
\* low 32 bits for both (pb_decode.c:171-250).
THEOREM BothDecodersAgree == Spec => []DecodersAgree
<1>1. VarInv => DecodersAgree
  BY DEF VarInv, DecodersAgree, InStep
<1> QED BY <1>1, VarintInvariant, PTL

\* For all bytes: an unknown field is skipped by just the bytes decoding it would
\* have taken, or the two schemas would lose step (pb_decode.c:253-262).
THEOREM SkippingTakesTheSame == Spec => []SkipsTheSame
<1>1. VarInv => SkipsTheSame
  BY DEF VarInv, SkipsTheSame, InStep
<1> QED BY <1>1, VarintInvariant, PTL

\* For all bytes: no decoder reads more than eleven bytes of one varint.
THEOREM DecodersStop == Spec => []BoundedReading
<1>1. VarInv => BoundedReading
  BY DEF VarInv, BoundedReading
<1> QED BY <1>1, VarintInvariant, PTL
-----------------------------------------------------------------------------
(***************************************************************************)
(* Types.  The bytes come from BytesAt, or from the encoder; the invariant *)
(* says how far the bits of a result reach.                                *)
(***************************************************************************)

ReachInv ==
    /\ d32.result \subseteq 0..31
    /\ d64.result \subseteq 0..63
    /\ Reading(d64) => \A x \in d64.result : x < 7 * d64.n
    /\ skip.result = {}

CountInv ==
    /\ left \in Nat /\ used \in Nat
    /\ \A r \in {d32, d64, skip} : r.n <= used /\ (Reading(r) => r.n = used)

(***************************************************************************)
(* What the 32-bit decoder refuses and the other one accepts is no number  *)
(* of 32 bits: it has a bit past bit 31, and lacks one from bit 31 on.     *)
(***************************************************************************)

Misfit ==
    /\ \E x \in d64.result : x >= 32
    /\ \E y \in 31..63 : y \notin d64.result /\ (Reading(d64) => y < 7 * d64.n)

FitInv ==
    /\ d32.st = "overflow" /\ d64.st \in {"reading", "ok"} => Misfit
    /\ d32.st = "end-of-stream" => d64.st \in {"end-of-stream", "overflow"}

(***************************************************************************)
(* The encoder.  Group(v, n) is the n-th group of seven bits of v, and s   *)
(* encodes v from group k on.                                              *)
(***************************************************************************)

Group(v, n) == {c \in 0..6 : 7 * n + c \in v}

Encodes(s, v, k) ==
    /\ s \in Seq(Byte) /\ Len(s) \in Nat /\ Len(s) >= 1 /\ k + Len(s) <= 10
    /\ \A i \in 1..Len(s) :
         s[i] = Group(v, k + i - 1) \cup (IF i < Len(s) THEN {7} ELSE {})
    /\ \A x \in v : x < 7 * (k + Len(s))

\* The number pb_enc_varint encodes.
Sent(f) ==
    IF f.ltype = "VARINT" /\ f.size = 4 THEN SignExtend(f.content) ELSE f.content

\* Of the encoder's bytes the 64-bit decoder has the groups it has read.
OwnInv ==
    field # NoField =>
      /\ left + used = Len(pb_enc_varint(field))
      /\ d64.st \in {"reading", "ok"}
      /\ Reading(d64) => /\ used < Len(pb_enc_varint(field))
                         /\ d64.result = {x \in Sent(field) : x < 7 * used}
      /\ d64.st = "ok" => /\ used = Len(pb_enc_varint(field)) /\ d64.n = used
                          /\ d64.result = Sent(field)

\* Where the bytes of the next step come from.
SourceInv ==
    /\ field \in Fields \cup {NoField}
    /\ field = NoField => used + left <= Len(BytesAt)

VarIInv == VarInv /\ ReachInv /\ CountInv /\ FitInv /\ SourceInv /\ OwnInv
-----------------------------------------------------------------------------
(***************************************************************************)
(* What the encoder writes.                                                *)
(***************************************************************************)


LEMMA GroupIs ==
    ASSUME NEW v, NEW k, NEW g, g \subseteq 0..6,
           \A c \in 0..6 : c \in g <=> 7 * k + c \in v
    PROVE  g = Group(v, k)
<1>1. \A c : c \in g => c \in Group(v, k)
  BY DEF Group
<1>2. \A c : c \in Group(v, k) => c \in g
  BY DEF Group
<1> QED BY <1>1, <1>2

\* Bits of a shifted word.
LEMMA ShrBits ==
    ASSUME NEW v \in Word, NEW k \in Nat, NEW c \in Nat
    PROVE  c \in Shr(v, k) <=> c + k \in v
<1>1. v \subseteq 0..63
  BY DEF Word
<1>2. ASSUME NEW x \in v, x >= k PROVE x - k \in Nat /\ (x - k = c <=> x = c + k)
  BY <1>1, <1>2
<1> QED BY <1>1, <1>2 DEF Shr

LEMMA ShrWord ==
    ASSUME NEW v \in Word, NEW k \in Nat
    PROVE  Shr(v, k) \in Word
<1>1. v \subseteq 0..63
  BY DEF Word
<1>2. ASSUME NEW x \in v, x >= k PROVE x - k \in 0..63
  BY <1>1, <1>2
<1> QED BY <1>2 DEF Shr, Word

\* The last byte.
LEMMA EncodesLast ==
    ASSUME NEW v, NEW k \in 0..9, \A x \in v : x < 7 * (k + 1)
    PROVE  Encodes(<<Group(v, k)>>, v, k)
<1> DEFINE g == Group(v, k)
<1>1. g \in Byte
  BY DEF Group, Byte
<1>2. \A i \in 1..1 : k + i - 1 = k
  OBVIOUS
<1> HIDE DEF g
<1>3. <<g>> \in Seq(Byte) /\ Len(<<g>>) = 1 /\ <<g>>[1] = g
  BY <1>1
<1>4. \A i \in 1..1 : <<g>>[i] = Group(v, k + i - 1) \cup (IF i < 1 THEN {7} ELSE {})
  BY <1>2, <1>3 DEF g
<1> QED BY <1>3, <1>4 DEF Encodes, g

\* A byte in front of the others.
LEMMA EncodesMore ==
    ASSUME NEW v, NEW k \in 0..8, NEW s, Encodes(s, v, k + 1)
    PROVE  Encodes(<<Group(v, k) \cup {7}>> \o s, v, k)
<1> DEFINE g == Group(v, k) \cup {7}
           t == <<g>> \o s
<1>1. g \in Byte
  BY DEF Group, Byte
<1>2. <<g>> \in Seq(Byte) /\ Len(<<g>>) = 1 /\ <<g>>[1] = g
  BY <1>1
<1>3. s \in Seq(Byte) /\ Len(s) \in Nat /\ Len(s) >= 1 /\ k + 1 + Len(s) <= 10
  BY DEF Encodes
<1> HIDE DEF g
<1>4. /\ t \in Seq(Byte) /\ Len(t) = 1 + Len(s)
      /\ t[1] = g
      /\ \A i \in 2..Len(t) : t[i] = s[i - 1]
  BY <1>2, <1>3, ConcatProperties
<1> HIDE DEF t
<1>5. ASSUME NEW i \in 1..Len(t)
      PROVE  t[i] = Group(v, k + i - 1) \cup (IF i < Len(t) THEN {7} ELSE {})
  <2>1. CASE i = 1
    <3>1. k + i - 1 = k /\ i < Len(t)
      BY <1>3, <1>4, <2>1
    <3> QED BY <1>4, <2>1, <3>1 DEF g
  <2>2. CASE i > 1
    <3> DEFINE j == i - 1
    <3>1. j \in 1..Len(s) /\ k + 1 + j - 1 = k + i - 1 /\ (j < Len(s) <=> i < Len(t))
      BY <1>3, <1>4, <2>2
    <3>2. s[j] = Group(v, k + 1 + j - 1) \cup (IF j < Len(s) THEN {7} ELSE {})
      BY <3>1 DEF Encodes
    <3>3. t[i] = s[j]
      BY <1>3, <1>4, <2>2
    <3> HIDE DEF j
    <3> QED BY <3>1, <3>2, <3>3
  <2> QED BY <2>1, <2>2
<1>6. \A x \in v : x < 7 * (k + Len(t))
  BY <1>3, <1>4 DEF Encodes
<1>7. t \in Seq(Byte) /\ Len(t) \in Nat /\ Len(t) >= 1 /\ k + Len(t) <= 10
  BY <1>3, <1>4
<1> QED BY <1>5, <1>6, <1>7, Zenon DEF Encodes, t, g

\* One turn of the second loop; rest is what the turns after it write.
HighTurn(byte, high, j, rest) ==
    LET now == IF j = 0 THEN byte ELSE Low7(Shr(high, 7 * (j - 1)))
    IN  IF Shr(high, 7 * j) = {} THEN <<now>> ELSE <<now \cup {7}>> \o rest

LEMMA HighTurnEncodes ==
    ASSUME NEW v \in Word, NEW byte, byte = Group(v, 4),
           NEW high \in Word, \A c \in Nat : c \in high <=> c + 35 \in v,
           NEW j \in 0..5, NEW rest,
           Shr(high, 7 * j) # {} => j < 5 /\ Encodes(rest, v, 5 + j)
    PROVE  Encodes(HighTurn(byte, high, j, rest), v, 4 + j)
<1> DEFINE now == IF j = 0 THEN byte ELSE Low7(Shr(high, 7 * (j - 1)))
<1>1. v \subseteq 0..63
  BY DEF Word
<1>2. now = Group(v, 4 + j)
  <2>1. CASE j = 0
    BY <2>1
  <2>2. CASE j > 0
    <3> DEFINE k == 7 * (j - 1)
    <3>1. k \in Nat /\ \A c \in 0..6 : c + k \in Nat /\ c + k + 35 = 7 * (4 + j) + c
      BY <2>2
    <3>2. \A c \in 0..6 : c \in Shr(high, k) <=> c + k \in high
      BY <3>1, ShrBits
    <3>3. \A c \in 0..6 : c \in Shr(high, k) <=> 7 * (4 + j) + c \in v
      BY <3>1, <3>2
    <3> HIDE DEF k
    <3>4. Low7(Shr(high, k)) = Group(v, 4 + j)
      BY <3>3 DEF Low7, Group
    <3> QED BY <2>2, <3>4 DEF k
  <2> QED BY <2>1, <2>2
<1>3. CASE Shr(high, 7 * j) = {}
  <2>1. HighTurn(byte, high, j, rest) = <<now>>
    BY <1>3 DEF HighTurn
  <2>2. ASSUME NEW x \in v PROVE x < 7 * (4 + j + 1)
    <3> SUFFICES ASSUME x >= 7 * (4 + j + 1) PROVE FALSE
      BY <1>1
    <3> DEFINE c == x - (35 + 7 * j)
    <3>1. c \in Nat /\ c + 7 * j \in Nat /\ c + 7 * j + 35 = x /\ 7 * j \in Nat
      BY <1>1
    <3>2. c + 7 * j \in high
      BY <3>1
    <3>3. c \in Shr(high, 7 * j)
      BY <3>1, <3>2, ShrBits
    <3> QED BY <1>3, <3>3
  <2>3. 4 + j \in 0..9
    OBVIOUS
  <2> HIDE DEF now
  <2> QED BY <1>2, <2>1, <2>2, <2>3, EncodesLast
<1>4. CASE Shr(high, 7 * j) # {}
  <2>1. HighTurn(byte, high, j, rest) = <<now \cup {7}>> \o rest
    BY <1>4 DEF HighTurn
  <2>2. Encodes(rest, v, 4 + j + 1) /\ 4 + j \in 0..8
    <3>1. 5 + j = 4 + j + 1
      OBVIOUS
    <3> QED BY <1>4, <3>1
  <2> HIDE DEF now
  <2> QED BY <1>2, <2>1, <2>2, EncodesMore
<1> QED BY <1>3, <1>4

\* The recursive function of EncodeHigh exists, and obeys its definition.
LEMMA HighBytes ==
    ASSUME NEW byte, NEW high \in Word, \A c \in high : c < 35
    PROVE  \E f : /\ EncodeHigh(byte, high) = f[0]
                  /\ \A j \in 0..5 : f[j] = HighTurn(byte, high, j, f[j + 1])
<1> DEFINE T(j, rest) == HighTurn(byte, high, j, rest)
           P(bytes) == bytes = [j \in 0..5 |-> T(j, bytes[j + 1])]
           f == CHOOSE bytes : P(bytes)
           g5 == T(5, <<>>)
           g4 == T(4, g5)
           g3 == T(3, g4)
           g2 == T(2, g3)
           g1 == T(1, g2)
           g0 == T(0, g1)
           g == [j \in 0..5 |->
                   IF j = 5 THEN g5 ELSE IF j = 4 THEN g4 ELSE IF j = 3 THEN g3
                   ELSE IF j = 2 THEN g2 ELSE IF j = 1 THEN g1 ELSE g0]
<1>1. Shr(high, 35) = {}
  <2>1. \A c \in high : ~(c >= 35)
    BY DEF Word
  <2> QED BY <2>1 DEF Shr
<1>2. \A rest : T(5, rest) = g5
  BY <1>1 DEF HighTurn
<1>3. P(g)
  <2> HIDE DEF T, g0, g1, g2, g3, g4, g5
  <2>1. /\ g[0] = g0 /\ g[1] = g1 /\ g[2] = g2 /\ g[3] = g3 /\ g[4] = g4 /\ g[5] = g5
    OBVIOUS
  <2>2. /\ g0 = T(0, g1) /\ g1 = T(1, g2) /\ g2 = T(2, g3) /\ g3 = T(3, g4) /\ g4 = T(4, g5)
    BY DEF g0, g1, g2, g3, g4
  <2> HIDE DEF g
  <2>3. ASSUME NEW j \in 0..5 PROVE g[j] = T(j, g[j + 1])
    <3>1. j = 0 \/ j = 1 \/ j = 2 \/ j = 3 \/ j = 4 \/ j = 5
      OBVIOUS
    <3> QED BY <1>2, <2>1, <2>2, <3>1
  <2>4. g = [j \in 0..5 |-> g[j]]
    BY DEF g
  <2> QED BY <2>3, <2>4
<1>4. P(f)
  <2> HIDE DEF P, g
  <2> QED BY <1>3, Zenon
<1>5. EncodeHigh(byte, high) = f[0]
  BY Zenon DEF EncodeHigh, HighTurn
<1>6. \A j \in 0..5 : f[j] = T(j, f[j + 1])
  <2> HIDE DEF f, T
  <2> QED BY <1>4 DEF P
<1> QED BY <1>5, <1>6, Zenon

LEMMA HighEncodes ==
    ASSUME NEW v \in Word, NEW byte, byte = Group(v, 4),
           NEW high \in Word, \A c \in Nat : c \in high <=> c + 35 \in v
    PROVE  Encodes(EncodeHigh(byte, high), v, 4)
<1>1. \A c \in high : c < 35
  BY DEF Word
<1>2. PICK f : /\ EncodeHigh(byte, high) = f[0]
               /\ \A j \in 0..5 : f[j] = HighTurn(byte, high, j, f[j + 1])
  BY <1>1, HighBytes
<1>3. Encodes(f[5], v, 9)
  <2>1. Shr(high, 35) = {}
    <3>1. \A c \in high : ~(c >= 35)
      BY <1>1 DEF Word
    <3> QED BY <3>1 DEF Shr
  <2>2. f[5] = HighTurn(byte, high, 5, f[6])
    BY <1>2
  <2>3. 7 * 5 = 35 /\ 4 + 5 = 9 /\ 5 \in 0..5
    OBVIOUS
  <2> QED BY <2>1, <2>2, <2>3, HighTurnEncodes
<1>4. ASSUME NEW j \in 0..4, Encodes(f[j + 1], v, 5 + j)
      PROVE  Encodes(f[j], v, 4 + j)
  <2>1. f[j] = HighTurn(byte, high, j, f[j + 1])
    BY <1>2
  <2>2. j \in 0..5 /\ j < 5
    OBVIOUS
  <2> QED BY <1>4, <2>1, <2>2, HighTurnEncodes
<1>5. Encodes(f[4], v, 8)
  BY <1>3, <1>4
<1>6. Encodes(f[3], v, 7)
  BY <1>4, <1>5
<1>7. Encodes(f[2], v, 6)
  BY <1>4, <1>6
<1>8. Encodes(f[1], v, 5)
  BY <1>4, <1>7
<1>9. Encodes(f[0], v, 4)
  BY <1>4, <1>8
<1> QED BY <1>2, <1>9

\* One turn of the first loop, in the same way.
LowTurn(low, high, i, rest) ==
    LET byte == Low7(Shr(low, 7 * i))
        more == Shr(low, 7 * (i + 1)) # {} \/ high # {}
    IN  IF i < 4 /\ more THEN <<byte \cup {7}>> \o rest
        ELSE IF high = {} THEN <<byte>>
        ELSE EncodeHigh(byte \cup Shl(high \cap 0..(JoinBits - 1), 4),
                        Shr(high, JoinBits))

LEMMA LowTurnEncodes ==
    ASSUME NEW v \in Word, NEW i \in 0..4, NEW rest,
           i < 4 /\ (\E x \in v : x >= 7 * (i + 1)) => Encodes(rest, v, i + 1)
    PROVE  Encodes(LowTurn(v \cap 0..31, Shr(v, 32), i, rest), v, i)
<1> DEFINE low == v \cap 0..31
           high == Shr(v, 32)
           n == 7 * i
           byte == Low7(Shr(low, n))
           more == Shr(low, n + 7) # {} \/ high # {}
<1>1. /\ v \subseteq 0..63 /\ low \in Word /\ high \in Word
      /\ \A x : x \in low <=> x \in v /\ x \in 0..31
  BY ShrWord DEF Word
<1>2. \A c \in Nat : c \in high <=> c + 32 \in v
  BY ShrBits
<1>3. n \in Nat /\ n <= 28 /\ n + 7 = 7 * (i + 1) /\ (i < 4 => n <= 21) /\ (i = 4 => n = 28)
  OBVIOUS
<1> HIDE DEF low, high, n
<1>4. /\ \A c \in 0..6 : c \in byte <=> c + n \in low
      /\ byte \subseteq 0..6
  <2> DEFINE shifted == Shr(low, n)
  <2>1. \A c \in 0..6 : c \in shifted <=> c + n \in low
    <3> SUFFICES ASSUME NEW c \in 0..6 PROVE c \in shifted <=> c + n \in low
      OBVIOUS
    <3>1. c \in Nat
      OBVIOUS
    <3> QED BY <1>1, <1>3, <3>1, ShrBits
  <2> HIDE DEF shifted
  <2>2. Low7(shifted) = shifted \cap 0..6
    BY DEF Low7
  <2>3. /\ \A c \in 0..6 : c \in Low7(shifted) <=> c + n \in low
        /\ Low7(shifted) \subseteq 0..6
    BY <2>1, <2>2
  <2> QED BY <2>3 DEF shifted
<1>5. ASSUME i < 4 PROVE more <=> \E x \in v : x >= n + 7
  <2>1. ASSUME NEW x \in v, x >= n + 7 PROVE more
    <3>1. CASE x >= 32
      <4>1. x - 32 \in Nat /\ x - 32 + 32 = x
        BY <1>1, <3>1
      <4> QED BY <1>2, <4>1
    <3>2. CASE x < 32
      <4> DEFINE k == n + 7
                 c == x - k
      <4>0. x \in 0..31
        BY <1>1, <3>2
      <4>1. k \in Nat /\ c \in Nat /\ c + k = x
        BY <1>3, <2>1, <4>0
      <4>3. x \in low
        BY <1>1, <4>0
      <4> HIDE DEF k, c
      <4>2. c \in Shr(low, k)
        BY <1>1, <4>1, <4>3, ShrBits
      <4> QED BY <4>2 DEF k
    <3> QED BY <1>1, <3>1, <3>2
  <2>2. ASSUME high # {} PROVE \E x \in v : x >= n + 7
    <3>0. high \subseteq 0..63
      BY <1>1 DEF Word
    <3>3. \E c : c \in high
      BY <2>2, Zenon
    <3>1. PICK c \in high : c \in Nat
      BY <3>0, <3>3
    <3>2. c + 32 \in v /\ c + 32 >= n + 7
      BY <1>2, <1>3, <1>5, <3>1
    <3> QED BY <3>2
  <2>3. ASSUME Shr(low, n + 7) # {} PROVE \E x \in v : x >= n + 7
    <3> DEFINE k == n + 7
    <3>1. k \in Nat
      BY <1>3
    <3> HIDE DEF k
    <3>2. Shr(low, k) \in Word
      BY <1>1, <3>1, ShrWord
    <3>3. PICK c \in Shr(low, k) : c \in Nat
      BY <2>3, <3>2 DEF Word, k
    <3>4. c + k \in low /\ c + k >= k
      BY <1>1, <3>1, <3>3, ShrBits
    <3> QED BY <1>1, <3>4 DEF k
  <2> QED BY <2>1, <2>2, <2>3
<1>6. i < 4 => byte = Group(v, i)
  BY <1>1, <1>3, <1>4 DEF Group, n
<1>7. LowTurn(low, high, i, rest)
        = IF i < 4 /\ more THEN <<byte \cup {7}>> \o rest
          ELSE IF high = {} THEN <<byte>>
          ELSE EncodeHigh(byte \cup Shl(high \cap 0..2, 4), Shr(high, 3))
  BY <1>3 DEF LowTurn, n, JoinBits
<1>8. CASE i < 4 /\ more
  <2>1. Encodes(rest, v, i + 1)
    BY <1>3, <1>5, <1>8
  <2>2. i \in 0..8
    OBVIOUS
  <2>3. LowTurn(low, high, i, rest) = <<Group(v, i) \cup {7}>> \o rest
    BY <1>6, <1>7, <1>8
  <2> QED BY <2>1, <2>2, <2>3, EncodesMore DEF low, high
<1>9. CASE ~(i < 4 /\ more) /\ high = {}
  <2>1. byte = Group(v, i)
    <3>1. CASE i < 4
      BY <1>6, <3>1
    <3>2. CASE i = 4
      <4>1. \A x \in v : x < 32
        <5>1. ASSUME NEW x \in v, x >= 32 PROVE FALSE
          <6>1. x - 32 \in Nat /\ x - 32 + 32 = x
            BY <1>1, <5>1
          <6> QED BY <1>2, <1>9, <6>1
        <5> QED BY <1>1, <5>1
      <4> QED BY <1>1, <1>3, <1>4, <3>2, <4>1 DEF Group
    <3> QED BY <3>1, <3>2
  <2>2. \A x \in v : x < 7 * (i + 1)
    <3>1. CASE i < 4
      <4>1. \A x \in v : ~(x >= n + 7)
        BY <1>5, <1>9, <3>1
      <4> QED BY <1>1, <1>3, <4>1
    <3>2. CASE i = 4
      <4>1. ASSUME NEW x \in v, x >= 35 PROVE FALSE
        <5>1. x - 32 \in Nat /\ x - 32 + 32 = x
          BY <1>1, <4>1
        <5> QED BY <1>2, <1>9, <5>1
      <4> QED BY <1>1, <3>2, <4>1
    <3> QED BY <3>1, <3>2
  <2>3. LowTurn(low, high, i, rest) = <<Group(v, i)>>
    BY <1>7, <1>9, <2>1
  <2>4. i \in 0..9
    OBVIOUS
  <2> QED BY <2>2, <2>3, <2>4, EncodesLast DEF low, high
<1>10. CASE ~(i < 4 /\ more) /\ high # {}
  <2> DEFINE joined == byte \cup Shl(high \cap 0..2, 4)
             above == Shr(high, 3)
  <2>1. i = 4
    BY <1>10
  <2>2. joined = Group(v, 4)
    <3>1. \A c \in 0..6 : c \in Shl(high \cap 0..2, 4) <=> c >= 4 /\ c - 4 \in high
      <4>1. ASSUME NEW c \in 0..6 PROVE c \in Shl(high \cap 0..2, 4) <=> \E b \in high \cap 0..2 : c = b + 4
        BY DEF Shl
      <4>2. ASSUME NEW c \in 0..6, c >= 4, c - 4 \in high
            PROVE  c - 4 \in high \cap 0..2 /\ c = (c - 4) + 4
        BY <4>2
      <4>3. ASSUME NEW c \in 0..6, NEW b \in high \cap 0..2, c = b + 4
            PROVE  c >= 4 /\ c - 4 = b
        BY <4>3
      <4> QED BY <4>1, <4>2, <4>3
    <3>2. Shl(high \cap 0..2, 4) \subseteq 0..6
      BY DEF Shl
    <3>3. \A c \in 0..6 : c >= 4 => (c - 4 \in high <=> c + 28 \in v)
      <4>1. ASSUME NEW c \in 0..6, c >= 4 PROVE c - 4 \in high <=> c + 28 \in v
        <5>1. c - 4 \in Nat /\ c - 4 + 32 = c + 28
          BY <4>1
        <5> QED BY <1>2, <5>1
      <4> QED BY <4>1
    <3>4. \A c \in 0..6 : c \in byte <=> c < 4 /\ c + 28 \in v
      BY <1>1, <1>3, <1>4, <2>1
    <3>5. \A c \in 0..6 : c \in joined <=> c + 28 \in v
      BY <3>1, <3>3, <3>4
    <3>6. joined \subseteq 0..6
      BY <1>4, <3>2
    <3> HIDE DEF joined
    <3>7. \A c \in 0..6 : 7 * 4 + c = c + 28
      OBVIOUS
    <3>8. \A c \in 0..6 : c \in joined <=> 7 * 4 + c \in v
      BY <3>5, <3>7
    <3> QED BY <3>6, <3>8, GroupIs
  <2>3. above \in Word /\ \A c \in Nat : c \in above <=> c + 35 \in v
    <3>1. above \in Word
      BY <1>1, ShrWord
    <3>2. ASSUME NEW c \in Nat PROVE c \in above <=> c + 35 \in v
      <4>1. c \in above <=> c + 3 \in high
        BY <1>1, ShrBits
      <4>2. c + 3 \in Nat /\ c + 3 + 32 = c + 35
        OBVIOUS
      <4> QED BY <1>2, <4>1, <4>2
    <3> QED BY <3>1, <3>2
  <2>4. LowTurn(low, high, i, rest) = EncodeHigh(joined, above)
    BY <1>7, <1>10
  <2> HIDE DEF joined, above
  <2> QED BY <2>1, <2>2, <2>3, <2>4, HighEncodes DEF low, high
<1> QED BY <1>8, <1>9, <1>10 DEF low, high

LEMMA LowBytes ==
    ASSUME NEW low, NEW high
    PROVE  \E f : /\ EncodeLow(low, high) = f[0]
                  /\ \A i \in 0..4 : f[i] = LowTurn(low, high, i, f[i + 1])
<1> DEFINE T(i, rest) == LowTurn(low, high, i, rest)
           P(bytes) == bytes = [i \in 0..4 |-> T(i, bytes[i + 1])]
           f == CHOOSE bytes : P(bytes)
           g4 == T(4, <<>>)
           g3 == T(3, g4)
           g2 == T(2, g3)
           g1 == T(1, g2)
           g0 == T(0, g1)
           g == [i \in 0..4 |->
                   IF i = 4 THEN g4 ELSE IF i = 3 THEN g3
                   ELSE IF i = 2 THEN g2 ELSE IF i = 1 THEN g1 ELSE g0]
<1>1. \A rest : T(4, rest) = g4
  BY DEF LowTurn
<1>2. P(g)
  <2> HIDE DEF T, g0, g1, g2, g3, g4
  <2>1. g[0] = g0 /\ g[1] = g1 /\ g[2] = g2 /\ g[3] = g3 /\ g[4] = g4
    OBVIOUS
  <2>2. g0 = T(0, g1) /\ g1 = T(1, g2) /\ g2 = T(2, g3) /\ g3 = T(3, g4)
    BY DEF g0, g1, g2, g3
  <2> HIDE DEF g
  <2>3. ASSUME NEW i \in 0..4 PROVE g[i] = T(i, g[i + 1])
    <3>1. i = 0 \/ i = 1 \/ i = 2 \/ i = 3 \/ i = 4
      OBVIOUS
    <3> QED BY <1>1, <2>1, <2>2, <3>1
  <2>4. g = [i \in 0..4 |-> g[i]]
    BY DEF g
  <2> QED BY <2>3, <2>4
<1>3. P(f)
  <2> HIDE DEF P, g
  <2> QED BY <1>2, Zenon
<1>4. EncodeLow(low, high) = f[0]
  BY Zenon DEF EncodeLow, LowTurn
<1>5. \A i \in 0..4 : f[i] = T(i, f[i + 1])
  <2> HIDE DEF f, T
  <2> QED BY <1>3 DEF P
<1> QED BY <1>4, <1>5, Zenon

\* The encoder writes a number in groups of seven bits, and no more of them than
\* it needs (pb_encode.c:573-605).
LEMMA EncoderEncodes ==
    ASSUME NEW v \in Word
    PROVE  Encodes(pb_encode_varint(v), v, 0)
<1> DEFINE low == v \cap 0..31
           high == Shr(v, 32)
<1>1. CASE v \subseteq 0..6
  <2>1. v = Group(v, 0)
    <3> DEFINE z == 0
    <3>1. \A c \in 0..6 : c \in v <=> 7 * z + c \in v
      OBVIOUS
    <3> HIDE DEF z
    <3>2. v = Group(v, z)
      BY <1>1, <3>1, GroupIs
    <3> QED BY <3>2 DEF z
  <2>2. \A x \in v : x < 7 * (0 + 1)
    BY <1>1
  <2>3. Encodes(<<Group(v, 0)>>, v, 0)
    <3>1. 0 \in 0..9
      OBVIOUS
    <3> QED BY <2>2, <3>1, EncodesLast
  <2>4. pb_encode_varint(v) = <<v>>
    BY <1>1 DEF pb_encode_varint
  <2> QED BY <2>1, <2>3, <2>4
<1>2. CASE ~(v \subseteq 0..6)
  <2>1. PICK f : /\ EncodeLow(low, high) = f[0]
                 /\ \A i \in 0..4 : f[i] = LowTurn(low, high, i, f[i + 1])
    BY LowBytes
  <2>2. pb_encode_varint(v) = f[0]
    BY <1>2, <2>1 DEF pb_encode_varint
  <2>3. Encodes(f[4], v, 4)
    <3>1. f[4] = LowTurn(low, high, 4, f[5])
      BY <2>1
    <3>2. 4 \in 0..4 /\ ~(4 < 4)
      OBVIOUS
    <3> QED BY <3>1, <3>2, LowTurnEncodes
  <2>4. ASSUME NEW i \in 0..3, Encodes(f[i + 1], v, i + 1)
        PROVE  Encodes(f[i], v, i)
    <3>1. f[i] = LowTurn(low, high, i, f[i + 1]) /\ i \in 0..4
      BY <2>1
    <3> QED BY <2>4, <3>1, LowTurnEncodes
  <2>5. Encodes(f[3], v, 3)
    BY <2>3, <2>4
  <2>6. Encodes(f[2], v, 2)
    BY <2>4, <2>5
  <2>7. Encodes(f[1], v, 1)
    BY <2>4, <2>6
  <2>8. Encodes(f[0], v, 0)
    BY <2>4, <2>7
  <2> QED BY <2>2, <2>8
<1> QED BY <1>1, <1>2

LEMMA FieldEncodes ==
    ASSUME NEW f \in Field
    PROVE  Sent(f) \in Word /\ Encodes(pb_enc_varint(f), Sent(f), 0)
<1>1. Sent(f) \in Word
  BY DEF Sent, Field, SignExtend, Word
<1>2. pb_enc_varint(f) = pb_encode_varint(Sent(f))
  BY DEF pb_enc_varint, Sent
<1> QED BY <1>1, <1>2, EncoderEncodes

-----------------------------------------------------------------------------
(***************************************************************************)
(* One byte, and what becomes of the result.                               *)
(***************************************************************************)

LEMMA EndsResult ==
    ASSUME NEW r, IsReader(r)
    PROVE  Ends(r, "overflow").result = r.result
<1> DEFINE n == r.n + 1
<1>1. Ends(r, "overflow") = [r EXCEPT !.st = "overflow", !.n = n]
  BY DEF Ends
<1> HIDE DEF n
<1> QED BY <1>1 DEF IsReader

LEMMA Result32 ==
    ASSUME NEW r, IsReader(r), r.n <= 10, NEW b
    PROVE  \A x : x \in pb_decode_varint32(r, b).result => x \in r.result \/ x \in 0..31
<1> DEFINE q == pb_decode_varint32(r, b)
           bits == Shl(Low7(b), 7 * r.n) \cap 0..31
<1>1. CASE q = Ends(r, "overflow")
  <2> HIDE DEF q
  <2>1. q.result = r.result
    BY <1>1, EndsResult
  <2> QED BY <2>1 DEF q
<1>2. CASE q = Takes(r, bits, b)
  <2>1. \A x : x \in bits => x \in 0..31
    OBVIOUS
  <2> HIDE DEF q, bits
  <2>2. q.result = r.result \cup bits
    BY <1>2, TakesReader
  <2> QED BY <2>1, <2>2 DEF q
<1> QED BY <1>1, <1>2, Decode32

\* The seven bits of the byte after n others; a 64-bit result has room for the
\* first of the tenth byte's only.
Fits(b, n) == n = 9 => b \cap 1..7 = {}

LEMMA Result64 ==
    ASSUME NEW r, IsReader(r), r.n <= 9, NEW b
    PROVE  LET q == pb_decode_varint(r, b)
           IN  IF Fits(b, r.n)
               THEN /\ q.st = IF 7 \in b THEN "reading" ELSE "ok"
                    /\ \A x : x \in q.result <=>
                         x \in r.result \/ \E c \in 0..6 : c \in b /\ x = c + 7 * r.n
               ELSE q.st = "overflow" /\ q.result = r.result
<1> DEFINE q == pb_decode_varint(r, b)
           k == 7 * r.n
           bits == Shl(Low7(b), k)
<1>1. Bitpos(r) = k /\ k \in Nat /\ r.n \in Nat /\ (k >= 63 <=> r.n = 9)
  BY DEF Bitpos, IsReader
<1>2. CASE ~Fits(b, r.n)
  <2>1. q = Ends(r, "overflow")
    BY <1>1, <1>2 DEF Fits, pb_decode_varint
  <2> HIDE DEF q
  <2>2. q.st = "overflow" /\ q.result = r.result
    BY <2>1, EndsReader, EndsResult
  <2> QED BY <1>2, <2>2 DEF q
<1>3. CASE Fits(b, r.n)
  <2>1. q = Takes(r, bits, b)
    BY <1>1, <1>3 DEF Fits, pb_decode_varint
  <2> HIDE DEF k
  <2>2. \A x : x \in bits <=> \E c \in 0..6 : c \in b /\ x = c + k
    BY <1>1, ShiftedBits
  <2> HIDE DEF q, bits
  <2>3. q.st = (IF 7 \in b THEN "reading" ELSE "ok") /\ q.result = r.result \cup bits
    BY <2>1, TakesReader
  <2>4. \A x : x \in q.result <=> x \in r.result \/ \E c \in 0..6 : c \in b /\ x = c + k
    BY <2>2, <2>3
  <2> QED BY <1>3, <2>3, <2>4 DEF q, k
<1> QED BY <1>2, <1>3

\* What the 32-bit decoder refuses.
LEMMA Overflow32 ==
    ASSUME NEW r, IsReader(r), r.n <= 9, NEW b,
           pb_decode_varint32(r, b).st = "overflow"
    PROVE  \/ r.n = 4 /\ b \cap 4..6 # {} /\ ~(3..6 \subseteq b)
           \/ r.n >= 5 /\ ~ValidExtension(r, b)
<1> DEFINE n == r.n
           q == pb_decode_varint32(r, b)
<1>1. n \in Nat /\ n <= 9 /\ Bitpos(r) = 7 * n
  BY DEF IsReader, Bitpos
<1>2. \A bits : Takes(r, bits, b).st # "overflow"
  <2> SUFFICES ASSUME NEW bits PROVE Takes(r, bits, b).st # "overflow"
    OBVIOUS
  <2>1. Takes(r, bits, b).st \in {"reading", "ok"}
    BY DEF Takes
  <2> QED BY <2>1
<1>3. CASE n < 4
  <2>1. q = Takes(r, Shl(Low7(b), 7 * n), b)
    BY <1>1, <1>3 DEF pb_decode_varint32
  <2> QED BY <1>2, <2>1
<1>4. CASE n = 4
  <2>1. Bitpos(r) = 28
    BY <1>1, <1>4
  <2>2. CASE ~(b \cap 4..6 # {} /\ ~(3..6 \subseteq b))
    <3>1. q = Takes(r, FifthBits(b), b)
      BY <2>1, <2>2 DEF pb_decode_varint32
    <3> QED BY <1>2, <3>1
  <2> QED BY <1>4, <2>2
<1>5. CASE n > 4
  <2>1. Bitpos(r) >= 32 /\ ~TooLong(r) /\ n >= 5
    BY <1>1, <1>5 DEF TooLong
  <2>2. CASE ValidExtension(r, b)
    <3>1. q = Takes(r, {}, b)
      BY <2>1, <2>2 DEF pb_decode_varint32
    <3> QED BY <1>2, <3>1
  <2> QED BY <2>1, <2>2
<1> QED BY <1>1, <1>3, <1>4, <1>5

LEMMA SkipResult ==
    ASSUME NEW r, IsReader(r), NEW b
    PROVE  pb_skip_varint(r, b).result = r.result
<1>1. pb_skip_varint(r, b).result = r.result \cup {}
  BY TakesReader DEF pb_skip_varint
<1> QED BY <1>1

(***************************************************************************)
(* Steps, one part of the invariant at a time.                             *)
(***************************************************************************)

\* What ReadByte does to the readers, with the lemmas above put in.
Read32(b) ==
    IF Reading(d32)
    THEN /\ d32' = pb_decode_varint32(d32, b)
         /\ TookOne(d32, d32')
         /\ Reading(d32') => 7 \in b
    ELSE d32' = d32

Read64(b) ==
    IF Reading(d64)
    THEN /\ TookOne(d64, d64')
         /\ IF Fits(b, d64.n)
            THEN /\ d64'.st = IF 7 \in b THEN "reading" ELSE "ok"
                 /\ \A x : x \in d64'.result <=>
                      x \in d64.result \/ \E c \in 0..6 : c \in b /\ x = c + 7 * d64.n
            ELSE d64'.st = "overflow" /\ d64'.result = d64.result
    ELSE d64' = d64

ReadSkip(b) ==
    IF Reading(skip)
    THEN TookOne(skip, skip') /\ skip'.result = skip.result
    ELSE skip' = skip

LEMMA ReadByteReads ==
    ASSUME VarInv, NEW b, ReadByte(b)
    PROVE  Read32(b) /\ Read64(b) /\ ReadSkip(b)
<1>1. /\ IF Reading(d32) THEN d32' = pb_decode_varint32(d32, b) ELSE d32' = d32
      /\ IF Reading(d64) THEN d64' = pb_decode_varint(d64, b) ELSE d64' = d64
      /\ IF Reading(skip) THEN skip' = pb_skip_varint(skip, b) ELSE skip' = skip
  BY DEF ReadByte
<1>2. /\ IsReader(d32) /\ (Reading(d32) => d32.n <= 10)
      /\ IsReader(d64) /\ (Reading(d64) => d64.n <= 9)
      /\ IsReader(skip)
  BY DEF VarInv
<1>3. Read32(b)
  BY <1>1, <1>2, Step32 DEF Read32
<1>4. Read64(b)
  <2>1. CASE ~Reading(d64)
    BY <1>1, <2>1 DEF Read64
  <2>2. CASE Reading(d64)
    <3>1. d64' = pb_decode_varint(d64, b)
      BY <1>1, <2>2
    <3>2. TookOne(d64, d64')
      BY <1>2, <2>2, <3>1, Step64
    <3>3. IF Fits(b, d64.n)
          THEN /\ d64'.st = IF 7 \in b THEN "reading" ELSE "ok"
               /\ \A x : x \in d64'.result <=>
                    x \in d64.result \/ \E c \in 0..6 : c \in b /\ x = c + 7 * d64.n
          ELSE d64'.st = "overflow" /\ d64'.result = d64.result
      BY <1>2, <2>2, <3>1, Result64
    <3> QED BY <2>2, <3>2, <3>3 DEF Read64
  <2> QED BY <2>1, <2>2
<1>5. ReadSkip(b)
  BY <1>1, <1>2, StepSkip, SkipResult DEF ReadSkip
<1> QED BY <1>3, <1>4, <1>5

LEMMA ReadKeepsReach ==
    ASSUME VarInv, ReachInv, NEW b \in Byte, ReadByte(b)
    PROVE  ReachInv'
<1>1. Read32(b) /\ Read64(b) /\ ReadSkip(b)
  BY ReadByteReads
<1>2. d32'.result \subseteq 0..31
  <2>1. CASE Reading(d32)
    <3>1. IsReader(d32) /\ d32.n <= 10 /\ d32' = pb_decode_varint32(d32, b)
      BY <1>1, <2>1 DEF VarInv, Read32
    <3>2. \A x : x \in d32'.result => x \in d32.result \/ x \in 0..31
      BY <3>1, Result32
    <3> QED BY <3>2 DEF ReachInv
  <2>2. CASE ~Reading(d32)
    BY <1>1, <2>2 DEF ReachInv, Read32
  <2> QED BY <2>1, <2>2
<1>3. /\ d64'.result \subseteq 0..63
      /\ Reading(d64') => \A x \in d64'.result : x < 7 * d64'.n
  <2>1. CASE Reading(d64) /\ Fits(b, d64.n)
    <3> DEFINE n == d64.n
    <3>1. n \in Nat /\ n <= 9 /\ d64'.n = n + 1
      BY <1>1, <2>1 DEF Read64, TookOne, VarInv, IsReader
    <3>2. /\ Reading(d64') => 7 \in b
          /\ \A x : x \in d64'.result <=>
               x \in d64.result \/ \E c \in 0..6 : c \in b /\ x = c + 7 * n
      BY <1>1, <2>1 DEF Read64, Reading
    <3>3. d64.result \subseteq 0..63 /\ \A x \in d64.result : x < 7 * n
      BY <2>1 DEF ReachInv
    <3>4. n = 9 => b \cap 1..7 = {}
      BY <2>1 DEF Fits
    <3> HIDE DEF n
    <3>5. ASSUME NEW x \in d64'.result PROVE x \in 0..63 /\ x < 7 * (n + 1)
      <4>1. CASE x \in d64.result
        BY <3>1, <3>3, <4>1
      <4>2. CASE \E c \in 0..6 : c \in b /\ x = c + 7 * n
        <5>1. PICK c \in 0..6 : c \in b /\ x = c + 7 * n
          BY <4>2
        <5>2. n = 9 => c = 0
          BY <3>4, <5>1
        <5> QED BY <3>1, <5>1, <5>2
      <4> QED BY <3>2, <4>1, <4>2
    <3> QED BY <3>1, <3>5
  <2>2. CASE Reading(d64) /\ ~Fits(b, d64.n)
    BY <1>1, <2>2 DEF ReachInv, Read64, Reading
  <2>3. CASE ~Reading(d64)
    BY <1>1, <2>3 DEF ReachInv, Read64
  <2> QED BY <2>1, <2>2, <2>3
<1>4. skip'.result = {}
  BY <1>1 DEF ReachInv, ReadSkip
<1> QED BY <1>2, <1>3, <1>4 DEF ReachInv, Reading

LEMMA ReadKeepsCount ==
    ASSUME VarInv, CountInv, NEW b, ReadByte(b)
    PROVE  CountInv'
<1>1. Read32(b) /\ Read64(b) /\ ReadSkip(b)
  BY ReadByteReads
<1>2. left \in Nat /\ left' = left - 1 /\ left > 0 /\ used \in Nat /\ used' = used + 1
  BY DEF ReadByte, CountInv
<1> DEFINE Counted(r, u) == r.n <= u /\ (Reading(r) => r.n = u)
<1>3. ASSUME NEW r, NEW q, r.n \in Nat, Counted(r, used),
             IF Reading(r) THEN TookOne(r, q) ELSE q = r
      PROVE  Counted(q, used')
  <2>1. CASE Reading(r)
    <3>1. q.n = r.n + 1 /\ r.n = used
      BY <1>3, <2>1 DEF TookOne
    <3> QED BY <1>2, <3>1
  <2>2. CASE ~Reading(r)
    BY <1>2, <1>3, <2>2
  <2> QED BY <2>1, <2>2
<1>4. Counted(d32, used) /\ Counted(d64, used) /\ Counted(skip, used)
  BY DEF CountInv
<1>5. d32.n \in Nat /\ d64.n \in Nat /\ skip.n \in Nat
  BY DEF VarInv, IsReader
<1>6. Counted(d32', used')
  BY <1>1, <1>3, <1>4, <1>5 DEF Read32
<1>7. Counted(d64', used')
  BY <1>1, <1>3, <1>4, <1>5 DEF Read64
<1>8. Counted(skip', used')
  BY <1>1, <1>3, <1>4, <1>5 DEF ReadSkip
<1> QED BY <1>2, <1>6, <1>7, <1>8 DEF CountInv, Reading

\* A misfit stays one: its missing bit is below what is still to come.
LEMMA MisfitStays ==
    ASSUME VarInv, NEW b, Read64(b), Misfit, d64'.st \in {"reading", "ok"}
    PROVE  Misfit'
<1>1. CASE Reading(d64)
  <2> DEFINE n == d64.n
  <2>1. n \in Nat /\ d64'.n = n + 1
    BY <1>1 DEF Read64, TookOne, VarInv, IsReader
  <2>2. \A x : x \in d64'.result <=>
          x \in d64.result \/ \E c \in 0..6 : c \in b /\ x = c + 7 * n
    BY <1>1 DEF Read64
  <2>3. PICK x \in d64.result : x >= 32
    BY DEF Misfit
  <2>4. PICK y \in 31..63 : y \notin d64.result /\ y < 7 * n
    BY <1>1 DEF Misfit
  <2> HIDE DEF n
  <2>5. y \notin d64'.result /\ y < 7 * (n + 1)
    BY <2>1, <2>2, <2>4
  <2>6. x \in d64'.result
    BY <2>2, <2>3
  <2> QED BY <2>1, <2>3, <2>5, <2>6 DEF Misfit, Reading
<1>2. CASE ~Reading(d64)
  BY <1>2 DEF Misfit, Read64, Reading
<1> QED BY <1>1, <1>2

\* What the 32-bit decoder refuses with this byte is a misfit.
LEMMA RefusedMisfit ==
    ASSUME VarInv, ReachInv, NEW b \in Byte, Read32(b), Read64(b),
           Reading(d32), d32'.st = "overflow", Reading(d64), Fits(b, d64.n)
    PROVE  Misfit'
<1> DEFINE n == d64.n
<1>1. /\ n \in Nat /\ n <= 9 /\ d64'.n = n + 1
      /\ d32.n = n /\ d32.result = d64.result \cap 0..31
  BY DEF Read64, TookOne, VarInv, IsReader, InStep, Reading
<1>2. /\ Reading(d64') => 7 \in b
      /\ \A x : x \in d64'.result <=>
           x \in d64.result \/ \E c \in 0..6 : c \in b /\ x = c + 7 * n
  BY DEF Read64, Reading
<1>3. \A x \in d64.result : x \in Nat /\ x < 7 * n
  BY DEF ReachInv
<1>4. b \subseteq 0..7 /\ (n = 9 => b \cap 1..7 = {})
  BY DEF Byte, Fits
<1>5. \/ n = 4 /\ b \cap 4..6 # {} /\ ~(3..6 \subseteq b)
      \/ n >= 5 /\ ~ValidExtension(d32, b)
  <2>1. IsReader(d32) /\ d32.n <= 9 /\ pb_decode_varint32(d32, b).st = "overflow"
    BY <1>1 DEF VarInv, Read32
  <2> QED BY <1>1, <2>1, Overflow32
<1> HIDE DEF n
<1>6. CASE n = 4 /\ b \cap 4..6 # {} /\ ~(3..6 \subseteq b)
  <2>1. PICK c \in 4..6 : c \in b
    BY <1>6
  <2>2. PICK e \in 3..6 : e \notin b
    BY <1>6
  <2>3. c + 28 \in d64'.result /\ c + 28 >= 32
    BY <1>2, <1>6, <2>1
  <2>4. e + 28 \in 31..63 /\ e + 28 < 7 * (n + 1)
    BY <1>6, <2>2
  <2>5. e + 28 \notin d64'.result
    BY <1>2, <1>3, <1>6, <2>2
  <2> QED BY <1>1, <2>3, <2>4, <2>5 DEF Misfit
<1>7. CASE n >= 5 /\ ~ValidExtension(d32, b)
  <2>1. /\ Low7(b) # {}
        /\ ~(31 \in d32.result /\ b = SignExtension(7 * n))
    BY <1>1, <1>7 DEF ValidExtension, Bitpos
  <2>2. PICK c \in 0..6 : c \in b
    BY <2>1 DEF Low7
  <2>3. c + 7 * n \in d64'.result /\ c + 7 * n >= 32
    BY <1>1, <1>2, <1>7, <2>2
  <2>4. CASE 31 \notin d32.result
    <3>1. 31 \notin d64.result
      BY <1>1, <2>4
    <3>2. 31 \notin d64'.result /\ 31 < 7 * (n + 1)
      BY <1>1, <1>2, <1>7, <3>1
    <3> QED BY <1>1, <2>3, <3>2 DEF Misfit
  <2>5. CASE b # SignExtension(7 * n)
    <3>1. n # 9
      <4> SUFFICES ASSUME n = 9 PROVE FALSE
        OBVIOUS
      <4>1. SignExtension(7 * n) = {0}
        BY DEF SignExtension
      <4>2. \A x : x \in b => x = 0
        BY <1>4
      <4>3. b = {0}
        BY <2>2, <4>2
      <4> QED BY <2>5, <4>1, <4>3
    <3>2. SignExtension(7 * n) = 0..7
      BY <1>1, <3>1 DEF SignExtension
    <3>3. PICK e \in 0..7 : e \notin b
      BY <1>4, <2>5, <3>2
    <3>4. CASE e < 7
      <4>1. e + 7 * n \in 31..63 /\ e + 7 * n < 7 * (n + 1)
        BY <1>1, <1>7, <3>1, <3>4
      <4>2. e + 7 * n \notin d64.result
        BY <1>1, <1>3, <3>4
      <4>3. e + 7 * n \notin d64'.result
        BY <1>1, <1>2, <3>3, <3>4, <4>2
      <4> QED BY <1>1, <2>3, <4>1, <4>3 DEF Misfit
    <3>5. CASE e = 7
      <4>1. 63 \notin d64'.result
        BY <1>1, <1>2, <1>3, <3>1
      <4>2. ~Reading(d64')
        BY <1>2, <3>3, <3>5
      <4> QED BY <2>3, <4>1, <4>2 DEF Misfit, Reading
    <3> QED BY <3>4, <3>5
  <2> QED BY <2>1, <2>4, <2>5
<1> QED BY <1>5, <1>6, <1>7

LEMMA ReadKeepsFit ==
    ASSUME VarInv, ReachInv, FitInv, NEW b \in Byte, ReadByte(b)
    PROVE  FitInv'
<1>1. Read32(b) /\ Read64(b)
  BY ReadByteReads
<1>2. ASSUME d32'.st = "overflow", d64'.st \in {"reading", "ok"}
      PROVE  Misfit'
  <2>1. d64.st \in {"reading", "ok"}
    BY <1>1, <1>2 DEF Read64, Reading
  <2>2. CASE d32.st = "overflow"
    BY <1>1, <1>2, <2>1, <2>2, MisfitStays DEF FitInv
  <2>3. CASE d32.st # "overflow"
    <3>1. Reading(d32)
      BY <1>1, <1>2, <2>3 DEF Read32
    <3>2. Reading(d64)
      BY <2>1, <3>1 DEF VarInv, InStep, Reading
    <3>3. Fits(b, d64.n)
      BY <1>1, <1>2, <3>2 DEF Read64
    <3> QED BY <1>1, <1>2, <3>1, <3>2, <3>3, RefusedMisfit
  <2> QED BY <2>2, <2>3
<1>3. ASSUME d32'.st = "end-of-stream"
      PROVE  d64'.st \in {"end-of-stream", "overflow"}
  <2>1. d32.st = "end-of-stream"
    <3>1. CASE Reading(d32)
      <4>1. IsReader(d32) /\ d32.n <= 10 /\ d32' = pb_decode_varint32(d32, b)
        BY <1>1, <3>1 DEF VarInv, Read32
      <4>2. d32' = Ends(d32, "overflow") \/ \E bits : d32' = Takes(d32, bits, b)
        BY <4>1, Decode32
      <4>3. d32'.st \in {"overflow", "reading", "ok"}
        BY <4>1, <4>2, EndsReader, TakesReader
      <4> QED BY <1>3, <4>3
    <3>2. CASE ~Reading(d32)
      BY <1>1, <1>3, <3>2 DEF Read32
    <3> QED BY <3>1, <3>2
  <2>2. d64.st \in {"end-of-stream", "overflow"}
    BY <2>1 DEF FitInv
  <2> QED BY <1>1, <2>2 DEF Read64, Reading
<1> QED BY <1>2, <1>3 DEF FitInv, Misfit, Reading

\* The decoder takes the next group of what the encoder wrote.
LEMMA ReadKeepsOwn ==
    ASSUME VarInv, CountInv, OwnInv, field \in Field,
           ReadByte(pb_enc_varint(field)[used + 1])
    PROVE  OwnInv'
<1> DEFINE s == pb_enc_varint(field)
           v == Sent(field)
           u == used
           b == s[u + 1]
<1>1. v \in Word /\ Encodes(s, v, 0)
  BY FieldEncodes
<1>2. Read64(b) /\ field' = field /\ left' = left - 1 /\ u' = u + 1 /\ left > 0
  BY ReadByteReads DEF ReadByte
<1>3. left \in Nat /\ u \in Nat
  BY DEF CountInv
<1>4. CASE field = NoField
  BY <1>2, <1>4 DEF OwnInv
<1>5. CASE field # NoField
  <2> DEFINE len == Len(s)
  <2>1. /\ left + u = len /\ u < len /\ len \in Nat /\ len <= 10
    BY <1>1, <1>2, <1>3, <1>5 DEF OwnInv, Encodes
  <2>2. Reading(d64) /\ d64.n = u /\ \A x : x \in d64.result <=> x \in v /\ x < 7 * u
    <3>1. Reading(d64) /\ d64.result = {x \in v : x < 7 * u}
      BY <1>5, <2>1 DEF OwnInv, Reading
    <3>2. d64.n = u
      BY <3>1 DEF CountInv
    <3> QED BY <3>1, <3>2
  <2>3. /\ \A c \in 0..6 : c \in b <=> 7 * u + c \in v
        /\ b \subseteq 0..7
        /\ 7 \in b <=> u + 1 < len
    <3> DEFINE i == u + 1
    <3>1. i \in 1..len /\ 0 + i - 1 = u
      BY <1>3, <2>1
    <3>2. s[i] = Group(v, 0 + i - 1) \cup (IF i < len THEN {7} ELSE {})
      BY <1>1, <3>1 DEF Encodes
    <3>3. s[i] = Group(v, u) \cup (IF i < len THEN {7} ELSE {})
      BY <3>1, <3>2
    <3> HIDE DEF i, s, v, len
    <3>4. \A c : c \in Group(v, u) <=> c \in 0..6 /\ 7 * u + c \in v
      BY DEF Group
    <3>5. \A c : c \in s[i] <=> c \in Group(v, u) \/ (c = 7 /\ i < len)
      BY <3>3
    <3>6. 7 \notin 0..6
      OBVIOUS
    <3> QED BY <3>4, <3>5, <3>6 DEF i
  <2>4. v \subseteq 0..63 /\ \A x \in v : x < 7 * len
    BY <1>1 DEF Word, Encodes
  <2> HIDE DEF s, v, b, len
  <2>5. Fits(b, u)
    <3> SUFFICES ASSUME u = 9, NEW c \in 1..7, c \in b PROVE FALSE
      BY DEF Fits
    <3>1. c # 7
      BY <2>1, <2>3
    <3>2. 7 * u + c \in v
      BY <2>3, <3>1
    <3> QED BY <2>4, <3>2
  <2>6. /\ d64'.st = IF 7 \in b THEN "reading" ELSE "ok"
        /\ \A x : x \in d64'.result <=>
             x \in d64.result \/ \E c \in 0..6 : c \in b /\ x = c + 7 * u
        /\ d64'.n = u + 1
    BY <1>2, <2>2, <2>5 DEF Read64, TookOne
  <2>7. \A x : x \in d64'.result <=> x \in v /\ x < 7 * (u + 1)
    <3>1. ASSUME NEW x, x \in d64.result PROVE x \in v /\ x < 7 * (u + 1)
      <4>1. x \in v /\ x < 7 * u
        BY <2>2, <3>1
      <4>2. x \in Nat
        BY <2>4, <4>1
      <4> QED BY <1>3, <4>1, <4>2
    <3>2. ASSUME NEW x, NEW c \in 0..6, c \in b, x = c + 7 * u
          PROVE  x \in v /\ x < 7 * (u + 1)
      <4>1. x = 7 * u + c /\ x < 7 * (u + 1)
        BY <1>3, <3>2
      <4> QED BY <2>3, <3>2, <4>1
    <3>3. ASSUME NEW x, x \in v, x < 7 * (u + 1), ~(x < 7 * u)
          PROVE  \E c \in 0..6 : c \in b /\ x = c + 7 * u
      <4> DEFINE c == x - 7 * u
      <4>1. c \in 0..6 /\ x = c + 7 * u /\ 7 * u + c = x
        BY <1>3, <2>4, <3>3
      <4> HIDE DEF c
      <4> QED BY <2>3, <3>3, <4>1
    <3> QED BY <2>2, <2>6, <3>1, <3>2, <3>3
  <2>8. /\ left' + u' = len
        /\ d64'.st \in {"reading", "ok"}
        /\ Reading(d64') => u' < len /\ d64'.result = {x \in v : x < 7 * u'}
    <3>1. d64'.result = {x \in v : x < 7 * (u + 1)}
      BY <2>7
    <3>2. Reading(d64') => u + 1 < len
      BY <2>3, <2>6 DEF Reading
    <3> QED BY <1>2, <1>3, <2>1, <2>6, <3>1, <3>2
  <2>9. ASSUME d64'.st = "ok"
        PROVE  u' = len /\ d64'.n = u' /\ d64'.result = v
    <3>1. 7 \notin b
      BY <2>6, <2>9
    <3>2. u + 1 = len
      BY <1>3, <2>1, <2>3, <3>1
    <3>3. \A x : x \in d64'.result <=> x \in v
      BY <2>4, <2>7, <3>2
    <3> QED BY <1>2, <2>6, <3>2, <3>3
  <2> QED BY <1>2, <2>8, <2>9 DEF OwnInv, s, v, len, Reading
<1> QED BY <1>4, <1>5

LEMMA ReadKeepsSource ==
    ASSUME SourceInv, CountInv, NEW b, ReadByte(b)
    PROVE  SourceInv'
<1>1. /\ field' = field /\ left' = left - 1 /\ used' = used + 1
      /\ left \in Nat /\ used \in Nat
  BY DEF ReadByte, CountInv
<1>2. used' + left' = used + left
  BY <1>1
<1> QED BY <1>1, <1>2 DEF SourceInv

LEMMA ForeignBytes ==
    ASSUME SourceInv, CountInv, field = NoField, left > 0,
           NEW b \in BytesAt[used + 1]
    PROVE  b \in Byte
<1>1. used + left <= Len(BytesAt) /\ left \in Nat /\ used \in Nat
  BY DEF SourceInv, CountInv
<1>2. BytesAt \in Seq(SUBSET Byte)
  BY VarintAssumption
<1>3. used + 1 \in 1..Len(BytesAt)
  BY <1>1, <1>2
<1>4. BytesAt[used + 1] \in SUBSET Byte
  BY <1>2, <1>3
<1> QED BY <1>4

LEMMA OwnBytes ==
    ASSUME CountInv, OwnInv, field \in Field, field # NoField, left > 0
    PROVE  pb_enc_varint(field)[used + 1] \in Byte
<1> DEFINE s == pb_enc_varint(field)
<1>1. s \in Seq(Byte) /\ Len(s) \in Nat
  BY FieldEncodes DEF Encodes
<1>2. left + used = Len(s) /\ left \in Nat /\ used \in Nat
  BY DEF OwnInv, CountInv
<1> HIDE DEF s
<1>3. used + 1 \in 1..Len(s)
  BY <1>1, <1>2
<1>4. s[used + 1] \in Byte
  BY <1>1, <1>3
<1> QED BY <1>4 DEF s

LEMMA EndKeepsAll == VarIInv /\ EndOfStream => VarIInv'
<1> SUFFICES ASSUME VarIInv, EndOfStream PROVE VarIInv'
  OBVIOUS
<1> DEFINE Ended(r, q) ==
             q.st = "end-of-stream" /\ q.n = r.n /\ q.result = r.result
<1>1. VarInv /\ ReachInv /\ CountInv /\ FitInv /\ SourceInv /\ OwnInv
  BY DEF VarIInv
<1>2. ASSUME NEW r, IsReader(r)
      PROVE  Ended(r, [r EXCEPT !.st = "end-of-stream"])
  BY <1>2 DEF IsReader
<1>3. IsReader(d32) /\ IsReader(d64) /\ IsReader(skip)
  BY <1>1 DEF VarInv
<1>4. /\ IF Reading(d32) THEN Ended(d32, d32') ELSE d32' = d32
      /\ IF Reading(d64) THEN Ended(d64, d64') ELSE d64' = d64
      /\ IF Reading(skip) THEN Ended(skip, skip') ELSE skip' = skip
  BY <1>2, <1>3 DEF EndOfStream
<1>5. UNCHANGED <<field, left, used>> /\ left = 0
  BY DEF EndOfStream
<1>6. ~Reading(d32') /\ ~Reading(d64') /\ ~Reading(skip')
  BY <1>4 DEF Reading
<1>7. VarInv'
  BY <1>1, EndOfStreamKeeps
<1>8. ReachInv'
  BY <1>1, <1>4, <1>6 DEF ReachInv, Reading
<1>9. CountInv'
  BY <1>1, <1>4, <1>5, <1>6 DEF CountInv, Reading
<1>10. FitInv'
  <2>1. ASSUME d32'.st = "overflow", d64'.st \in {"reading", "ok"} PROVE Misfit'
    <3>1. d32' = d32 /\ d64' = d64
      BY <1>4, <2>1
    <3> QED BY <1>1, <2>1, <3>1 DEF FitInv, Misfit, Reading
  <2>2. ASSUME d32'.st = "end-of-stream"
        PROVE  d64'.st \in {"end-of-stream", "overflow"}
    <3>1. CASE Reading(d32)
      <4>1. d64.st # "ok"
        BY <1>1, <3>1 DEF VarInv, InStep, Reading
      <4>2. d64.st \in Status
        BY <1>3 DEF IsReader
      <4> QED BY <1>4, <4>1, <4>2 DEF Reading, Status
    <3>2. CASE ~Reading(d32)
      BY <1>1, <1>4, <2>2, <3>2 DEF FitInv, Reading
    <3> QED BY <3>1, <3>2
  <2> QED BY <2>1, <2>2 DEF FitInv, Misfit, Reading
<1>11. SourceInv'
  BY <1>1, <1>5 DEF SourceInv
<1>12. OwnInv'
  <2> SUFFICES ASSUME field # NoField
               PROVE  OwnInv'
    BY <1>5 DEF OwnInv
  <2> DEFINE len == Len(pb_enc_varint(field))
  <2>1. left + used = len /\ used \in Nat
    BY <1>1 DEF OwnInv, CountInv
  <2>2. ~Reading(d64)
    <3> HIDE DEF len
    <3>1. ~(used < len)
      BY <1>5, <2>1
    <3> QED BY <1>1, <3>1 DEF OwnInv, len
  <2>3. d64' = d64
    BY <1>4, <2>2
  <2> QED BY <1>1, <1>5, <2>3 DEF OwnInv, Reading
<1> QED BY <1>7, <1>8, <1>9, <1>10, <1>11, <1>12 DEF VarIInv

LEMMA ReadKeepsAll ==
    ASSUME VarIInv, NEW b \in Byte, ReadByte(b), OwnInv'
    PROVE  VarIInv'
<1>1. VarInv /\ ReachInv /\ CountInv /\ FitInv /\ SourceInv
  BY DEF VarIInv
<1> QED BY <1>1, ReadByteKeeps, ReadKeepsReach, ReadKeepsCount, ReadKeepsFit,
           ReadKeepsSource DEF VarIInv

LEMMA VarIInvNext == VarIInv /\ [Next]_vars => VarIInv'
<1> SUFFICES ASSUME VarIInv, [Next]_vars PROVE VarIInv'
  OBVIOUS
<1>1. CASE ReadForeign
  <2>1. PICK b \in BytesAt[used + 1] : ReadByte(b)
    BY <1>1 DEF ReadForeign
  <2>2. field = NoField /\ left > 0
    BY <1>1 DEF ReadForeign
  <2>3. b \in Byte
    BY <2>2, ForeignBytes DEF VarIInv
  <2>4. OwnInv'
    BY <2>1, <2>2 DEF OwnInv, ReadByte
  <2> QED BY <2>1, <2>3, <2>4, ReadKeepsAll
<1>2. CASE ReadOwn
  <2> DEFINE b == pb_enc_varint(field)[used + 1]
  <2>1. field # NoField /\ left > 0 /\ ReadByte(b)
    BY <1>2 DEF ReadOwn
  <2>2. field \in Field
    BY <2>1, VarintAssumption DEF VarIInv, SourceInv
  <2>3. b \in Byte
    BY <2>1, <2>2, OwnBytes DEF VarIInv
  <2>4. OwnInv'
    BY <2>1, <2>2, ReadKeepsOwn DEF VarIInv
  <2> HIDE DEF b
  <2> QED BY <2>1, <2>3, <2>4, ReadKeepsAll
<1>3. CASE EndOfStream
  BY <1>3, EndKeepsAll
<1>4. CASE UNCHANGED vars
  BY <1>4 DEF VarIInv, VarInv, IsReader, InStep, ReachInv, CountInv, FitInv, Misfit,
              SourceInv, OwnInv, Reading, vars
<1> QED BY <1>1, <1>2, <1>3, <1>4 DEF Next

LEMMA VarIInvInit == Init => VarIInv
<1> SUFFICES ASSUME Init PROVE VarIInv
  OBVIOUS
<1>1. d32 = Fresh /\ d64 = Fresh /\ skip = Fresh /\ used = 0
  BY DEF Init
<1>2. Fresh.n = 0 /\ Fresh.st = "reading" /\ Fresh.result = {}
  BY DEF Fresh
<1>3. VarInv
  BY VarInvInit
<1>4. ReachInv
  BY <1>1, <1>2 DEF ReachInv, Reading
<1>5. FitInv
  BY <1>1, <1>2 DEF FitInv
<1>6. CASE field = NoField /\ left \in 0..Len(BytesAt)
  <2>1. Len(BytesAt) \in Nat
    BY VarintAssumption
  <2>2. CountInv
    BY <1>1, <1>2, <1>6, <2>1 DEF CountInv, Reading
  <2>3. SourceInv /\ OwnInv
    BY <1>1, <1>6, <2>1 DEF SourceInv, OwnInv
  <2> QED BY <1>3, <1>4, <1>5, <2>2, <2>3 DEF VarIInv
<1>7. CASE field \in Fields /\ left = Len(pb_enc_varint(field))
  <2> DEFINE s == pb_enc_varint(field)
             v == Sent(field)
  <2>1. field \in Field /\ field # NoField
    BY <1>7, VarintAssumption
  <2>2. Len(s) \in Nat /\ Len(s) >= 1
    BY <2>1, FieldEncodes DEF Encodes
  <2>3. v \subseteq 0..63
    BY <2>1, FieldEncodes DEF Word
  <2>4. CountInv
    BY <1>1, <1>2, <1>7, <2>2 DEF CountInv, Reading
  <2>5. SourceInv
    BY <1>7, <2>1 DEF SourceInv
  <2> HIDE DEF s, v
  <2>6. {x \in v : x < 7 * used} = {}
    <3>1. ASSUME NEW x \in v PROVE ~(x < 7 * used)
      BY <1>1, <2>3
    <3> QED BY <3>1
  <2>7. left + used = Len(s) /\ used < Len(s) /\ left = Len(s)
    BY <1>1, <1>7, <2>2 DEF s
  <2>8. OwnInv
    BY <1>1, <1>2, <2>6, <2>7 DEF OwnInv, Reading, s, v
  <2> QED BY <1>3, <1>4, <1>5, <2>4, <2>5, <2>8 DEF VarIInv
<1> QED BY <1>6, <1>7 DEF Init

\* All of the invariant: readers in step, results in range, misfits, the bytes of
\* the encoder.
THEOREM VarIInvHolds == Spec => []VarIInv
BY VarIInvInit, VarIInvNext, PTL DEF Spec

\* For all bytes: the results keep to their 32 and 64 bits and every reader that
\* reads is at the same byte (pb_decode.c:171-262).
THEOREM VarintTypeCorrect == Spec => []TypeOK
<1>1. VarIInv => TypeOK
  <2> SUFFICES ASSUME VarIInv PROVE TypeOK
    OBVIOUS
  <2>1. ASSUME NEW r, IsReader(r), r.result \subseteq 0..63 PROVE r \in Reader
    BY <2>1 DEF IsReader, Reader, Word
  <2>2. /\ IsReader(d32) /\ IsReader(d64) /\ IsReader(skip)
        /\ d32.result \subseteq 0..63 /\ d64.result \subseteq 0..63
        /\ skip.result \subseteq 0..63
    BY DEF VarIInv, VarInv, ReachInv
  <2>3. d32 \in Reader /\ d64 \in Reader /\ skip \in Reader
    BY <2>1, <2>2
  <2> QED BY <2>3 DEF TypeOK, VarIInv, CountInv, SourceInv
<1> QED BY <1>1, VarIInvHolds, PTL

\* For all bytes: what fits 32 bits, sign extended or not, and in whatever way it
\* is padded, is accepted by the 32-bit decoder (pb_decode.c:196-221).
THEOREM AcceptsEveryNumberThatFits == Spec => []AcceptsWhatFits
<1>1. VarIInv => AcceptsWhatFits
  <2> SUFFICES ASSUME VarIInv, d64.st = "ok",
                      d64.result \subseteq 0..31 \/ d64.result = SignExtend(d64.result)
               PROVE  d32.st = "ok"
    BY DEF AcceptsWhatFits
  <2>1. d32.st \in Status
    BY DEF VarIInv, VarInv, IsReader
  <2>2. d32.st # "reading"
    BY DEF VarIInv, VarInv, InStep, Reading
  <2>3. d32.st # "end-of-stream"
    BY DEF VarIInv, FitInv
  <2>4. d32.st # "overflow"
    <3> SUFFICES ASSUME d32.st = "overflow" PROVE FALSE
      OBVIOUS
    <3>1. Misfit
      BY DEF VarIInv, FitInv
    <3>2. PICK x \in d64.result : x >= 32
      BY <3>1 DEF Misfit
    <3>3. PICK y \in 31..63 : y \notin d64.result
      BY <3>1 DEF Misfit
    <3>4. d64.result = SignExtend(d64.result)
      BY <3>2
    <3>5. 31 \in d64.result
      BY <3>2, <3>4 DEF SignExtend
    <3>6. 32..63 \subseteq d64.result
      BY <3>4, <3>5 DEF SignExtend
    <3> QED BY <3>3, <3>5, <3>6
  <2> QED BY <2>1, <2>2, <2>3, <2>4 DEF Status
<1> QED BY <1>1, VarIInvHolds, PTL

\* For every field: an integer comes back as it was written, and no byte of it is
\* left (pb_encode.c:573-623, pb_decode.c:224-250).
THEOREM FieldsComeBack == Spec => []FieldRoundTrip
<1>1. VarIInv => FieldRoundTrip
  <2> SUFFICES ASSUME VarIInv, field # NoField, ~AnyReads
               PROVE  /\ d64.st = "ok" /\ left = 0 /\ d64.n = used /\ used <= 10
                      /\ pb_dec_varint(field, d64.result)
                           = [ok |-> TRUE, content |-> field.content]
    BY DEF FieldRoundTrip
  <2> DEFINE s == pb_enc_varint(field)
             v == Sent(field)
  <2>1. field \in Field
    BY VarintAssumption DEF VarIInv, SourceInv
  <2>2. d64.st = "ok"
    BY DEF VarIInv, OwnInv, AnyReads, Reading
  <2>3. left + used = Len(s) /\ used = Len(s) /\ d64.n = used /\ d64.result = v
    BY <2>2 DEF VarIInv, OwnInv
  <2>4. left \in Nat /\ used \in Nat
    BY DEF VarIInv, CountInv
  <2>5. Len(s) \in Nat /\ Len(s) <= 10
    BY <2>1, FieldEncodes DEF Encodes
  <2>6. left = 0 /\ used <= 10
    BY <2>3, <2>4, <2>5
  <2>7. pb_dec_varint(field, v) = [ok |-> TRUE, content |-> field.content]
    <3>1. Cut(field, v) = field.content
      BY <2>1 DEF Cut, Sent, SignExtend, Field
    <3>2. field.ltype = "VARINT" \/ v = field.content
      BY <2>1 DEF Sent, Field
    <3> QED BY <3>1, <3>2 DEF pb_dec_varint
  <2> QED BY <2>2, <2>3, <2>6, <2>7
<1> QED BY <1>1, VarIInvHolds, PTL
=============================================================================
