-------------------------- MODULE RoundTripProofs --------------------------
(***************************************************************************)
(* Proofs about a message on its way: PbEncode, and PbDecode of what it    *)
(* has written, for every message and every size of the buffer.            *)
(*                                                                         *)
(* The encoder first.  Nothing is written beyond the buffer, bytes_written *)
(* counts all that was written, however the encoder ends, and the types    *)
(* are right.  These do not depend on what a message takes.  That the      *)
(* sizing pass finds what the second pass writes, and that                 *)
(* MQTTMessage_size bytes are enough, does: it rests on the schemas, field *)
(* by field.                                                               *)
(*                                                                         *)
(* Then the round trip.  Every field that is written has a place in the    *)
(* buffer that depends on the message only; the encoder has written the    *)
(* fields before its pointer, each at its place, and the decoder has read  *)
(* the fields before its own.                                              *)
(***************************************************************************)
EXTENDS RoundTrip, PbDecodeProofs, SequenceTheorems, WellFoundedInduction, TLAPS

(***************************************************************************)
(* The inductive invariant.  A frame begins where its parent has got to,   *)
(* and ends before its parent does, so the innermost one is within all.    *)
(***************************************************************************)

\* The shape of a frame; its iterator may be anything.
IsOStream(f) ==
    /\ f = [iter |-> f.iter, start |-> f.start, max_size |-> f.max_size,
            bytes_written |-> f.bytes_written, done |-> f.done]
    /\ f.start \in Nat /\ f.max_size \in Nat /\ f.bytes_written \in Nat
    /\ f.bytes_written <= f.max_size

\* A stream within the stream it was made of.
Within(f, sub) ==
    /\ sub.start = f.start + f.bytes_written
    /\ sub.start + sub.max_size <= f.start + f.max_size

\* The frames are a sequence of at least one, each within the one before.
Nested(s) ==
    /\ \E F : s \in Seq(F)
    /\ Len(s) >= 1
    /\ \A i \in 1..Len(s) : IsOStream(s[i])
    /\ \A i \in 1..(Len(s) - 1) : Within(s[i], s[i + 1])
    /\ \A i \in 1..Len(s) : s[i].start + s[i].max_size <= bufsize
    /\ s[1].start = 0 /\ s[1].max_size = bufsize

\* The write pointer is the end of the innermost stream.
Ends(s, d) == d = s[Len(s)].start + s[Len(s)].bytes_written

EncInv ==
    /\ bufsize \in Nat /\ dest \in Nat
    /\ Nested(frames)
    /\ Ends(frames, dest)
    /\ enc \in {"ok", "failed"} => Len(frames) = 1

(***************************************************************************)
(* Items and frames.                                                       *)
(***************************************************************************)

\* Whatever a tag, a length or a value is, it takes at least one byte.
LEMMA ItemSizes ==
    /\ \A it : TagOf(it).n \in Nat
    /\ \A s, it : LenOf(s, it).n \in Nat
    /\ \A s, it : ValueOf(s, it).n \in Nat
<1>1. \A n : VarintBytes(n) \in Nat
  BY DEF VarintBytes
<1>2. ASSUME NEW type, NEW v PROVE ValueBytes(type, v) \in Nat
  BY DEF ValueBytes
<1>3. \A it : TagOf(it).n \in Nat
  BY <1>1 DEF TagOf, TagItem
<1>4. \A s, it : LenOf(s, it).n \in Nat
  BY <1>1 DEF LenOf, LenItem
<1>5. \A s, it : ValueOf(s, it).n \in Nat
  BY <1>2 DEF ValueOf, ValItem
<1> QED BY <1>3, <1>4, <1>5

\* What can be read of a sequence of frames without its last one.
LEMMA OuterFrames ==
    ASSUME NEW F, NEW s \in Seq(F), Len(s) >= 1
    PROVE  /\ SubSeq(s, 1, Len(s) - 1) \in Seq(F)
           /\ Len(SubSeq(s, 1, Len(s) - 1)) = Len(s) - 1
           /\ \A i \in 1..(Len(s) - 1) : SubSeq(s, 1, Len(s) - 1)[i] = s[i]
<1>1. Len(s) \in Nat
  BY LenProperties
<1> DEFINE n == Len(s) - 1
<1>2. /\ 1 \in Int /\ n \in Int /\ n >= 0
      /\ \A i \in 1..n : i \in 1..Len(s) /\ s[i] \in F
  BY <1>1, ElementOfSeq
<1> HIDE DEF n
<1>3. /\ SubSeq(s, 1, n) \in Seq(F)
      /\ Len(SubSeq(s, 1, n)) = IF 1 <= n THEN n - 1 + 1 ELSE 0
      /\ \A i \in 1..(n - 1 + 1) : SubSeq(s, 1, n)[i] = s[1 + i - 1]
  BY <1>2, SubSeqProperties
<1>4. Len(SubSeq(s, 1, n)) = n
  BY <1>2, <1>3
<1>5. ASSUME NEW i \in 1..n PROVE SubSeq(s, 1, n)[i] = s[i]
  <2>1. i \in 1..(n - 1 + 1) /\ 1 + i - 1 = i
    BY <1>2
  <2> QED BY <1>3, <2>1
<1> QED BY <1>3, <1>4, <1>5 DEF n

\* The frames after the last one has been replaced.
LEMMA ReplaceLast ==
    ASSUME NEW s, Nested(s), NEW f,
           IsOStream(f),
           f.start = s[Len(s)].start, f.max_size = s[Len(s)].max_size
    PROVE  LET t == Append(SubSeq(s, 1, Len(s) - 1), f)
           IN  Nested(t) /\ Len(t) = Len(s) /\ t[Len(t)] = f
<1> DEFINE below == SubSeq(s, 1, Len(s) - 1)
           t == Append(below, f)
<1>1. PICK F : s \in Seq(F)
  BY DEF Nested
<1>2. Len(s) \in Nat /\ Len(s) >= 1
  BY <1>1, LenProperties DEF Nested
<1>3. /\ below \in Seq(F) /\ Len(below) = Len(s) - 1
      /\ \A i \in 1..(Len(s) - 1) : below[i] = s[i]
  BY <1>1, <1>2, OuterFrames
<1>4. below \in Seq(F \cup {f})
  BY <1>3, SeqMonotonic
<1>5. /\ t \in Seq(F \cup {f}) /\ Len(t) = Len(s)
      /\ \A i \in 1..(Len(s) - 1) : t[i] = s[i]
      /\ t[Len(s)] = f
  BY <1>2, <1>3, <1>4, AppendProperties
<1> HIDE DEF t, below
<1>6. \A i \in 1..Len(t) : IsOStream(t[i])
  BY <1>2, <1>5 DEF Nested
<1>7. \A i \in 1..(Len(t) - 1) : Within(t[i], t[i + 1])
  <2> SUFFICES ASSUME NEW i \in 1..(Len(s) - 1) PROVE Within(t[i], t[i + 1])
    BY <1>5
  <2>1. Within(s[i], s[i + 1]) /\ t[i] = s[i]
    BY <1>5 DEF Nested
  <2>2. CASE i + 1 = Len(s)
    <3>1. t[i + 1] = f
      BY <1>5, <2>2
    <3>2. Within(s[i], f)
      BY <2>1, <2>2 DEF Within
    <3> QED BY <2>1, <3>1, <3>2
  <2>3. CASE i + 1 # Len(s)
    <3>1. i + 1 \in 1..(Len(s) - 1)
      BY <1>2, <2>3
    <3> QED BY <1>5, <2>1, <3>1
  <2> QED BY <2>2, <2>3
<1>8. t[1].start = 0 /\ t[1].max_size = bufsize
  <2>1. CASE Len(s) = 1
    BY <1>5, <2>1 DEF Nested
  <2>2. CASE Len(s) # 1
    <3> DEFINE n == Len(s)
    <3>1. n \in Nat /\ n >= 1 /\ n # 1
      BY <1>2, <2>2
    <3> HIDE DEF n
    <3>2. 1 \in 1..(n - 1)
      BY <3>1
    <3> QED BY <1>5, <3>2 DEF Nested, n
  <2> QED BY <2>1, <2>2
<1>9. ASSUME NEW i \in 1..Len(t) PROVE t[i].start + t[i].max_size <= bufsize
  <2>1. CASE i = Len(s)
    BY <1>2, <1>5, <2>1 DEF Nested
  <2>2. CASE i # Len(s)
    <3>1. i \in 1..(Len(s) - 1) /\ i \in 1..Len(s)
      BY <1>2, <1>5, <2>2
    <3> QED BY <1>5, <3>1 DEF Nested
  <2> QED BY <2>1, <2>2
<1>10. Nested(t)
  BY <1>2, <1>5, <1>6, <1>7, <1>8, <1>9 DEF Nested
<1> QED BY <1>5, <1>10 DEF t, below

\* The frames after another one has been put on top of the last.
LEMMA PushFrame ==
    ASSUME NEW s, Nested(s), NEW f, NEW sub,
           bufsize \in Nat, IsOStream(f), IsOStream(sub), Within(f, sub),
           f.start = s[Len(s)].start, f.max_size = s[Len(s)].max_size
    PROVE  LET t == SubSeq(s, 1, Len(s) - 1) \o <<f, sub>>
           IN  Nested(t) /\ Len(t) = Len(s) + 1 /\ t[Len(t)] = sub
<1> DEFINE below == SubSeq(s, 1, Len(s) - 1)
           u == Append(below, f)
           t == below \o <<f, sub>>
<1>1. PICK F : s \in Seq(F)
  BY DEF Nested
<1>2. Len(s) \in Nat /\ Len(s) >= 1
  BY <1>1, LenProperties DEF Nested
<1>3. Nested(u) /\ Len(u) = Len(s) /\ u[Len(u)] = f
  BY ReplaceLast
<1> DEFINE G == F \cup {f, sub}
<1>4. below \in Seq(G) /\ Len(below) = Len(s) - 1
  BY <1>1, <1>2, OuterFrames, SeqMonotonic
<1>5. /\ u \in Seq(G)
      /\ \A i \in 1..(Len(s) - 1) : u[i] = below[i]
      /\ u[Len(s)] = f
  BY <1>2, <1>4, AppendProperties
<1>6. <<f, sub>> \in Seq(G) /\ Len(<<f, sub>>) = 2
      /\ <<f, sub>>[1] = f /\ <<f, sub>>[2] = sub
  OBVIOUS
<1>7. /\ t \in Seq(G)
      /\ Len(t) = Len(below) + Len(<<f, sub>>)
      /\ \A i \in 1..(Len(below) + Len(<<f, sub>>)) :
           t[i] = IF i <= Len(below) THEN below[i] ELSE <<f, sub>>[i - Len(below)]
  BY <1>4, <1>6, ConcatProperties
<1> HIDE DEF t, u, below, G
<1>8. /\ Len(t) = Len(s) + 1
      /\ \A i \in 1..Len(s) : t[i] = u[i]
      /\ t[Len(s) + 1] = sub
  <2>1. Len(t) = Len(s) + 1
    BY <1>2, <1>4, <1>6, <1>7
  <2>2. ASSUME NEW i \in 1..(Len(s) - 1) PROVE t[i] = u[i]
    BY <1>2, <1>4, <1>5, <1>6, <1>7
  <2>3. t[Len(s)] = f
    <3>1. Len(s) \in 1..(Len(below) + 2) /\ ~(Len(s) <= Len(below))
          /\ Len(s) - Len(below) = 1
      BY <1>2, <1>4
    <3> QED BY <1>6, <1>7, <3>1
  <2>4. t[Len(s) + 1] = sub
    <3>1. Len(s) + 1 \in 1..(Len(below) + 2) /\ ~(Len(s) + 1 <= Len(below))
          /\ Len(s) + 1 - Len(below) = 2
      BY <1>2, <1>4
    <3> QED BY <1>6, <1>7, <3>1
  <2> QED BY <1>2, <1>5, <2>1, <2>2, <2>3, <2>4
<1>9. Nested(t)
  <2>1. \A i \in 1..Len(t) : IsOStream(t[i])
    BY <1>2, <1>3, <1>8 DEF Nested
  <2>2. \A i \in 1..(Len(t) - 1) : Within(t[i], t[i + 1])
    <3> SUFFICES ASSUME NEW i \in 1..Len(s) PROVE Within(t[i], t[i + 1])
      BY <1>2, <1>8
    <3>1. CASE i = Len(s)
      BY <1>2, <1>3, <1>8, <3>1
    <3>2. CASE i # Len(s)
      <4>1. i \in 1..(Len(s) - 1) /\ i + 1 \in 1..Len(s)
        BY <1>2, <3>2
      <4> QED BY <1>3, <1>8, <4>1 DEF Nested
    <3> QED BY <3>1, <3>2
  <2>3. t[1].start = 0 /\ t[1].max_size = bufsize
    BY <1>2, <1>3, <1>8 DEF Nested
  <2>4. ASSUME NEW i \in 1..Len(t) PROVE t[i].start + t[i].max_size <= bufsize
    <3>1. CASE i = Len(s) + 1
      <4>1. t[i] = sub /\ IsOStream(f) /\ Within(f, sub) /\ bufsize \in Nat
        BY <1>8, <3>1
      <4>2. f.start + f.max_size <= bufsize
        BY <1>2 DEF Nested
      <4> QED BY <4>1, <4>2, SMTT(30) DEF IsOStream, Within
    <3>2. CASE i # Len(s) + 1
      <4>1. i \in 1..Len(s)
        BY <1>2, <1>8, <3>2
      <4> QED BY <1>3, <1>8, <4>1 DEF Nested
    <3> QED BY <3>1, <3>2
  <2> QED BY <1>2, <1>7, <1>8, <2>1, <2>2, <2>3, <2>4 DEF Nested
<1> QED BY <1>8, <1>9 DEF t, below

\* The frames without the last one: the parent of the stream that is through.
LEMMA PopFrame ==
    ASSUME NEW s, Nested(s), Len(s) > 1
    PROVE  LET t == SubSeq(s, 1, Len(s) - 1)
           IN  Nested(t) /\ Len(t) = Len(s) - 1 /\ t[Len(t)] = s[Len(s) - 1]
<1> DEFINE t == SubSeq(s, 1, Len(s) - 1)
<1>1. PICK F : s \in Seq(F)
  BY DEF Nested
<1>2. Len(s) \in Nat
  BY <1>1, LenProperties
<1>3. /\ t \in Seq(F) /\ Len(t) = Len(s) - 1
      /\ \A i \in 1..(Len(s) - 1) : t[i] = s[i]
  BY <1>1, <1>2, OuterFrames
<1> HIDE DEF t
<1>4. \A i \in 1..Len(t) : t[i] = s[i] /\ i \in 1..Len(s)
  BY <1>2, <1>3
<1>5. /\ \A i \in 1..Len(t) : IsOStream(t[i])
      /\ \A i \in 1..Len(t) : t[i].start + t[i].max_size <= bufsize
  BY <1>4 DEF Nested
<1>6. ASSUME NEW i \in 1..(Len(t) - 1) PROVE Within(t[i], t[i + 1])
  <2>1. i \in 1..Len(t) /\ i + 1 \in 1..Len(t) /\ i \in 1..(Len(s) - 1)
    BY <1>2, <1>3
  <2> QED BY <1>4, <2>1 DEF Nested
<1>7. 1 \in 1..Len(t) /\ Len(t) \in 1..Len(t) /\ Len(t) >= 1
  BY <1>2, <1>3
<1>8. Nested(t)
  BY <1>3, <1>4, <1>5, <1>6, <1>7 DEF Nested
<1> QED BY <1>3, <1>4, <1>7, <1>8 DEF t

\* The frames after a field of the last one has been replaced in place.
LEMMA UpdateLast ==
    ASSUME NEW s, Nested(s), NEW f,
           IsOStream(f),
           f.start = s[Len(s)].start, f.max_size = s[Len(s)].max_size
    PROVE  /\ Nested([s EXCEPT ![Len(s)] = f])
           /\ Len([s EXCEPT ![Len(s)] = f]) = Len(s)
           /\ [s EXCEPT ![Len(s)] = f][Len(s)] = f
<1> DEFINE below == SubSeq(s, 1, Len(s) - 1)
           t == [s EXCEPT ![Len(s)] = f]
           u == Append(below, f)
<1>1. PICK F : s \in Seq(F)
  BY DEF Nested
<1> DEFINE G == F \cup {f}
<1>2. s \in Seq(G) /\ f \in G
  BY <1>1, SeqMonotonic
<1>3. Len(s) \in Nat /\ Len(s) >= 1 /\ Len(s) \in 1..Len(s)
  BY <1>1, LenProperties DEF Nested
<1>4. /\ below \in Seq(G) /\ Len(below) = Len(s) - 1
      /\ \A i \in 1..(Len(s) - 1) : below[i] = s[i]
  BY <1>2, <1>3, OuterFrames
<1>5. /\ u \in Seq(G) /\ Len(u) = Len(s)
      /\ \A i \in 1..(Len(s) - 1) : u[i] = s[i]
      /\ u[Len(s)] = f
  BY <1>2, <1>3, <1>4, AppendProperties
<1>6. /\ t \in Seq(G) /\ Len(t) = Len(s)
      /\ \A i \in 1..Len(s) : t[i] = IF i = Len(s) THEN f ELSE s[i]
  BY <1>2, <1>3, ExceptSeq
<1>7. Nested(u) /\ u[Len(u)] = f
  BY ReplaceLast
<1> HIDE DEF t, u, below, G
<1>8. ASSUME NEW i \in 1..Len(t) PROVE t[i] = u[i]
  <2>1. CASE i = Len(s)
    BY <1>3, <1>5, <1>6, <2>1
  <2>2. CASE i # Len(s)
    <3>1. i \in 1..(Len(s) - 1) /\ i \in 1..Len(s)
      BY <1>3, <1>6, <2>2
    <3> QED BY <1>5, <1>6, <2>2, <3>1
  <2> QED BY <2>1, <2>2
<1>9. t = u
  BY <1>5, <1>6, <1>8, SeqEqual
<1> QED BY <1>5, <1>7, <1>9 DEF t

(***************************************************************************)
(* Steps.                                                                  *)
(***************************************************************************)

\* pb_write's test keeps a stream below its limit.
LEMMA WroteFrame ==
    ASSUME NEW fr, IsOStream(fr), NEW n \in Nat, Fits(fr, n)
    PROVE  /\ IsOStream(Wrote(fr, n))
           /\ Wrote(fr, n).start = fr.start
           /\ Wrote(fr, n).max_size = fr.max_size
           /\ Wrote(fr, n).bytes_written = fr.bytes_written + n
BY DEF IsOStream, Wrote, Fits

\* The iterator goes on; the stream does not change.
LEMMA NextFrame ==
    ASSUME NEW fr, IsOStream(fr)
    PROVE  /\ IsOStream(NextField(fr))
           /\ NextField(fr).start = fr.start
           /\ NextField(fr).max_size = fr.max_size
           /\ NextField(fr).bytes_written = fr.bytes_written
<1> DEFINE next == pb_field_iter_next(fr.iter)
           done == next.index = 0
<1>1. NextField(fr) = [fr EXCEPT !.iter = next, !.done = done]
  BY DEF NextField
<1> HIDE DEF next, done
<1> QED BY <1>1 DEF IsOStream

\* What there is to show of a step while pb_encode runs.
LEMMA Steps ==
    ASSUME EncInv, UNCHANGED bufsize,
           Nested(frames'), Ends(frames', dest'), dest' \in Nat,
           enc' \notin {"ok", "failed"}
    PROVE  EncInv'
BY DEF EncInv, Nested, Ends

\* The innermost stream.
LEMMA InnermostFrame ==
    ASSUME EncInv
    PROVE  /\ Nested(frames) /\ Len(frames) \in Nat /\ Len(frames) >= 1
           /\ IsOStream(Innermost) /\ Innermost = frames[Len(frames)]
           /\ dest = Innermost.start + Innermost.bytes_written /\ dest \in Nat
<1>1. Len(frames) \in Nat /\ Len(frames) >= 1
  BY LenProperties DEF EncInv, Nested
<1> QED BY <1>1 DEF EncInv, Nested, Ends, Innermost

\* The innermost stream after k more bytes.
LEMMA TopWrites ==
    ASSUME EncInv, NEW k \in Nat, Fits(Innermost, k)
    PROVE  /\ IsOStream(Wrote(Innermost, k))
           /\ Wrote(Innermost, k).start = Innermost.start
           /\ Wrote(Innermost, k).max_size = Innermost.max_size
           /\ dest + k = Wrote(Innermost, k).start + Wrote(Innermost, k).bytes_written
<1>1. IsOStream(Innermost) /\ dest = Innermost.start + Innermost.bytes_written
  BY InnermostFrame
<1>2. /\ IsOStream(Wrote(Innermost, k))
      /\ Wrote(Innermost, k).start = Innermost.start
      /\ Wrote(Innermost, k).max_size = Innermost.max_size
      /\ Wrote(Innermost, k).bytes_written = Innermost.bytes_written + k
  BY <1>1, WroteFrame
<1> QED BY <1>1, <1>2 DEF IsOStream

\* The innermost stream changes and the others do not.
LEMMA TopChanges ==
    ASSUME EncInv, UNCHANGED bufsize,
           NEW f, IsOStream(f), f.start = Innermost.start, f.max_size = Innermost.max_size,
           frames' = Append(Outer, f),
           dest' = f.start + f.bytes_written,
           enc' \notin {"ok", "failed"}
    PROVE  EncInv'
<1>1. /\ Nested(frames')
      /\ frames'[Len(frames')] = f
  BY InnermostFrame, ReplaceLast DEF Outer
<1>2. Ends(frames', dest')
  BY <1>1 DEF Ends
<1>3. dest' \in Nat
  BY DEF IsOStream
<1> QED BY <1>1, <1>2, <1>3, Steps

\* What becomes of two items, where the second is followed by nothing else of
\* interest: the buffer is full before the first, or before the second, or Then.
LEMMA WritesBoth ==
    ASSUME EncInv, UNCHANGED bufsize,
           NEW a, NEW b, a.n \in Nat, b.n \in Nat,
           NEW ACTION Then, WriteBoth(a, b, Then)
    PROVE  \/ EncInv'
           \/ /\ Fits(Innermost, a.n + b.n) /\ Then
              /\ dest' = dest + (a.n + b.n)
<1>1. CASE ~Fits(Innermost, a.n)
  <2>1. enc' = "failing" /\ UNCHANGED <<dest, frames>>
    BY <1>1 DEF WriteBoth
  <2> QED BY <2>1, Steps DEF EncInv
<1>2. CASE Fits(Innermost, a.n) /\ ~Fits(Innermost, a.n + b.n)
  <2>1. /\ enc' = "failing" /\ dest' = dest + a.n
        /\ frames' = Append(Outer, Wrote(Innermost, a.n))
    BY <1>2 DEF WriteBoth
  <2>2. /\ IsOStream(Wrote(Innermost, a.n))
        /\ Wrote(Innermost, a.n).start = Innermost.start
        /\ Wrote(Innermost, a.n).max_size = Innermost.max_size
        /\ dest' = Wrote(Innermost, a.n).start + Wrote(Innermost, a.n).bytes_written
    BY <1>2, <2>1, TopWrites
  <2> QED BY <2>1, <2>2, TopChanges
<1>3. CASE Fits(Innermost, a.n) /\ Fits(Innermost, a.n + b.n)
  <2>1. Then /\ dest' = dest + a.n + b.n
    BY <1>3 DEF WriteBoth
  <2>2. dest \in Nat
    BY InnermostFrame
  <2> QED BY <1>3, <2>1, <2>2
<1> QED BY <1>1, <1>2, <1>3

LEMMA SkipAbsentKeeps == EncInv /\ SkipAbsent => EncInv'
<1> SUFFICES ASSUME EncInv, SkipAbsent PROVE EncInv'
  OBVIOUS
<1>1. /\ frames' = Append(Outer, NextField(Innermost))
      /\ UNCHANGED <<bufsize, dest, enc>> /\ enc = "field"
  BY DEF SkipAbsent, Encoding
<1> QED BY <1>1, InnermostFrame, NextFrame, TopChanges

LEMMA WriteValueKeeps == EncInv /\ WriteValue => EncInv'
<1> SUFFICES ASSUME EncInv, WriteValue PROVE EncInv'
  OBVIOUS
<1> DEFINE tag == TagOf(Innermost.iter)
           val == ValueOf(src, Innermost.iter)
           k == tag.n + val.n
           f == NextField(Wrote(Innermost, k))
           Then == frames' = Append(Outer, f) /\ UNCHANGED enc
<1>1. tag.n \in Nat /\ val.n \in Nat /\ k \in Nat
  BY ItemSizes
<1>2. WriteBoth(tag, val, Then) /\ UNCHANGED bufsize /\ enc = "field"
  BY DEF WriteValue, Encoding
<1>3. EncInv' \/ (Fits(Innermost, k) /\ Then /\ dest' = dest + k)
  <2> HIDE DEF tag, val, Then
  <2> QED BY <1>1, <1>2, WritesBoth
<1> HIDE DEF k
<1>4. CASE Fits(Innermost, k) /\ Then /\ dest' = dest + k
  <2>1. /\ IsOStream(f) /\ f.start = Innermost.start /\ f.max_size = Innermost.max_size
        /\ dest' = f.start + f.bytes_written
    BY <1>1, <1>4, TopWrites, NextFrame
  <2>2. frames' = Append(Outer, f) /\ enc' = "field"
    BY <1>2, <1>4
  <2> HIDE DEF f
  <2> QED BY <1>2, <2>1, <2>2, TopChanges
<1> QED BY <1>3, <1>4

LEMMA BeginSubmessageKeeps == EncInv /\ BeginSubmessage => EncInv'
<1> SUFFICES ASSUME EncInv, BeginSubmessage PROVE EncInv'
  OBVIOUS
<1> DEFINE it == Innermost.iter
           tag == TagOf(it)
           size == LenOf(src, it)
           k == tag.n + size.n
           fr == Wrote(Innermost, k)
           sub == OStream(pb_field_iter_begin(it.submsg_desc, it.pData),
                        dest + tag.n + size.n, size.size)
           Then == IF SubmessageFits(fr, size.size)
                   THEN frames' = Outer \o <<fr, sub>> /\ UNCHANGED enc
                   ELSE frames' = Append(Outer, fr) /\ enc' = "failing"
<1>1. tag.n \in Nat /\ size.n \in Nat /\ k \in Nat
  BY ItemSizes
<1>2. WriteBoth(tag, size, Then) /\ UNCHANGED bufsize /\ enc = "field"
  BY DEF BeginSubmessage, Encoding
<1>3. EncInv' \/ (Fits(Innermost, k) /\ Then /\ dest' = dest + k)
  <2> HIDE DEF tag, size, Then
  <2> QED BY <1>1, <1>2, WritesBoth
<1>4. CASE Fits(Innermost, k) /\ Then /\ dest' = dest + k
  <2>1. /\ IsOStream(fr) /\ fr.start = Innermost.start /\ fr.max_size = Innermost.max_size
        /\ dest' = fr.start + fr.bytes_written
    <3> HIDE DEF k
    <3> QED BY <1>1, <1>4, TopWrites
  <2>3. CASE ~SubmessageFits(fr, size.size)
    <3>1. frames' = Append(Outer, fr) /\ enc' = "failing"
      BY <1>4, <2>3
    <3> HIDE DEF fr
    <3> QED BY <1>2, <2>1, <3>1, TopChanges
  <2>4. CASE SubmessageFits(fr, size.size)
    <3>1. frames' = Outer \o <<fr, sub>> /\ enc' = "field"
      BY <1>2, <1>4, <2>4
    <3>2. size.size \in Nat /\ size.size <= fr.max_size - fr.bytes_written
      <4> HIDE DEF size, fr
      <4> QED BY <2>1, <2>4 DEF SubmessageFits, IsOStream
    <3>3. /\ IsOStream(sub) /\ sub.start = dest' /\ sub.max_size = size.size
          /\ sub.bytes_written = 0
      <4>1. dest' \in Nat
        <5> HIDE DEF fr
        <5> QED BY <2>1 DEF IsOStream
      <4> DEFINE iter == pb_field_iter_begin(it.submsg_desc, it.pData)
      <4>2. sub = OStream(iter, dest', size.size)
        <5>1. dest + tag.n + size.n = dest + k /\ dest + k = dest'
          BY <1>1, <1>4, InnermostFrame
        <5> QED BY <5>1
      <4> HIDE DEF iter, sub, size
      <4> QED BY <3>2, <4>1, <4>2 DEF OStream, IsOStream
    <3>4. Within(fr, sub)
      <4> HIDE DEF fr, sub, size
      <4> QED BY <2>1, <3>2, <3>3 DEF Within, IsOStream
    <3>5. Nested(frames') /\ frames'[Len(frames')] = sub
      <4> HIDE DEF fr, sub
      <4>1. /\ fr.start = frames[Len(frames)].start
            /\ fr.max_size = frames[Len(frames)].max_size
            /\ Nested(frames) /\ bufsize \in Nat
        BY <2>1, InnermostFrame DEF EncInv
      <4>2. frames' = SubSeq(frames, 1, Len(frames) - 1) \o <<fr, sub>>
        BY <3>1 DEF Outer
      <4> QED BY <2>1, <3>3, <3>4, <4>1, <4>2, PushFrame
    <3>6. Ends(frames', dest') /\ dest' \in Nat
      <4> HIDE DEF fr, sub
      <4> QED BY <2>1, <3>3, <3>5 DEF Ends, IsOStream
    <3> QED BY <1>2, <3>1, <3>5, <3>6, Steps
  <2> QED BY <2>3, <2>4
<1> QED BY <1>3, <1>4

LEMMA EndSubmessageKeeps == EncInv /\ EndSubmessage => EncInv'
<1> SUFFICES ASSUME EncInv, EndSubmessage PROVE EncInv'
  OBVIOUS
<1> DEFINE last == Outer[Len(Outer)]
           fr == Counted(last, Innermost)
           ok == enc = "field" /\ Innermost.bytes_written = Innermost.max_size
           f == IF ok THEN NextField(fr) ELSE fr
<1>1. /\ Len(frames) > 1 /\ UNCHANGED <<bufsize, dest>>
      /\ enc' \in {"field", "failing"}
      /\ frames' = [Outer EXCEPT ![Len(Outer)] = f]
  BY DEF EndSubmessage
<1>2. Nested(Outer) /\ Len(Outer) = Len(frames) - 1 /\ last = frames[Len(frames) - 1]
  BY <1>1, InnermostFrame, PopFrame DEF Outer
<1>3. IsOStream(last) /\ Within(last, Innermost)
  <2>1. /\ Len(frames) - 1 \in 1..Len(frames)
        /\ Len(frames) - 1 \in 1..(Len(frames) - 1)
        /\ Len(frames) - 1 + 1 = Len(frames)
    BY <1>1, InnermostFrame
  <2> HIDE DEF last
  <2> QED BY <1>2, <2>1, InnermostFrame DEF Nested
<1>4. /\ IsOStream(f) /\ f.start = last.start /\ f.max_size = last.max_size
      /\ f.bytes_written = last.bytes_written + Innermost.bytes_written
  <2> HIDE DEF last
  <2>1. Innermost.bytes_written \in Nat /\ Fits(last, Innermost.bytes_written)
    BY <1>3, InnermostFrame DEF IsOStream, Within, Fits
  <2>2. /\ IsOStream(fr) /\ fr.start = last.start /\ fr.max_size = last.max_size
        /\ fr.bytes_written = last.bytes_written + Innermost.bytes_written
    BY <1>3, <2>1, WroteFrame DEF Counted
  <2> HIDE DEF fr
  <2> QED BY <2>2, NextFrame
<1>5. Nested(frames') /\ frames'[Len(frames')] = f
  <2> HIDE DEF f
  <2>1. /\ f.start = Outer[Len(Outer)].start
        /\ f.max_size = Outer[Len(Outer)].max_size
    BY <1>4
  <2> HIDE DEF last
  <2>2. Nested(Outer) /\ IsOStream(f)
    BY <1>2, <1>4
  <2>3. /\ Nested([Outer EXCEPT ![Len(Outer)] = f])
        /\ Len([Outer EXCEPT ![Len(Outer)] = f]) = Len(Outer)
        /\ [Outer EXCEPT ![Len(Outer)] = f][Len(Outer)] = f
    BY <2>1, <2>2, UpdateLast
  <2> QED BY <1>1, <2>3
<1>6. Ends(frames', dest') /\ dest' \in Nat
  <2> HIDE DEF f, last
  <2>1. dest' = Innermost.start + Innermost.bytes_written /\ dest' \in Nat
    BY <1>1, InnermostFrame
  <2>2. Innermost.start = last.start + last.bytes_written
    BY <1>3 DEF Within
  <2>3. /\ Innermost.bytes_written \in Nat
        /\ last.start \in Nat /\ last.bytes_written \in Nat
    BY <1>3, InnermostFrame DEF IsOStream
  <2>4. dest' = f.start + f.bytes_written
    BY <1>4, <2>1, <2>2, <2>3
  <2> QED BY <1>5, <2>1, <2>4, Zenon DEF Ends
<1> QED BY <1>1, <1>5, <1>6, Steps

LEMMA EncodeReturnKeeps == EncInv /\ EncodeReturn => EncInv'
BY DEF EncInv, EncodeReturn, Nested, Ends

LEMMA EncInvInit == EncodeInit => EncInv
<1> SUFFICES ASSUME EncodeInit PROVE EncInv
  OBVIOUS
<1> DEFINE iter == pb_field_iter_begin("MQTTMessage", 0)
           f == OStream(iter, 0, bufsize)
<1>1. bufsize \in Nat /\ dest = 0 /\ frames = <<f>> /\ enc = "field"
  BY EncodeAssumption DEF EncodeInit
<1> HIDE DEF iter
<1>2. /\ IsOStream(f) /\ f.start = 0 /\ f.max_size = bufsize /\ f.bytes_written = 0
  BY <1>1 DEF IsOStream, OStream
<1> HIDE DEF f
<1>3. frames \in Seq({f}) /\ Len(frames) = 1 /\ frames[1] = f
  BY <1>1
<1>4. Nested(frames) /\ Ends(frames, dest)
  <2>1. /\ \A i \in 1..Len(frames) : i = 1
        /\ \A i \in 1..(Len(frames) - 1) : FALSE
    BY <1>3
  <2>2. \E F : frames \in Seq(F)
    BY <1>3
  <2>3. 0 + bufsize <= bufsize
    BY <1>1
  <2> QED BY <1>1, <1>2, <1>3, <2>1, <2>2, <2>3 DEF Nested, Ends
<1> QED BY <1>1, <1>4 DEF EncInv

LEMMA EncInvNext == EncInv /\ [EncodeNext]_encVars => EncInv'
<1>1. EncInv /\ UNCHANGED encVars => EncInv'
  BY DEF EncInv, encVars, Nested, Ends
<1> QED BY <1>1, SkipAbsentKeeps, WriteValueKeeps, BeginSubmessageKeeps,
           EndSubmessageKeeps, EncodeReturnKeeps DEF EncodeNext

THEOREM EncoderInvariant == EncodeSpec => []EncInv
BY EncInvInit, EncInvNext, PTL DEF EncodeSpec

\* Every byte is written within the buffer: for every message, every size of the
\* buffer, and however deep the streams are nested (pb_encode.c:84-99, 746-765).
THEOREM EncoderStaysInBuffer == EncodeSpec => []WithinBuffer
<1>1. EncInv => WithinBuffer
  <2> SUFFICES ASSUME EncInv PROVE dest <= bufsize
    BY DEF WithinBuffer
  <2>1. Len(frames) \in 1..Len(frames)
    BY InnermostFrame
  <2>2. Innermost.start + Innermost.max_size <= bufsize
    BY <2>1, InnermostFrame DEF Nested
  <2> QED BY <2>2, InnermostFrame DEF IsOStream, EncInv
<1> QED BY <1>1, EncoderInvariant, PTL

\* bytes_written is what is in the buffer when pb_encode has returned, failed
\* or not: what the leaf sends is what was encoded (mesh.cpp:131-142).
THEOREM EncoderCountsAll == EncodeSpec => []SentIsWritten
<1>1. EncInv => SentIsWritten
  <2> SUFFICES ASSUME EncInv, enc \in {"ok", "failed"} PROVE frames[1].bytes_written = dest
    BY DEF SentIsWritten
  <2>1. Len(frames) = 1 /\ frames[1].start = 0
    BY DEF EncInv, Nested
  <2> QED BY <2>1, InnermostFrame DEF IsOStream
<1> QED BY <1>1, EncoderInvariant, PTL

(***************************************************************************)
(* Sums.                                                                   *)
(***************************************************************************)

LT == OpToRel(<, Nat)

\* A set of numbers with 0, and with n + 1 wherever it has n, has them all.
LEMMA AllNumbers ==
    ASSUME NEW S, 0 \in S, \A n \in Nat : n \in S => n + 1 \in S
    PROVE  \A n \in Nat : n \in S
<1> SUFFICES ASSUME ~(\A n \in Nat : n \in S) PROVE FALSE
  OBVIOUS
<1> DEFINE out_of == {n \in Nat : n \notin S}
<1>1. out_of \subseteq Nat /\ out_of # {}
  OBVIOUS
<1> HIDE DEF out_of
<1>2. PICK x \in out_of : \A y \in out_of : ~(<<y, x>> \in LT)
  BY <1>1, NatLessThanWellFounded, WFMin, Zenon DEF LT
<1>3. x \in Nat /\ x \notin S /\ x # 0
  BY DEF out_of
<1>4. x - 1 \in Nat /\ x - 1 < x /\ (x - 1) + 1 = x
  BY <1>3
<1>5. <<x - 1, x>> \in LT
  <2>1. <<x - 1, x>> \in Nat \X Nat /\ <<x - 1, x>>[1] < <<x - 1, x>>[2]
    BY <1>3, <1>4
  <2> QED BY <2>1, Zenon DEF LT, OpToRel
<1>6. x - 1 \in S
  BY <1>2, <1>4, <1>5 DEF out_of
<1> QED BY <1>3, <1>4, <1>6

SumRun(u, b, n) == u = [i \in 0..n |-> IF i = 0 THEN 0 ELSE u[i - 1] + b[i]]

LEMMA SumRuns ==
    ASSUME NEW b, NEW n \in Nat
    PROVE  \E u : SumRun(u, b, n) /\ Total(b, n) = u[n]
<1> DEFINE S == {m \in Nat : \E u : SumRun(u, b, m)}
<1>1. 0 \in S
  <2>1. PICK u : u = [i \in 0..0 |-> 0]
    OBVIOUS
  <2>2. \A i \in 0..0 : i = 0
    OBVIOUS
  <2>3. SumRun(u, b, 0)
    BY <2>1, <2>2 DEF SumRun
  <2> QED BY <2>3
<1>2. ASSUME NEW m \in Nat, m \in S PROVE m + 1 \in S
  <2>1. PICK u : SumRun(u, b, m)
    BY <1>2
  <2>2. PICK v : v = [i \in 0..(m + 1) |-> IF i = m + 1 THEN u[m] + b[m + 1] ELSE u[i]]
    OBVIOUS
  <2>3. ASSUME NEW i \in 0..(m + 1)
        PROVE v[i] = IF i = 0 THEN 0 ELSE v[i - 1] + b[i]
    <3>1. CASE i = m + 1
      <4>1. i # 0 /\ i - 1 = m /\ m \in 0..(m + 1) /\ m # m + 1
        BY <3>1
      <4> QED BY <2>2, <3>1, <4>1
    <3>2. CASE i # m + 1
      <4>1. i \in 0..m
        BY <3>2
      <4>2. u[i] = IF i = 0 THEN 0 ELSE u[i - 1] + b[i]
        BY <2>1, <4>1 DEF SumRun
      <4>3. i # 0 => i - 1 \in 0..(m + 1) /\ i - 1 # m + 1
        BY <4>1
      <4> QED BY <2>2, <3>2, <4>2, <4>3
    <3> QED BY <3>1, <3>2
  <2>4. SumRun(v, b, m + 1)
    <3>1. v = [i \in 0..(m + 1) |-> v[i]]
      BY <2>2
    <3> QED BY <2>3, <3>1, Zenon DEF SumRun
  <2>5. m + 1 \in Nat
    OBVIOUS
  <2> QED BY <2>4, <2>5
<1> HIDE DEF S
<1>3. n \in S
  BY <1>1, <1>2, AllNumbers
<1>4. \E u : SumRun(u, b, n)
  BY <1>3 DEF S
<1> DEFINE h == CHOOSE u : SumRun(u, b, n)
<1>5. SumRun(h, b, n)
  BY <1>4
<1>6. Total(b, n) = h[n]
  BY DEF Total, SumRun
<1> QED BY <1>5, <1>6

Alike(b, c, n) == \A i \in 1..n : b[i] = c[i]

LEMMA SumAlike ==
    ASSUME NEW b, NEW c, NEW n \in Nat, NEW m \in Nat, NEW k \in Nat, k <= n, k <= m,
           NEW u, SumRun(u, b, n), NEW v, SumRun(v, c, m),
           Alike(b, c, k)
    PROVE  u[k] = v[k]
<1> DEFINE S == {i \in Nat : i <= k => u[i] = v[i]}
<1>1. 0 \in S
  <2>1. 0 \in 0..n /\ 0 \in 0..m
    OBVIOUS
  <2>2. u[0] = 0 /\ v[0] = 0
    BY <2>1 DEF SumRun
  <2> QED BY <2>2
<1>2. ASSUME NEW i \in Nat, i \in S PROVE i + 1 \in S
  <2>1. CASE i + 1 <= k
    <3>1. i + 1 \in 0..n /\ i + 1 \in 0..m /\ i + 1 # 0 /\ (i + 1) - 1 = i /\ i + 1 \in 1..k
      BY <2>1
    <3>2. u[i + 1] = u[i] + b[i + 1]
      BY <3>1 DEF SumRun
    <3>3. v[i + 1] = v[i] + c[i + 1]
      BY <3>1 DEF SumRun
    <3>4. u[i] = v[i]
      BY <1>2, <2>1
    <3>5. b[i + 1] = c[i + 1]
      BY <3>1 DEF Alike
    <3>6. u[i + 1] = v[i + 1]
      BY <3>2, <3>3, <3>4, <3>5, Zenon
    <3> QED BY <3>6
  <2> QED BY <2>1
<1> HIDE DEF S
<1>3. k \in S
  BY <1>1, <1>2, AllNumbers
<1> QED BY <1>3 DEF S

\* The sum of no numbers, and of one more.
LEMMA TotalIs ==
    ASSUME NEW b, NEW n \in Nat
    PROVE  /\ Total(b, 0) = 0
           /\ Total(b, n + 1) = Total(b, n) + b[n + 1]
<1>1. PICK u : SumRun(u, b, 0) /\ Total(b, 0) = u[0]
  BY SumRuns
<1>2. PICK v : SumRun(v, b, n) /\ Total(b, n) = v[n]
  BY SumRuns
<1>3. PICK m \in Nat : m = n + 1
  OBVIOUS
<1>4. PICK w : SumRun(w, b, m) /\ Total(b, m) = w[m]
  BY SumRuns
<1>5. u[0] = 0
  BY <1>1 DEF SumRun
<1>6. w[m] = w[n] + b[m]
  <2>1. m \in 0..m /\ m # 0 /\ m - 1 = n
    BY <1>3
  <2> QED BY <1>4, <2>1 DEF SumRun
<1>7. w[n] = v[n]
  <2>1. Alike(b, b, n) /\ n <= n /\ n <= m
    BY <1>3 DEF Alike
  <2> QED BY <1>2, <1>4, <2>1, SumAlike
<1> QED BY <1>1, <1>2, <1>3, <1>4, <1>5, <1>6, <1>7

LEMMA TotalSame ==
    ASSUME NEW b, NEW c, NEW n \in Nat, Alike(b, c, n)
    PROVE  Total(b, n) = Total(c, n)
<1>1. PICK u : SumRun(u, b, n) /\ Total(b, n) = u[n]
  BY SumRuns
<1>2. PICK v : SumRun(v, c, n) /\ Total(c, n) = v[n]
  BY SumRuns
<1>3. n <= n
  OBVIOUS
<1>4. u[n] = v[n]
  BY <1>1, <1>2, <1>3, SumAlike
<1> QED BY <1>1, <1>2, <1>4


-----------------------------------------------------------------------------
(***************************************************************************)
(* The sizing pass.  What a message takes depends on the messages it       *)
(* holds, and those are one deeper: three passes from nothing have them    *)
(* all, so there is a function that is as Sizes says.                      *)
(***************************************************************************)

BytesAt(s, f, desc, message) ==
    [n \in 1..Descriptor[desc].field_count |-> FieldBytes(s, f, Walk(desc, message)[n])]

MessageBytes(s, f, desc, message) ==
    Total(BytesAt(s, f, desc, message), Descriptor[desc].field_count)

Pass(s, f) ==
    [desc \in Messages |-> [message \in 0..72 |-> MessageBytes(s, f, desc, message)]]

LEMMA FieldBytesSame ==
    ASSUME NEW s, NEW f, NEW g, NEW it,
           PB_LTYPE_IS_SUBMSG(it.type) => f[it.submsg_desc] = g[it.submsg_desc]
    PROVE  FieldBytes(s, f, it) = FieldBytes(s, g, it)
<1>1. CASE PB_LTYPE_IS_SUBMSG(it.type)
  <2>1. f[it.submsg_desc][it.pData] = g[it.submsg_desc][it.pData]
    BY <1>1, Zenon
  <2> QED BY <2>1, Zenon DEF FieldBytes
<1>2. CASE ~PB_LTYPE_IS_SUBMSG(it.type)
  BY <1>2, Zenon DEF FieldBytes
<1> QED BY <1>1, <1>2

\* f and g have the same sizes of what message desc holds.
HoldsSame(f, g, desc) ==
    \A n \in DOMAIN FieldList[desc] :
        LET sub == FieldList[desc][n].sub IN sub # NULL => f[sub] = g[sub]

LEMMA MessageBytesSame ==
    ASSUME NEW s, NEW f, NEW g, NEW desc \in Messages, NEW message \in Int,
           HoldsSame(f, g, desc)
    PROVE  MessageBytes(s, f, desc, message) = MessageBytes(s, g, desc, message)
<1>1. PICK count \in 2..6 : Len(FieldList[desc]) = count /\ DOMAIN FieldList[desc] = 1..count
  BY CountOf
<1>2. Descriptor[desc].field_count = count
  BY <1>1, FieldCount
<1>3. ASSUME NEW n \in 1..count
      PROVE FieldBytes(s, f, Walk(desc, message)[n]) = FieldBytes(s, g, Walk(desc, message)[n])
  <2>1. PICK it : it = Walk(desc, message)[n]
    OBVIOUS
  <2>2. it = IterAt(desc, message, n)
    <3>1. Len(FieldList[desc]) = count
      BY <1>1
    <3> QED BY <2>1, <3>1, WalkVisitsEachField
  <2>3. PICK k \in DOMAIN FieldList[desc] : k = n
    BY <1>1
  <2>4. it = IterAt(desc, message, k)
    BY <2>2, <2>3, Zenon
  <2>5. PICK field : field = FieldList[desc][k]
    OBVIOUS
  <2>6. it.type = Type(field) /\ it.submsg_desc = field.sub /\ IsField(field)
    BY <2>4, <2>5, IterMembers
  <2>7. PB_LTYPE_IS_SUBMSG(it.type) => field.sub # NULL
    BY <2>6, TypeParts DEF IsField
  <2>8. field.sub # NULL => f[field.sub] = g[field.sub]
    BY <2>5 DEF HoldsSame
  <2>9. PB_LTYPE_IS_SUBMSG(it.type) => f[it.submsg_desc] = g[it.submsg_desc]
    BY <2>6, <2>7, <2>8, Zenon
  <2> QED BY <2>1, <2>9, FieldBytesSame
<1>4. PICK b, c : b = BytesAt(s, f, desc, message) /\ c = BytesAt(s, g, desc, message)
  OBVIOUS
<1>5. ASSUME NEW n \in 1..count PROVE b[n] = c[n]
  BY <1>2, <1>3, <1>4 DEF BytesAt
<1>6. Total(b, count) = Total(c, count)
  <2>1. Alike(b, c, count) /\ count \in Nat
    BY <1>5 DEF Alike
  <2> QED BY <2>1, TotalSame
<1> QED BY <1>2, <1>4, <1>6, Zenon DEF MessageBytes

LEMMA PassSame ==
    ASSUME NEW s, NEW f, NEW g, NEW desc \in Messages, HoldsSame(f, g, desc)
    PROVE  Pass(s, f)[desc] = Pass(s, g)[desc]
<1>1. ASSUME NEW message \in 0..72
      PROVE  MessageBytes(s, f, desc, message) = MessageBytes(s, g, desc, message)
  <2>1. message \in Int
    OBVIOUS
  <2> QED BY <2>1, MessageBytesSame
<1> QED BY <1>1, Zenon DEF Pass

\* f and g have the same sizes of all messages nested d deep or deeper.
SameFrom(d, f, g) == \A m \in Messages : Depth[m] >= d => f[m] = g[m]

LEMMA PassDeepens ==
    ASSUME NEW s, NEW f, NEW g, NEW d \in Nat, SameFrom(d + 1, f, g)
    PROVE  SameFrom(d, Pass(s, f), Pass(s, g))
<1> SUFFICES ASSUME NEW desc \in Messages, Depth[desc] >= d
             PROVE  Pass(s, f)[desc] = Pass(s, g)[desc]
  BY DEF SameFrom
<1>1. ASSUME NEW n \in DOMAIN FieldList[desc], NEW sub, sub = FieldList[desc][n].sub, sub # NULL
      PROVE  f[sub] = g[sub]
  <2>1. sub \in Messages /\ Depth[sub] = Depth[desc] + 1 /\ Depth[desc] \in Int
    BY <1>1, PlaceOfSubmessage, PlaceInStruct
  <2> QED BY <2>1 DEF SameFrom
<1>2. HoldsSame(f, g, desc)
  BY <1>1, Zenon DEF HoldsSame
<1> QED BY <1>2, PassSame

LEMMA SizesExist ==
    ASSUME NEW s
    PROVE  \E f : f = Pass(s, f)
<1>1. PICK f0 : f0 = [m \in Messages |-> [message \in 0..72 |-> 0]]
  OBVIOUS
<1>2. PICK f1 : f1 = Pass(s, f0)
  OBVIOUS
<1>3. PICK f2 : f2 = Pass(s, f1)
  OBVIOUS
<1>4. PICK f3 : f3 = Pass(s, f2)
  OBVIOUS
<1>5. PICK f4 : f4 = Pass(s, f3)
  OBVIOUS
<1>6. SameFrom(4, f0, f1)
  BY PlaceInStruct DEF SameFrom
<1>7. SameFrom(3, f1, f2)
  <2>1. 3 + 1 = 4 /\ 3 \in Nat
    OBVIOUS
  <2> QED BY <1>2, <1>3, <1>6, <2>1, PassDeepens
<1>8. SameFrom(2, f2, f3)
  <2>1. 2 + 1 = 3 /\ 2 \in Nat
    OBVIOUS
  <2> QED BY <1>3, <1>4, <1>7, <2>1, PassDeepens
<1>9. SameFrom(1, f3, f4)
  <2>1. 1 + 1 = 2 /\ 1 \in Nat
    OBVIOUS
  <2> QED BY <1>4, <1>5, <1>8, <2>1, PassDeepens
<1>10. \A m \in Messages : f3[m] = f4[m]
  BY <1>9, PlaceInStruct DEF SameFrom
<1>11. f3 = [m \in Messages |-> f3[m]] /\ f4 = [m \in Messages |-> f4[m]]
  BY <1>4, <1>5, Zenon DEF Pass
<1>12. f3 = f4
  BY <1>10, <1>11, Zenon
<1> QED BY <1>5, <1>12

LEMMA SizesAre ==
    ASSUME NEW s
    PROVE  Sizes(s) = Pass(s, Sizes(s))
<1> DEFINE P(f) == f = Pass(s, f)
           h == CHOOSE f : P(f)
<1>1. P(h)
  <2>1. \E f : P(f)
    BY SizesExist
  <2> HIDE DEF P
  <2> QED BY <2>1, Zenon
<1>2. Sizes(s) = h
  BY Zenon DEF Sizes, Pass, MessageBytes, BytesAt
<1> HIDE DEF h
<1> QED BY <1>1, <1>2, Zenon


-----------------------------------------------------------------------------
(***************************************************************************)
(* What each message takes, where the app finds it.                        *)
(***************************************************************************)

Bytes(s, desc, n) == FieldBytes(s, Sizes(s), IterAt(desc, Place[desc], n))

SizeOf(s, desc) == Sizes(s)[desc][Place[desc]]

\* The bytes of the first k fields.
UpTo(s, desc, k) == Total([n \in DOMAIN FieldList[desc] |-> Bytes(s, desc, n)], k)

LEMMA PlaceSized == \A m \in Messages : Place[m] \in 0..72
BY MessageNames DEF Place

LEMMA SizeOfIs ==
    ASSUME NEW s, NEW desc \in Messages, NEW count \in 2..6, Len(FieldList[desc]) = count
    PROVE  SizeOf(s, desc) = UpTo(s, desc, count)
<1>1. Descriptor[desc].field_count = count /\ DOMAIN FieldList[desc] = 1..count
  <2>1. DOMAIN FieldList[desc] = 1..count
    BY CountOf
  <2>2. Descriptor[desc].field_count = count
    BY FieldCount
  <2> QED BY <2>1, <2>2
<1>2. PICK message \in 0..72 : message = Place[desc]
  <2>1. Place[desc] \in 0..72
    BY PlaceSized
  <2> QED BY <2>1
<1>3. PICK b, c : /\ b = BytesAt(s, Sizes(s), desc, message)
                  /\ c = [n \in DOMAIN FieldList[desc] |-> Bytes(s, desc, n)]
  OBVIOUS
<1>4. ASSUME NEW n \in 1..count PROVE b[n] = c[n]
  <2>1. message \in Int
    OBVIOUS
  <2>2. Walk(desc, message)[n] = IterAt(desc, message, n)
    BY <2>1, WalkVisitsEachField
  <2>3. b[n] = FieldBytes(s, Sizes(s), Walk(desc, message)[n])
    BY <1>1, <1>3 DEF BytesAt
  <2>4. c[n] = Bytes(s, desc, n)
    BY <1>1, <1>3
  <2> QED BY <1>2, <2>2, <2>3, <2>4, Zenon DEF Bytes
<1>5. Total(b, count) = Total(c, count)
  <2>1. Alike(b, c, count) /\ count \in Nat
    BY <1>4 DEF Alike
  <2> QED BY <2>1, TotalSame
<1>6. SizeOf(s, desc) = MessageBytes(s, Sizes(s), desc, message)
  <2>1. Sizes(s)[desc] = Pass(s, Sizes(s))[desc]
    BY SizesAre, Zenon
  <2>2. Pass(s, Sizes(s))[desc] = [m \in 0..72 |-> MessageBytes(s, Sizes(s), desc, m)]
    BY Zenon DEF Pass
  <2> QED BY <1>2, <2>1, <2>2, Zenon DEF SizeOf
<1> QED BY <1>1, <1>3, <1>5, <1>6, Zenon DEF MessageBytes, UpTo

LEMMA UpToIs ==
    ASSUME NEW s, NEW desc \in Messages, NEW n \in DOMAIN FieldList[desc]
    PROVE  /\ UpTo(s, desc, 0) = 0
           /\ UpTo(s, desc, n) = UpTo(s, desc, n - 1) + Bytes(s, desc, n)
<1>1. PICK b : b = [i \in DOMAIN FieldList[desc] |-> Bytes(s, desc, i)]
  OBVIOUS
<1>2. PICK k \in Nat : n = k + 1 /\ n - 1 = k
  <2>1. n - 1 \in Nat /\ n = (n - 1) + 1
    BY CountOf
  <2> QED BY <2>1
<1>3. Total(b, 0) = 0 /\ Total(b, k + 1) = Total(b, k) + b[k + 1]
  BY TotalIs
<1>4. b[n] = Bytes(s, desc, n)
  BY <1>1
<1> QED BY <1>1, <1>2, <1>3, <1>4, Zenon DEF UpTo

\* The most bytes a value takes.
Most == [BOOL |-> 1, INT32 |-> 10, INT64 |-> 10, UENUM |-> 1, FLOAT |-> 4, DOUBLE |-> 8]

\* A tag takes one byte.
LEMMA TagByte ==
    ASSUME NEW desc \in Messages, NEW n \in DOMAIN FieldList[desc],
           NEW it, it = IterAt(desc, Place[desc], n)
    PROVE  TagOf(it).n = 1
<1>1. PICK f : f = FieldList[desc][n]
  OBVIOUS
<1>2. it.tag = n /\ it.type = Type(f) /\ IsField(f)
  BY <1>1, IterMembers, PlaceInStruct
<1>3. PICK lt : lt = PB_LTYPE(it.type)
  OBVIOUS
<1>4. lt \in {0, 1, 2, 4, 5, 8}
  <2>1. lt = PB_LTYPE_MAP[f.ltype]
    BY <1>2, <1>3, TypeParts
  <2> QED BY <1>2, <2>1 DEF IsField, PB_LTYPE_MAP, PB_LTYPE_BOOL, PB_LTYPE_VARINT,
             PB_LTYPE_UVARINT, PB_LTYPE_FIXED32, PB_LTYPE_FIXED64, PB_LTYPE_SUBMESSAGE
<1>5. PICK wt \in 0..5 : wt = WireType[lt]
  <2>1. WireType[lt] \in 0..5
    BY <1>4 DEF WireType, PB_WT_32BIT, PB_WT_64BIT, PB_WT_STRING, PB_WT_VARINT
  <2> QED BY <2>1
<1>6. n \in 1..6
  BY CountOf
<1>7. VarintBytes(8 * n + wt) = 1
  BY <1>6 DEF VarintBytes
<1>8. TagOf(it) = TagItem(n, wt, 1)
  BY <1>2, <1>3, <1>5, <1>7, Zenon DEF TagOf
<1> QED BY <1>8 DEF TagItem

LEMMA ValueTakes ==
    ASSUME NEW s, NEW desc \in Messages, NEW n \in DOMAIN FieldList[desc],
           NEW f, f = FieldList[desc][n], f.ltype # "MESSAGE"
    PROVE  Bytes(s, desc, n) \in 0..(1 + Most[f.ltype])
<1>1. PICK it : it = IterAt(desc, Place[desc], n)
  OBVIOUS
<1>2. it.type = Type(f) /\ IsField(f)
  BY <1>1, IterMembers, PlaceInStruct
<1>3. ~PB_LTYPE_IS_SUBMSG(it.type) /\ PB_LTYPE(it.type) = PB_LTYPE_MAP[f.ltype]
  BY <1>2, TypeParts
<1>4. PICK v : v = s[it.pData]
  OBVIOUS
<1>5. ValueBytes(it.type, v) \in 0..Most[f.ltype]
  BY <1>2, <1>3 DEF ValueBytes, IsField, Most, PB_LTYPE_MAP, PB_LTYPE_BOOL, PB_LTYPE_VARINT,
     PB_LTYPE_UVARINT, PB_LTYPE_FIXED32, PB_LTYPE_FIXED64, PB_LTYPE_SUBMESSAGE
<1>6. ValueOf(s, it).n = ValueBytes(it.type, v)
  BY <1>4 DEF ValueOf, ValItem
<1>7. TagOf(it).n = 1
  BY <1>1, TagByte
<1>8. Bytes(s, desc, n) = IF Present(s, it) THEN 1 + ValueBytes(it.type, v) ELSE 0
  BY <1>1, <1>3, <1>6, <1>7, Zenon DEF Bytes, FieldBytes
<1>9. Most[f.ltype] \in Nat
  BY <1>2 DEF IsField, Most
<1> QED BY <1>5, <1>8, <1>9

LEMMA SubmessageTakes ==
    ASSUME NEW s, NEW desc \in Messages, NEW n \in DOMAIN FieldList[desc],
           NEW f, f = FieldList[desc][n], f.ltype = "MESSAGE",
           SizeOf(s, f.sub) \in 0..127
    PROVE  Bytes(s, desc, n) = IF Present(s, IterAt(desc, Place[desc], n))
                               THEN 2 + SizeOf(s, f.sub) ELSE 0
<1>1. PICK it : it = IterAt(desc, Place[desc], n)
  OBVIOUS
<1>2. /\ it.type = Type(f) /\ IsField(f)
      /\ it.submsg_desc = f.sub /\ it.pData = Place[desc] + f.offset
  BY <1>1, IterMembers, PlaceInStruct
<1>3. PB_LTYPE_IS_SUBMSG(it.type)
  BY <1>2, TypeParts
<1>4. f.sub # NULL
  BY <1>2 DEF IsField
<1>5. it.pData = Place[f.sub]
  BY <1>2, <1>4, PlaceOfSubmessage
<1>6. PICK size \in 0..127 : size = SizeOf(s, f.sub)
  OBVIOUS
<1>7. Sizes(s)[it.submsg_desc][it.pData] = size
  BY <1>2, <1>5, <1>6, Zenon DEF SizeOf
<1>8. VarintBytes(size) = 1
  BY DEF VarintBytes
<1>9. TagOf(it).n = 1
  BY <1>1, TagByte
<1>10. Bytes(s, desc, n) = IF Present(s, it) THEN 1 + (1 + size) ELSE 0
  BY <1>1, <1>3, <1>7, <1>8, <1>9, Zenon DEF Bytes, FieldBytes
<1> QED BY <1>1, <1>6, <1>10

\* A message of two fields.
LEMMA TwoFields ==
    ASSUME NEW s, NEW desc \in Messages, Len(FieldList[desc]) = 2,
           Bytes(s, desc, 1) \in Nat, Bytes(s, desc, 2) \in Nat
    PROVE  /\ SizeOf(s, desc) = Bytes(s, desc, 1) + Bytes(s, desc, 2)
           /\ \A k \in 0..2 : UpTo(s, desc, k) \in 0..SizeOf(s, desc)
<1>1. 1 \in DOMAIN FieldList[desc] /\ 2 \in DOMAIN FieldList[desc] /\ 2 \in 2..6
  BY CountOf
<1>2. /\ UpTo(s, desc, 0) = 0
      /\ UpTo(s, desc, 1) = UpTo(s, desc, 1 - 1) + Bytes(s, desc, 1)
      /\ UpTo(s, desc, 2) = UpTo(s, desc, 2 - 1) + Bytes(s, desc, 2)
  BY <1>1, UpToIs
<1>3. /\ UpTo(s, desc, 1) = Bytes(s, desc, 1)
      /\ UpTo(s, desc, 2) = Bytes(s, desc, 1) + Bytes(s, desc, 2)
  BY <1>2
<1>4. SizeOf(s, desc) = UpTo(s, desc, 2)
  BY <1>1, SizeOfIs
<1>5. \A k \in 0..2 : k = 0 \/ k = 1 \/ k = 2
  OBVIOUS
<1> QED BY <1>2, <1>3, <1>4, <1>5


\* A message is never larger than it may be; and no part of it is larger than it.
Takes(s, desc, most) ==
    /\ SizeOf(s, desc) \in 0..most
    /\ \A n \in DOMAIN FieldList[desc] :
         Bytes(s, desc, n) \in Nat /\ UpTo(s, desc, n) \in 0..SizeOf(s, desc)

LEMMA TwoFieldsTake ==
    ASSUME NEW s, NEW desc \in Messages, Len(FieldList[desc]) = 2,
           NEW most \in Nat, NEW m1 \in Nat, NEW m2 \in Nat, m1 + m2 <= most,
           Bytes(s, desc, 1) \in 0..m1, Bytes(s, desc, 2) \in 0..m2
    PROVE  Takes(s, desc, most)
<1>1. /\ SizeOf(s, desc) = Bytes(s, desc, 1) + Bytes(s, desc, 2)
      /\ \A k \in 0..2 : UpTo(s, desc, k) \in 0..SizeOf(s, desc)
  BY TwoFields
<1>2. SizeOf(s, desc) \in 0..most
  BY <1>1
<1>3. \A n \in DOMAIN FieldList[desc] : n = 1 \/ n = 2
  BY CountOf
<1> QED BY <1>1, <1>2, <1>3 DEF Takes

LEMMA TimestampTakes == \A s : Takes(s, "Timestamp", 22)
<1> SUFFICES ASSUME NEW s PROVE Takes(s, "Timestamp", 22)
  OBVIOUS
<1>1. /\ "Timestamp" \in Messages /\ Len(FieldList["Timestamp"]) = 2
      /\ 1 \in DOMAIN FieldList["Timestamp"] /\ 2 \in DOMAIN FieldList["Timestamp"]
      /\ FieldList["Timestamp"][1].ltype = "INT64"
      /\ FieldList["Timestamp"][2].ltype = "INT32"
  BY MessageNames, TimestampLines DEF Line
<1>2. Most["INT64"] = 10 /\ Most["INT32"] = 10
  BY DEF Most
<1>3. Bytes(s, "Timestamp", 1) \in 0..(1 + Most["INT64"])
  BY <1>1, ValueTakes
<1>4. Bytes(s, "Timestamp", 2) \in 0..(1 + Most["INT32"])
  BY <1>1, ValueTakes
<1>5. Bytes(s, "Timestamp", 1) \in 0..11 /\ Bytes(s, "Timestamp", 2) \in 0..11
  BY <1>2, <1>3, <1>4
<1> QED BY <1>1, <1>5, TwoFieldsTake

LEMMA LatLngTakes == \A s : Takes(s, "LatLng", 18)
<1> SUFFICES ASSUME NEW s PROVE Takes(s, "LatLng", 18)
  OBVIOUS
<1>1. /\ "LatLng" \in Messages /\ Len(FieldList["LatLng"]) = 2
      /\ 1 \in DOMAIN FieldList["LatLng"] /\ 2 \in DOMAIN FieldList["LatLng"]
      /\ FieldList["LatLng"][1].ltype = "DOUBLE"
      /\ FieldList["LatLng"][2].ltype = "DOUBLE"
  BY MessageNames, LatLngLines DEF Line
<1>2. Most["DOUBLE"] = 8
  BY DEF Most
<1>3. Bytes(s, "LatLng", 1) \in 0..(1 + Most["DOUBLE"])
  BY <1>1, ValueTakes
<1>4. Bytes(s, "LatLng", 2) \in 0..(1 + Most["DOUBLE"])
  BY <1>1, ValueTakes
<1>5. Bytes(s, "LatLng", 1) \in 0..9 /\ Bytes(s, "LatLng", 2) \in 0..9
  BY <1>2, <1>3, <1>4
<1> QED BY <1>1, <1>5, TwoFieldsTake

LEMMA TrackTakes == \A s : Takes(s, "Track", 4)
<1> SUFFICES ASSUME NEW s PROVE Takes(s, "Track", 4)
  OBVIOUS
<1>1. /\ "Track" \in Messages /\ Len(FieldList["Track"]) = 2
      /\ 1 \in DOMAIN FieldList["Track"] /\ 2 \in DOMAIN FieldList["Track"]
      /\ FieldList["Track"][1].ltype = "UENUM"
      /\ FieldList["Track"][2].ltype = "UENUM"
  BY MessageNames, TrackLines DEF Line
<1>2. Most["UENUM"] = 1
  BY DEF Most
<1>3. Bytes(s, "Track", 1) \in 0..(1 + Most["UENUM"])
  BY <1>1, ValueTakes
<1>4. Bytes(s, "Track", 2) \in 0..(1 + Most["UENUM"])
  BY <1>1, ValueTakes
<1>5. Bytes(s, "Track", 1) \in 0..2 /\ Bytes(s, "Track", 2) \in 0..2
  BY <1>2, <1>3, <1>4
<1> QED BY <1>1, <1>5, TwoFieldsTake

LEMMA KartTakes == \A s : Takes(s, "Kart", 45)
<1> SUFFICES ASSUME NEW s PROVE Takes(s, "Kart", 45)
  OBVIOUS
<1>1. /\ "Kart" \in Messages /\ Len(FieldList["Kart"]) = 6
      /\ \A n \in 1..6 : n \in DOMAIN FieldList["Kart"]
      /\ FieldList["Kart"][1].ltype = "BOOL" /\ FieldList["Kart"][2].ltype = "INT32"
      /\ FieldList["Kart"][3].ltype = "UENUM" /\ FieldList["Kart"][4].ltype = "FLOAT"
      /\ FieldList["Kart"][5].ltype = "FLOAT" /\ FieldList["Kart"][6].ltype = "MESSAGE"
      /\ FieldList["Kart"][6].sub = "LatLng"
  BY MessageNames, KartLines DEF Line
<1>2. Most["BOOL"] = 1 /\ Most["INT32"] = 10 /\ Most["UENUM"] = 1 /\ Most["FLOAT"] = 4
  BY DEF Most
<1>3. Bytes(s, "Kart", 1) \in 0..(1 + Most["BOOL"])
  BY <1>1, ValueTakes
<1>4. Bytes(s, "Kart", 2) \in 0..(1 + Most["INT32"])
  BY <1>1, ValueTakes
<1>5. Bytes(s, "Kart", 3) \in 0..(1 + Most["UENUM"])
  BY <1>1, ValueTakes
<1>6. Bytes(s, "Kart", 4) \in 0..(1 + Most["FLOAT"])
  BY <1>1, ValueTakes
<1>7. Bytes(s, "Kart", 5) \in 0..(1 + Most["FLOAT"])
  BY <1>1, ValueTakes
<1>8. Bytes(s, "Kart", 6) \in 0..20
  <2>1. SizeOf(s, "LatLng") \in 0..18
    BY LatLngTakes DEF Takes
  <2>2. SizeOf(s, FieldList["Kart"][6].sub) \in 0..127
    BY <1>1, <2>1
  <2>3. Bytes(s, "Kart", 6) = IF Present(s, IterAt("Kart", Place["Kart"], 6))
                              THEN 2 + SizeOf(s, FieldList["Kart"][6].sub) ELSE 0
    BY <1>1, <2>2, SubmessageTakes
  <2> QED BY <1>1, <2>1, <2>3
<1>9. /\ UpTo(s, "Kart", 0) = 0
      /\ UpTo(s, "Kart", 1) = UpTo(s, "Kart", 1 - 1) + Bytes(s, "Kart", 1)
      /\ UpTo(s, "Kart", 2) = UpTo(s, "Kart", 2 - 1) + Bytes(s, "Kart", 2)
      /\ UpTo(s, "Kart", 3) = UpTo(s, "Kart", 3 - 1) + Bytes(s, "Kart", 3)
      /\ UpTo(s, "Kart", 4) = UpTo(s, "Kart", 4 - 1) + Bytes(s, "Kart", 4)
      /\ UpTo(s, "Kart", 5) = UpTo(s, "Kart", 5 - 1) + Bytes(s, "Kart", 5)
      /\ UpTo(s, "Kart", 6) = UpTo(s, "Kart", 6 - 1) + Bytes(s, "Kart", 6)
  BY <1>1, UpToIs
<1>10. SizeOf(s, "Kart") = UpTo(s, "Kart", 6)
  <2>1. 6 \in 2..6
    OBVIOUS
  <2> QED BY <1>1, <2>1, SizeOfIs
<1> DEFINE b(n) == Bytes(s, "Kart", n)
           u(n) == UpTo(s, "Kart", n)
<1>11. /\ b(1) \in 0..2 /\ b(2) \in 0..11 /\ b(3) \in 0..2 /\ b(4) \in 0..5
       /\ b(5) \in 0..5 /\ b(6) \in 0..20
  BY <1>2, <1>3, <1>4, <1>5, <1>6, <1>7, <1>8
<1>12. /\ u(1) = b(1) /\ u(2) = u(1) + b(2) /\ u(3) = u(2) + b(3)
       /\ u(4) = u(3) + b(4) /\ u(5) = u(4) + b(5) /\ u(6) = u(5) + b(6)
  BY <1>9, <1>11
<1> HIDE DEF b, u
<1>13. /\ u(6) \in 0..45
       /\ u(1) \in 0..u(6) /\ u(2) \in 0..u(6) /\ u(3) \in 0..u(6)
       /\ u(4) \in 0..u(6) /\ u(5) \in 0..u(6)
  <2>1. u(1) \in 0..2
    BY <1>11, <1>12
  <2>2. u(2) \in 0..13 /\ u(1) <= u(2)
    BY <2>1, <1>11, <1>12
  <2>3. u(3) \in 0..15 /\ u(2) <= u(3)
    BY <2>2, <1>11, <1>12
  <2>4. u(4) \in 0..20 /\ u(3) <= u(4)
    BY <2>3, <1>11, <1>12
  <2>5. u(5) \in 0..25 /\ u(4) <= u(5)
    BY <2>4, <1>11, <1>12
  <2>6. u(6) \in 0..45 /\ u(5) <= u(6)
    BY <2>5, <1>11, <1>12
  <2> QED BY <2>1, <2>2, <2>3, <2>4, <2>5, <2>6
<1>14. \A n \in DOMAIN FieldList["Kart"] : n = 1 \/ n = 2 \/ n = 3 \/ n = 4 \/ n = 5 \/ n = 6
  BY <1>1, CountOf
<1>15. \A n \in DOMAIN FieldList["Kart"] : b(n) \in Nat /\ u(n) \in 0..u(6)
  BY <1>11, <1>13, <1>14
<1> QED BY <1>10, <1>13, <1>15 DEF Takes, b, u

\* Of the payloads of an MQTTMessage one at most is there: which_payload is one tag.
LEMMA OnePayload ==
    ASSUME NEW s,
           Present(s, IterAt("MQTTMessage", Place["MQTTMessage"], 3)),
           Present(s, IterAt("MQTTMessage", Place["MQTTMessage"], 4))
    PROVE  FALSE
<1>1. /\ "MQTTMessage" \in Messages /\ Place["MQTTMessage"] = 0 /\ 0 \in Int
      /\ 3 \in DOMAIN FieldList["MQTTMessage"] /\ 4 \in DOMAIN FieldList["MQTTMessage"]
      /\ FieldList["MQTTMessage"][3].htype = "ONEOF"
      /\ FieldList["MQTTMessage"][4].htype = "ONEOF"
      /\ FieldList["MQTTMessage"][3].offset = 32 /\ FieldList["MQTTMessage"][3].delta = 8
      /\ FieldList["MQTTMessage"][4].offset = 32 /\ FieldList["MQTTMessage"][4].delta = 8
  BY MessageNames, MQTTMessageLines DEF Line, Place
<1>2. PICK k, t : /\ k = IterAt("MQTTMessage", Place["MQTTMessage"], 3)
                  /\ t = IterAt("MQTTMessage", Place["MQTTMessage"], 4)
  OBVIOUS
<1>3. /\ k.tag = 3 /\ k.pSize = 24 /\ k.type = Type(FieldList["MQTTMessage"][3])
      /\ IsField(FieldList["MQTTMessage"][3])
  <2>1. /\ k.tag = 3 /\ k.type = Type(FieldList["MQTTMessage"][3])
        /\ k.pSize = (IF FieldList["MQTTMessage"][3].delta = 0 THEN NoAddress
           ELSE 0 + FieldList["MQTTMessage"][3].offset - FieldList["MQTTMessage"][3].delta)
        /\ IsField(FieldList["MQTTMessage"][3])
    BY <1>1, <1>2, IterMembers
  <2> QED BY <1>1, <2>1
<1>4. /\ t.tag = 4 /\ t.pSize = 24 /\ t.type = Type(FieldList["MQTTMessage"][4])
      /\ IsField(FieldList["MQTTMessage"][4])
  <2>1. /\ t.tag = 4 /\ t.type = Type(FieldList["MQTTMessage"][4])
        /\ t.pSize = (IF FieldList["MQTTMessage"][4].delta = 0 THEN NoAddress
           ELSE 0 + FieldList["MQTTMessage"][4].offset - FieldList["MQTTMessage"][4].delta)
        /\ IsField(FieldList["MQTTMessage"][4])
    BY <1>1, <1>2, IterMembers
  <2> QED BY <1>1, <2>1
<1>5. PB_HTYPE(k.type) = PB_HTYPE_ONEOF /\ PB_HTYPE(t.type) = PB_HTYPE_ONEOF
  BY <1>1, <1>3, <1>4, HTypeOf
<1>6. s[k.pSize] = k.tag /\ s[t.pSize] = t.tag
  <2>1. Present(s, k) /\ Present(s, t)
    BY <1>2
  <2> QED BY <1>5, <2>1 DEF Present
<1> QED BY <1>3, <1>4, <1>6

LEMMA MQTTMessageTakes == \A s : Takes(s, "MQTTMessage", 73)
<1> SUFFICES ASSUME NEW s PROVE Takes(s, "MQTTMessage", 73)
  OBVIOUS
<1>1. /\ "MQTTMessage" \in Messages /\ Len(FieldList["MQTTMessage"]) = 4
      /\ \A n \in 1..4 : n \in DOMAIN FieldList["MQTTMessage"]
      /\ FieldList["MQTTMessage"][1].ltype = "UENUM"
      /\ FieldList["MQTTMessage"][2].ltype = "MESSAGE"
      /\ FieldList["MQTTMessage"][3].ltype = "MESSAGE"
      /\ FieldList["MQTTMessage"][4].ltype = "MESSAGE"
      /\ FieldList["MQTTMessage"][2].sub = "Timestamp"
      /\ FieldList["MQTTMessage"][3].sub = "Kart"
      /\ FieldList["MQTTMessage"][4].sub = "Track"
  BY MessageNames, MQTTMessageLines DEF Line
<1>2. /\ SizeOf(s, "Timestamp") \in 0..22 /\ SizeOf(s, "Kart") \in 0..45
      /\ SizeOf(s, "Track") \in 0..4
  BY TimestampTakes, KartTakes, TrackTakes DEF Takes
<1>3. Bytes(s, "MQTTMessage", 1) \in 0..2
  <2>1. Bytes(s, "MQTTMessage", 1) \in 0..(1 + Most["UENUM"])
    BY <1>1, ValueTakes
  <2> QED BY <2>1 DEF Most
<1>4. Bytes(s, "MQTTMessage", 2) \in 0..24
  <2>1. SizeOf(s, FieldList["MQTTMessage"][2].sub) \in 0..127
    BY <1>1, <1>2
  <2>2. Bytes(s, "MQTTMessage", 2) =
          IF Present(s, IterAt("MQTTMessage", Place["MQTTMessage"], 2))
          THEN 2 + SizeOf(s, FieldList["MQTTMessage"][2].sub) ELSE 0
    BY <1>1, <2>1, SubmessageTakes
  <2> QED BY <1>1, <1>2, <2>2
<1> DEFINE kart == Present(s, IterAt("MQTTMessage", Place["MQTTMessage"], 3))
           track == Present(s, IterAt("MQTTMessage", Place["MQTTMessage"], 4))
<1>5. Bytes(s, "MQTTMessage", 3) \in 0..(IF kart THEN 47 ELSE 0)
  <2>1. SizeOf(s, FieldList["MQTTMessage"][3].sub) \in 0..127
    BY <1>1, <1>2
  <2>2. Bytes(s, "MQTTMessage", 3) =
          IF kart THEN 2 + SizeOf(s, FieldList["MQTTMessage"][3].sub) ELSE 0
    BY <1>1, <2>1, SubmessageTakes
  <2> HIDE DEF kart
  <2> QED BY <1>1, <1>2, <2>2
<1>6. Bytes(s, "MQTTMessage", 4) \in 0..(IF track THEN 6 ELSE 0)
  <2>1. SizeOf(s, FieldList["MQTTMessage"][4].sub) \in 0..127
    BY <1>1, <1>2
  <2>2. Bytes(s, "MQTTMessage", 4) =
          IF track THEN 2 + SizeOf(s, FieldList["MQTTMessage"][4].sub) ELSE 0
    BY <1>1, <2>1, SubmessageTakes
  <2> HIDE DEF track
  <2> QED BY <1>1, <1>2, <2>2
<1>7. ~(kart /\ track)
  BY OnePayload
<1>8. /\ UpTo(s, "MQTTMessage", 0) = 0
      /\ UpTo(s, "MQTTMessage", 1) = UpTo(s, "MQTTMessage", 1 - 1) + Bytes(s, "MQTTMessage", 1)
      /\ UpTo(s, "MQTTMessage", 2) = UpTo(s, "MQTTMessage", 2 - 1) + Bytes(s, "MQTTMessage", 2)
      /\ UpTo(s, "MQTTMessage", 3) = UpTo(s, "MQTTMessage", 3 - 1) + Bytes(s, "MQTTMessage", 3)
      /\ UpTo(s, "MQTTMessage", 4) = UpTo(s, "MQTTMessage", 4 - 1) + Bytes(s, "MQTTMessage", 4)
  BY <1>1, UpToIs
<1>9. SizeOf(s, "MQTTMessage") = UpTo(s, "MQTTMessage", 4)
  <2>1. 4 \in 2..6
    OBVIOUS
  <2> QED BY <1>1, <2>1, SizeOfIs
<1> DEFINE b(n) == Bytes(s, "MQTTMessage", n)
           u(n) == UpTo(s, "MQTTMessage", n)
<1> HIDE DEF kart, track
<1>10. b(1) \in 0..2 /\ b(2) \in 0..24 /\ b(3) \in Nat /\ b(4) \in Nat /\ b(3) + b(4) <= 47
  BY <1>3, <1>4, <1>5, <1>6, <1>7
<1>11. u(1) = b(1) /\ u(2) = u(1) + b(2) /\ u(3) = u(2) + b(3) /\ u(4) = u(3) + b(4)
  BY <1>8, <1>10
<1> HIDE DEF b, u
<1>12. /\ u(4) \in 0..73
       /\ u(1) \in 0..u(4) /\ u(2) \in 0..u(4) /\ u(3) \in 0..u(4)
  <2>1. u(1) \in 0..2 /\ u(2) \in u(1)..26 /\ u(2) \in Nat
    BY <1>10, <1>11
  <2>2. u(3) = u(2) + b(3) /\ u(4) = u(2) + (b(3) + b(4))
    BY <1>10, <1>11, <2>1
  <2> QED BY <1>10, <2>1, <2>2
<1>13. \A n \in DOMAIN FieldList["MQTTMessage"] : n = 1 \/ n = 2 \/ n = 3 \/ n = 4
  <2>1. PICK count \in 2..6 : Len(FieldList["MQTTMessage"]) = count
                              /\ DOMAIN FieldList["MQTTMessage"] = 1..count
    BY <1>1, CountOf
  <2>2. count = 4
    BY <1>1, <2>1
  <2>3. \A n \in 1..4 : n = 1 \/ n = 2 \/ n = 3 \/ n = 4
    OBVIOUS
  <2> QED BY <2>1, <2>2, <2>3
<1>14. \A n \in DOMAIN FieldList["MQTTMessage"] : b(n) \in Nat /\ u(n) \in 0..u(4)
  BY <1>10, <1>12, <1>13
<1> QED BY <1>9, <1>12, <1>14 DEF Takes, b, u

\* The largest MQTTMessage has 73 bytes, and no message is larger.
LEMMA AllTake == \A s : \A desc \in Messages : Takes(s, desc, 73)
<1>1. ASSUME NEW s, NEW desc, NEW most \in 0..73, Takes(s, desc, most)
      PROVE  Takes(s, desc, 73)
  <2>1. SizeOf(s, desc) \in 0..73
    BY <1>1 DEF Takes
  <2> QED BY <1>1, <2>1 DEF Takes
<1>2. ASSUME NEW s
      PROVE  /\ Takes(s, "Timestamp", 73) /\ Takes(s, "LatLng", 73) /\ Takes(s, "Track", 73)
             /\ Takes(s, "Kart", 73) /\ Takes(s, "MQTTMessage", 73)
  <2>1. 22 \in 0..73 /\ 18 \in 0..73 /\ 4 \in 0..73 /\ 45 \in 0..73
    OBVIOUS
  <2>2. Takes(s, "Timestamp", 73)
    BY <1>1, <2>1, TimestampTakes
  <2>3. Takes(s, "LatLng", 73)
    BY <1>1, <2>1, LatLngTakes
  <2>4. Takes(s, "Track", 73)
    BY <1>1, <2>1, TrackTakes
  <2>5. Takes(s, "Kart", 73)
    BY <1>1, <2>1, KartTakes
  <2> QED BY <2>2, <2>3, <2>4, <2>5, MQTTMessageTakes
<1> QED BY <1>2, MessageNames, Zenon


-----------------------------------------------------------------------------
(***************************************************************************)
(* Types.  Every frame is at a field of a message at its place, and what   *)
(* has been written to the buffer is the items, one after the other.       *)
(***************************************************************************)

\* The bytes of the first n items of s.
Holds(s, n) == Total([i \in 1..n |-> s[i].n], n)

EncTypeInv ==
    /\ src \in [Cells -> Nat]
    /\ enc \in {"field", "failing", "ok", "failed"}
    /\ \E F : out \in Seq(F)
    /\ dest = Holds(out, Len(out))
    /\ AtFields(frames)

\* One more item.
LEMMA OneMore ==
    ASSUME NEW s, NEW t, NEW n \in Nat, \A i \in 1..n : s[i] = t[i]
    PROVE  Holds(t, n + 1) = Holds(s, n) + t[n + 1].n
<1>1. PICK b, c : b = [i \in 1..(n + 1) |-> t[i].n] /\ c = [i \in 1..n |-> s[i].n]
  OBVIOUS
<1>2. Total(b, n + 1) = Total(b, n) + b[n + 1]
  BY TotalIs
<1>3. Total(b, n) = Total(c, n)
  <2>1. ASSUME NEW i \in 1..n PROVE b[i] = c[i]
    <3>1. i \in 1..(n + 1) /\ s[i] = t[i]
      OBVIOUS
    <3> QED BY <1>1, <3>1
  <2>2. Alike(b, c, n)
    BY <2>1 DEF Alike
  <2> QED BY <2>2, TotalSame
<1>4. b[n + 1] = t[n + 1].n
  <2>1. n + 1 \in 1..(n + 1)
    OBVIOUS
  <2> QED BY <1>1, <2>1
<1> QED BY <1>1, <1>2, <1>3, <1>4, Zenon DEF Holds

LEMMA OneItem ==
    ASSUME NEW F, NEW s \in Seq(F), NEW a
    PROVE  /\ \E G : Append(s, a) \in Seq(G)
           /\ Holds(Append(s, a), Len(Append(s, a))) = Holds(s, Len(s)) + a.n
<1>1. PICK G : G = F \cup {a}
  OBVIOUS
<1>2. s \in Seq(G) /\ a \in G
  BY <1>1, SeqMonotonic
<1>3. PICK t : t = Append(s, a)
  OBVIOUS
<1>4. /\ t \in Seq(G) /\ Len(t) = Len(s) + 1 /\ t[Len(s) + 1] = a
      /\ \A i \in 1..Len(s) : s[i] = t[i]
  BY <1>2, <1>3, AppendProperties
<1>5. PICK n \in Nat : n = Len(s)
  BY LenProperties
<1>6. Holds(t, n + 1) = Holds(s, n) + t[n + 1].n
  BY <1>4, <1>5, OneMore
<1> QED BY <1>3, <1>4, <1>5, <1>6, Zenon

LEMMA TwoItems ==
    ASSUME NEW F, NEW s \in Seq(F), NEW a, NEW b
    PROVE  /\ \E G : s \o <<a, b>> \in Seq(G)
           /\ Holds(s \o <<a, b>>, Len(s \o <<a, b>>)) = (Holds(s, Len(s)) + a.n) + b.n
<1>1. PICK G : G = F \cup {a, b}
  OBVIOUS
<1>2. s \in Seq(G) /\ <<a, b>> \in Seq(G) /\ Len(<<a, b>>) = 2
      /\ <<a, b>>[1] = a /\ <<a, b>>[2] = b
  BY <1>1, SeqMonotonic
<1>3. PICK t, u : t = s \o <<a, b>> /\ u = <<a, b>>
  OBVIOUS
<1>4. PICK n \in Nat : n = Len(s)
  BY LenProperties
<1>5. /\ t \in Seq(G) /\ Len(t) = n + 2
      /\ \A i \in 1..(n + 2) : t[i] = IF i <= n THEN s[i] ELSE u[i - n]
  BY <1>2, <1>3, <1>4, ConcatProperties
<1>6. \A i \in 1..n : s[i] = t[i]
  BY <1>5
<1>7. t[n + 1] = a
  <2>1. n + 1 \in 1..(n + 2) /\ ~(n + 1 <= n) /\ (n + 1) - n = 1
    OBVIOUS
  <2> QED BY <1>2, <1>3, <1>5, <2>1
<1>8. t[n + 2] = b
  <2>1. n + 2 \in 1..(n + 2) /\ ~(n + 2 <= n) /\ (n + 2) - n = 2
    OBVIOUS
  <2> QED BY <1>2, <1>3, <1>5, <2>1
<1>9. Holds(t, n + 1) = Holds(s, n) + a.n
  BY <1>6, <1>7, OneMore
<1>10. Holds(t, n + 2) = Holds(t, n + 1) + b.n
  <2>1. PICK m \in Nat : m = n + 1
    OBVIOUS
  <2>2. m + 1 = n + 2
    BY <2>1
  <2>3. Holds(t, m + 1) = Holds(t, m) + t[m + 1].n
    BY OneMore
  <2> QED BY <1>8, <2>1, <2>2, <2>3
<1> QED BY <1>3, <1>4, <1>5, <1>9, <1>10, Zenon

\* What has been written once the step is done.
LEMMA Written ==
    ASSUME NEW a, NEW b, NEW ACTION Then, EncTypeInv,
           WriteBoth(a, b, Then)
    PROVE  (\E F : out' \in Seq(F)) /\ dest' = Holds(out', Len(out'))
<1>1. PICK F : out \in Seq(F)
  BY DEF EncTypeInv
<1>2. dest = Holds(out, Len(out))
  BY DEF EncTypeInv
<1>3. \/ UNCHANGED <<out, dest>>
      \/ out' = Append(out, a) /\ dest' = dest + a.n
      \/ out' = out \o <<a, b>> /\ dest' = dest + a.n + b.n
  BY DEF WriteBoth
<1>4. CASE UNCHANGED <<out, dest>>
  BY <1>1, <1>2, <1>4
<1>5. CASE out' = Append(out, a) /\ dest' = dest + a.n
  BY <1>1, <1>2, <1>5, OneItem
<1>6. CASE out' = out \o <<a, b>> /\ dest' = dest + a.n + b.n
  BY <1>1, <1>2, <1>6, TwoItems
<1> QED BY <1>3, <1>4, <1>5, <1>6

(***************************************************************************)
(* What the frames are after a step.                                       *)
(***************************************************************************)

\* The last frame of s is now f.
Topped(s, t, f) ==
    /\ Len(t) = Len(s) /\ t[Len(s)] = f
    /\ \A i \in 1..(Len(s) - 1) : t[i] = s[i]

LEMMA ToppedIs ==
    ASSUME NEW s, Nested(s), NEW f
    PROVE  Topped(s, Append(SubSeq(s, 1, Len(s) - 1), f), f)
<1> DEFINE below == SubSeq(s, 1, Len(s) - 1)
           t == Append(below, f)
<1>1. PICK F : s \in Seq(F)
  BY DEF Nested
<1>2. Len(s) \in Nat /\ Len(s) >= 1
  BY <1>1, LenProperties DEF Nested
<1>3. /\ below \in Seq(F) /\ Len(below) = Len(s) - 1
      /\ \A i \in 1..(Len(s) - 1) : below[i] = s[i]
  BY <1>1, <1>2, OuterFrames
<1>4. below \in Seq(F \cup {f})
  BY <1>3, SeqMonotonic
<1>5. /\ Len(t) = Len(s) /\ t[Len(s)] = f
      /\ \A i \in 1..(Len(s) - 1) : t[i] = s[i]
  BY <1>2, <1>3, <1>4, AppendProperties
<1> QED BY <1>5 DEF Topped

\* The last frame of s is now f, and sub is on top of it.
Pushed(s, t, f, sub) ==
    /\ Len(t) = Len(s) + 1 /\ t[Len(s)] = f /\ t[Len(s) + 1] = sub
    /\ \A i \in 1..(Len(s) - 1) : t[i] = s[i]

LEMMA PushedIs ==
    ASSUME NEW s, Nested(s), NEW f, NEW sub
    PROVE  Pushed(s, SubSeq(s, 1, Len(s) - 1) \o <<f, sub>>, f, sub)
<1> DEFINE below == SubSeq(s, 1, Len(s) - 1)
           t == below \o <<f, sub>>
<1>1. PICK F : s \in Seq(F)
  BY DEF Nested
<1>2. PICK n \in Nat : n + 1 = Len(s) /\ n = Len(s) - 1
  <2>1. Len(s) \in Nat /\ Len(s) >= 1
    BY <1>1, LenProperties DEF Nested
  <2> QED BY <2>1
<1>3. /\ below \in Seq(F) /\ Len(below) = n
      /\ \A i \in 1..n : below[i] = s[i]
  BY <1>1, <1>2, OuterFrames
<1>4. PICK G : G = F \cup {f, sub}
  OBVIOUS
<1>5. below \in Seq(G)
  BY <1>3, <1>4, SeqMonotonic
<1>6. PICK u : u = <<f, sub>>
  OBVIOUS
<1>7. u \in Seq(G) /\ Len(u) = 2 /\ u[1] = f /\ u[2] = sub
  BY <1>4, <1>6
<1>8. /\ Len(t) = n + 2
      /\ \A i \in 1..(n + 2) : t[i] = IF i <= n THEN below[i] ELSE u[i - n]
  BY <1>3, <1>5, <1>6, <1>7, ConcatProperties
<1> HIDE DEF t, below
<1>9. \A i \in 1..n : t[i] = s[i]
  BY <1>3, <1>8
<1>10. t[n + 1] = f
  <2>1. n + 1 \in 1..(n + 2) /\ ~(n + 1 <= n) /\ (n + 1) - n = 1
    OBVIOUS
  <2> QED BY <1>7, <1>8, <2>1
<1>11. t[n + 2] = sub
  <2>1. n + 2 \in 1..(n + 2) /\ ~(n + 2 <= n) /\ (n + 2) - n = 2
    OBVIOUS
  <2> QED BY <1>7, <1>8, <2>1
<1>12. n + 2 = Len(s) + 1
  BY <1>2
<1>13. Pushed(s, t, f, sub)
  BY <1>2, <1>8, <1>9, <1>10, <1>11, <1>12 DEF Pushed
<1> QED BY <1>13 DEF t, below

\* The last frame of s is gone, and the one below is now f.
Popped(s, t, f) ==
    /\ Len(t) = Len(s) - 1 /\ t[Len(s) - 1] = f
    /\ \A i \in 1..(Len(s) - 2) : t[i] = s[i]

LEMMA ExceptLast ==
    ASSUME NEW G, NEW s \in Seq(G), NEW f \in G, Len(s) >= 1
    PROVE  /\ Len([s EXCEPT ![Len(s)] = f]) = Len(s)
           /\ \A i \in 1..Len(s) :
                [s EXCEPT ![Len(s)] = f][i] = IF i = Len(s) THEN f ELSE s[i]
<1>1. Len(s) \in Nat /\ Len(s) >= 1 /\ Len(s) \in 1..Len(s)
  BY LenProperties
<1> DEFINE t == [s EXCEPT ![Len(s)] = f]
<1>2. /\ t \in Seq(G) /\ Len(t) = Len(s)
      /\ \A i \in 1..Len(s) : t[i] = IF i = Len(s) THEN f ELSE s[i]
  BY <1>1, ExceptSeq
<1> QED BY <1>2

LEMMA PoppedIs ==
    ASSUME NEW s, Nested(s), Len(s) > 1, NEW f,
           NEW below, below = SubSeq(s, 1, Len(s) - 1)
    PROVE  Popped(s, [below EXCEPT ![Len(below)] = f], f) /\ below[Len(below)] = s[Len(s) - 1]
<1>1. PICK F : s \in Seq(F)
  BY DEF Nested
<1>2. PICK n \in Nat : n = Len(s) - 1 /\ n >= 1
  <2>1. Len(s) \in Nat
    BY <1>1, LenProperties
  <2>2. Len(s) - 1 \in Nat /\ Len(s) - 1 >= 1
    BY <2>1
  <2> QED BY <2>2
<1>3. /\ below \in Seq(F) /\ Len(below) = n
      /\ \A i \in 1..n : below[i] = s[i]
  <2>1. Len(s) >= 1
    BY DEF Nested
  <2> QED BY <1>1, <1>2, <2>1, OuterFrames
<1>4. PICK G : G = F \cup {f}
  OBVIOUS
<1>5. below \in Seq(G) /\ f \in G
  BY <1>3, <1>4, SeqMonotonic
<1> DEFINE t == [below EXCEPT ![Len(below)] = f]
<1>6. Len(below) \in Nat /\ Len(below) >= 1 /\ Len(below) \in 1..Len(below)
  BY <1>2, <1>3
<1>7. /\ Len(t) = Len(below)
      /\ \A i \in 1..Len(below) : t[i] = IF i = Len(below) THEN f ELSE below[i]
  BY ONLY <1>5, <1>6, ExceptLast
<1> HIDE DEF t
<1>8. n \in 1..n /\ Len(s) - 2 = n - 1 /\ \A i \in 1..(n - 1) : i \in 1..n /\ i # n
  <2>1. Len(s) \in Nat
    BY <1>1, LenProperties
  <2> QED BY <1>2, <2>1
<1>9. t[n] = f /\ \A i \in 1..(n - 1) : t[i] = s[i]
  BY <1>3, <1>7, <1>8
<1>10. Popped(s, t, f)
  BY <1>2, <1>7, <1>8, <1>9 DEF Popped
<1> QED BY <1>2, <1>3, <1>8, <1>10 DEF t


\* pb_write counts, and leaves the iterator where it is.
LEMMA WroteIs ==
    ASSUME NEW f, IsOStream(f), NEW n \in Nat
    PROVE  /\ Wrote(f, n).iter = f.iter /\ Wrote(f, n).done = f.done
           /\ Wrote(f, n).max_size = f.max_size
           /\ Wrote(f, n).bytes_written = f.bytes_written + n
BY DEF IsOStream, Wrote

\* The end of the loop of pb_encode: the next field, or through.
LEMMA NextKeeps ==
    ASSUME NEW f, IsOStream(f)
    PROVE  /\ NextField(f).iter = pb_field_iter_next(f.iter)
           /\ NextField(f).done <=> pb_field_iter_next(f.iter).index = 0
           /\ NextField(f).max_size = f.max_size
           /\ NextField(f).bytes_written = f.bytes_written
<1>1. PICK next, done : next = pb_field_iter_next(f.iter) /\ done = (next.index = 0)
  OBVIOUS
<1>2. NextField(f) = [f EXCEPT !.iter = next, !.done = done]
  BY <1>1, Zenon DEF NextField
<1>3. /\ NextField(f).iter = next /\ NextField(f).done = done
      /\ NextField(f).max_size = f.max_size
      /\ NextField(f).bytes_written = f.bytes_written
  BY <1>2 DEF IsOStream
<1> QED BY <1>1, <1>3, Zenon

\* pb_field_iter_next at a field, the last one too.
GoesOn(desc, count, n) ==
    LET next == pb_field_iter_next(IterAt(desc, Place[desc], n))
    IN  /\ next = IterAt(desc, Place[desc], IF n = count THEN 1 ELSE n + 1)
        /\ next.index = IF n = count THEN 0 ELSE n

LEMMA IterNext ==
    ASSUME NEW desc \in Messages, NEW count \in 2..6, Len(FieldList[desc]) = count,
           NEW n \in 1..count
    PROVE  GoesOn(desc, count, n)
<1> DEFINE m == IF n = count THEN 1 ELSE n + 1
           next == pb_field_iter_next(IterAt(desc, Place[desc], n))
<1>1. PICK it : it = IterAt(desc, Place[desc], n)
  OBVIOUS
<1>2. At(it, desc, Place[desc], n) /\ Place[desc] \in Int
  BY <1>1, IterAtIsAt, PlaceInStruct
<1>3. At(advance_iterator(it), desc, Place[desc], IF n = count THEN 1 ELSE n + 1)
  BY <1>2, AdvanceTrue
<1>4. PICK k \in DOMAIN FieldList[desc] : k = m
  <2>1. DOMAIN FieldList[desc] = 1..count /\ m \in 1..count
    BY CountOf
  <2> QED BY <2>1
<1> HIDE DEF next
<1>5. At(advance_iterator(it), desc, Place[desc], k)
  BY <1>3, <1>4, Zenon
<1>6. load_descriptor_values(advance_iterator(it)) = IterAt(desc, Place[desc], k)
  BY <1>2, <1>5, LoadTrue
<1>7. next = IterAt(desc, Place[desc], k)
  BY <1>1, <1>6, Zenon DEF pb_field_iter_next, next
<1>8. next.index = k - 1
  BY <1>7, IterAtIsAt DEF At
<1>9. k - 1 = IF n = count THEN 0 ELSE n
  BY <1>4
<1> QED BY <1>4, <1>7, <1>8, <1>9, Zenon DEF next, GoesOn

\* Where pb_encode of the submessage a field holds begins.
LEMMA BeginAt ==
    ASSUME NEW desc \in Messages, NEW n \in DOMAIN FieldList[desc],
           NEW it, it = IterAt(desc, Place[desc], n), PB_LTYPE_IS_SUBMSG(it.type)
    PROVE  \E sub \in Messages :
             /\ sub = FieldList[desc][n].sub
             /\ it.submsg_desc = sub /\ it.pData = Place[sub]
             /\ Depth[sub] = Depth[desc] + 1
             /\ pb_field_iter_begin(it.submsg_desc, it.pData) = IterAt(sub, Place[sub], 1)
<1>1. PICK f : f = FieldList[desc][n]
  OBVIOUS
<1>2. /\ it.type = Type(f) /\ IsField(f)
      /\ it.submsg_desc = f.sub /\ it.pData = Place[desc] + f.offset
  BY <1>1, IterMembers, PlaceInStruct
<1>3. f.sub # NULL
  BY <1>2, TypeParts DEF IsField
<1>4. PICK sub : sub = f.sub
  OBVIOUS
<1>5. sub \in Messages /\ Place[sub] = Place[desc] + f.offset /\ Depth[sub] = Depth[desc] + 1
  BY <1>1, <1>3, <1>4, PlaceOfSubmessage
<1>6. pb_field_iter_begin(sub, Place[sub]) = IterAt(sub, Place[sub], 1)
  BY <1>5, BeginTrue, PlaceInStruct
<1> QED BY <1>1, <1>2, <1>4, <1>5, <1>6

LEMMA NextStays ==
    ASSUME NEW f, IsOStream(f), NEW i, FrameAt(f, i)
    PROVE  FrameAt(NextField(f), i)
<1>1. PICK desc \in Messages : \E n \in DOMAIN FieldList[desc] :
        f.iter = IterAt(desc, Place[desc], n) /\ Depth[desc] = i
  BY DEF FrameAt
<1>2. PICK n \in DOMAIN FieldList[desc] :
        f.iter = IterAt(desc, Place[desc], n) /\ Depth[desc] = i
  BY <1>1
<1>3. PICK count \in 2..6 : Len(FieldList[desc]) = count /\ DOMAIN FieldList[desc] = 1..count
  BY CountOf
<1>4. PICK k \in 1..count : k = n
  BY <1>3
<1>5. PICK m \in 1..count : m = IF k = count THEN 1 ELSE k + 1
  OBVIOUS
<1>6. PICK next : next = pb_field_iter_next(IterAt(desc, Place[desc], k))
  OBVIOUS
<1>7. next = IterAt(desc, Place[desc], m)
  <2>1. Len(FieldList[desc]) = count
    BY <1>3
  <2>2. GoesOn(desc, count, k)
    BY <2>1, IterNext
  <2> QED BY <1>5, <1>6, <2>2, Zenon DEF GoesOn
<1>8. NextField(f).iter = IterAt(desc, Place[desc], m)
  BY <1>2, <1>4, <1>6, <1>7, NextKeeps, Zenon
<1>9. m \in DOMAIN FieldList[desc]
  BY <1>3
<1> QED BY <1>2, <1>8, <1>9 DEF FrameAt

LEMMA SubmessageAt ==
    ASSUME NEW f, NEW i, FrameAt(f, i), PB_LTYPE_IS_SUBMSG(f.iter.type),
           NEW g, g.iter = pb_field_iter_begin(f.iter.submsg_desc, f.iter.pData)
    PROVE  FrameAt(g, i + 1)
<1>1. PICK desc \in Messages : \E n \in DOMAIN FieldList[desc] :
        f.iter = IterAt(desc, Place[desc], n) /\ Depth[desc] = i
  BY DEF FrameAt
<1>2. PICK n \in DOMAIN FieldList[desc] :
        f.iter = IterAt(desc, Place[desc], n) /\ Depth[desc] = i
  BY <1>1
<1>3. PICK it : it = f.iter
  OBVIOUS
<1>4. PICK sub \in Messages :
        /\ Depth[sub] = Depth[desc] + 1
        /\ pb_field_iter_begin(it.submsg_desc, it.pData) = IterAt(sub, Place[sub], 1)
  BY <1>2, <1>3, BeginAt
<1>5. 1 \in DOMAIN FieldList[sub]
  BY CountOf
<1>6. g.iter = IterAt(sub, Place[sub], 1) /\ Depth[sub] = i + 1
  BY <1>2, <1>3, <1>4, Zenon
<1> QED BY <1>5, <1>6 DEF FrameAt

LEMMA AtTopped ==
    ASSUME NEW s, NEW t, NEW f, Len(s) \in Nat, AtFields(s), Topped(s, t, f),
           FrameAt(f, Len(s))
    PROVE  AtFields(t)
<1> SUFFICES ASSUME NEW i \in 1..Len(t) PROVE FrameAt(t[i], i)
  BY DEF AtFields
<1>1. CASE i = Len(s)
  BY <1>1 DEF Topped
<1>2. CASE i # Len(s)
  <2>1. i \in 1..(Len(s) - 1) /\ i \in 1..Len(s)
    BY <1>2 DEF Topped
  <2> QED BY <2>1 DEF AtFields, Topped
<1> QED BY <1>1, <1>2

LEMMA AtPushed ==
    ASSUME NEW s, NEW t, NEW f, NEW sub, Len(s) \in Nat, AtFields(s), Pushed(s, t, f, sub),
           FrameAt(f, Len(s)), FrameAt(sub, Len(s) + 1)
    PROVE  AtFields(t)
<1> SUFFICES ASSUME NEW i \in 1..Len(t) PROVE FrameAt(t[i], i)
  BY DEF AtFields
<1>1. CASE i = Len(s)
  BY <1>1 DEF Pushed
<1>2. CASE i = Len(s) + 1
  BY <1>2 DEF Pushed
<1>3. CASE i # Len(s) /\ i # Len(s) + 1
  <2>1. i \in 1..(Len(s) - 1) /\ i \in 1..Len(s)
    BY <1>3 DEF Pushed
  <2> QED BY <2>1 DEF AtFields, Pushed
<1> QED BY <1>1, <1>2, <1>3

LEMMA AtPopped ==
    ASSUME NEW s, NEW t, NEW f, Len(s) \in Nat, Len(s) > 1, AtFields(s), Popped(s, t, f),
           FrameAt(f, Len(s) - 1)
    PROVE  AtFields(t)
<1> SUFFICES ASSUME NEW i \in 1..Len(t) PROVE FrameAt(t[i], i)
  BY DEF AtFields
<1>1. CASE i = Len(s) - 1
  BY <1>1 DEF Popped
<1>2. CASE i # Len(s) - 1
  <2>1. i \in 1..(Len(s) - 2) /\ i \in 1..Len(s)
    BY <1>2 DEF Popped
  <2> QED BY <2>1 DEF AtFields, Popped
<1> QED BY <1>1, <1>2


\* The innermost frame is in the message of its depth.
LEMMA TopAt ==
    ASSUME EncInv, EncTypeInv
    PROVE  FrameAt(Innermost, Len(frames))
<1>1. Len(frames) \in 1..Len(frames)
  BY InnermostFrame
<1> QED BY <1>1 DEF EncTypeInv, AtFields, Innermost

\* It is still there when it has changed and the others have not.
LEMMA TopStays ==
    ASSUME EncInv, EncTypeInv, NEW f, frames' = Append(Outer, f), FrameAt(f, Len(frames))
    PROVE  AtFields(frames')
<1>1. Topped(frames, frames', f)
  BY InnermostFrame, ToppedIs DEF Outer
<1> QED BY <1>1, InnermostFrame, AtTopped DEF EncTypeInv

\* What two writes do to the frames.
LEMMA WritesStay ==
    ASSUME EncInv, EncTypeInv, NEW a, a.n \in Nat, NEW b, NEW ACTION Then,
           WriteBoth(a, b, Then)
    PROVE  \/ AtFields(frames') /\ enc' = "failing"
           \/ Fits(Innermost, a.n + b.n) /\ Then
<1>1. CASE ~Fits(Innermost, a.n)
  <2>1. enc' = "failing" /\ frames' = frames
    BY <1>1 DEF WriteBoth
  <2> QED BY <2>1 DEF EncTypeInv
<1>2. CASE Fits(Innermost, a.n) /\ ~Fits(Innermost, a.n + b.n)
  <2>1. enc' = "failing" /\ frames' = Append(Outer, Wrote(Innermost, a.n))
    BY <1>2 DEF WriteBoth
  <2>2. Wrote(Innermost, a.n).iter = Innermost.iter
    BY InnermostFrame, WroteIs
  <2>3. FrameAt(Wrote(Innermost, a.n), Len(frames))
    BY <2>2, TopAt, SameIterator
  <2> QED BY <2>1, <2>3, TopStays
<1>3. CASE Fits(Innermost, a.n) /\ Fits(Innermost, a.n + b.n)
  BY <1>3 DEF WriteBoth
<1> QED BY <1>1, <1>2, <1>3

LEMMA SkipAbsentTypes == EncInv /\ EncTypeInv /\ SkipAbsent => EncTypeInv'
<1> SUFFICES ASSUME EncInv, EncTypeInv, SkipAbsent PROVE EncTypeInv'
  OBVIOUS
<1>1. frames' = Append(Outer, NextField(Innermost)) /\ UNCHANGED <<src, out, dest, enc>>
  BY DEF SkipAbsent
<1>2. FrameAt(NextField(Innermost), Len(frames))
  BY TopAt, InnermostFrame, NextStays
<1>3. AtFields(frames')
  BY <1>1, <1>2, TopStays
<1> QED BY <1>1, <1>3 DEF EncTypeInv

LEMMA WriteValueTypes == EncInv /\ EncTypeInv /\ WriteValue => EncTypeInv'
<1> SUFFICES ASSUME EncInv, EncTypeInv, WriteValue PROVE EncTypeInv'
  OBVIOUS
<1> DEFINE tag == TagOf(Innermost.iter)
           val == ValueOf(src, Innermost.iter)
           k == tag.n + val.n
           f == NextField(Wrote(Innermost, k))
           Then == frames' = Append(Outer, f) /\ UNCHANGED enc
<1>1. tag.n \in Nat /\ val.n \in Nat /\ k \in Nat
  BY ItemSizes
<1>2. WriteBoth(tag, val, Then) /\ UNCHANGED src
  BY DEF WriteValue
<1> HIDE DEF tag, val, Then
<1>3. (\E F : out' \in Seq(F)) /\ dest' = Holds(out', Len(out'))
  BY <1>2, Written
<1>4. (AtFields(frames') /\ enc' = "failing") \/ (Fits(Innermost, k) /\ Then)
  BY <1>1, <1>2, WritesStay
<1>5. CASE Fits(Innermost, k) /\ Then
  <2> HIDE DEF k
  <2>1. IsOStream(Wrote(Innermost, k)) /\ Wrote(Innermost, k).iter = Innermost.iter
    BY <1>1, <1>5, TopWrites, InnermostFrame, WroteIs
  <2>2. FrameAt(Wrote(Innermost, k), Len(frames))
    BY <2>1, TopAt, SameIterator
  <2>3. FrameAt(f, Len(frames))
    BY <2>1, <2>2, NextStays
  <2> HIDE DEF f
  <2>4. frames' = Append(Outer, f) /\ UNCHANGED enc
    BY <1>5 DEF Then
  <2>5. AtFields(frames')
    BY <2>3, <2>4, TopStays
  <2> QED BY <1>2, <1>3, <2>4, <2>5 DEF EncTypeInv
<1>6. CASE AtFields(frames') /\ enc' = "failing"
  BY <1>2, <1>3, <1>6 DEF EncTypeInv
<1> QED BY <1>4, <1>5, <1>6

LEMMA BeginSubmessageTypes == EncInv /\ EncTypeInv /\ BeginSubmessage => EncTypeInv'
<1> SUFFICES ASSUME EncInv, EncTypeInv, BeginSubmessage PROVE EncTypeInv'
  OBVIOUS
<1> DEFINE it == Innermost.iter
           tag == TagOf(it)
           size == LenOf(src, it)
           k == tag.n + size.n
           fr == Wrote(Innermost, k)
           iter == pb_field_iter_begin(it.submsg_desc, it.pData)
           sub == OStream(iter, dest + tag.n + size.n, size.size)
           Then == IF SubmessageFits(fr, size.size)
                   THEN frames' = Outer \o <<fr, sub>> /\ UNCHANGED enc
                   ELSE frames' = Append(Outer, fr) /\ enc' = "failing"
<1>1. tag.n \in Nat /\ size.n \in Nat /\ k \in Nat
  BY ItemSizes
<1>2. /\ WriteBoth(tag, size, Then) /\ UNCHANGED src /\ enc = "field"
      /\ PB_LTYPE_IS_SUBMSG(Innermost.iter.type)
  BY DEF BeginSubmessage, Encoding
<1>3. sub.iter = iter
  <2> HIDE DEF iter
  <2> QED BY DEF OStream
<1> HIDE DEF tag, size, Then
<1>4. (\E F : out' \in Seq(F)) /\ dest' = Holds(out', Len(out'))
  BY <1>2, Written
<1>5. (AtFields(frames') /\ enc' = "failing") \/ (Fits(Innermost, k) /\ Then)
  BY <1>1, <1>2, WritesStay
<1>6. CASE Fits(Innermost, k) /\ Then
  <2>1. FrameAt(fr, Len(frames))
    <3> HIDE DEF k
    <3>1. fr.iter = Innermost.iter
      BY <1>1, InnermostFrame, WroteIs
    <3> HIDE DEF fr
    <3> QED BY <3>1, TopAt, SameIterator
  <2>2. FrameAt(sub, Len(frames) + 1)
    <3> HIDE DEF sub
    <3> QED BY <1>2, <1>3, TopAt, SubmessageAt
  <2>3. \/ frames' = Outer \o <<fr, sub>> /\ enc' = "field"
        \/ frames' = Append(Outer, fr) /\ enc' = "failing"
    <3> HIDE DEF fr, sub
    <3> QED BY <1>2, <1>6 DEF Then
  <2> HIDE DEF fr, sub
  <2>4. CASE frames' = Outer \o <<fr, sub>> /\ enc' = "field"
    <3>1. Pushed(frames, frames', fr, sub)
      BY <2>4, InnermostFrame, PushedIs DEF Outer
    <3>2. AtFields(frames')
      BY <2>1, <2>2, <3>1, InnermostFrame, AtPushed DEF EncTypeInv
    <3> QED BY <1>2, <1>4, <2>4, <3>2 DEF EncTypeInv
  <2>5. CASE frames' = Append(Outer, fr) /\ enc' = "failing"
    <3>1. AtFields(frames')
      BY <2>1, <2>5, TopStays
    <3> QED BY <1>2, <1>4, <2>5, <3>1 DEF EncTypeInv
  <2> QED BY <2>3, <2>4, <2>5
<1>7. CASE AtFields(frames') /\ enc' = "failing"
  BY <1>2, <1>4, <1>7 DEF EncTypeInv
<1> QED BY <1>5, <1>6, <1>7

LEMMA EndSubmessageTypes == EncInv /\ EncTypeInv /\ EndSubmessage => EncTypeInv'
<1> SUFFICES ASSUME EncInv, EncTypeInv, EndSubmessage PROVE EncTypeInv'
  OBVIOUS
<1> DEFINE last == Outer[Len(Outer)]
           fr == Counted(last, Innermost)
           ok == enc = "field" /\ Innermost.bytes_written = Innermost.max_size
           f == IF ok THEN NextField(fr) ELSE fr
<1>1. /\ Len(frames) > 1 /\ UNCHANGED <<src, out, dest>>
      /\ enc' \in {"field", "failing"}
      /\ frames' = [Outer EXCEPT ![Len(Outer)] = f]
  BY DEF EndSubmessage
<1>2. Popped(frames, [Outer EXCEPT ![Len(Outer)] = f], f) /\ last = frames[Len(frames) - 1]
  <2> HIDE DEF f
  <2> QED BY <1>1, InnermostFrame, PoppedIs DEF Outer
<1>3. IsOStream(last) /\ Within(last, Innermost) /\ FrameAt(last, Len(frames) - 1)
  <2>1. /\ Len(frames) - 1 \in 1..Len(frames)
        /\ Len(frames) - 1 \in 1..(Len(frames) - 1)
        /\ Len(frames) - 1 + 1 = Len(frames)
    BY <1>1, InnermostFrame
  <2> HIDE DEF last
  <2>2. IsOStream(last) /\ Within(last, Innermost)
    BY <1>2, <2>1, InnermostFrame DEF Nested
  <2>3. FrameAt(last, Len(frames) - 1)
    BY <1>2, <2>1 DEF EncTypeInv, AtFields
  <2> QED BY <2>2, <2>3
<1>4. FrameAt(f, Len(frames) - 1)
  <2> HIDE DEF last
  <2>1. Innermost.bytes_written \in Nat /\ Fits(last, Innermost.bytes_written)
    BY <1>3, InnermostFrame DEF IsOStream, Within, Fits
  <2>2. IsOStream(fr) /\ fr.iter = last.iter
    BY <1>3, <2>1, WroteFrame, WroteIs DEF Counted
  <2> HIDE DEF fr
  <2>3. FrameAt(fr, Len(frames) - 1)
    BY <1>3, <2>2, SameIterator
  <2> QED BY <2>2, <2>3, NextStays
<1> HIDE DEF f
<1>5. AtFields(frames')
  <2>1. Popped(frames, frames', f)
    BY <1>1, <1>2
  <2> QED BY <1>1, <1>4, <2>1, InnermostFrame, AtPopped DEF EncTypeInv
<1> QED BY <1>1, <1>5 DEF EncTypeInv

LEMMA EncTypeInvInit == EncodeInit => EncTypeInv
<1> SUFFICES ASSUME EncodeInit PROVE EncTypeInv
  OBVIOUS
<1> DEFINE iter == pb_field_iter_begin("MQTTMessage", 0)
           f == OStream(iter, 0, bufsize)
<1>1. /\ src \in [Cells -> Nat] /\ enc = "field" /\ out = <<>> /\ dest = 0
      /\ frames = <<f>>
  BY EncodeAssumption DEF EncodeInit
<1>2. f.iter = iter
  <2> HIDE DEF iter
  <2> QED BY DEF OStream
<1>3. "MQTTMessage" \in Messages /\ Place["MQTTMessage"] = 0 /\ Depth["MQTTMessage"] = 1
  BY MessageNames DEF Place, Depth
<1>4. iter = IterAt("MQTTMessage", 0, 1)
  <2>1. 0 \in Int
    OBVIOUS
  <2> QED BY <1>3, <2>1, BeginTrue
<1>5. 1 \in DOMAIN FieldList["MQTTMessage"]
  BY <1>3, CountOf
<1> HIDE DEF iter, f
<1>6. FrameAt(f, 1)
  BY <1>2, <1>3, <1>4, <1>5 DEF FrameAt
<1>7. AtFields(frames)
  <2>1. Len(frames) = 1 /\ frames[1] = f
    BY <1>1
  <2>2. \A i \in 1..1 : i = 1
    OBVIOUS
  <2> QED BY <1>6, <2>1, <2>2 DEF AtFields
<1>8. (\E F : out \in Seq(F)) /\ Len(out) = 0
  BY <1>1, EmptySeq
<1>9. Holds(out, 0) = 0
  <2>1. PICK b : b = [i \in 1..0 |-> out[i].n]
    OBVIOUS
  <2>2. Total(b, 0) = 0
    BY TotalIs
  <2> QED BY <2>1, <2>2, Zenon DEF Holds
<1>10. dest = Holds(out, Len(out))
  BY <1>1, <1>8, <1>9, Zenon
<1> QED BY <1>1, <1>7, <1>8, <1>10 DEF EncTypeInv

LEMMA EncTypeInvNext == EncInv /\ EncTypeInv /\ [EncodeNext]_encVars => EncTypeInv'
<1>1. EncTypeInv /\ UNCHANGED encVars => EncTypeInv'
  BY DEF EncTypeInv, encVars
<1>2. EncTypeInv /\ EncodeReturn => EncTypeInv'
  BY DEF EncTypeInv, EncodeReturn
<1> QED BY <1>1, <1>2, SkipAbsentTypes, WriteValueTypes, BeginSubmessageTypes,
           EndSubmessageTypes DEF EncodeNext

LEMMA EncTypeInvAlways == EncodeSpec => [](EncInv /\ EncTypeInv)
BY EncInvInit, EncInvNext, EncTypeInvInit, EncTypeInvNext, PTL DEF EncodeSpec

\* The encoder never runs more than three deep, no stream writes more than its
\* limit, and what is in the buffer is what was written (pb_encode.c:51-99, 505-767).
THEOREM EncoderTypeCorrect == EncodeSpec => []EncodeTypeOK
<1>1. EncInv /\ EncTypeInv => EncodeTypeOK
  <2> SUFFICES ASSUME EncInv, EncTypeInv PROVE EncodeTypeOK
    OBVIOUS
  <2>1. Len(frames) \in 1..3
    BY InnermostFrame, DepthOfStack DEF EncTypeInv
  <2>2. DOMAIN frames = 1..Len(frames)
    <3>1. PICK F : frames \in Seq(F)
      BY InnermostFrame DEF Nested
    <3> QED BY <3>1, LenProperties
  <2>3. \A i \in DOMAIN frames : IsOStream(frames[i])
    BY <2>2, InnermostFrame DEF Nested
  <2>4. \A i \in DOMAIN frames :
          /\ frames[i].bytes_written \in Nat /\ frames[i].max_size \in Nat
          /\ frames[i].bytes_written <= frames[i].max_size
    BY <2>3 DEF IsOStream
  <2>5. dest = OutBytes(Len(out))
    BY Zenon DEF EncTypeInv, OutBytes, Holds
  <2>6. src \in [Cells -> Nat] /\ bufsize \in Nat /\ enc \in {"field", "failing", "ok", "failed"}
    BY DEF EncInv, EncTypeInv
  <2> QED BY <2>1, <2>4, <2>5, <2>6 DEF EncodeTypeOK
<1> QED BY <1>1, EncTypeInvAlways, PTL


-----------------------------------------------------------------------------
(***************************************************************************)
(* Sizes.  A stream that is at a field has written all the fields before   *)
(* it and no more; a stream below another will have written its field too, *)
(* once the one above is through, whose limit is the size that the sizing  *)
(* pass found.                                                             *)
(***************************************************************************)

AtEnd(s, f) ==
    f.bytes_written = IF f.done THEN SizeOf(s, f.iter.descriptor)
                      ELSE UpTo(s, f.iter.descriptor, f.iter.tag - 1)

Inside(s, f, g) ==
    /\ g.max_size = SizeOf(s, g.iter.descriptor)
    /\ f.bytes_written + g.max_size = UpTo(s, f.iter.descriptor, f.iter.tag)

Chained(s, fs) == \A i \in 1..(Len(fs) - 1) : Inside(s, fs[i], fs[i + 1])

SizeInv ==
    /\ enc = "field" => AtEnd(src, Innermost) /\ Chained(src, frames)
    /\ enc = "ok" => Innermost.bytes_written = SizeOf(src, "MQTTMessage")
    /\ bufsize >= MQTTMessage_size => enc \in {"field", "ok"}

\* A frame at a field: what it has written once that field is, and goes on.
LEMMA NextAtEnd ==
    ASSUME NEW s, NEW f, IsOStream(f), NEW desc \in Messages, NEW n \in DOMAIN FieldList[desc],
           f.iter = IterAt(desc, Place[desc], n), f.bytes_written = UpTo(s, desc, n)
    PROVE  /\ AtEnd(s, NextField(f))
           /\ NextField(f).iter.descriptor = desc
           /\ NextField(f).max_size = f.max_size
<1>1. PICK count \in 2..6 : Len(FieldList[desc]) = count /\ DOMAIN FieldList[desc] = 1..count
  BY CountOf
<1>2. PICK k \in 1..count : k = n
  BY <1>1
<1>3. PICK g : g = NextField(f)
  OBVIOUS
<1>4. PICK m \in 1..count : m = IF k = count THEN 1 ELSE k + 1
  OBVIOUS
<1>5. /\ g.iter = IterAt(desc, Place[desc], m)
      /\ g.done <=> k = count
      /\ g.max_size = f.max_size /\ g.bytes_written = f.bytes_written
  <2>1. PICK next : next = pb_field_iter_next(IterAt(desc, Place[desc], k))
    OBVIOUS
  <2>2. next = IterAt(desc, Place[desc], m) /\ (next.index = 0 <=> k = count)
    <3>1. Len(FieldList[desc]) = count
      BY <1>1
    <3>2. GoesOn(desc, count, k)
      BY <3>1, IterNext
    <3>3. next.index = IF k = count THEN 0 ELSE k
      BY <2>1, <3>2, Zenon DEF GoesOn
    <3>4. (IF k = count THEN 0 ELSE k) = 0 <=> k = count
      OBVIOUS
    <3> QED BY <1>4, <2>1, <3>2, <3>3, <3>4, Zenon DEF GoesOn
  <2>3. next = pb_field_iter_next(f.iter)
    BY <1>2, <2>1, Zenon
  <2>4. /\ g.iter = next /\ (g.done <=> next.index = 0)
        /\ g.max_size = f.max_size /\ g.bytes_written = f.bytes_written
    BY <1>3, <2>3, NextKeeps, Zenon
  <2> QED BY <2>2, <2>4, Zenon
<1>6. PICK it : it = IterAt(desc, Place[desc], m)
  OBVIOUS
<1>7. it.descriptor = desc /\ it.tag = m
  <2>1. PICK j \in DOMAIN FieldList[desc] : j = m
    BY <1>1
  <2>2. it = IterAt(desc, Place[desc], j)
    BY <1>6, <2>1, Zenon
  <2>3. it.descriptor = desc /\ it.tag = j
    BY <2>2, IterMembers, PlaceInStruct
  <2> QED BY <2>1, <2>3
<1>8. g.iter.descriptor = desc /\ g.iter.tag = m
  BY <1>5, <1>6, <1>7, Zenon
<1>9. g.bytes_written = UpTo(s, desc, k)
  BY <1>2, <1>5, Zenon
<1>10. AtEnd(s, g)
  <2>1. CASE k = count
    <3>1. SizeOf(s, desc) = UpTo(s, desc, count)
      BY <1>1, SizeOfIs
    <3>2. g.bytes_written = SizeOf(s, g.iter.descriptor)
      BY <1>8, <1>9, <2>1, <3>1, Zenon
    <3> QED BY <1>5, <2>1, <3>2, Zenon DEF AtEnd
  <2>2. CASE k # count
    <3>1. m - 1 = k
      BY <1>4, <2>2
    <3>2. g.bytes_written = UpTo(s, g.iter.descriptor, g.iter.tag - 1)
      BY <1>8, <1>9, <3>1, Zenon
    <3> QED BY <1>5, <2>2, <3>2, Zenon DEF AtEnd
  <2> QED BY <2>1, <2>2
<1> QED BY <1>3, <1>5, <1>8, <1>10, Zenon

\* The field the innermost stream is at, and what has been written of it.
LEMMA InnermostField ==
    ASSUME EncInv, EncTypeInv, SizeInv, enc = "field", ~Innermost.done
    PROVE  \E desc \in Messages : \E n \in DOMAIN FieldList[desc] :
             /\ Innermost.iter = IterAt(desc, Place[desc], n)
             /\ Innermost.iter.descriptor = desc
             /\ Innermost.bytes_written + Bytes(src, desc, n) = UpTo(src, desc, n)
             /\ UpTo(src, desc, n) \in 0..SizeOf(src, desc)
             /\ Bytes(src, desc, n) \in Nat /\ SizeOf(src, desc) \in Nat
             /\ bufsize >= MQTTMessage_size => SizeOf(src, desc) <= Innermost.max_size
<1>1. PICK desc \in Messages : \E n \in DOMAIN FieldList[desc] :
        Innermost.iter = IterAt(desc, Place[desc], n) /\ Depth[desc] = Len(frames)
  BY TopAt DEF FrameAt
<1>2. PICK n \in DOMAIN FieldList[desc] :
        Innermost.iter = IterAt(desc, Place[desc], n) /\ Depth[desc] = Len(frames)
  BY <1>1
<1>3. PICK it : it = Innermost.iter
  OBVIOUS
<1>4. it.descriptor = desc /\ it.tag = n
  BY <1>2, <1>3, IterMembers, PlaceInStruct
<1>5. Innermost.bytes_written = UpTo(src, desc, n - 1)
  <2>1. AtEnd(src, Innermost)
    BY DEF SizeInv
  <2> QED BY <1>3, <1>4, <2>1, Zenon DEF AtEnd
<1>6. UpTo(src, desc, n) = UpTo(src, desc, n - 1) + Bytes(src, desc, n)
  BY UpToIs
<1>7. /\ UpTo(src, desc, n) \in 0..SizeOf(src, desc) /\ Bytes(src, desc, n) \in Nat
      /\ SizeOf(src, desc) \in 0..73 /\ SizeOf(src, desc) \in Nat
  BY AllTake DEF Takes
<1>8. bufsize >= MQTTMessage_size => SizeOf(src, desc) <= Innermost.max_size
  <2>1. CASE Len(frames) = 1
    <3>1. Innermost.max_size = bufsize /\ bufsize \in Nat
      BY <2>1, InnermostFrame DEF EncInv, Nested, Innermost
    <3> QED BY <1>7, <3>1 DEF MQTTMessage_size
  <2>2. CASE Len(frames) # 1
    <3>1. PICK i \in 1..(Len(frames) - 1) : i + 1 = Len(frames)
      <4>1. PICK l \in Nat : l = Len(frames) /\ l >= 1
        BY InnermostFrame
      <4>2. l - 1 \in 1..(l - 1) /\ (l - 1) + 1 = l
        BY <2>2, <4>1
      <4> QED BY <4>1, <4>2
    <3>2. Inside(src, frames[i], frames[i + 1])
      BY DEF SizeInv, Chained
    <3>3. Innermost.max_size = SizeOf(src, Innermost.iter.descriptor)
      BY <3>1, <3>2, Zenon DEF Inside, Innermost
    <3>4. Innermost.max_size = SizeOf(src, desc)
      BY <1>3, <1>4, <3>3, Zenon
    <3>5. PICK x \in 0..73 : x = SizeOf(src, desc)
      BY <1>7
    <3>6. x <= x
      OBVIOUS
    <3> QED BY <3>4, <3>5, <3>6, Zenon
  <2> QED BY <2>1, <2>2
<1>9. Innermost.bytes_written + Bytes(src, desc, n) = UpTo(src, desc, n)
  BY <1>5, <1>6, Zenon
<1> QED BY <1>2, <1>3, <1>4, <1>7, <1>8, <1>9, Zenon

\* The innermost stream goes on, and the ones below do not notice.
LEMMA SizeTopped ==
    ASSUME EncInv, SizeInv, enc = "field", enc' = "field", UNCHANGED <<src, bufsize>>,
           NEW f, frames' = Append(Outer, f), AtEnd(src, f),
           f.iter.descriptor = Innermost.iter.descriptor, f.max_size = Innermost.max_size
    PROVE  SizeInv'
<1>1. Topped(frames, frames', f) /\ Len(frames) \in Nat /\ Len(frames) >= 1
  BY InnermostFrame, ToppedIs DEF Outer
<1>2. Innermost' = f
  BY <1>1 DEF Innermost, Topped
<1>3. ASSUME NEW i \in 1..(Len(frames) - 1)
      PROVE  Inside(src, frames'[i], frames'[i + 1])
  <2>1. Inside(src, frames[i], frames[i + 1]) /\ frames'[i] = frames[i]
    BY <1>1 DEF SizeInv, Chained, Topped
  <2>2. CASE i + 1 = Len(frames)
    <3>1. frames'[i + 1] = f /\ frames[i + 1] = Innermost
      BY <1>1, <2>2, Zenon DEF Topped, Innermost
    <3>2. Inside(src, frames[i], Innermost)
      BY <2>1, <3>1, Zenon
    <3>3. Inside(src, frames[i], f)
      BY <3>2, Zenon DEF Inside
    <3> QED BY <2>1, <3>1, <3>3, Zenon
  <2>3. CASE i + 1 # Len(frames)
    <3>1. i + 1 \in 1..(Len(frames) - 1)
      BY <1>1, <2>3
    <3>2. frames'[i + 1] = frames[i + 1]
      BY <1>1, <3>1 DEF Topped
    <3> QED BY <2>1, <3>2, Zenon
  <2> QED BY <2>2, <2>3
<1>4. Chained(src, frames')
  <2>1. Len(frames') = Len(frames)
    BY <1>1 DEF Topped
  <2> QED BY <1>3, <2>1 DEF Chained
<1>5. AtEnd(src', Innermost') /\ Chained(src', frames')
  BY <1>2, <1>4, Zenon
<1> QED BY <1>5 DEF SizeInv

LEMMA SkipAbsentSizes == EncInv /\ EncTypeInv /\ SizeInv /\ SkipAbsent => SizeInv'
<1> SUFFICES ASSUME EncInv, EncTypeInv, SizeInv, SkipAbsent PROVE SizeInv'
  OBVIOUS
<1>1. /\ enc = "field" /\ ~Innermost.done /\ ~Present(src, Innermost.iter)
      /\ frames' = Append(Outer, NextField(Innermost)) /\ UNCHANGED <<src, bufsize, enc>>
  BY DEF SkipAbsent, Encoding
<1>2. PICK desc \in Messages : \E n \in DOMAIN FieldList[desc] :
             /\ Innermost.iter = IterAt(desc, Place[desc], n)
             /\ Innermost.iter.descriptor = desc
             /\ Innermost.bytes_written + Bytes(src, desc, n) = UpTo(src, desc, n)
  BY <1>1, InnermostField
<1>3. PICK n \in DOMAIN FieldList[desc] :
             /\ Innermost.iter = IterAt(desc, Place[desc], n)
             /\ Innermost.iter.descriptor = desc
             /\ Innermost.bytes_written + Bytes(src, desc, n) = UpTo(src, desc, n)
  BY <1>2
<1>4. Bytes(src, desc, n) = 0
  BY <1>1, <1>3, Zenon DEF Bytes, FieldBytes
<1>5. Innermost.bytes_written = UpTo(src, desc, n) /\ IsOStream(Innermost)
  BY <1>3, <1>4, InnermostFrame DEF IsOStream
<1>6. PICK f : f = NextField(Innermost)
  OBVIOUS
<1>7. AtEnd(src, f) /\ f.iter.descriptor = desc /\ f.max_size = Innermost.max_size
  BY <1>3, <1>5, <1>6, NextAtEnd
<1> QED BY <1>1, <1>3, <1>6, <1>7, SizeTopped

\* Two writes: what is lost if the buffer is full is the concern of a small one.
LEMMA WritesSized ==
    ASSUME EncInv, SizeInv, enc = "field", UNCHANGED <<src, bufsize>>,
           NEW a, a.n \in Nat, NEW b, b.n \in Nat, NEW ACTION Then, WriteBoth(a, b, Then),
           bufsize >= MQTTMessage_size => Fits(Innermost, a.n + b.n)
    PROVE  SizeInv' \/ (Fits(Innermost, a.n + b.n) /\ Then)
<1>1. CASE ~Fits(Innermost, a.n + b.n)
  <2>1. enc' = "failing"
    BY <1>1 DEF WriteBoth
  <2> QED BY <1>1, <2>1 DEF SizeInv
<1>2. CASE Fits(Innermost, a.n + b.n)
  <2>1. Fits(Innermost, a.n)
    BY <1>2, InnermostFrame DEF Fits, IsOStream
  <2> QED BY <1>2, <2>1 DEF WriteBoth
<1> QED BY <1>1, <1>2

\* A field fits, if the message it is of does.
LEMMA FieldFits ==
    ASSUME EncInv, bufsize >= MQTTMessage_size, NEW k, NEW upto, NEW size,
           Innermost.bytes_written + k = upto, upto \in 0..size, size \in Nat,
           bufsize >= MQTTMessage_size => size <= Innermost.max_size
    PROVE  Fits(Innermost, k)
<1>1. Innermost.max_size \in Nat
  BY InnermostFrame DEF IsOStream
<1>2. upto <= Innermost.max_size
  BY <1>1
<1> QED BY <1>2, Zenon DEF Fits

LEMMA WriteValueSizes == EncInv /\ EncTypeInv /\ SizeInv /\ WriteValue => SizeInv'
<1> SUFFICES ASSUME EncInv, EncTypeInv, SizeInv, WriteValue PROVE SizeInv'
  OBVIOUS
<1> DEFINE tag == TagOf(Innermost.iter)
           val == ValueOf(src, Innermost.iter)
           k == tag.n + val.n
           f == NextField(Wrote(Innermost, k))
           Then == frames' = Append(Outer, f) /\ UNCHANGED enc
<1>1. tag.n \in Nat /\ val.n \in Nat /\ k \in Nat
  BY ItemSizes
<1>2. /\ WriteBoth(tag, val, Then) /\ UNCHANGED <<src, bufsize>>
      /\ enc = "field" /\ ~Innermost.done /\ Present(src, Innermost.iter)
      /\ ~PB_LTYPE_IS_SUBMSG(Innermost.iter.type)
  BY DEF WriteValue, Encoding
<1>3. PICK desc \in Messages : \E n \in DOMAIN FieldList[desc] :
             /\ Innermost.iter = IterAt(desc, Place[desc], n)
             /\ Innermost.iter.descriptor = desc
             /\ Innermost.bytes_written + Bytes(src, desc, n) = UpTo(src, desc, n)
             /\ UpTo(src, desc, n) \in 0..SizeOf(src, desc)
             /\ Bytes(src, desc, n) \in Nat /\ SizeOf(src, desc) \in Nat
             /\ bufsize >= MQTTMessage_size => SizeOf(src, desc) <= Innermost.max_size
  BY <1>2, InnermostField
<1>4. PICK n \in DOMAIN FieldList[desc] :
             /\ Innermost.iter = IterAt(desc, Place[desc], n)
             /\ Innermost.iter.descriptor = desc
             /\ Innermost.bytes_written + Bytes(src, desc, n) = UpTo(src, desc, n)
             /\ UpTo(src, desc, n) \in 0..SizeOf(src, desc)
             /\ Bytes(src, desc, n) \in Nat /\ SizeOf(src, desc) \in Nat
             /\ bufsize >= MQTTMessage_size => SizeOf(src, desc) <= Innermost.max_size
  BY <1>3
<1>5. Bytes(src, desc, n) = k
  BY <1>2, <1>4, Zenon DEF Bytes, FieldBytes
<1> HIDE DEF k
<1>6. bufsize >= MQTTMessage_size => Fits(Innermost, k)
  BY <1>4, <1>5, FieldFits
<1>7. SizeInv' \/ (Fits(Innermost, k) /\ Then)
  <2> HIDE DEF tag, val, Then
  <2>1. bufsize >= MQTTMessage_size => Fits(Innermost, tag.n + val.n)
    BY <1>6 DEF k
  <2>2. SizeInv' \/ (Fits(Innermost, tag.n + val.n) /\ Then)
    BY <1>1, <1>2, <2>1, WritesSized
  <2> QED BY <2>2 DEF k
<1>8. CASE Fits(Innermost, k) /\ Then
  <2> DEFINE w == Wrote(Innermost, k)
  <2>1. /\ IsOStream(w) /\ w.iter = Innermost.iter /\ w.max_size = Innermost.max_size
        /\ w.bytes_written = Innermost.bytes_written + k
    BY <1>1, <1>8, InnermostFrame, TopWrites, WroteIs
  <2>2. frames' = Append(Outer, f) /\ enc' = "field"
    BY <1>2, <1>8
  <2> HIDE DEF w
  <2>3. w.bytes_written = UpTo(src, desc, n) /\ w.iter = IterAt(desc, Place[desc], n)
    BY <1>4, <1>5, <2>1, Zenon
  <2>4. AtEnd(src, NextField(w)) /\ NextField(w).iter.descriptor = desc
        /\ NextField(w).max_size = w.max_size
    BY <2>1, <2>3, NextAtEnd
  <2>5. f = NextField(w)
    BY DEF w
  <2> HIDE DEF f
  <2> QED BY <1>2, <1>4, <2>1, <2>2, <2>4, <2>5, SizeTopped
<1> QED BY <1>7, <1>8


\* The streams below a stream s[k] do not notice what becomes of it.
LEMMA BelowStays ==
    ASSUME NEW m, NEW s, NEW t, NEW k \in Nat, k <= Len(s), Len(s) \in Nat, Chained(m, s),
           \A i \in 1..(k - 1) : t[i] = s[i],
           t[k].iter.descriptor = s[k].iter.descriptor, t[k].max_size = s[k].max_size
    PROVE  \A i \in 1..(k - 1) : Inside(m, t[i], t[i + 1])
<1> SUFFICES ASSUME NEW i \in 1..(k - 1) PROVE Inside(m, t[i], t[i + 1])
  OBVIOUS
<1>1. i \in 1..(Len(s) - 1)
  OBVIOUS
<1>2. Inside(m, s[i], s[i + 1]) /\ t[i] = s[i]
  BY <1>1 DEF Chained
<1>3. CASE i + 1 = k
  <2>1. t[i + 1].iter.descriptor = s[i + 1].iter.descriptor /\ t[i + 1].max_size = s[i + 1].max_size
    BY <1>3
  <2> QED BY <1>2, <2>1, Zenon DEF Inside
<1>4. CASE i + 1 # k
  <2>1. i + 1 \in 1..(k - 1)
    BY <1>4
  <2>2. t[i + 1] = s[i + 1]
    BY <2>1
  <2> QED BY <1>2, <2>2, Zenon
<1> QED BY <1>3, <1>4

\* A stream is put on top of the innermost one.
LEMMA SizePushed ==
    ASSUME EncInv, SizeInv, enc = "field", enc' = "field", UNCHANGED <<src, bufsize>>,
           NEW f, NEW sub, frames' = Outer \o <<f, sub>>, AtEnd(src, sub), Inside(src, f, sub),
           f.iter.descriptor = Innermost.iter.descriptor, f.max_size = Innermost.max_size
    PROVE  SizeInv'
<1>1. PICK k \in Nat : k = Len(frames) /\ k >= 1
  BY InnermostFrame
<1>2. Pushed(frames, frames', f, sub)
  BY InnermostFrame, PushedIs DEF Outer
<1>3. /\ Len(frames') = k + 1 /\ frames'[k] = f /\ frames'[k + 1] = sub
      /\ \A i \in 1..(k - 1) : frames'[i] = frames[i]
  BY <1>1, <1>2 DEF Pushed
<1>4. /\ frames'[k].iter.descriptor = frames[k].iter.descriptor
      /\ frames'[k].max_size = frames[k].max_size
  BY <1>1, <1>3, Zenon DEF Innermost
<1>5. Chained(src, frames) /\ k <= Len(frames) /\ Len(frames) \in Nat
  BY <1>1 DEF SizeInv
<1>6. \A i \in 1..(k - 1) : Inside(src, frames'[i], frames'[i + 1])
  BY <1>3, <1>4, <1>5, BelowStays
<1>7. Inside(src, frames'[k], frames'[k + 1])
  BY <1>3, Zenon
<1>8. Chained(src, frames')
  <2> SUFFICES ASSUME NEW i \in 1..k PROVE Inside(src, frames'[i], frames'[i + 1])
    BY <1>3 DEF Chained
  <2>1. i = k \/ i \in 1..(k - 1)
    OBVIOUS
  <2> QED BY <1>6, <1>7, <2>1
<1>9. Innermost' = sub
  BY <1>3 DEF Innermost
<1>10. AtEnd(src', Innermost') /\ Chained(src', frames')
  BY <1>8, <1>9, Zenon
<1> QED BY <1>10 DEF SizeInv

\* The innermost stream is gone, and the one below goes on.
LEMMA SizePopped ==
    ASSUME EncInv, SizeInv, enc = "field", enc' = "field", UNCHANGED <<src, bufsize>>,
           Len(frames) > 1, NEW f, Popped(frames, frames', f), AtEnd(src, f),
           NEW last, last = frames[Len(frames) - 1],
           f.iter.descriptor = last.iter.descriptor, f.max_size = last.max_size
    PROVE  SizeInv'
<1>1. PICK k \in Nat : k = Len(frames) - 1 /\ k >= 1 /\ Len(frames) - 2 = k - 1
  <2>1. PICK l \in Nat : l = Len(frames) /\ l > 1
    BY InnermostFrame
  <2>2. l - 1 \in Nat /\ l - 1 >= 1 /\ l - 2 = (l - 1) - 1
    BY <2>1
  <2> QED BY <2>1, <2>2
<1>2. /\ Len(frames') = k /\ frames'[k] = f
      /\ \A i \in 1..(k - 1) : frames'[i] = frames[i]
  BY <1>1 DEF Popped
<1>3. /\ frames'[k].iter.descriptor = frames[k].iter.descriptor
      /\ frames'[k].max_size = frames[k].max_size
  BY <1>1, <1>2, Zenon
<1>4. Chained(src, frames) /\ k <= Len(frames) /\ Len(frames) \in Nat
  BY <1>1, InnermostFrame DEF SizeInv
<1>5. \A i \in 1..(k - 1) : Inside(src, frames'[i], frames'[i + 1])
  BY <1>2, <1>3, <1>4, BelowStays
<1>6. Chained(src, frames')
  BY <1>2, <1>5 DEF Chained
<1>7. Innermost' = f
  BY <1>2 DEF Innermost
<1>8. AtEnd(src', Innermost') /\ Chained(src', frames')
  BY <1>6, <1>7, Zenon
<1> QED BY <1>8 DEF SizeInv

LEMMA BeginSubmessageSizes == EncInv /\ EncTypeInv /\ SizeInv /\ BeginSubmessage => SizeInv'
<1> SUFFICES ASSUME EncInv, EncTypeInv, SizeInv, BeginSubmessage PROVE SizeInv'
  OBVIOUS
<1> DEFINE it == Innermost.iter
           tag == TagOf(it)
           size == LenOf(src, it)
           k == tag.n + size.n
           fr == Wrote(Innermost, k)
           iter == pb_field_iter_begin(it.submsg_desc, it.pData)
           sub == OStream(iter, dest + tag.n + size.n, size.size)
           Then == IF SubmessageFits(fr, size.size)
                   THEN frames' = Outer \o <<fr, sub>> /\ UNCHANGED enc
                   ELSE frames' = Append(Outer, fr) /\ enc' = "failing"
<1>1. tag.n \in Nat /\ size.n \in Nat /\ k \in Nat
  BY ItemSizes
<1>2. /\ WriteBoth(tag, size, Then) /\ UNCHANGED <<src, bufsize>>
      /\ enc = "field" /\ ~Innermost.done /\ Present(src, it)
      /\ PB_LTYPE_IS_SUBMSG(it.type)
  BY DEF BeginSubmessage, Encoding
<1>3. PICK desc \in Messages : \E n \in DOMAIN FieldList[desc] :
             /\ it = IterAt(desc, Place[desc], n)
             /\ it.descriptor = desc
             /\ Innermost.bytes_written + Bytes(src, desc, n) = UpTo(src, desc, n)
             /\ UpTo(src, desc, n) \in 0..SizeOf(src, desc)
             /\ Bytes(src, desc, n) \in Nat /\ SizeOf(src, desc) \in Nat
             /\ bufsize >= MQTTMessage_size => SizeOf(src, desc) <= Innermost.max_size
  BY <1>2, InnermostField
<1>4. PICK n \in DOMAIN FieldList[desc] :
             /\ it = IterAt(desc, Place[desc], n)
             /\ it.descriptor = desc
             /\ Innermost.bytes_written + Bytes(src, desc, n) = UpTo(src, desc, n)
             /\ UpTo(src, desc, n) \in 0..SizeOf(src, desc)
             /\ Bytes(src, desc, n) \in Nat /\ SizeOf(src, desc) \in Nat
             /\ bufsize >= MQTTMessage_size => SizeOf(src, desc) <= Innermost.max_size
  BY <1>3
<1>5. PICK x : x = it
  OBVIOUS
<1>6. PICK message \in Messages :
             /\ x.submsg_desc = message /\ x.pData = Place[message]
             /\ pb_field_iter_begin(x.submsg_desc, x.pData) = IterAt(message, Place[message], 1)
  BY <1>2, <1>4, <1>5, BeginAt
<1>7. PICK sz \in Nat : sz = SizeOf(src, message)
  BY AllTake DEF Takes
<1>8. pb_get_encoded_size(src, it.submsg_desc, it.pData) = sz
  BY <1>5, <1>6, <1>7, Zenon DEF pb_get_encoded_size, SizeOf
<1>9. size = LenItem(sz, VarintBytes(sz))
  BY <1>8, Zenon DEF LenOf
<1>10. size.size = sz /\ size.n = VarintBytes(sz)
  BY <1>9 DEF LenItem
<1>11. Bytes(src, desc, n) = tag.n + (VarintBytes(sz) + sz)
  <2>1. Sizes(src)[it.submsg_desc][it.pData] = sz
    BY <1>8 DEF pb_get_encoded_size
  <2> QED BY <1>2, <1>4, <2>1, Zenon DEF Bytes, FieldBytes
<1>12. k + sz = Bytes(src, desc, n)
  <2>1. PICK tn \in Nat : tn = tag.n
    BY <1>1
  <2>2. PICK vn \in Nat : vn = size.n
    BY <1>1
  <2>3. (tn + vn) + sz = tn + (vn + sz)
    OBVIOUS
  <2> QED BY <1>10, <1>11, <2>1, <2>2, <2>3, Zenon
<1>13. /\ Fits(Innermost, k) => fr.iter = it /\ fr.max_size = Innermost.max_size
                         /\ fr.bytes_written = Innermost.bytes_written + k
  <2> HIDE DEF k
  <2> QED BY <1>1, InnermostFrame, WroteIs
<1>14. /\ sub.iter = iter /\ sub.max_size = size.size /\ sub.bytes_written = 0
       /\ sub.done = FALSE
  <2> HIDE DEF iter, size
  <2> QED BY DEF OStream
<1>15. iter = IterAt(message, Place[message], 1)
  BY <1>5, <1>6, Zenon
<1> HIDE DEF tag, size, Then, iter
<1>16. PICK w \in Nat : w = Innermost.bytes_written
  BY InnermostFrame DEF IsOStream
<1>17. PICK limit \in Nat : limit = Innermost.max_size
  BY InnermostFrame DEF IsOStream
<1>18. PICK kk \in Nat : kk = k
  BY <1>1
<1>19. (w + kk) + sz = UpTo(src, desc, n)
  <2>1. w + (kk + sz) = UpTo(src, desc, n)
    BY <1>4, <1>12, <1>16, <1>18, Zenon
  <2>2. w + (kk + sz) = (w + kk) + sz
    OBVIOUS
  <2> QED BY <2>1, <2>2, Zenon
<1>20. bufsize >= MQTTMessage_size => (w + kk) + sz <= limit
  <2>1. PICK most \in Nat : most = SizeOf(src, desc)
    BY <1>4
  <2>2. (w + kk) + sz <= most
    BY <1>4, <1>19, <2>1
  <2>3. bufsize >= MQTTMessage_size => most <= limit
    BY <1>4, <1>17, <2>1, Zenon
  <2> QED BY <2>2, <2>3
<1>21. bufsize >= MQTTMessage_size => Fits(Innermost, k)
  <2>1. bufsize >= MQTTMessage_size => w + kk <= limit
    BY <1>20
  <2> QED BY <1>16, <1>17, <1>18, <2>1, Zenon DEF Fits
<1>22. SizeInv' \/ (Fits(Innermost, k) /\ Then)
  <2>1. bufsize >= MQTTMessage_size => Fits(Innermost, tag.n + size.n)
    BY <1>21
  <2> QED BY <1>1, <1>2, <2>1, WritesSized
<1>23. CASE Fits(Innermost, k) /\ Then
  <2>1. fr.iter = it /\ fr.max_size = limit /\ fr.bytes_written = w + kk
    BY <1>13, <1>16, <1>17, <1>18, <1>23, Zenon
  <2>2. \/ SubmessageFits(fr, sz) /\ frames' = Outer \o <<fr, sub>> /\ enc' = "field"
        \/ ~SubmessageFits(fr, sz) /\ enc' = "failing"
    <3> HIDE DEF fr, sub
    <3> QED BY <1>2, <1>10, <1>23 DEF Then
  <2> HIDE DEF fr, sub, k
  <2>3. CASE SubmessageFits(fr, sz) /\ frames' = Outer \o <<fr, sub>> /\ enc' = "field"
    <3>1. 1 \in DOMAIN FieldList[message]
      BY CountOf
    <3>2. PICK y : y = IterAt(message, Place[message], 1)
      OBVIOUS
    <3>3. y.descriptor = message /\ y.tag = 1
      BY <3>1, <3>2, IterMembers, PlaceInStruct
    <3>4. sub.iter.descriptor = message /\ sub.iter.tag = 1
      BY <1>14, <1>15, <3>2, <3>3, Zenon
    <3>5. UpTo(src, message, 0) = 0
      BY <3>1, UpToIs
    <3>6. AtEnd(src, sub)
      <4>1. 1 - 1 = 0
        OBVIOUS
      <4> QED BY <1>14, <3>4, <3>5, <4>1, Zenon DEF AtEnd
    <3>7. x.descriptor = desc /\ x.tag = n
      BY <1>4, <1>5, IterMembers, PlaceInStruct
    <3>8. sub.max_size = sz
      BY <1>10, <1>14
    <3>9. fr.iter.descriptor = desc /\ fr.iter.tag = n
      BY <1>5, <2>1, <3>7, Zenon
    <3>10. Inside(src, fr, sub)
      BY <1>7, <1>19, <2>1, <3>4, <3>8, <3>9, Zenon DEF Inside
    <3>11. fr.iter.descriptor = Innermost.iter.descriptor /\ fr.max_size = Innermost.max_size
      BY <1>17, <2>1
    <3> QED BY <1>2, <2>3, <3>6, <3>10, <3>11, SizePushed
  <2>4. CASE ~SubmessageFits(fr, sz) /\ enc' = "failing"
    <3>1. ~(bufsize >= MQTTMessage_size)
      <4>1. (w + kk) + sz <= limit => sz \in 0..(limit - (w + kk))
        OBVIOUS
      <4>2. ~((w + kk) + sz <= limit)
        BY <2>1, <2>4, <4>1, Zenon DEF SubmessageFits
      <4> QED BY <1>20, <4>2
    <3> QED BY <1>2, <2>4, <3>1 DEF SizeInv
  <2> QED BY <2>2, <2>3, <2>4
<1> QED BY <1>22, <1>23


LEMMA EndSubmessageSizes == EncInv /\ EncTypeInv /\ SizeInv /\ EndSubmessage => SizeInv'
<1> SUFFICES ASSUME EncInv, EncTypeInv, SizeInv, EndSubmessage PROVE SizeInv'
  OBVIOUS
<1> DEFINE fr == Counted(Outer[Len(Outer)], Innermost)
           ok == enc = "field" /\ Innermost.bytes_written = Innermost.max_size
           f == IF ok THEN NextField(fr) ELSE fr
<1>1. /\ Len(frames) > 1 /\ UNCHANGED <<src, bufsize>>
      /\ (enc = "field" /\ Innermost.done) \/ enc = "failing"
      /\ enc' = IF ok THEN "field" ELSE "failing"
      /\ frames' = [Outer EXCEPT ![Len(Outer)] = f]
  BY DEF EndSubmessage
<1>2. CASE enc = "failing"
  <2>1. enc' = "failing" /\ ~(bufsize >= MQTTMessage_size)
    BY <1>1, <1>2 DEF SizeInv
  <2> QED BY <1>1, <2>1 DEF SizeInv
<1>3. CASE enc = "field" /\ Innermost.done
  <2>1. PICK last : last = Outer[Len(Outer)]
    OBVIOUS
  <2>2. Popped(frames, [Outer EXCEPT ![Len(Outer)] = f], f) /\ last = frames[Len(frames) - 1]
    <3> HIDE DEF f
    <3> QED BY <1>1, <2>1, InnermostFrame, PoppedIs DEF Outer
  <2>3. PICK l \in Nat : l = Len(frames) /\ l > 1
    BY <1>1, InnermostFrame
  <2>4. l - 1 \in 1..l /\ l - 1 \in 1..(l - 1) /\ (l - 1) + 1 = l
    BY <2>3
  <2>5. IsOStream(last) /\ Within(last, Innermost)
    BY <2>2, <2>3, <2>4, InnermostFrame DEF Nested
  <2>6. FrameAt(last, l - 1)
    BY <2>2, <2>3, <2>4 DEF EncTypeInv, AtFields
  <2>7. Inside(src, last, Innermost)
    <3>1. Inside(src, frames[l - 1], frames[(l - 1) + 1])
      BY <1>3, <2>3, <2>4 DEF SizeInv, Chained
    <3> QED BY <2>2, <2>3, <2>4, <3>1, Zenon DEF Innermost
  <2>8. Innermost.bytes_written = SizeOf(src, Innermost.iter.descriptor)
    BY <1>3, Zenon DEF SizeInv, AtEnd
  <2>9. Innermost.bytes_written = Innermost.max_size
    BY <2>7, <2>8, Zenon DEF Inside
  <2>10. PICK desc \in Messages : \E n \in DOMAIN FieldList[desc] :
           last.iter = IterAt(desc, Place[desc], n)
    BY <2>6 DEF FrameAt
  <2>11. PICK n \in DOMAIN FieldList[desc] : last.iter = IterAt(desc, Place[desc], n)
    BY <2>10
  <2>12. PICK it : it = last.iter
    OBVIOUS
  <2>13. it.descriptor = desc /\ it.tag = n
    BY <2>11, <2>12, IterMembers, PlaceInStruct
  <2>14. last.bytes_written + Innermost.bytes_written = UpTo(src, desc, n)
    BY <2>7, <2>9, <2>12, <2>13, Zenon DEF Inside
  <2>15. PICK g : g = Wrote(last, Innermost.bytes_written)
    OBVIOUS
  <2>16. Innermost.bytes_written \in Nat /\ Fits(last, Innermost.bytes_written)
    BY <2>5, InnermostFrame DEF IsOStream, Within, Fits
  <2>17. /\ IsOStream(g) /\ g.iter = last.iter /\ g.max_size = last.max_size
         /\ g.bytes_written = last.bytes_written + Innermost.bytes_written
    BY <2>5, <2>15, <2>16, WroteFrame, WroteIs
  <2>18. g.iter = IterAt(desc, Place[desc], n) /\ g.bytes_written = UpTo(src, desc, n)
    BY <2>11, <2>14, <2>17, Zenon
  <2>19. /\ AtEnd(src, NextField(g)) /\ NextField(g).iter.descriptor = desc
         /\ NextField(g).max_size = g.max_size
    BY <2>17, <2>18, NextAtEnd
  <2>20. f = NextField(g) /\ enc' = "field"
    BY <1>1, <1>3, <2>1, <2>9, <2>15, Zenon DEF Counted
  <2> HIDE DEF f, ok, fr
  <2>21. Popped(frames, frames', f)
    BY <1>1, <2>2, Zenon
  <2>22. f.iter.descriptor = last.iter.descriptor /\ f.max_size = last.max_size
    BY <2>12, <2>13, <2>17, <2>19, <2>20, Zenon
  <2>23. AtEnd(src, f)
    BY <2>19, <2>20, Zenon
  <2> QED BY <1>1, <1>3, <2>2, <2>20, <2>21, <2>22, <2>23, SizePopped
<1> QED BY <1>1, <1>2, <1>3

LEMMA EncodeReturnSizes == EncInv /\ EncTypeInv /\ SizeInv /\ EncodeReturn => SizeInv'
<1> SUFFICES ASSUME EncInv, EncTypeInv, SizeInv, EncodeReturn PROVE SizeInv'
  OBVIOUS
<1>1. /\ Len(frames) = 1 /\ UNCHANGED <<src, bufsize, frames>>
      /\ (enc = "field" /\ Innermost.done /\ enc' = "ok") \/ (enc = "failing" /\ enc' = "failed")
  BY DEF EncodeReturn
<1>2. CASE enc = "failing" /\ enc' = "failed"
  BY <1>1, <1>2 DEF SizeInv
<1>3. CASE enc = "field" /\ Innermost.done /\ enc' = "ok"
  <2>1. PICK desc \in Messages : \E n \in DOMAIN FieldList[desc] :
          Innermost.iter = IterAt(desc, Place[desc], n) /\ Depth[desc] = 1
    BY <1>1, TopAt DEF FrameAt
  <2>2. PICK n \in DOMAIN FieldList[desc] : Innermost.iter = IterAt(desc, Place[desc], n)
    BY <2>1
  <2>3. desc = "MQTTMessage"
    BY <2>1, MessageNames DEF Depth
  <2>4. PICK it : it = Innermost.iter
    OBVIOUS
  <2>5. it.descriptor = desc
    BY <2>2, <2>4, IterMembers, PlaceInStruct
  <2>6. Innermost.bytes_written = SizeOf(src, Innermost.iter.descriptor)
    BY <1>3, Zenon DEF SizeInv, AtEnd
  <2>7. Innermost.bytes_written = SizeOf(src, "MQTTMessage")
    BY <2>3, <2>4, <2>5, <2>6, Zenon
  <2>8. Innermost' = Innermost
    BY <1>1 DEF Innermost
  <2> QED BY <1>1, <1>3, <2>7, <2>8 DEF SizeInv
<1> QED BY <1>1, <1>2, <1>3

LEMMA SizeInvInit == EncodeInit => SizeInv
<1> SUFFICES ASSUME EncodeInit PROVE SizeInv
  OBVIOUS
<1> DEFINE iter == pb_field_iter_begin("MQTTMessage", 0)
           f == OStream(iter, 0, bufsize)
<1>1. enc = "field" /\ frames = <<f>>
  BY DEF EncodeInit
<1>2. f.iter = iter /\ f.bytes_written = 0 /\ f.done = FALSE
  <2> HIDE DEF iter
  <2> QED BY DEF OStream
<1>3. "MQTTMessage" \in Messages /\ Place["MQTTMessage"] = 0
  BY MessageNames DEF Place
<1>4. iter = IterAt("MQTTMessage", 0, 1)
  <2>1. 0 \in Int
    OBVIOUS
  <2> QED BY <1>3, <2>1, BeginTrue
<1>5. 1 \in DOMAIN FieldList["MQTTMessage"]
  BY <1>3, CountOf
<1> HIDE DEF iter, f
<1>6. PICK it : it = IterAt("MQTTMessage", 0, 1)
  OBVIOUS
<1>7. it.descriptor = "MQTTMessage" /\ it.tag = 1
  <2>1. it = IterAt("MQTTMessage", Place["MQTTMessage"], 1)
    BY <1>3, <1>6, Zenon
  <2> QED BY <1>3, <1>5, <2>1, IterMembers, PlaceInStruct
<1>8. f.iter.descriptor = "MQTTMessage" /\ f.iter.tag = 1
  BY <1>2, <1>4, <1>6, <1>7, Zenon
<1>9. UpTo(src, "MQTTMessage", 0) = 0
  BY <1>3, <1>5, UpToIs
<1>10. AtEnd(src, f)
  <2>1. 1 - 1 = 0
    OBVIOUS
  <2> QED BY <1>2, <1>8, <1>9, <2>1, Zenon DEF AtEnd
<1>11. Innermost = f /\ Len(frames) = 1
  BY <1>1 DEF Innermost
<1>12. Chained(src, frames)
  BY <1>11 DEF Chained
<1> QED BY <1>1, <1>10, <1>11, <1>12 DEF SizeInv

LEMMA SizeInvNext == EncInv /\ EncTypeInv /\ SizeInv /\ [EncodeNext]_encVars => SizeInv'
<1>1. SizeInv /\ UNCHANGED encVars => SizeInv'
  BY DEF SizeInv, encVars, Innermost
<1> QED BY <1>1, SkipAbsentSizes, WriteValueSizes, BeginSubmessageSizes,
           EndSubmessageSizes, EncodeReturnSizes DEF EncodeNext

\* A buffer of MQTTMessage_size bytes, that of the leaf, holds every message:
\* no write of the encoder fails (mesh.cpp:128-142; pb_encode.c:84-99, 701-767).
THEOREM BufferIsEnough == EncodeSpec => []SizeIsEnough
<1>1. EncodeInit => EncInv /\ EncTypeInv /\ SizeInv
  BY EncInvInit, EncTypeInvInit, SizeInvInit
<1>2. EncInv /\ EncTypeInv /\ SizeInv /\ [EncodeNext]_encVars
        => EncInv' /\ EncTypeInv' /\ SizeInv'
  BY EncInvNext, EncTypeInvNext, SizeInvNext
<1>3. EncInv /\ SizeInv => SizeIsEnough
  <2> SUFFICES ASSUME EncInv, SizeInv PROVE SizeIsEnough
    OBVIOUS
  <2>1. enc = "ok" => frames[1].bytes_written = SizeOf(src, "MQTTMessage")
    BY DEF EncInv, SizeInv, Innermost
  <2>2. SizeOf(src, "MQTTMessage") = pb_get_encoded_size(src, "MQTTMessage", 0)
    <3>1. Place["MQTTMessage"] = 0
      BY MessageNames DEF Place
    <3> QED BY <3>1, Zenon DEF SizeOf, pb_get_encoded_size
  <2> QED BY <2>1, <2>2 DEF SizeInv, SizeIsEnough
<1> QED BY <1>1, <1>2, <1>3, PTL DEF EncodeSpec

-----------------------------------------------------------------------------
(***************************************************************************)
(* Where the encoder puts a field: the messages that hold others have them *)
(* at the place of their field, one after the other.                       *)
(***************************************************************************)

It(d, n) == IterAt(d, Place[d], n)

\* Field n of message d is written, if there is room for it.
Carried(s, d, n) ==
    /\ d \in Messages /\ n \in DOMAIN FieldList[d]
    /\ Here(s, d) /\ Present(s, It(d, n))

\* The field that holds a submessage.
Holder == [Timestamp |-> <<"MQTTMessage", 2>>, Kart |-> <<"MQTTMessage", 3>>,
           Track |-> <<"MQTTMessage", 4>>, LatLng |-> <<"Kart", 6>>]

\* Where the bytes of message d begin, where its field n does, and what is
\* written of the field itself.
StartOf(s, d) ==
    CASE d = "Timestamp" -> UpTo(s, "MQTTMessage", 1) + 2
      [] d = "Kart" -> UpTo(s, "MQTTMessage", 2) + 2
      [] d = "Track" -> UpTo(s, "MQTTMessage", 3) + 2
      [] d = "LatLng" -> ((UpTo(s, "MQTTMessage", 2) + 2) + UpTo(s, "Kart", 5)) + 2
      [] OTHER -> 0

Pos(s, d, n) == StartOf(s, d) + UpTo(s, d, n - 1)

Extent(s, d, n) == IF FieldList[d][n].ltype = "MESSAGE" THEN 2 ELSE Bytes(s, d, n)

\* The item after the tag.
Second(s, d, n) ==
    IF FieldList[d][n].ltype = "MESSAGE" THEN LenOf(s, It(d, n)) ELSE ValueOf(s, It(d, n))

\* The bytes before a field are no more than those before a later one.
LEMMA UpToGrows ==
    ASSUME NEW s, NEW d \in Messages, NEW count \in 2..6, Len(FieldList[d]) = count
    PROVE  /\ \A k \in 0..count : UpTo(s, d, k) \in Nat
           /\ \A k \in 0..count : \A j \in 0..k : UpTo(s, d, j) <= UpTo(s, d, k)
           /\ SizeOf(s, d) = UpTo(s, d, count)
           /\ UpTo(s, d, 0) = 0
           /\ \A k \in 1..count : UpTo(s, d, k) = UpTo(s, d, k - 1) + Bytes(s, d, k)
           /\ \A k \in 1..count : Bytes(s, d, k) \in Nat
<1> DEFINE u(k) == UpTo(s, d, k)
           b(k) == Bytes(s, d, k)
<1>1. \A n \in 1..count : n \in DOMAIN FieldList[d]
  BY CountOf
<1>2. /\ \A n \in 1..count : u(n) = u(n - 1) + b(n)
      /\ \A n \in 1..count : b(n) \in Nat
  BY <1>1, UpToIs, AllTake DEF Takes
<1>3. u(0) = 0
  <2>1. 1 \in DOMAIN FieldList[d]
    BY <1>1
  <2> QED BY <2>1, UpToIs
<1>4. SizeOf(s, d) = u(count)
  BY SizeOfIs
<1> HIDE DEF u, b
<1> DEFINE S == {k \in Nat : k <= count => u(k) \in Nat /\ \A j \in 0..k : u(j) \in Nat /\ u(j) <= u(k)}
<1>5. 0 \in S
  BY <1>3
<1>6. ASSUME NEW k \in Nat, k \in S PROVE k + 1 \in S
  <2> SUFFICES ASSUME k + 1 <= count
               PROVE  /\ u(k + 1) \in Nat
                      /\ \A j \in 0..(k + 1) : u(j) \in Nat /\ u(j) <= u(k + 1)
    OBVIOUS
  <2>1. u(k) \in Nat /\ \A j \in 0..k : u(j) \in Nat /\ u(j) <= u(k)
    BY <1>6
  <2>2. k + 1 \in 1..count /\ (k + 1) - 1 = k
    OBVIOUS
  <2>3. u(k + 1) = u(k) + b(k + 1) /\ b(k + 1) \in Nat
    <3>1. u(k + 1) = u((k + 1) - 1) + b(k + 1)
      BY <1>2, <2>2
    <3> QED BY <1>2, <2>2, <3>1
  <2>4. \A j \in 0..k : u(j) \in Nat /\ u(j) <= u(k + 1)
    BY <2>1, <2>3
  <2>5. \A j \in 0..(k + 1) : j \in 0..k \/ j = k + 1
    OBVIOUS
  <2> QED BY <2>1, <2>3, <2>4, <2>5
<1> HIDE DEF S
<1>7. \A k \in Nat : k \in S
  BY <1>5, <1>6, AllNumbers
<1>8. ASSUME NEW k \in 0..count
      PROVE  u(k) \in Nat /\ \A j \in 0..k : u(j) <= u(k)
  BY <1>7 DEF S
<1> QED BY <1>2, <1>3, <1>4, <1>8 DEF u, b

\* The field of a submessage holds it, and each is held by one field.
LEMMA HolderIs ==
    ASSUME NEW e \in Messages, e # "MQTTMessage",
           NEW d, NEW n, d = Holder[e][1], n = Holder[e][2]
    PROVE  /\ d \in Messages /\ n \in DOMAIN FieldList[d] /\ n >= 1
           /\ FieldList[d][n].ltype = "MESSAGE" /\ FieldList[d][n].sub = e
<1>1. e \in {"Timestamp", "Kart", "Track", "LatLng"}
  BY MessageNames
<1>2. CASE e = "LatLng"
  BY <1>2, MessageNames, KartLines DEF Holder, Line
<1>3. CASE e # "LatLng"
  BY <1>1, <1>3, MessageNames, MQTTMessageLines DEF Holder, Line
<1> QED BY <1>2, <1>3

\* The message in a field of type MESSAGE is the one that names the field its holder.
LEMMA HeldBy ==
    ASSUME NEW d \in Messages, NEW n \in DOMAIN FieldList[d],
           NEW e, e = FieldList[d][n].sub, FieldList[d][n].ltype = "MESSAGE"
    PROVE  /\ e \in Messages /\ e # "MQTTMessage" /\ Holder[e] = <<d, n>>
           /\ \/ e = "Timestamp" /\ d = "MQTTMessage" /\ n = 2
              \/ e = "Kart" /\ d = "MQTTMessage" /\ n = 3
              \/ e = "Track" /\ d = "MQTTMessage" /\ n = 4
              \/ e = "LatLng" /\ d = "Kart" /\ n = 6
<1>1. CASE d = "MQTTMessage"
  BY <1>1, MessageNames, MQTTMessageLines DEF Holder, Line
<1>2. CASE d = "Timestamp"
  BY <1>2, MessageNames, TimestampLines DEF Line
<1>3. CASE d = "Kart"
  BY <1>3, MessageNames, KartLines DEF Holder, Line
<1>4. CASE d = "LatLng"
  BY <1>4, MessageNames, LatLngLines DEF Line
<1>5. CASE d = "Track"
  BY <1>5, MessageNames, TrackLines DEF Line
<1> QED BY <1>1, <1>2, <1>3, <1>4, <1>5, MessageNames

\* A submessage is there if its message is and its field is present.
LEMMA HereIfHeld ==
    ASSUME NEW s, NEW d \in Messages, NEW n \in DOMAIN FieldList[d],
           NEW e, e = FieldList[d][n].sub, FieldList[d][n].ltype = "MESSAGE"
    PROVE  Here(s, e) <=> Here(s, d) /\ Present(s, It(d, n))
<1>1. PICK f : f = FieldList[d][n]
  OBVIOUS
<1>2. PICK it : it = It(d, n)
  OBVIOUS
<1>3. /\ it.tag = n /\ it.type = Type(f) /\ IsField(f)
      /\ it.pSize = IF f.delta = 0 THEN NoAddress ELSE Place[d] + f.offset - f.delta
  BY <1>1, <1>2, IterMembers, PlaceInStruct DEF It
<1>4. Place["MQTTMessage"] = 0 /\ Place["Kart"] = 32
  BY DEF Place
<1>5. CASE f.htype = "OPTIONAL"
  <2>1. /\ (d = "MQTTMessage" /\ e = "Timestamp") \/ (d = "Kart" /\ e = "LatLng")
        /\ f.delta = 4
        /\ (d = "MQTTMessage" => f.offset = 8) /\ (d = "Kart" => f.offset = 24)
    BY <1>1, <1>5, FieldTable
  <2>2. PICK has \in {4, 52} :
          /\ (e = "Timestamp" => has = 4) /\ (e = "LatLng" => has = 52)
          /\ it.pSize = has
    BY <1>3, <1>4, <2>1
  <2>3. Present(s, it) <=> s[has] # 0
    <3>1. PB_HTYPE(it.type) # PB_HTYPE_ONEOF
      BY <1>3, <1>5, HTypeOf
    <3>2. it.pSize # NoAddress
      BY <2>2 DEF NoAddress
    <3>3. \A c \in Cells : c \in Span(it.pSize, 1) <=> c = has
      BY <2>2, InSpan, CellsAre
    <3>4. has \in Cells /\ Span(it.pSize, 1) \subseteq Cells
      BY <2>2, CellsAre DEF Span
    <3>5. HasField(s, it) <=> s[has] # 0
      BY <3>3, <3>4 DEF HasField
    <3> QED BY <3>1, <3>2, <3>5 DEF Present
  <2> QED BY <1>2, <2>1, <2>2, <2>3 DEF Here
<1>6. CASE f.htype = "ONEOF"
  <2>1. /\ d = "MQTTMessage" /\ f.offset = 32 /\ f.delta = 8
        /\ (e = "Kart" /\ n = 3) \/ (e = "Track" /\ n = 4)
    BY <1>1, <1>6, FieldTable
  <2>2. it.pSize = 24
    BY <1>3, <1>4, <2>1
  <2>3. Present(s, it) <=> s[24] = n
    <3>1. PB_HTYPE(it.type) = PB_HTYPE_ONEOF
      BY <1>3, <1>6, HTypeOf
    <3> QED BY <1>3, <2>2, <3>1 DEF Present
  <2> QED BY <1>2, <2>1, <2>3 DEF Here
<1> QED BY <1>1, <1>5, <1>6, FieldTable

\* What is written of a field that is there: a tag, and a length or a value.
LEMMA CarriedTakes ==
    ASSUME NEW s, NEW d, NEW n, Carried(s, d, n)
    PROVE  /\ Bytes(s, d, n) \in Nat /\ Extent(s, d, n) \in Nat
           /\ 2 <= Extent(s, d, n) /\ Extent(s, d, n) <= Bytes(s, d, n)
           /\ TagOf(It(d, n)).n = 1
           /\ Extent(s, d, n) = 1 + Second(s, d, n).n
           /\ Second(s, d, n).n \in Nat
           /\ FieldList[d][n].ltype = "MESSAGE" =>
                 Bytes(s, d, n) = 2 + SizeOf(s, FieldList[d][n].sub)
<1>1. d \in Messages /\ n \in DOMAIN FieldList[d] /\ Present(s, It(d, n))
  BY DEF Carried
<1>2. PICK f : f = FieldList[d][n]
  OBVIOUS
<1>3. PICK it : it = It(d, n)
  OBVIOUS
<1>4. it.type = Type(f) /\ IsField(f) /\ it.submsg_desc = f.sub
      /\ it.pData = Place[d] + f.offset
  BY <1>1, <1>2, <1>3, IterMembers, PlaceInStruct DEF It
<1>5. TagOf(it).n = 1
  BY <1>1, <1>3, TagByte DEF It
<1>6. PB_LTYPE_IS_SUBMSG(it.type) <=> f.ltype = "MESSAGE"
  BY <1>4, TypeParts
<1>7. CASE f.ltype = "MESSAGE"
  <2>1. PICK sub : sub = f.sub
    OBVIOUS
  <2>2. sub \in Messages /\ Place[sub] = it.pData /\ it.submsg_desc = sub
    <3>1. sub # NULL
      BY <1>4, <1>7, <2>1 DEF IsField
    <3> QED BY <1>1, <1>2, <1>4, <2>1, <3>1, PlaceOfSubmessage
  <2>3. PICK size \in 0..73 : size = SizeOf(s, sub)
    BY <2>2, AllTake DEF Takes
  <2>4. Bytes(s, d, n) = 2 + size
    <3>1. size \in 0..127
      OBVIOUS
    <3>2. Bytes(s, d, n) = IF Present(s, IterAt(d, Place[d], n)) THEN 2 + SizeOf(s, f.sub) ELSE 0
      BY <1>1, <1>2, <1>7, <2>1, <2>3, <3>1, SubmessageTakes
    <3> QED BY <1>1, <2>1, <2>3, <3>2, Zenon DEF It
  <2>5. LenOf(s, it).n = 1
    <3>1. pb_get_encoded_size(s, it.submsg_desc, it.pData) = size
      BY <2>2, <2>3, Zenon DEF pb_get_encoded_size, SizeOf
    <3>2. LenOf(s, it) = LenItem(size, VarintBytes(size))
      BY <3>1, Zenon DEF LenOf
    <3>3. VarintBytes(size) = 1
      BY <2>3 DEF VarintBytes
    <3> QED BY <3>2, <3>3 DEF LenItem
  <2>6. Extent(s, d, n) = 2 /\ Second(s, d, n) = LenOf(s, it)
    BY <1>2, <1>3, <1>7 DEF Extent, Second
  <2> QED BY <1>2, <1>3, <1>5, <2>1, <2>3, <2>4, <2>5, <2>6
<1>8. CASE f.ltype # "MESSAGE"
  <2>1. Second(s, d, n) = ValueOf(s, it) /\ Extent(s, d, n) = Bytes(s, d, n)
    BY <1>2, <1>3, <1>8 DEF Extent, Second
  <2>2. PICK v : v = ValueOf(s, it).n
    OBVIOUS
  <2>3. v \in Nat /\ v >= 1
    <3>1. v = ValueBytes(it.type, s[it.pData])
      BY <2>2 DEF ValueOf, ValItem
    <3> QED BY <3>1 DEF ValueBytes
  <2>4. Bytes(s, d, n) = 1 + v
    BY <1>1, <1>3, <1>5, <1>6, <1>8, <2>2, Zenon DEF Bytes, FieldBytes, It
  <2> QED BY <1>2, <1>3, <1>5, <1>8, <2>1, <2>2, <2>3, <2>4
<1> QED BY <1>7, <1>8

\* Only what is there takes bytes.
LEMMA PresentTakes ==
    ASSUME NEW s, NEW d \in Messages, NEW n \in DOMAIN FieldList[d], Bytes(s, d, n) # 0
    PROVE  Present(s, It(d, n))
BY DEF Bytes, FieldBytes, It

\* A message that is there takes the place of its field.
LEMMA BytesNested ==
    ASSUME NEW s, NEW e \in Messages, e # "MQTTMessage", Here(s, e),
           NEW d, NEW n, d = Holder[e][1], n = Holder[e][2]
    PROVE  /\ Carried(s, d, n)
           /\ StartOf(s, e) = Pos(s, d, n) + 2
           /\ StartOf(s, e) + SizeOf(s, e) = StartOf(s, d) + UpTo(s, d, n)
<1>1. /\ d \in Messages /\ n \in DOMAIN FieldList[d]
      /\ FieldList[d][n].ltype = "MESSAGE" /\ FieldList[d][n].sub = e
  BY HolderIs
<1>2. Here(s, d) /\ Present(s, It(d, n))
  BY <1>1, HereIfHeld
<1>3. Carried(s, d, n)
  BY <1>1, <1>2 DEF Carried
<1>4. Bytes(s, d, n) = 2 + SizeOf(s, e)
  BY <1>1, <1>3, CarriedTakes
<1>5. PICK count \in 2..6 : Len(FieldList[d]) = count /\ n \in 1..count
  BY <1>1, CountOf
<1>6. /\ UpTo(s, d, n) = UpTo(s, d, n - 1) + Bytes(s, d, n)
      /\ UpTo(s, d, n - 1) \in Nat /\ Bytes(s, d, n) \in Nat
  <2>1. n - 1 \in 0..count
    BY <1>5
  <2> QED BY <1>1, <1>5, <2>1, UpToGrows
<1>7. SizeOf(s, e) \in 0..73
  BY AllTake DEF Takes
<1>8. StartOf(s, e) = Pos(s, d, n) + 2 /\ StartOf(s, d) \in Nat
  <2>1. \/ e = "Timestamp" /\ d = "MQTTMessage" /\ n = 2 /\ n - 1 = 1
        \/ e = "Kart" /\ d = "MQTTMessage" /\ n = 3 /\ n - 1 = 2
        \/ e = "Track" /\ d = "MQTTMessage" /\ n = 4 /\ n - 1 = 3
        \/ e = "LatLng" /\ d = "Kart" /\ n = 6 /\ n - 1 = 5
    BY <1>1, HeldBy
  <2>2. CASE d = "MQTTMessage"
    <3>1. StartOf(s, d) = 0
      BY <2>2 DEF StartOf
    <3>2. StartOf(s, e) = UpTo(s, d, n - 1) + 2
      BY <2>1, <2>2 DEF StartOf
    <3> QED BY <1>6, <3>1, <3>2 DEF Pos
  <2>3. CASE d = "Kart"
    <3>1. StartOf(s, d) = UpTo(s, "MQTTMessage", 2) + 2
      BY <2>3 DEF StartOf
    <3>2. StartOf(s, e) = ((UpTo(s, "MQTTMessage", 2) + 2) + UpTo(s, d, n - 1)) + 2
      BY <2>1, <2>3 DEF StartOf
    <3>3. UpTo(s, "MQTTMessage", 2) \in Nat
      <4>1. 2 \in DOMAIN FieldList["MQTTMessage"] /\ "MQTTMessage" \in Messages
        BY CountOf, MessageNames
      <4> QED BY <4>1, AllTake DEF Takes
    <3> QED BY <1>6, <3>1, <3>2, <3>3 DEF Pos
  <2> QED BY <2>1, <2>2, <2>3
<1> QED BY <1>3, <1>4, <1>6, <1>7, <1>8 DEF Pos

\* Every message begins somewhere.
LEMMA StartIs ==
    ASSUME NEW s, NEW d \in Messages
    PROVE  /\ StartOf(s, d) \in Nat
           /\ d # "MQTTMessage" => StartOf(s, d) >= 2
           /\ d = "MQTTMessage" => StartOf(s, d) = 0
<1>1. /\ "MQTTMessage" \in Messages /\ "Kart" \in Messages
      /\ 1 \in DOMAIN FieldList["MQTTMessage"] /\ 2 \in DOMAIN FieldList["MQTTMessage"]
      /\ 3 \in DOMAIN FieldList["MQTTMessage"] /\ 5 \in DOMAIN FieldList["Kart"]
  BY MessageNames, MQTTMessageLines, KartLines
<1>2. Takes(s, "MQTTMessage", 73) /\ Takes(s, "Kart", 73)
  BY <1>1, AllTake
<1>3. /\ UpTo(s, "MQTTMessage", 1) \in Nat /\ UpTo(s, "MQTTMessage", 2) \in Nat
      /\ UpTo(s, "MQTTMessage", 3) \in Nat /\ UpTo(s, "Kart", 5) \in Nat
  BY <1>1, <1>2 DEF Takes
<1> QED BY <1>3, MessageNames DEF StartOf

\* The bytes of a field are among those of its message.
LEMMA PosWithin ==
    ASSUME NEW s, NEW d, NEW n, Carried(s, d, n)
    PROVE  /\ Pos(s, d, n) \in Nat /\ StartOf(s, d) \in Nat /\ SizeOf(s, d) \in Nat
           /\ StartOf(s, d) <= Pos(s, d, n)
           /\ Pos(s, d, n) + Bytes(s, d, n) = StartOf(s, d) + UpTo(s, d, n)
           /\ Pos(s, d, n) + Bytes(s, d, n) <= StartOf(s, d) + SizeOf(s, d)
           /\ Pos(s, d, n) + Extent(s, d, n) <= StartOf(s, d) + SizeOf(s, d)
<1>1. d \in Messages /\ n \in DOMAIN FieldList[d]
  BY DEF Carried
<1>2. PICK count \in 2..6 : Len(FieldList[d]) = count /\ n \in 1..count
  BY <1>1, CountOf
<1>3. /\ UpTo(s, d, n) = UpTo(s, d, n - 1) + Bytes(s, d, n)
      /\ UpTo(s, d, n - 1) \in Nat /\ Bytes(s, d, n) \in Nat
      /\ UpTo(s, d, n) <= SizeOf(s, d)
  <2>1. n - 1 \in 0..count /\ count \in 0..count /\ n \in 0..count
    BY <1>2
  <2> QED BY <1>1, <1>2, <2>1, UpToGrows
<1>4. SizeOf(s, d) \in 0..73
  BY <1>1, AllTake DEF Takes
<1>5. StartOf(s, d) \in Nat
  BY <1>1, StartIs
<1>6. Extent(s, d, n) \in Nat /\ Extent(s, d, n) <= Bytes(s, d, n)
  BY CarriedTakes
<1> QED BY <1>3, <1>4, <1>5, <1>6 DEF Pos

\* Two fields of a message, one after the other.
LEMMA InOrder ==
    ASSUME NEW s, NEW d, NEW n, NEW m, Carried(s, d, n), Carried(s, d, m), n < m
    PROVE  Pos(s, d, n) + Bytes(s, d, n) <= Pos(s, d, m)
<1>1. d \in Messages /\ n \in DOMAIN FieldList[d] /\ m \in DOMAIN FieldList[d]
  BY DEF Carried
<1>2. PICK count \in 2..6 : Len(FieldList[d]) = count /\ n \in 1..count /\ m \in 1..count
  BY <1>1, CountOf
<1>3. m - 1 \in 0..count /\ n \in 0..(m - 1)
  BY <1>2
<1>4. UpTo(s, d, n) <= UpTo(s, d, m - 1) /\ UpTo(s, d, m - 1) \in Nat /\ UpTo(s, d, n) \in Nat
  <2>1. /\ \A k \in 0..count : UpTo(s, d, k) \in Nat
        /\ \A k \in 0..count : \A j \in 0..k : UpTo(s, d, j) <= UpTo(s, d, k)
    BY <1>1, <1>2, UpToGrows
  <2>2. PICK l \in 0..count : l = m - 1
    BY <1>3
  <2>3. n \in 0..l /\ n \in 0..count
    BY <1>2, <1>3, <2>2
  <2>4. UpTo(s, d, n) <= UpTo(s, d, l) /\ UpTo(s, d, l) \in Nat /\ UpTo(s, d, n) \in Nat
    BY <2>1, <2>3
  <2> QED BY <2>2, <2>4
<1>5. Pos(s, d, n) + Bytes(s, d, n) = StartOf(s, d) + UpTo(s, d, n) /\ StartOf(s, d) \in Nat
  BY PosWithin
<1> QED BY <1>4, <1>5 DEF Pos

\* What is written of a field is not where a message is that another one holds,
\* nor the one it holds itself.
LEMMA ApartFromHeld ==
    ASSUME NEW s, NEW e \in Messages, e # "MQTTMessage", Here(s, e),
           NEW d, NEW n, d = Holder[e][1], n = Holder[e][2], NEW m, Carried(s, d, m)
    PROVE  \/ Pos(s, d, m) + Extent(s, d, m) <= StartOf(s, e)
           \/ StartOf(s, e) + SizeOf(s, e) <= Pos(s, d, m)
<1>1. /\ Carried(s, d, n) /\ StartOf(s, e) = Pos(s, d, n) + 2
      /\ StartOf(s, e) + SizeOf(s, e) = StartOf(s, d) + UpTo(s, d, n)
  BY BytesNested
<1>2. FieldList[d][n].ltype = "MESSAGE" /\ d \in Messages
      /\ n \in DOMAIN FieldList[d] /\ m \in DOMAIN FieldList[d]
  BY HolderIs DEF Carried
<1>3. n \in Nat /\ m \in Nat
  BY <1>2, CountOf
<1>4. /\ Pos(s, d, n) + Bytes(s, d, n) = StartOf(s, d) + UpTo(s, d, n)
      /\ Pos(s, d, n) \in Nat /\ Pos(s, d, m) \in Nat
  BY <1>1, PosWithin
<1>5. /\ Extent(s, d, m) \in Nat /\ Bytes(s, d, m) \in Nat
      /\ Extent(s, d, m) <= Bytes(s, d, m)
  BY CarriedTakes
<1>6. CASE n = m
  <2>1. Extent(s, d, m) = 2
    BY <1>2, <1>6 DEF Extent
  <2> QED BY <1>1, <1>4, <1>6, <2>1
<1>7. CASE m < n
  <2>1. Pos(s, d, m) + Bytes(s, d, m) <= Pos(s, d, n)
    BY <1>1, <1>7, InOrder
  <2> QED BY <1>1, <1>4, <1>5, <2>1
<1>8. CASE n < m
  <2>1. Pos(s, d, n) + Bytes(s, d, n) <= Pos(s, d, m)
    BY <1>1, <1>8, InOrder
  <2> QED BY <1>1, <1>4, <2>1
<1> QED BY <1>3, <1>6, <1>7, <1>8

\* What is written of one field is before or after what is written of the other.
Apart(s, d, n, e, m) ==
    \/ Pos(s, d, n) + Extent(s, d, n) <= Pos(s, e, m)
    \/ Pos(s, e, m) + Extent(s, e, m) <= Pos(s, d, n)

\* A payload of the message, or the position in it, is where the payload is.
PayloadOf(e) == IF e = "LatLng" THEN "Kart" ELSE e

\* A submessage lies within its payload, and the payload in the message.
LEMMA WithinPayload ==
    ASSUME NEW s, NEW e \in Messages, e # "MQTTMessage", Here(s, e),
           NEW p, p = PayloadOf(e)
    PROVE  /\ p \in Messages /\ p # "MQTTMessage" /\ Here(s, p)
           /\ Holder[p][1] = "MQTTMessage"
           /\ StartOf(s, p) <= StartOf(s, e)
           /\ StartOf(s, e) + SizeOf(s, e) <= StartOf(s, p) + SizeOf(s, p)
<1>1. /\ StartOf(s, e) \in Nat /\ SizeOf(s, e) \in 0..73
  BY StartIs, AllTake DEF Takes
<1>2. CASE e # "LatLng"
  <2>1. Holder[e][1] = "MQTTMessage"
    BY <1>2, MessageNames DEF Holder
  <2> QED BY <1>1, <1>2, <2>1 DEF PayloadOf
<1>3. CASE e = "LatLng"
  <2>1. p = "Kart" /\ Holder[e][1] = "Kart" /\ Holder[e][2] = 6
        /\ Holder["Kart"][1] = "MQTTMessage"
    BY <1>3 DEF PayloadOf, Holder
  <2>2. /\ Carried(s, "Kart", 6) /\ StartOf(s, e) = Pos(s, "Kart", 6) + 2
        /\ StartOf(s, e) + SizeOf(s, e) = StartOf(s, "Kart") + UpTo(s, "Kart", 6)
    BY <2>1, BytesNested
  <2>3. /\ Pos(s, "Kart", 6) \in Nat /\ StartOf(s, "Kart") \in Nat
        /\ StartOf(s, "Kart") <= Pos(s, "Kart", 6)
        /\ Pos(s, "Kart", 6) + Bytes(s, "Kart", 6) = StartOf(s, "Kart") + UpTo(s, "Kart", 6)
        /\ Pos(s, "Kart", 6) + Bytes(s, "Kart", 6) <= StartOf(s, "Kart") + SizeOf(s, "Kart")
    BY <2>2, PosWithin
  <2>4. "Kart" \in Messages /\ Here(s, "Kart")
    BY <2>2 DEF Carried
  <2> QED BY <2>1, <2>2, <2>3, <2>4
<1> QED BY <1>2, <1>3

\* A field before or after the bytes a message is in.
LEMMA ApartFromBytes ==
    ASSUME NEW s, NEW d, NEW n, Carried(s, d, n), NEW e, NEW m, Carried(s, e, m),
           NEW lo \in Nat, NEW hi \in Nat,
           Pos(s, d, n) + Extent(s, d, n) <= lo \/ hi <= Pos(s, d, n),
           lo <= StartOf(s, e), StartOf(s, e) + SizeOf(s, e) <= hi
    PROVE  Apart(s, d, n, e, m)
<1>1. /\ Pos(s, d, n) \in Nat /\ Extent(s, d, n) \in Nat
      /\ Pos(s, e, m) \in Nat /\ Extent(s, e, m) \in Nat
      /\ StartOf(s, e) \in Nat /\ SizeOf(s, e) \in Nat
      /\ StartOf(s, e) <= Pos(s, e, m)
      /\ Pos(s, e, m) + Extent(s, e, m) <= StartOf(s, e) + SizeOf(s, e)
  BY PosWithin, CarriedTakes
<1> QED BY <1>1 DEF Apart

\* Two fields of one message do not overlap: one ends before the other begins.
LEMMA ApartInMessage ==
    ASSUME NEW s, NEW d, NEW n, NEW m, Carried(s, d, n), Carried(s, d, m), n # m
    PROVE  Apart(s, d, n, d, m)
<1>1. n \in Nat /\ m \in Nat
  BY CountOf DEF Carried
<1>2. /\ Pos(s, d, n) \in Nat /\ Extent(s, d, n) \in Nat /\ Bytes(s, d, n) \in Nat
      /\ Pos(s, d, m) \in Nat /\ Extent(s, d, m) \in Nat /\ Bytes(s, d, m) \in Nat
      /\ Extent(s, d, n) <= Bytes(s, d, n) /\ Extent(s, d, m) <= Bytes(s, d, m)
  BY PosWithin, CarriedTakes
<1>3. CASE n < m
  <2>1. Pos(s, d, n) + Bytes(s, d, n) <= Pos(s, d, m)
    BY <1>3, InOrder
  <2> QED BY <1>2, <2>1 DEF Apart
<1>4. CASE m < n
  <2>1. Pos(s, d, m) + Bytes(s, d, m) <= Pos(s, d, n)
    BY <1>4, InOrder
  <2> QED BY <1>2, <2>1 DEF Apart
<1> QED BY <1>1, <1>3, <1>4

\* A field of the outermost message, and one of another.
LEMMA ApartFromTop ==
    ASSUME NEW s, NEW n, Carried(s, "MQTTMessage", n), NEW e, NEW m, Carried(s, e, m),
           e # "MQTTMessage"
    PROVE  Apart(s, "MQTTMessage", n, e, m)
<1>1. PICK p : p = PayloadOf(e)
  OBVIOUS
<1>2. e \in Messages /\ Here(s, e)
  BY DEF Carried
<1>3. /\ p \in Messages /\ p # "MQTTMessage" /\ Here(s, p)
      /\ Holder[p][1] = "MQTTMessage"
      /\ StartOf(s, p) <= StartOf(s, e)
      /\ StartOf(s, e) + SizeOf(s, e) <= StartOf(s, p) + SizeOf(s, p)
  BY <1>1, <1>2, WithinPayload
<1>4. StartOf(s, p) \in Nat /\ SizeOf(s, p) \in 0..73
  BY <1>3, StartIs, AllTake DEF Takes
<1>5. PICK lo \in Nat, hi \in Nat : lo = StartOf(s, p) /\ hi = StartOf(s, p) + SizeOf(s, p)
  BY <1>4
<1>6. Pos(s, "MQTTMessage", n) + Extent(s, "MQTTMessage", n) <= lo
      \/ hi <= Pos(s, "MQTTMessage", n)
  BY <1>3, <1>5, ApartFromHeld
<1> QED BY <1>3, <1>5, <1>6, ApartFromBytes

\* A field of the timestamp, and one of the payload.
LEMMA ApartFromTimestamp ==
    ASSUME NEW s, NEW n, Carried(s, "Timestamp", n), NEW e, NEW m, Carried(s, e, m),
           e \in {"Kart", "Track", "LatLng"}
    PROVE  Apart(s, "Timestamp", n, e, m)
<1>1. PICK p : p = PayloadOf(e)
  OBVIOUS
<1>2. e \in Messages /\ Here(s, e) /\ "Timestamp" \in Messages /\ Here(s, "Timestamp")
  BY DEF Carried
<1>3. /\ p \in Messages /\ p # "MQTTMessage" /\ Here(s, p)
      /\ Holder[p][1] = "MQTTMessage"
      /\ StartOf(s, p) <= StartOf(s, e)
      /\ StartOf(s, e) + SizeOf(s, e) <= StartOf(s, p) + SizeOf(s, p)
  BY <1>1, <1>2, WithinPayload
<1>4. PICK k : k = Holder[p][2]
  OBVIOUS
<1>5. k \in Nat /\ 2 < k
  BY <1>1, <1>4 DEF PayloadOf, Holder
<1>6. /\ Carried(s, "MQTTMessage", k)
      /\ StartOf(s, p) = Pos(s, "MQTTMessage", k) + 2
  BY <1>3, <1>4, BytesNested
<1>7. Holder["Timestamp"][1] = "MQTTMessage" /\ Holder["Timestamp"][2] = 2
  BY DEF Holder
<1>8. /\ Carried(s, "MQTTMessage", 2)
      /\ StartOf(s, "Timestamp") + SizeOf(s, "Timestamp")
           = StartOf(s, "MQTTMessage") + UpTo(s, "MQTTMessage", 2)
  BY <1>2, <1>7, BytesNested
<1>9. Pos(s, "MQTTMessage", 2) + Bytes(s, "MQTTMessage", 2) <= Pos(s, "MQTTMessage", k)
  BY <1>5, <1>6, <1>8, InOrder
<1>10. /\ Pos(s, "MQTTMessage", 2) + Bytes(s, "MQTTMessage", 2)
            = StartOf(s, "MQTTMessage") + UpTo(s, "MQTTMessage", 2)
       /\ Pos(s, "MQTTMessage", k) \in Nat /\ Pos(s, "MQTTMessage", 2) \in Nat
  BY <1>6, <1>8, PosWithin
<1>11. /\ Pos(s, "Timestamp", n) \in Nat /\ Extent(s, "Timestamp", n) \in Nat
       /\ Pos(s, "Timestamp", n) + Extent(s, "Timestamp", n)
            <= StartOf(s, "Timestamp") + SizeOf(s, "Timestamp")
       /\ Pos(s, e, m) \in Nat /\ StartOf(s, e) \in Nat /\ StartOf(s, e) <= Pos(s, e, m)
  BY PosWithin, CarriedTakes
<1>12. PICK x \in Nat : x = StartOf(s, "Timestamp") + SizeOf(s, "Timestamp")
  <2>1. StartOf(s, "Timestamp") \in Nat /\ SizeOf(s, "Timestamp") \in Nat
    BY PosWithin
  <2> QED BY <2>1
<1>13. x <= Pos(s, "MQTTMessage", k)
  BY <1>8, <1>9, <1>10, <1>12
<1> QED BY <1>3, <1>6, <1>10, <1>11, <1>12, <1>13 DEF Apart

\* A field of a kart status, and one of its position.
LEMMA ApartFromPosition ==
    ASSUME NEW s, NEW n, Carried(s, "Kart", n), NEW m, Carried(s, "LatLng", m)
    PROVE  Apart(s, "Kart", n, "LatLng", m)
<1>1. "LatLng" \in Messages /\ Here(s, "LatLng") /\ Holder["LatLng"][1] = "Kart"
  BY DEF Carried, Holder
<1>2. StartOf(s, "LatLng") \in Nat /\ SizeOf(s, "LatLng") \in Nat
  BY PosWithin
<1>3. PICK lo \in Nat, hi \in Nat :
        lo = StartOf(s, "LatLng") /\ hi = StartOf(s, "LatLng") + SizeOf(s, "LatLng")
  BY <1>2
<1>4. Pos(s, "Kart", n) + Extent(s, "Kart", n) <= lo \/ hi <= Pos(s, "Kart", n)
  BY <1>1, <1>3, ApartFromHeld
<1> QED BY <1>3, <1>4, ApartFromBytes

\* No two fields are written to the same place.
LEMMA FieldsApart ==
    ASSUME NEW s, NEW d, NEW n, Carried(s, d, n), NEW e, NEW m, Carried(s, e, m)
    PROVE  (d = e /\ n = m) \/ Apart(s, d, n, e, m)
<1>1. /\ d \in Messages /\ e \in Messages
      /\ ~(d \in {"Kart", "LatLng"} /\ e = "Track")
      /\ ~(e \in {"Kart", "LatLng"} /\ d = "Track")
  BY DEF Carried, Here
<1>2. Apart(s, d, n, e, m) <=> Apart(s, e, m, d, n)
  BY DEF Apart
<1>3. CASE d = e
  BY <1>3, ApartInMessage
<1>4. CASE d = "MQTTMessage" /\ e # "MQTTMessage"
  BY <1>4, ApartFromTop
<1>5. CASE e = "MQTTMessage" /\ d # "MQTTMessage"
  BY <1>2, <1>5, ApartFromTop
<1>6. CASE d = "Timestamp" /\ e \in {"Kart", "Track", "LatLng"}
  BY <1>6, ApartFromTimestamp
<1>7. CASE e = "Timestamp" /\ d \in {"Kart", "Track", "LatLng"}
  BY <1>2, <1>7, ApartFromTimestamp
<1>8. CASE d = "Kart" /\ e = "LatLng"
  BY <1>8, ApartFromPosition
<1>9. CASE e = "Kart" /\ d = "LatLng"
  BY <1>2, <1>9, ApartFromPosition
<1> QED BY <1>1, <1>3, <1>4, <1>5, <1>6, <1>7, <1>8, <1>9, MessageNames

\* Nothing is written beyond the end of the message.
LEMMA PosInMessage ==
    ASSUME NEW s, NEW d, NEW n, Carried(s, d, n)
    PROVE  StartOf(s, d) + SizeOf(s, d) <= SizeOf(s, "MQTTMessage")
<1>1. d \in Messages /\ Here(s, d)
  BY DEF Carried
<1>2. CASE d = "MQTTMessage"
  <2>1. StartOf(s, d) = 0 /\ SizeOf(s, d) \in Nat
    BY <1>2, PosWithin DEF StartOf
  <2> QED BY <1>2, <2>1
<1>3. CASE d # "MQTTMessage"
  <2>1. PICK p : p = PayloadOf(d)
    OBVIOUS
  <2>2. /\ p \in Messages /\ p # "MQTTMessage" /\ Here(s, p)
        /\ Holder[p][1] = "MQTTMessage"
        /\ StartOf(s, d) + SizeOf(s, d) <= StartOf(s, p) + SizeOf(s, p)
    BY <1>1, <1>3, <2>1, WithinPayload
  <2>3. PICK k : k = Holder[p][2]
    OBVIOUS
  <2>4. /\ Carried(s, "MQTTMessage", k)
        /\ StartOf(s, p) + SizeOf(s, p) = StartOf(s, "MQTTMessage") + UpTo(s, "MQTTMessage", k)
    BY <2>2, <2>3, BytesNested
  <2>5. /\ Pos(s, "MQTTMessage", k) + Bytes(s, "MQTTMessage", k)
             = StartOf(s, "MQTTMessage") + UpTo(s, "MQTTMessage", k)
        /\ Pos(s, "MQTTMessage", k) + Bytes(s, "MQTTMessage", k)
             <= StartOf(s, "MQTTMessage") + SizeOf(s, "MQTTMessage")
        /\ SizeOf(s, "MQTTMessage") \in Nat
    BY <2>4, PosWithin
  <2>6. StartOf(s, "MQTTMessage") = 0
    BY DEF StartOf
  <2>7. StartOf(s, d) \in Nat /\ SizeOf(s, d) \in Nat
    BY PosWithin
  <2>8. StartOf(s, p) + SizeOf(s, p) <= SizeOf(s, "MQTTMessage")
    BY <2>4, <2>5, <2>6
  <2>9. StartOf(s, p) \in Nat /\ SizeOf(s, p) \in 0..73
    BY <2>2, StartIs, AllTake DEF Takes
  <2> QED BY <2>2, <2>5, <2>7, <2>8, <2>9
<1> QED BY <1>2, <1>3

-----------------------------------------------------------------------------
(***************************************************************************)
(* What the encoder has written.                                           *)
(***************************************************************************)

\* The items a field that is there is written as.
LEMMA ItemsOf ==
    ASSUME NEW s \in [Cells -> Nat], NEW d, NEW n, Carried(s, d, n),
           NEW it, it = It(d, n)
    PROVE  /\ TagOf(it) = TagItem(n, WireType[PB_LTYPE(it.type)], 1)
           /\ WireType[PB_LTYPE(it.type)] \in 0..5 /\ n \in Nat
           /\ FieldList[d][n].ltype = "MESSAGE" =>
                 /\ SizeOf(s, FieldList[d][n].sub) \in Nat
                 /\ Second(s, d, n) = LenItem(SizeOf(s, FieldList[d][n].sub), 1)
           /\ FieldList[d][n].ltype # "MESSAGE" =>
                 /\ s[it.pData] \in Nat
                 /\ \E k \in Nat : k >= 1 /\ Second(s, d, n) = ValItem(s[it.pData], k)
<1>1. d \in Messages /\ n \in DOMAIN FieldList[d] /\ Present(s, It(d, n))
  BY DEF Carried
<1>2. PICK f : f = FieldList[d][n]
  OBVIOUS
<1>3. /\ it.type = Type(f) /\ IsField(f) /\ it.submsg_desc = f.sub /\ it.tag = n
      /\ it.pData = Place[d] + f.offset /\ n \in Nat /\ it.data_size = f.size
  BY <1>1, <1>2, IterMembers, PlaceInStruct, CountOf DEF It
<1>4. TagOf(it) = TagItem(n, WireType[PB_LTYPE(it.type)], 1)
  <2>1. PICK w : w = WireType[PB_LTYPE(it.type)]
    OBVIOUS
  <2>2. TagOf(it) = TagItem(n, w, VarintBytes(8 * n + w))
    BY <1>3, <2>1, Zenon DEF TagOf
  <2>3. TagOf(it).n = 1
    BY <1>1, TagByte DEF It
  <2>4. VarintBytes(8 * n + w) = 1
    BY <2>2, <2>3 DEF TagItem
  <2> QED BY <2>1, <2>2, <2>4
<1>5. WireType[PB_LTYPE(it.type)] \in 0..5
  <2>1. PB_LTYPE(it.type) \in 0..8
    BY <1>3, TypeParts DEF PB_LTYPE_MAP, IsField, PB_LTYPE_BOOL, PB_LTYPE_VARINT,
       PB_LTYPE_UVARINT, PB_LTYPE_FIXED32, PB_LTYPE_FIXED64, PB_LTYPE_SUBMESSAGE
  <2> QED BY <2>1 DEF WireType, PB_WT_32BIT, PB_WT_64BIT, PB_WT_STRING, PB_WT_VARINT
<1>6. CASE f.ltype = "MESSAGE"
  <2>1. PICK sub : sub = f.sub
    OBVIOUS
  <2>2. sub \in Messages /\ Place[sub] = it.pData /\ it.submsg_desc = sub
    <3>1. sub # NULL
      BY <1>3, <1>6, <2>1 DEF IsField
    <3> QED BY <1>1, <1>2, <1>3, <2>1, <3>1, PlaceOfSubmessage
  <2>3. PICK size \in 0..73 : size = SizeOf(s, sub)
    BY <2>2, AllTake DEF Takes
  <2>4. pb_get_encoded_size(s, it.submsg_desc, it.pData) = size
    BY <2>2, <2>3, Zenon DEF pb_get_encoded_size, SizeOf
  <2>5. LenOf(s, it) = LenItem(size, VarintBytes(size))
    BY <2>4, Zenon DEF LenOf
  <2>6. VarintBytes(size) = 1
    BY <2>3 DEF VarintBytes
  <2>7. Second(s, d, n) = LenItem(size, 1)
    BY <1>2, <1>6, <2>5, <2>6 DEF Second
  <2> QED BY <1>2, <1>3, <1>4, <1>5, <1>6, <2>1, <2>3, <2>7
<1>7. CASE f.ltype # "MESSAGE"
  <2>1. PICK a, size : a = it.pData /\ size = it.data_size
    OBVIOUS
  <2>2. IsLeaf(d, n, a, size)
    BY <1>1, <1>2, <1>3, <1>7, <2>1 DEF IsLeaf
  <2>3. a \in Cells
    BY <2>2, LeafTable, CellsAre
  <2>4. s[a] \in Nat
    BY <2>3
  <2>5. PICK k : k = ValueBytes(it.type, s[it.pData])
    OBVIOUS
  <2>6. k \in Nat /\ k >= 1
    BY <2>5 DEF ValueBytes
  <2>7. Second(s, d, n) = ValItem(s[it.pData], k)
    BY <1>2, <1>7, <2>5 DEF Second, ValueOf
  <2> QED BY <1>2, <1>3, <1>4, <1>5, <1>7, <2>1, <2>4, <2>6, <2>7
<1> QED BY <1>6, <1>7

\* A value that is not 0 is written, if its message is there.
LEMMA ValueCarried ==
    ASSUME NEW s, NEW d, NEW n, NEW a, NEW size, IsLeaf(d, n, a, size),
           Here(s, d), s[a] # 0
    PROVE  Carried(s, d, n)
<1>1. /\ d \in Messages /\ n \in DOMAIN FieldList[d] /\ FieldList[d][n].ltype # "MESSAGE"
      /\ a = Place[d] + FieldList[d][n].offset /\ size = FieldList[d][n].size
  BY DEF IsLeaf
<1>2. PICK f : f = FieldList[d][n]
  OBVIOUS
<1>3. PICK it : it = It(d, n)
  OBVIOUS
<1>4. /\ it.type = Type(f) /\ IsField(f) /\ it.pData = a /\ it.data_size = size
      /\ it.pSize = IF f.delta = 0 THEN NoAddress ELSE Place[d] + f.offset - f.delta
  BY <1>1, <1>2, <1>3, IterMembers, PlaceInStruct DEF It
<1>5. f.htype # "ONEOF" /\ f.delta = 0
  <2>1. f.sub = NULL
    BY <1>1, <1>2, <1>4 DEF IsField
  <2> QED BY <1>1, <1>2, <2>1, FieldTable DEF NULL
<1>6. PB_HTYPE(it.type) # PB_HTYPE_ONEOF /\ it.pSize = NoAddress
  BY <1>4, <1>5, HTypeOf
<1>7. a \in Cells /\ a \in Span(a, size)
  <2>1. a \in Cells /\ a \in Nat /\ size \in Nat \ {0}
    BY LeafTable, CellsAre
  <2> QED BY <2>1, InSpan
<1>8. ~HasDefault(s, it)
  BY <1>4, <1>7 DEF HasDefault
<1>9. Present(s, it)
  BY <1>6, <1>8 DEF Present
<1> QED BY <1>1, <1>3, <1>9 DEF Carried

\* a is an item of b, and begins at p.
Lies(b, p, a) == \E j \in 1..Len(b) : Holds(b, j - 1) = p /\ b[j] = a

\* Every item of s that begins before dest has been written to b.
Placed(s, b, D) ==
    \A d, n : Carried(s, d, n) =>
        /\ Pos(s, d, n) < D => Lies(b, Pos(s, d, n), TagOf(It(d, n)))
        /\ Pos(s, d, n) + 1 < D => Lies(b, Pos(s, d, n) + 1, Second(s, d, n))

\* A further item is where the bytes had got to, and the others stay where they are.
LEMMA LiesAfter ==
    ASSUME NEW F, NEW b \in Seq(F), NEW c
    PROVE  /\ \A p, a : Lies(b, p, a) => Lies(Append(b, c), p, a)
           /\ Lies(Append(b, c), Holds(b, Len(b)), c)
           /\ \E G : Append(b, c) \in Seq(G)
           /\ Len(Append(b, c)) = Len(b) + 1
           /\ \A i \in 1..Len(b) : Append(b, c)[i] = b[i]
           /\ Append(b, c)[Len(b) + 1] = c
<1> DEFINE t == Append(b, c)
           G == F \cup {c}
<1>1. b \in Seq(G) /\ c \in G /\ Len(b) \in Nat
  BY SeqMonotonic, LenProperties
<1>2. /\ t \in Seq(G) /\ Len(t) = Len(b) + 1
      /\ \A i \in 1..Len(b) : t[i] = b[i]
      /\ t[Len(b) + 1] = c
  BY <1>1, AppendProperties
<1> HIDE DEF t, G
<1>3. ASSUME NEW m \in 0..Len(b) PROVE Holds(t, m) = Holds(b, m)
  <2>1. Alike([i \in 1..m |-> t[i].n], [i \in 1..m |-> b[i].n], m)
    BY <1>1, <1>2 DEF Alike
  <2>2. m \in Nat
    BY <1>1
  <2> QED BY <2>1, <2>2, TotalSame DEF Holds
<1>4. ASSUME NEW p, NEW a, Lies(b, p, a) PROVE Lies(t, p, a)
  <2>1. PICK j \in 1..Len(b) : Holds(b, j - 1) = p /\ b[j] = a
    BY <1>4 DEF Lies
  <2>2. j - 1 \in 0..Len(b) /\ j \in 1..Len(t)
    BY <1>1, <1>2
  <2> QED BY <1>2, <1>3, <2>1, <2>2 DEF Lies
<1>5. Lies(t, Holds(b, Len(b)), c)
  <2>1. PICK l \in Nat : l = Len(b)
    BY <1>1
  <2>2. l + 1 \in 1..Len(t) /\ (l + 1) - 1 = l /\ l \in 0..Len(b)
    BY <1>2, <2>1
  <2>3. Holds(t, (l + 1) - 1) = Holds(b, Len(b)) /\ t[l + 1] = c
    BY <1>2, <1>3, <2>1, <2>2
  <2> QED BY <2>2, <2>3 DEF Lies
<1> QED BY <1>2, <1>4, <1>5 DEF t

\* One more item, where nothing else is.
LEMMA PlacedMore ==
    ASSUME NEW s, NEW F, NEW b \in Seq(F), NEW D \in Nat, D = Holds(b, Len(b)), Placed(s, b, D),
           NEW c, c.n \in Nat,
           \A d, n : Carried(s, d, n) =>
              /\ \/ Pos(s, d, n) < D \/ D + c.n <= Pos(s, d, n)
                 \/ Pos(s, d, n) = D /\ TagOf(It(d, n)) = c
              /\ \/ Pos(s, d, n) + 1 < D \/ D + c.n <= Pos(s, d, n) + 1
                 \/ Pos(s, d, n) + 1 = D /\ Second(s, d, n) = c
    PROVE  Placed(s, Append(b, c), D + c.n)
<1> SUFFICES ASSUME NEW d, NEW n, Carried(s, d, n)
             PROVE  /\ Pos(s, d, n) < D + c.n =>
                         Lies(Append(b, c), Pos(s, d, n), TagOf(It(d, n)))
                    /\ Pos(s, d, n) + 1 < D + c.n =>
                         Lies(Append(b, c), Pos(s, d, n) + 1, Second(s, d, n))
  BY DEF Placed
<1>1. PICK p \in Nat : p = Pos(s, d, n)
  BY PosWithin
<1>2. /\ \A q, a : Lies(b, q, a) => Lies(Append(b, c), q, a)
      /\ Lies(Append(b, c), D, c)
  BY LiesAfter
<1>3. /\ p < D => Lies(b, p, TagOf(It(d, n)))
      /\ p + 1 < D => Lies(b, p + 1, Second(s, d, n))
  BY <1>1 DEF Placed
<1>4. PICK k \in Nat : k = c.n
  OBVIOUS
<1>5. /\ p < D \/ D + k <= p \/ (p = D /\ TagOf(It(d, n)) = c)
      /\ p + 1 < D \/ D + k <= p + 1 \/ (p + 1 = D /\ Second(s, d, n) = c)
  BY <1>1, <1>4
<1>6. p < D + k => Lies(Append(b, c), p, TagOf(It(d, n)))
  BY <1>2, <1>3, <1>5
<1>7. p + 1 < D + k => Lies(Append(b, c), p + 1, Second(s, d, n))
  BY <1>2, <1>3, <1>5
<1> QED BY <1>1, <1>4, <1>6, <1>7

\* The tag of a field, where it belongs.
LEMMA PlacedTag ==
    ASSUME NEW s, NEW F, NEW b \in Seq(F), NEW D \in Nat, D = Holds(b, Len(b)), Placed(s, b, D),
           NEW d, NEW n, Carried(s, d, n), D = Pos(s, d, n), NEW c, c = TagOf(It(d, n))
    PROVE  Placed(s, Append(b, c), D + 1)
<1>1. c.n = 1 /\ 2 <= Extent(s, d, n) /\ Extent(s, d, n) \in Nat
  BY CarriedTakes
<1>2. ASSUME NEW e, NEW m, Carried(s, e, m)
      PROVE  /\ \/ Pos(s, e, m) < D \/ D + 1 <= Pos(s, e, m)
                \/ Pos(s, e, m) = D /\ TagOf(It(e, m)) = c
             /\ Pos(s, e, m) + 1 < D \/ D + 1 <= Pos(s, e, m) + 1
  <2>1. /\ Pos(s, e, m) \in Nat /\ Extent(s, e, m) \in Nat /\ 2 <= Extent(s, e, m)
    BY <1>2, PosWithin, CarriedTakes
  <2>2. CASE d = e /\ n = m
    BY <2>1, <2>2
  <2>3. CASE Apart(s, d, n, e, m)
    BY <1>1, <2>1, <2>3 DEF Apart
  <2> QED BY <1>2, <2>2, <2>3, FieldsApart
<1>3. Placed(s, Append(b, c), D + c.n)
  <2>1. \A e, m : Carried(s, e, m) =>
           /\ \/ Pos(s, e, m) < D \/ D + c.n <= Pos(s, e, m)
              \/ Pos(s, e, m) = D /\ TagOf(It(e, m)) = c
           /\ \/ Pos(s, e, m) + 1 < D \/ D + c.n <= Pos(s, e, m) + 1
              \/ Pos(s, e, m) + 1 = D /\ Second(s, e, m) = c
    BY <1>1, <1>2
  <2>2. c.n \in Nat
    BY <1>1
  <2> QED BY <2>1, <2>2, PlacedMore
<1> QED BY <1>1, <1>3

\* The value of a field, or the length of the submessage it holds, after its tag.
LEMMA PlacedSecond ==
    ASSUME NEW s, NEW F, NEW b \in Seq(F), NEW D \in Nat, D = Holds(b, Len(b)), Placed(s, b, D),
           NEW d, NEW n, Carried(s, d, n), D = Pos(s, d, n) + 1, NEW c, c = Second(s, d, n)
    PROVE  Placed(s, Append(b, c), D + c.n)
<1>1. c.n \in Nat /\ Extent(s, d, n) = 1 + c.n /\ Pos(s, d, n) \in Nat /\ 2 <= Extent(s, d, n)
  BY CarriedTakes, PosWithin
<1>2. ASSUME NEW e, NEW m, Carried(s, e, m)
      PROVE  /\ Pos(s, e, m) < D \/ D + c.n <= Pos(s, e, m)
             /\ \/ Pos(s, e, m) + 1 < D \/ D + c.n <= Pos(s, e, m) + 1
                \/ Pos(s, e, m) + 1 = D /\ Second(s, e, m) = c
  <2>1. /\ Pos(s, e, m) \in Nat /\ Extent(s, e, m) \in Nat /\ 2 <= Extent(s, e, m)
    BY <1>2, PosWithin, CarriedTakes
  <2>2. CASE d = e /\ n = m
    BY <2>1, <2>2
  <2>3. CASE Apart(s, d, n, e, m)
    BY <1>1, <2>1, <2>3 DEF Apart
  <2> QED BY <1>2, <2>2, <2>3, FieldsApart
<1> QED BY <1>1, <1>2, PlacedMore

(***************************************************************************)
(* The inductive invariant of what has been written: a stream begins where *)
(* its message does, so that each item is where it belongs.                *)
(***************************************************************************)

\* The stream of f begins where the bytes of its message do.
StartsRight(s, f) == f.start = StartOf(s, f.iter.descriptor) /\ Here(s, f.iter.descriptor)

\* Every item takes a byte at least, so no two are at one place.
WrittenItems(b) == \A j \in 1..Len(b) : IsItem(b[j]) /\ b[j].n >= 1

\* So it is for all the streams that are open.
AllStart(s, fs) == \A i \in 1..Len(fs) : StartsRight(s, fs[i])

\* Of the fields before dest, each has its two items at its place.
OutInv ==
    /\ enc = "field" => AllStart(src, frames)
    /\ Placed(src, out, dest)
    /\ WrittenItems(out)
    /\ dest <= SizeOf(src, "MQTTMessage")

\* The inductive invariant of the encoder: its streams are nested, its iterators are at
\* fields, its sizes are those of the sizing pass, its items are where they belong.
EncodeInv == EncInv /\ EncTypeInv /\ SizeInv /\ OutInv

\* The innermost stream is at the place of its field.
LEMMA InnermostPos ==
    ASSUME EncodeInv, Encoding
    PROVE  \E d \in Messages : \E n \in DOMAIN FieldList[d] :
             /\ Innermost.iter = It(d, n) /\ Innermost.iter.descriptor = d
             /\ Here(src, d)
             /\ dest = Pos(src, d, n) /\ Innermost.start = StartOf(src, d)
             /\ Innermost.bytes_written + Bytes(src, d, n) = UpTo(src, d, n)
             /\ Bytes(src, d, n) \in Nat
<1>1. EncInv /\ EncTypeInv /\ SizeInv /\ OutInv /\ enc = "field" /\ ~Innermost.done
  BY DEF EncodeInv, Encoding
<1>2. PICK d \in Messages : \E n \in DOMAIN FieldList[d] :
             /\ Innermost.iter = IterAt(d, Place[d], n)
             /\ Innermost.iter.descriptor = d
             /\ Innermost.bytes_written + Bytes(src, d, n) = UpTo(src, d, n)
             /\ Bytes(src, d, n) \in Nat
  BY <1>1, InnermostField
<1>3. PICK n \in DOMAIN FieldList[d] :
             /\ Innermost.iter = IterAt(d, Place[d], n)
             /\ Innermost.iter.descriptor = d
             /\ Innermost.bytes_written + Bytes(src, d, n) = UpTo(src, d, n)
             /\ Bytes(src, d, n) \in Nat
  BY <1>2
<1>4. /\ Len(frames) \in Nat /\ Len(frames) >= 1 /\ Innermost = frames[Len(frames)]
      /\ dest = Innermost.start + Innermost.bytes_written
      /\ Innermost.start \in Nat /\ Innermost.bytes_written \in Nat
  BY <1>1, InnermostFrame DEF IsOStream
<1>5. Innermost.start = StartOf(src, d) /\ Here(src, d)
  <2>1. Len(frames) \in 1..Len(frames)
    BY <1>4
  <2>2. StartsRight(src, Innermost)
    BY <1>1, <1>4, <2>1 DEF OutInv, AllStart
  <2> QED BY <1>3, <2>2 DEF StartsRight
<1>6. UpTo(src, d, n - 1) = Innermost.bytes_written
  <2>1. PICK count \in 2..6 : Len(FieldList[d]) = count /\ n \in 1..count
    BY CountOf
  <2>2. n - 1 \in 0..count
    BY <2>1
  <2>3. UpTo(src, d, n) = UpTo(src, d, n - 1) + Bytes(src, d, n) /\ UpTo(src, d, n - 1) \in Nat
    BY <2>1, <2>2, UpToGrows
  <2> QED BY <1>3, <1>4, <2>3
<1>7. dest = Pos(src, d, n)
  BY <1>4, <1>5, <1>6 DEF Pos
<1> QED BY <1>3, <1>5, <1>7 DEF It

\* A written item is one that can be read.
LEMMA ItemsReadable ==
    ASSUME NEW s \in [Cells -> Nat], NEW d, NEW n, Carried(s, d, n)
    PROVE  /\ IsItem(TagOf(It(d, n))) /\ TagOf(It(d, n)).n = 1
           /\ IsItem(Second(s, d, n)) /\ Second(s, d, n).n >= 1
<1>1. PICK it : it = It(d, n)
  OBVIOUS
<1>2. /\ TagOf(it) = TagItem(n, WireType[PB_LTYPE(it.type)], 1)
      /\ WireType[PB_LTYPE(it.type)] \in 0..5 /\ n \in Nat
  BY <1>1, ItemsOf
<1>3. IsItem(TagOf(it)) /\ TagOf(it).n = 1
  BY <1>2 DEF IsItem, TagItem
<1>4. CASE FieldList[d][n].ltype = "MESSAGE"
  <2>1. PICK size \in Nat : Second(s, d, n) = LenItem(size, 1)
    BY <1>4, ItemsOf
  <2>2. IsItem(Second(s, d, n)) /\ Second(s, d, n).n >= 1
    BY <2>1 DEF IsItem, LenItem
  <2> QED BY <1>1, <1>3, <2>2
<1>5. CASE FieldList[d][n].ltype # "MESSAGE"
  <2>1. PICK v \in Nat, k \in Nat : k >= 1 /\ Second(s, d, n) = ValItem(v, k)
    BY <1>1, <1>5, ItemsOf
  <2>2. IsItem(Second(s, d, n)) /\ Second(s, d, n).n >= 1
    BY <2>1 DEF IsItem, ValItem
  <2> QED BY <1>1, <1>3, <2>2
<1> QED BY <1>4, <1>5

\* Two items written at once are written one after the other.
LEMMA AppendTwice ==
    ASSUME NEW F, NEW b \in Seq(F), NEW a, NEW c
    PROVE  b \o <<a, c>> = Append(Append(b, a), c)
<1> DEFINE G == F \cup {a, c}
           t == Append(b, a)
           u == Append(t, c)
           w == b \o <<a, c>>
<1>1. b \in Seq(G) /\ a \in G /\ c \in G /\ Len(b) \in Nat
  BY SeqMonotonic, LenProperties
<1>2. /\ t \in Seq(G) /\ Len(t) = Len(b) + 1
      /\ \A i \in 1..Len(b) : t[i] = b[i]
      /\ t[Len(b) + 1] = a
  BY <1>1, AppendProperties
<1>3. <<a, c>> \in Seq(G) /\ Len(<<a, c>>) = 2 /\ <<a, c>>[1] = a /\ <<a, c>>[2] = c
  BY <1>1
<1>4. /\ w \in Seq(G) /\ Len(w) = Len(b) + Len(<<a, c>>)
      /\ \A i \in 1..(Len(b) + Len(<<a, c>>)) :
           w[i] = IF i <= Len(b) THEN b[i] ELSE <<a, c>>[i - Len(b)]
  BY <1>1, <1>3, ConcatProperties
<1> HIDE DEF t, G, w
<1>5. /\ u \in Seq(G) /\ Len(u) = Len(t) + 1
      /\ \A i \in 1..Len(t) : u[i] = t[i]
      /\ u[Len(t) + 1] = c
  BY <1>1, <1>2, AppendProperties
<1> HIDE DEF u
<1>6. Len(u) = Len(w) /\ Len(w) = Len(b) + 2
  BY <1>1, <1>2, <1>3, <1>4, <1>5
<1>7. ASSUME NEW i \in 1..Len(w) PROVE w[i] = u[i]
  <2>1. i \in 1..Len(b) \/ i = Len(b) + 1 \/ i = Len(b) + 2
    BY <1>1, <1>6
  <2>2. CASE i \in 1..Len(b)
    BY <1>1, <1>2, <1>3, <1>4, <1>5, <2>2
  <2>3. CASE i = Len(b) + 1
    <3>1. ~(i <= Len(b)) /\ i - Len(b) = 1 /\ i \in 1..Len(t) /\ i = Len(t)
          /\ i \in 1..(Len(b) + 2)
      BY <1>1, <1>2, <2>3
    <3> QED BY <1>2, <1>3, <1>4, <1>5, <2>3, <3>1
  <2>4. CASE i = Len(b) + 2
    <3>1. ~(i <= Len(b)) /\ i - Len(b) = 2 /\ i = Len(t) + 1 /\ i \in 1..(Len(b) + 2)
      BY <1>1, <1>2, <2>4
    <3> QED BY <1>3, <1>4, <1>5, <3>1
  <2> QED BY <2>1, <2>2, <2>3, <2>4
<1>8. w = u
  BY <1>4, <1>5, <1>6, <1>7, SeqEqual
<1> QED BY <1>8 DEF w, u, t

\* One more item of a byte at least.
LEMMA WrittenMore ==
    ASSUME NEW F, NEW b \in Seq(F), WrittenItems(b), NEW c, IsItem(c), c.n >= 1
    PROVE  WrittenItems(Append(b, c))
<1>1. /\ Len(Append(b, c)) = Len(b) + 1 /\ Len(b) \in Nat
      /\ \A i \in 1..Len(b) : Append(b, c)[i] = b[i]
      /\ Append(b, c)[Len(b) + 1] = c
  BY LiesAfter, LenProperties
<1>2. \A i \in 1..(Len(b) + 1) : i \in 1..Len(b) \/ i = Len(b) + 1
  BY <1>1
<1> QED BY <1>1, <1>2 DEF WrittenItems

\* A field that is written: none of it, its tag only, or all that goes before a
\* submessage or makes a value.
LEMMA FieldWritten ==
    ASSUME EncodeInv, UNCHANGED src,
           NEW d, NEW n, Carried(src, d, n), dest = Pos(src, d, n),
           NEW a, a = TagOf(It(d, n)), NEW b, b = Second(src, d, n),
           NEW ACTION Then, WriteBoth(a, b, Then)
    PROVE  /\ Placed(src, out, dest)'
           /\ WrittenItems(out)'
           /\ (dest <= SizeOf(src, "MQTTMessage"))'
<1>1. PICK F : out \in Seq(F)
  BY DEF EncodeInv, EncTypeInv
<1>2. /\ dest \in Nat /\ dest = Holds(out, Len(out)) /\ src \in [Cells -> Nat]
      /\ Placed(src, out, dest) /\ WrittenItems(out) /\ dest <= SizeOf(src, "MQTTMessage")
  BY DEF EncodeInv, EncInv, EncTypeInv, OutInv
<1>3. \/ UNCHANGED <<out, dest>>
      \/ out' = Append(out, a) /\ dest' = dest + a.n
      \/ out' = out \o <<a, b>> /\ dest' = dest + a.n + b.n
  BY DEF WriteBoth
<1>4. IsItem(a) /\ a.n = 1 /\ IsItem(b) /\ b.n >= 1 /\ b.n \in Nat
  BY <1>2, ItemsReadable DEF IsItem
<1>5. (dest + 1) + b.n <= SizeOf(src, "MQTTMessage") /\ SizeOf(src, "MQTTMessage") \in Nat
  <2>1. /\ Pos(src, d, n) + Extent(src, d, n) <= StartOf(src, d) + SizeOf(src, d)
        /\ StartOf(src, d) \in Nat /\ SizeOf(src, d) \in Nat
        /\ Extent(src, d, n) = 1 + b.n
        /\ StartOf(src, d) + SizeOf(src, d) <= SizeOf(src, "MQTTMessage")
    BY PosWithin, PosInMessage, CarriedTakes
  <2>2. SizeOf(src, "MQTTMessage") \in 0..73
    BY MQTTMessageTakes DEF Takes
  <2>3. PICK total \in Nat : total = SizeOf(src, "MQTTMessage")
    BY <2>2
  <2>4. PICK start \in Nat, size \in Nat, pos \in Nat, k \in Nat :
          start = StartOf(src, d) /\ size = SizeOf(src, d) /\ pos = Pos(src, d, n) /\ k = b.n
    BY <1>2, <1>4, <2>1
  <2>5. pos + (1 + k) <= start + size /\ start + size <= total
    BY <2>1, <2>3, <2>4, Zenon
  <2>6. (pos + 1) + k <= total
    BY <2>5
  <2> QED BY <2>3, <2>4, <2>6, Zenon
<1>6. Placed(src, Append(out, a), dest + 1)
  BY <1>1, <1>2, PlacedTag
<1>7. WrittenItems(Append(out, a))
  BY <1>1, <1>2, <1>4, WrittenMore
<1>8. CASE UNCHANGED <<out, dest>>
  BY <1>2, <1>8
<1>9. CASE out' = Append(out, a) /\ dest' = dest + a.n
  BY <1>2, <1>4, <1>5, <1>6, <1>7, <1>9
<1>10. CASE out' = out \o <<a, b>> /\ dest' = dest + a.n + b.n
  <2>1. PICK t : t = Append(out, a)
    OBVIOUS
  <2>2. PICK D \in Nat : D = dest + 1
    BY <1>2
  <2>3. PICK G : t \in Seq(G)
    BY <1>1, <2>1, OneItem
  <2>4. Holds(t, Len(t)) = D
    BY <1>1, <1>2, <1>4, <2>1, <2>2, OneItem
  <2>5. Placed(src, t, D) /\ WrittenItems(t)
    BY <1>6, <1>7, <2>1, <2>2
  <2>6. Placed(src, Append(t, b), D + b.n)
    BY <2>2, <2>3, <2>4, <2>5, PlacedSecond
  <2>7. WrittenItems(Append(t, b))
    BY <1>4, <2>3, <2>5, WrittenMore
  <2>8. out' = Append(t, b)
    BY <1>1, <1>10, <2>1, AppendTwice
  <2>9. dest' = D + b.n
    BY <1>4, <1>10, <2>2
  <2> QED BY <1>5, <2>2, <2>6, <2>7, <2>8, <2>9
<1> QED BY <1>3, <1>8, <1>9, <1>10

\* The iterator goes on within its message.
LEMMA NextStarts ==
    ASSUME NEW s, NEW f, IsOStream(f), NEW d \in Messages, NEW n \in DOMAIN FieldList[d],
           f.iter = It(d, n), StartsRight(s, f)
    PROVE  StartsRight(s, NextField(f))
<1>1. PICK count \in 2..6 : Len(FieldList[d]) = count /\ DOMAIN FieldList[d] = 1..count
  BY CountOf
<1>2. PICK k \in 1..count : k = n
  BY <1>1
<1>3. PICK m \in 1..count : m = IF k = count THEN 1 ELSE k + 1
  OBVIOUS
<1>4. pb_field_iter_next(It(d, n)) = It(d, m)
  <2>1. Len(FieldList[d]) = count
    BY <1>1
  <2>2. GoesOn(d, count, k)
    BY <2>1, IterNext
  <2> QED BY <1>2, <1>3, <2>2, Zenon DEF GoesOn, It
<1>5. NextField(f).iter = It(d, m) /\ NextField(f).start = f.start
  BY <1>4, NextKeeps, NextFrame, Zenon
<1>6. m \in DOMAIN FieldList[d]
  BY <1>1
<1>7. PICK it, jt : it = It(d, n) /\ jt = It(d, m)
  OBVIOUS
<1>8. it.descriptor = d /\ jt.descriptor = d
  BY <1>6, <1>7, IterMembers, PlaceInStruct DEF It
<1> QED BY <1>5, <1>7, <1>8, Zenon DEF StartsRight

\* Streams begin where they should if the innermost one is replaced by one that does,
LEMMA StartTopped ==
    ASSUME NEW s, NEW fs, Nested(fs), AllStart(s, fs), NEW gs, NEW f, Topped(fs, gs, f),
           StartsRight(s, f)
    PROVE  AllStart(s, gs)
<1> SUFFICES ASSUME NEW i \in 1..Len(gs) PROVE StartsRight(s, gs[i])
  BY DEF AllStart
<1>1. Len(fs) \in Nat
  BY LenProperties DEF Nested
<1>2. CASE i = Len(fs)
  BY <1>2 DEF Topped
<1>3. CASE i # Len(fs)
  <2>1. i \in 1..(Len(fs) - 1) /\ i \in 1..Len(fs)
    BY <1>1, <1>3 DEF Topped
  <2> QED BY <2>1 DEF AllStart, Topped
<1> QED BY <1>2, <1>3

\* or if one that does is put on top,
LEMMA StartPushed ==
    ASSUME NEW s, NEW fs, Nested(fs), AllStart(s, fs), NEW gs, NEW f, NEW sub,
           Pushed(fs, gs, f, sub), StartsRight(s, f), StartsRight(s, sub)
    PROVE  AllStart(s, gs)
<1> SUFFICES ASSUME NEW i \in 1..Len(gs) PROVE StartsRight(s, gs[i])
  BY DEF AllStart
<1>1. Len(fs) \in Nat
  BY LenProperties DEF Nested
<1>2. CASE i = Len(fs)
  BY <1>2 DEF Pushed
<1>3. CASE i = Len(fs) + 1
  BY <1>3 DEF Pushed
<1>4. CASE i # Len(fs) /\ i # Len(fs) + 1
  <2>1. i \in 1..(Len(fs) - 1) /\ i \in 1..Len(fs)
    BY <1>1, <1>4 DEF Pushed
  <2> QED BY <2>1 DEF AllStart, Pushed
<1> QED BY <1>2, <1>3, <1>4

\* or if the innermost one is taken away.
LEMMA StartPopped ==
    ASSUME NEW s, NEW fs, Nested(fs), Len(fs) > 1, AllStart(s, fs), NEW gs, NEW f,
           Popped(fs, gs, f), StartsRight(s, f)
    PROVE  AllStart(s, gs)
<1> SUFFICES ASSUME NEW i \in 1..Len(gs) PROVE StartsRight(s, gs[i])
  BY DEF AllStart
<1>1. Len(fs) \in Nat
  BY LenProperties DEF Nested
<1>2. CASE i = Len(fs) - 1
  BY <1>2 DEF Popped
<1>3. CASE i # Len(fs) - 1
  <2>1. i \in 1..(Len(fs) - 2) /\ i \in 1..Len(fs)
    BY <1>1, <1>3 DEF Popped
  <2> QED BY <2>1 DEF AllStart, Popped
<1> QED BY <1>2, <1>3

\* A field that is not there leaves no bytes.
LEMMA SkipAbsentWrites == EncodeInv /\ SkipAbsent => OutInv'
<1> SUFFICES ASSUME EncodeInv, SkipAbsent PROVE OutInv'
  OBVIOUS
<1>1. /\ Encoding /\ enc = "field" /\ frames' = Append(Outer, NextField(Innermost))
      /\ UNCHANGED <<src, bufsize, out, dest, enc>>
  BY DEF SkipAbsent, Encoding
<1>2. EncInv /\ OutInv
  BY DEF EncodeInv
<1>3. PICK d \in Messages : \E n \in DOMAIN FieldList[d] : Innermost.iter = It(d, n)
  BY <1>1, InnermostPos
<1>4. PICK n \in DOMAIN FieldList[d] : Innermost.iter = It(d, n)
  BY <1>3
<1>5. StartsRight(src, Innermost)
  <2>1. Len(frames) \in 1..Len(frames)
    BY <1>2, InnermostFrame
  <2> QED BY <1>1, <1>2, <2>1 DEF OutInv, AllStart, Innermost
<1>6. StartsRight(src, NextField(Innermost))
  BY <1>2, <1>4, <1>5, InnermostFrame, NextStarts
<1>7. Topped(frames, frames', NextField(Innermost))
  BY <1>1, <1>2, InnermostFrame, ToppedIs DEF Outer
<1>8. AllStart(src, frames')
  BY <1>1, <1>2, <1>6, <1>7, InnermostFrame, StartTopped DEF OutInv
<1> QED BY <1>1, <1>2, <1>8 DEF OutInv

\* Then is what there is to see to of a field that is written as a whole.
LEMMA FieldThen ==
    ASSUME EncodeInv, UNCHANGED src,
           NEW d, NEW n, Carried(src, d, n), dest = Pos(src, d, n),
           NEW a, a = TagOf(It(d, n)), NEW b, b = Second(src, d, n),
           NEW ACTION Then, WriteBoth(a, b, Then),
           Fits(Innermost, a.n + b.n) /\ Then => (enc' = "field" => AllStart(src, frames'))
    PROVE  OutInv'
<1>1. /\ Placed(src, out, dest)' /\ WrittenItems(out)'
      /\ (dest <= SizeOf(src, "MQTTMessage"))'
  BY FieldWritten
<1>2. EncInv /\ a.n \in Nat /\ b.n \in Nat
  BY CarriedTakes DEF EncodeInv
<1>3. enc' = "field" => AllStart(src, frames')
  <2>1. CASE Fits(Innermost, a.n + b.n)
    <3>1. Fits(Innermost, a.n)
      BY <1>2, <2>1, InnermostFrame DEF Fits, IsOStream
    <3> QED BY <2>1, <3>1 DEF WriteBoth
  <2>2. CASE ~Fits(Innermost, a.n + b.n)
    BY <2>2 DEF WriteBoth
  <2> QED BY <2>1, <2>2
<1> QED BY <1>1, <1>3 DEF OutInv

\* A value is written at the place of its field, after its tag.
LEMMA WriteValueWrites == EncodeInv /\ WriteValue => OutInv'
<1> SUFFICES ASSUME EncodeInv, WriteValue PROVE OutInv'
  OBVIOUS
<1> DEFINE tag == TagOf(Innermost.iter)
           val == ValueOf(src, Innermost.iter)
           k == tag.n + val.n
           Then == frames' = Append(Outer, NextField(Wrote(Innermost, k))) /\ UNCHANGED enc
<1>1. /\ WriteBoth(tag, val, Then) /\ UNCHANGED <<src, bufsize>>
      /\ Encoding /\ enc = "field" /\ Present(src, Innermost.iter)
      /\ ~PB_LTYPE_IS_SUBMSG(Innermost.iter.type)
  BY DEF WriteValue, Encoding
<1>2. EncInv /\ OutInv
  BY DEF EncodeInv
<1>3. PICK d \in Messages : \E n \in DOMAIN FieldList[d] :
             /\ Innermost.iter = It(d, n) /\ Innermost.iter.descriptor = d
             /\ Here(src, d) /\ dest = Pos(src, d, n)
  BY <1>1, InnermostPos
<1>4. PICK n \in DOMAIN FieldList[d] :
             /\ Innermost.iter = It(d, n) /\ Innermost.iter.descriptor = d
             /\ Here(src, d) /\ dest = Pos(src, d, n)
  BY <1>3
<1>5. Carried(src, d, n)
  BY <1>1, <1>4, Zenon DEF Carried
<1>6. FieldList[d][n].ltype # "MESSAGE"
  <2>1. PICK it : it = It(d, n)
    OBVIOUS
  <2>2. it.type = Type(FieldList[d][n]) /\ IsField(FieldList[d][n])
    BY <2>1, IterMembers, PlaceInStruct DEF It
  <2>3. ~PB_LTYPE_IS_SUBMSG(it.type)
    BY <1>1, <1>4, <2>1, Zenon
  <2> QED BY <2>2, <2>3, TypeParts
<1>7. tag = TagOf(It(d, n)) /\ val = Second(src, d, n)
  BY <1>4, <1>6, Zenon DEF Second
<1>8. StartsRight(src, Innermost)
  <2>1. Len(frames) \in 1..Len(frames)
    BY <1>2, InnermostFrame
  <2> QED BY <1>1, <1>2, <2>1 DEF OutInv, AllStart, Innermost
<1>9. tag.n \in Nat /\ val.n \in Nat /\ k \in Nat
  BY ItemSizes
<1> HIDE DEF k
<1>10. ASSUME Fits(Innermost, k), Then PROVE AllStart(src, frames')
  <2>1. PICK w : w = Wrote(Innermost, k)
    OBVIOUS
  <2>2. IsOStream(w) /\ w.iter = Innermost.iter /\ w.start = Innermost.start
    BY <1>2, <1>9, <1>10, <2>1, InnermostFrame, WroteFrame, WroteIs
  <2>3. w.iter = It(d, n) /\ StartsRight(src, w)
    BY <1>4, <1>8, <2>2, Zenon DEF StartsRight
  <2>4. StartsRight(src, NextField(w))
    BY <2>2, <2>3, NextStarts
  <2>5. frames' = Append(Outer, NextField(w))
    BY <1>10, <2>1, Zenon
  <2>6. Topped(frames, frames', NextField(w))
    BY <1>2, <2>5, InnermostFrame, ToppedIs DEF Outer
  <2> QED BY <1>1, <1>2, <2>4, <2>6, InnermostFrame, StartTopped DEF OutInv
<1> HIDE DEF tag, val, Then
<1>11. Fits(Innermost, tag.n + val.n) /\ Then => (enc' = "field" => AllStart(src, frames'))
  BY <1>10 DEF k
<1> QED BY <1>1, <1>4, <1>5, <1>7, <1>11, FieldThen

\* A submessage begins after its tag and its size.
LEMMA BeginSubmessageWrites == EncodeInv /\ BeginSubmessage => OutInv'
<1> SUFFICES ASSUME EncodeInv, BeginSubmessage PROVE OutInv'
  OBVIOUS
<1> DEFINE it == Innermost.iter
           tag == TagOf(it)
           size == LenOf(src, it)
           k == tag.n + size.n
           fr == Wrote(Innermost, k)
           iter == pb_field_iter_begin(it.submsg_desc, it.pData)
           sub == OStream(iter, dest + tag.n + size.n, size.size)
           Then == IF SubmessageFits(fr, size.size)
                   THEN frames' = Outer \o <<fr, sub>> /\ UNCHANGED enc
                   ELSE frames' = Append(Outer, fr) /\ enc' = "failing"
<1>1. /\ WriteBoth(tag, size, Then) /\ UNCHANGED <<src, bufsize>>
      /\ Encoding /\ enc = "field" /\ Present(src, it)
      /\ PB_LTYPE_IS_SUBMSG(it.type)
  BY DEF BeginSubmessage, Encoding
<1>2. EncInv /\ OutInv
  BY DEF EncodeInv
<1>3. PICK d \in Messages : \E n \in DOMAIN FieldList[d] :
             /\ it = It(d, n) /\ it.descriptor = d
             /\ Here(src, d) /\ dest = Pos(src, d, n)
  BY <1>1, InnermostPos
<1>4. PICK n \in DOMAIN FieldList[d] :
             /\ it = It(d, n) /\ it.descriptor = d
             /\ Here(src, d) /\ dest = Pos(src, d, n)
  BY <1>3
<1>5. Carried(src, d, n)
  BY <1>1, <1>4, Zenon DEF Carried
<1>6. PICK x : x = it
  OBVIOUS
<1>7. PICK e \in Messages :
             /\ e = FieldList[d][n].sub
             /\ pb_field_iter_begin(x.submsg_desc, x.pData) = It(e, 1)
  BY <1>1, <1>4, <1>6, BeginAt DEF It
<1>8. FieldList[d][n].ltype = "MESSAGE"
  <2>1. x.type = Type(FieldList[d][n]) /\ IsField(FieldList[d][n])
    BY <1>4, <1>6, IterMembers, PlaceInStruct DEF It
  <2>2. PB_LTYPE_IS_SUBMSG(x.type)
    BY <1>1, <1>6, Zenon
  <2> QED BY <2>1, <2>2, TypeParts
<1>9. tag = TagOf(It(d, n)) /\ size = Second(src, d, n)
  BY <1>4, <1>8, Zenon DEF Second
<1>10. tag.n = 1 /\ size.n = 1
  <2>1. TagOf(It(d, n)).n = 1 /\ Extent(src, d, n) = 1 + Second(src, d, n).n
        /\ Second(src, d, n).n \in Nat
    BY <1>5, CarriedTakes
  <2>2. Extent(src, d, n) = 2
    BY <1>8 DEF Extent
  <2>3. Second(src, d, n).n = 1
    BY <2>1, <2>2
  <2> QED BY <1>9, <2>1, <2>3, Zenon
<1>11. Here(src, e) /\ e # "MQTTMessage" /\ d = Holder[e][1] /\ n = Holder[e][2]
  <2>1. Here(src, e)
    BY <1>5, <1>7, <1>8, HereIfHeld DEF Carried
  <2>2. e # "MQTTMessage" /\ Holder[e] = <<d, n>>
    BY <1>7, <1>8, HeldBy
  <2> QED BY <2>1, <2>2
<1>12. StartOf(src, e) = Pos(src, d, n) + 2 /\ Pos(src, d, n) \in Nat
  BY <1>5, <1>11, BytesNested, PosWithin
<1>13. sub.start = StartOf(src, e) /\ sub.iter = It(e, 1)
  <2>1. dest + tag.n + size.n = Pos(src, d, n) + 2
    <3>1. PICK p \in Nat : p = Pos(src, d, n)
      BY <1>12
    <3>2. (p + 1) + 1 = p + 2
      OBVIOUS
    <3>3. dest = p
      BY <1>4, <3>1, Zenon
    <3> QED BY <1>10, <3>1, <3>2, <3>3, Zenon
  <2>2. iter = It(e, 1)
    BY <1>6, <1>7, Zenon
  <2>3. sub.start = dest + tag.n + size.n /\ sub.iter = iter
    <3> HIDE DEF iter, size, tag
    <3> QED BY DEF OStream
  <2> HIDE DEF sub
  <2> QED BY <1>12, <2>1, <2>2, <2>3, Zenon
<1> HIDE DEF sub
<1>14. StartsRight(src, sub)
  <2>1. PICK y : y = It(e, 1)
    OBVIOUS
  <2>2. 1 \in DOMAIN FieldList[e]
    BY CountOf
  <2>3. y.descriptor = e
    BY <2>1, <2>2, IterMembers, PlaceInStruct DEF It
  <2> QED BY <1>11, <1>13, <2>1, <2>3, Zenon DEF StartsRight
<1>15. StartsRight(src, Innermost)
  <2>1. Len(frames) \in 1..Len(frames)
    BY <1>2, InnermostFrame
  <2> QED BY <1>1, <1>2, <2>1 DEF OutInv, AllStart, Innermost
<1>16. k \in Nat
  BY ItemSizes
<1> HIDE DEF k
<1>17. ASSUME Fits(Innermost, k), Then, enc' = "field" PROVE AllStart(src, frames')
  <2>1. fr.iter = it /\ fr.start = Innermost.start
    BY <1>2, <1>16, <1>17, InnermostFrame, WroteFrame, WroteIs
  <2> HIDE DEF fr
  <2>2. frames' = Outer \o <<fr, sub>>
    BY <1>17
  <2>3. StartsRight(src, fr)
    BY <1>15, <2>1, Zenon DEF StartsRight
  <2>4. Pushed(frames, frames', fr, sub)
    BY <1>2, <2>2, InnermostFrame, PushedIs DEF Outer
  <2> QED BY <1>1, <1>2, <1>14, <2>3, <2>4, InnermostFrame, StartPushed DEF OutInv
<1> HIDE DEF tag, size, Then
<1>18. Fits(Innermost, tag.n + size.n) /\ Then => (enc' = "field" => AllStart(src, frames'))
  BY <1>17 DEF k
<1> QED BY <1>1, <1>4, <1>5, <1>9, <1>18, FieldThen

\* The end of a submessage is the end of its field, and writes nothing.
LEMMA EndSubmessageWrites == EncodeInv /\ EndSubmessage => OutInv'
<1> SUFFICES ASSUME EncodeInv, EndSubmessage PROVE OutInv'
  OBVIOUS
<1> DEFINE fr == Counted(Outer[Len(Outer)], Innermost)
           ok == enc = "field" /\ Innermost.bytes_written = Innermost.max_size
           f == IF ok THEN NextField(fr) ELSE fr
<1>1. /\ Len(frames) > 1 /\ UNCHANGED <<src, out, dest>>
      /\ enc' = IF ok THEN "field" ELSE "failing"
      /\ frames' = [Outer EXCEPT ![Len(Outer)] = f]
  BY DEF EndSubmessage
<1>2. EncInv /\ EncTypeInv /\ OutInv
  BY DEF EncodeInv
<1>3. ASSUME ok PROVE AllStart(src, frames')
  <2>1. PICK last : last = Outer[Len(Outer)]
    OBVIOUS
  <2>2. Popped(frames, [Outer EXCEPT ![Len(Outer)] = f], f) /\ last = frames[Len(frames) - 1]
    <3> HIDE DEF f
    <3> QED BY <1>1, <1>2, <2>1, InnermostFrame, PoppedIs DEF Outer
  <2>3. PICK l \in Nat : l = Len(frames) /\ l > 1
    BY <1>1, <1>2, InnermostFrame
  <2>4. l - 1 \in 1..l /\ l - 1 \in 1..(l - 1) /\ (l - 1) + 1 = l
    BY <2>3
  <2>5. IsOStream(last) /\ Within(last, Innermost)
    BY <1>2, <2>2, <2>3, <2>4, InnermostFrame DEF Nested
  <2>6. FrameAt(last, l - 1)
    BY <1>2, <2>2, <2>3, <2>4 DEF EncTypeInv, AtFields
  <2>7. StartsRight(src, last)
    BY <1>2, <1>3, <2>2, <2>3, <2>4 DEF OutInv, AllStart
  <2>8. PICK d \in Messages : \E n \in DOMAIN FieldList[d] : last.iter = It(d, n)
    BY <2>6 DEF FrameAt, It
  <2>9. PICK n \in DOMAIN FieldList[d] : last.iter = It(d, n)
    BY <2>8
  <2>10. PICK g : g = Wrote(last, Innermost.bytes_written)
    OBVIOUS
  <2>11. Innermost.bytes_written \in Nat /\ Fits(last, Innermost.bytes_written)
    BY <1>2, <1>3, <2>5, InnermostFrame DEF IsOStream, Within, Fits
  <2>12. IsOStream(g) /\ g.iter = last.iter /\ g.start = last.start
    BY <2>5, <2>10, <2>11, WroteFrame, WroteIs
  <2>13. StartsRight(src, g) /\ g.iter = It(d, n)
    BY <2>7, <2>9, <2>12, Zenon DEF StartsRight
  <2>14. StartsRight(src, NextField(g))
    BY <2>12, <2>13, NextStarts
  <2>15. f = NextField(g)
    BY <1>3, <2>1, <2>10, Zenon DEF Counted
  <2> HIDE DEF f, ok, fr
  <2>16. Popped(frames, frames', f) /\ StartsRight(src, f)
    BY <1>1, <2>2, <2>14, <2>15, Zenon
  <2>17. enc = "field"
    BY <1>3 DEF ok
  <2> QED BY <1>1, <1>2, <2>16, <2>17, InnermostFrame, StartPopped DEF OutInv
<1> QED BY <1>1, <1>2, <1>3 DEF OutInv

\* pb_encode returns with what it has written.
LEMMA EncodeReturnWrites == EncodeInv /\ EncodeReturn => OutInv'
BY DEF EncodeInv, EncodeReturn, OutInv

\* Nothing has been written yet.
LEMMA OutInvInit == EncodeInit => OutInv
<1> SUFFICES ASSUME EncodeInit PROVE OutInv
  OBVIOUS
<1> DEFINE iter == pb_field_iter_begin("MQTTMessage", 0)
           f == OStream(iter, 0, bufsize)
<1>1. enc = "field" /\ frames = <<f>> /\ out = <<>> /\ dest = 0
  BY DEF EncodeInit
<1>2. f.iter = iter /\ f.start = 0
  <2> HIDE DEF iter
  <2> QED BY DEF OStream
<1>3. "MQTTMessage" \in Messages /\ Place["MQTTMessage"] = 0
  BY MessageNames DEF Place
<1>4. iter = It("MQTTMessage", 1)
  <2>1. 0 \in Int
    OBVIOUS
  <2> QED BY <1>3, <2>1, BeginTrue DEF It
<1> HIDE DEF iter, f
<1>5. PICK it : it = It("MQTTMessage", 1)
  OBVIOUS
<1>6. it.descriptor = "MQTTMessage"
  <2>1. 1 \in DOMAIN FieldList["MQTTMessage"]
    BY <1>3, CountOf
  <2> QED BY <1>3, <1>5, <2>1, IterMembers, PlaceInStruct DEF It
<1>7. StartsRight(src, f)
  <2>1. StartOf(src, "MQTTMessage") = 0 /\ Here(src, "MQTTMessage")
    BY <1>3, StartIs DEF Here, HasCell, MemberTag, InMember
  <2> QED BY <1>2, <1>4, <1>5, <1>6, <2>1, Zenon DEF StartsRight
<1>8. AllStart(src, frames)
  BY <1>1, <1>7 DEF AllStart
<1>9. Placed(src, out, 0)
  <2>1. ASSUME NEW d, NEW n, Carried(src, d, n) PROVE Pos(src, d, n) \in Nat
    BY <2>1, PosWithin
  <2> QED BY <2>1 DEF Placed
<1>10. WrittenItems(out)
  BY <1>1 DEF WrittenItems
<1>11. 0 <= SizeOf(src, "MQTTMessage")
  BY MQTTMessageTakes DEF Takes
<1> QED BY <1>1, <1>8, <1>9, <1>10, <1>11 DEF OutInv

\* Every step of the encoder keeps all of it.
LEMMA EncodeInvNext == EncodeInv /\ [EncodeNext]_encVars => EncodeInv'
<1>1. EncodeInv /\ UNCHANGED encVars => OutInv'
  BY DEF EncodeInv, OutInv, encVars
<1>2. EncodeInv /\ [EncodeNext]_encVars => OutInv'
  BY <1>1, SkipAbsentWrites, WriteValueWrites, BeginSubmessageWrites, EndSubmessageWrites,
     EncodeReturnWrites DEF EncodeNext
<1> QED BY <1>2, EncInvNext, EncTypeInvNext, SizeInvNext DEF EncodeInv

\* Once all is written, the message ends where the buffer does.
LEMMA EncodedSize ==
    ASSUME EncodeInv, enc = "ok"
    PROVE  dest = SizeOf(src, "MQTTMessage")
<1>1. EncInv /\ SizeInv /\ Len(frames) = 1
  BY DEF EncodeInv, EncInv
<1>2. Innermost.bytes_written = SizeOf(src, "MQTTMessage")
  BY <1>1 DEF SizeInv
<1>3. Innermost = frames[1] /\ frames[1].start = 0 /\ Innermost.bytes_written \in Nat
      /\ dest = Innermost.start + Innermost.bytes_written
  BY <1>1, InnermostFrame DEF Nested, IsOStream
<1> QED BY <1>2, <1>3

-----------------------------------------------------------------------------
(***************************************************************************)
(* What the decoder reads next of what the encoder wrote.                  *)
(***************************************************************************)

\* Each item takes a byte or more, so that no two begin at the same one.
LEMMA HoldsGrows ==
    ASSUME NEW b, Len(b) \in Nat, WrittenItems(b)
    PROVE  /\ \A j \in 0..Len(b) : Holds(b, j) \in Nat
           /\ \A j \in 1..Len(b) : Holds(b, j) = Holds(b, j - 1) + b[j].n
           /\ \A i, j \in 0..Len(b) : i < j => Holds(b, i) < Holds(b, j)
<1>1. ASSUME NEW j \in 1..Len(b)
      PROVE  Holds(b, j) = Holds(b, j - 1) + b[j].n /\ b[j].n \in Nat /\ b[j].n >= 1
  <2>1. PICK i \in Nat : i = j - 1 /\ i + 1 = j
    OBVIOUS
  <2>2. Holds(b, i + 1) = Holds(b, i) + b[i + 1].n
    BY OneMore
  <2> QED BY <2>1, <2>2 DEF WrittenItems, IsItem
<1>2. Holds(b, 0) = 0
  BY TotalIs DEF Holds
<1> DEFINE S == {k \in Nat : k <= Len(b) =>
                    /\ Holds(b, k) \in Nat
                    /\ \A i \in 0..k : Holds(b, i) \in Nat /\ (i < k => Holds(b, i) < Holds(b, k))}
<1>3. 0 \in S
  BY <1>2
<1>4. ASSUME NEW k \in Nat, k \in S PROVE k + 1 \in S
  <2> SUFFICES ASSUME k + 1 <= Len(b)
               PROVE  /\ Holds(b, k + 1) \in Nat
                      /\ \A i \in 0..(k + 1) : /\ Holds(b, i) \in Nat
                                               /\ i < k + 1 => Holds(b, i) < Holds(b, k + 1)
    OBVIOUS
  <2>1. /\ Holds(b, k) \in Nat
        /\ \A i \in 0..k : Holds(b, i) \in Nat /\ (i < k => Holds(b, i) < Holds(b, k))
    BY <1>4
  <2>2. Holds(b, k + 1) = Holds(b, k) + b[k + 1].n /\ b[k + 1].n \in Nat /\ b[k + 1].n >= 1
    <3>1. k + 1 \in 1..Len(b) /\ (k + 1) - 1 = k
      OBVIOUS
    <3> QED BY <1>1, <3>1
  <2>3. PICK h \in Nat, g \in Nat : h = Holds(b, k) /\ g = Holds(b, k + 1) /\ h < g
    BY <2>1, <2>2
  <2>4. ASSUME NEW i \in 0..(k + 1)
        PROVE  Holds(b, i) \in Nat /\ (i < k + 1 => Holds(b, i) < g)
    <3>1. CASE i = k + 1
      BY <2>3, <3>1
    <3>2. CASE i = k
      BY <2>3, <3>2
    <3>3. CASE i \in 0..k /\ i < k
      BY <2>1, <2>3, <3>3
    <3> QED BY <3>1, <3>2, <3>3
  <2> QED BY <2>3, <2>4
<1> HIDE DEF S
<1>5. \A k \in Nat : k \in S
  BY <1>3, <1>4, AllNumbers
<1>6. ASSUME NEW k \in 0..Len(b)
      PROVE  Holds(b, k) \in Nat /\ \A i \in 0..Len(b) : i < k => Holds(b, i) < Holds(b, k)
  BY <1>5 DEF S
<1> QED BY <1>1, <1>6

\* The item that begins where reading has got to is the next one.
LEMMA NextItem ==
    ASSUME NEW b, Len(b) \in Nat, WrittenItems(b), NEW k \in 0..Len(b),
           NEW a, Lies(b, Holds(b, k), a)
    PROVE  /\ k + 1 \in 1..Len(b) /\ b[k + 1] = a
           /\ Holds(b, k + 1) = Holds(b, k) + a.n
           /\ Holds(b, k + 1) <= Holds(b, Len(b))
           /\ a.n \in Nat /\ a.n >= 1
<1>1. PICK j \in 1..Len(b) : Holds(b, j - 1) = Holds(b, k) /\ b[j] = a
  BY DEF Lies
<1>2. /\ \A i \in 0..Len(b) : Holds(b, i) \in Nat
      /\ \A i \in 1..Len(b) : Holds(b, i) = Holds(b, i - 1) + b[i].n
      /\ \A i, l \in 0..Len(b) : i < l => Holds(b, i) < Holds(b, l)
  BY HoldsGrows
<1>3. j - 1 = k
  <2>1. PICK i \in 0..Len(b) : i = j - 1
    OBVIOUS
  <2>2. Holds(b, i) = Holds(b, k) /\ Holds(b, k) \in Nat
    BY <1>1, <1>2, <2>1
  <2>3. ~(i < k) /\ ~(k < i)
    BY <1>2, <2>2
  <2> QED BY <2>1, <2>3
<1>4. j = k + 1
  BY <1>3
<1>5. Holds(b, k + 1) = Holds(b, k) + a.n
  BY <1>1, <1>2, <1>3, <1>4
<1>6. Holds(b, k + 1) <= Holds(b, Len(b))
  <2>1. PICK i \in 0..Len(b), l \in 0..Len(b) : i = k + 1 /\ l = Len(b)
    BY <1>4
  <2>2. i = l \/ i < l
    BY <2>1
  <2>3. Holds(b, i) <= Holds(b, l)
    BY <1>2, <2>2
  <2> QED BY <2>1, <2>3
<1> QED BY <1>1, <1>4, <1>5, <1>6 DEF WrittenItems, IsItem

\* The decoder is offered that item, if it takes it for what it is.
LEMMA OfferedNext ==
    ASSUME input # Elsewhere, at + 1 \in DOMAIN input, NEW a, input[at + 1] = a
    PROVE  \A any : Offered(a.k, any) = {a}
<1> SUFFICES ASSUME NEW any PROVE Offered(a.k, any) = {a}
  OBVIOUS
<1>1. Offered(a.k, any) = {input[i] : i \in {j \in {at + 1} \cap DOMAIN input : input[j].k = a.k}}
  BY DEF Offered
<1>2. {j \in {at + 1} \cap DOMAIN input : input[j].k = a.k} = {at + 1}
  OBVIOUS
<1>3. Offered(a.k, any) = {input[i] : i \in {at + 1}}
  BY <1>1, <1>2
<1> QED BY <1>3

\* Between two fields of a message that has more to come, the next field that is
\* there begins.
LEMMA FieldNext ==
    ASSUME NEW s, NEW d \in Messages, Here(s, d),
           NEW k \in 0..Len(FieldList[d]), UpTo(s, d, k) < SizeOf(s, d)
    PROVE  \E m \in DOMAIN FieldList[d] :
              Carried(s, d, m) /\ Pos(s, d, m) = StartOf(s, d) + UpTo(s, d, k)
<1>1. PICK count \in 2..6 : Len(FieldList[d]) = count /\ DOMAIN FieldList[d] = 1..count
  BY CountOf
<1> DEFINE u(i) == UpTo(s, d, i)
<1>2. /\ \A i \in 0..count : u(i) \in Nat
      /\ SizeOf(s, d) = u(count)
      /\ \A i \in 1..count : u(i) = u(i - 1) + Bytes(s, d, i)
  BY <1>1, UpToGrows
<1> DEFINE Found == \E m \in 1..count : u(m - 1) = u(k) /\ u(m) # u(k)
           S == {j \in Nat : k + j <= count => Found \/ u(k + j) = u(k)}
<1>3. 0 \in S
  OBVIOUS
<1>4. ASSUME NEW j \in Nat, j \in S PROVE j + 1 \in S
  <2> SUFFICES ASSUME k + (j + 1) <= count, ~Found PROVE u(k + (j + 1)) = u(k)
    OBVIOUS
  <2>1. u(k + j) = u(k)
    BY <1>4
  <2>2. k + (j + 1) \in 1..count /\ (k + (j + 1)) - 1 = k + j
    OBVIOUS
  <2> QED BY <2>1, <2>2
<1> HIDE DEF S
<1>5. \A j \in Nat : j \in S
  BY <1>3, <1>4, AllNumbers
<1>6. Found
  <2>1. PICK j \in Nat : k + j = count
    <3>1. count - k \in Nat /\ k + (count - k) = count
      BY <1>1
    <3> QED BY <3>1
  <2>2. j \in S
    BY <1>5
  <2>3. Found \/ u(k + j) = u(k)
    BY <2>1, <2>2 DEF S
  <2>4. u(k) \in Nat /\ u(k) < u(count)
    BY <1>1, <1>2
  <2>5. u(count) # u(k)
    BY <2>4
  <2> QED BY <2>1, <2>3, <2>5
<1>7. PICK m \in 1..count : u(m - 1) = u(k) /\ u(m) # u(k)
  BY <1>6
<1>8. Bytes(s, d, m) # 0
  <2>1. u(m) = u(m - 1) + Bytes(s, d, m)
    BY <1>2
  <2>2. u(k) \in Nat
    BY <1>1, <1>2
  <2> QED BY <1>7, <2>1, <2>2
<1>9. m \in DOMAIN FieldList[d]
  BY <1>1
<1>10. Carried(s, d, m)
  BY <1>8, <1>9, PresentTakes DEF Carried
<1>11. Pos(s, d, m) = StartOf(s, d) + UpTo(s, d, k)
  BY <1>7 DEF Pos
<1> QED BY <1>9, <1>10, <1>11

-----------------------------------------------------------------------------
(***************************************************************************)
(* What the root sees of the message while it reads.                       *)
(***************************************************************************)

\* Of s, what begins before the first P bytes end: a value two bytes after its
\* field does, and a submessage where it starts.
Shown(s, m, P) ==
    /\ \A d \in Messages \ {"MQTTMessage"} : Here(m, d) <=> Here(s, d) /\ StartOf(s, d) <= P
    /\ \A d, n, a, size : IsLeaf(d, n, a, size) =>
          SeenValue(m)[<<d, n>>]
            = IF Carried(s, d, n) /\ Pos(s, d, n) + 2 <= P THEN s[a] ELSE 0

\* No field begins between P and Q.
NoneBetween(s, P, Q) ==
    \A d, n : Carried(s, d, n) => (Pos(s, d, n) + 2 <= P <=> Pos(s, d, n) + 2 <= Q)

\* Where a submessage starts is where the field that holds it has its second item.
LEMMA StartsAfter ==
    ASSUME NEW s, NEW e \in Messages, e # "MQTTMessage", Here(s, e)
    PROVE  \E d, n : /\ Carried(s, d, n) /\ <<d, n>> = Holder[e]
                     /\ StartOf(s, e) = Pos(s, d, n) + 2
<1>1. Holder[e] = <<Holder[e][1], Holder[e][2]>>
  BY MessageNames DEF Holder
<1>2. PICK d, n : d = Holder[e][1] /\ n = Holder[e][2]
  OBVIOUS
<1>3. Carried(s, d, n) /\ StartOf(s, e) = Pos(s, d, n) + 2
  BY <1>2, BytesNested
<1> QED BY <1>1, <1>2, <1>3

\* What is seen stays what is to be seen while no field begins or ends.
LEMMA ShownOn ==
    ASSUME NEW s, NEW m, NEW P, NEW Q, Shown(s, m, P), NoneBetween(s, P, Q)
    PROVE  Shown(s, m, Q)
<1>1. ASSUME NEW d \in Messages \ {"MQTTMessage"}
      PROVE  Here(m, d) <=> Here(s, d) /\ StartOf(s, d) <= Q
  <2>1. Here(s, d) => (StartOf(s, d) <= P <=> StartOf(s, d) <= Q)
    BY StartsAfter DEF NoneBetween
  <2> QED BY <2>1 DEF Shown
<1>2. ASSUME NEW d, NEW n, NEW a, NEW size, IsLeaf(d, n, a, size)
      PROVE  SeenValue(m)[<<d, n>>]
               = IF Carried(s, d, n) /\ Pos(s, d, n) + 2 <= Q THEN s[a] ELSE 0
  BY <1>2 DEF Shown, NoneBetween
<1> QED BY <1>1, <1>2 DEF Shown

\* Within the bytes of a field, no other one begins.
LEMMA NoOtherBetween ==
    ASSUME NEW s, NEW d, NEW n, Carried(s, d, n),
           NEW P \in Nat, NEW Q \in Nat, Pos(s, d, n) <= P, P <= Q,
           Q <= Pos(s, d, n) + Extent(s, d, n)
    PROVE  \A e, m : Carried(s, e, m) /\ ~(e = d /\ m = n) =>
              (Pos(s, e, m) + 2 <= P <=> Pos(s, e, m) + 2 <= Q)
<1> SUFFICES ASSUME NEW e, NEW m, Carried(s, e, m), ~(e = d /\ m = n)
             PROVE  Pos(s, e, m) + 2 <= P <=> Pos(s, e, m) + 2 <= Q
  OBVIOUS
<1>1. Apart(s, d, n, e, m)
  BY FieldsApart
<1>2. /\ Pos(s, e, m) \in Nat /\ Extent(s, e, m) \in Nat /\ 2 <= Extent(s, e, m)
      /\ Pos(s, d, n) \in Nat /\ Extent(s, d, n) \in Nat
  BY PosWithin, CarriedTakes
<1>3. PICK p \in Nat, x \in Nat, r \in Nat, y \in Nat :
         /\ p = Pos(s, d, n) /\ x = Extent(s, d, n)
         /\ r = Pos(s, e, m) /\ y = Extent(s, e, m)
  BY <1>2
<1>4. p + x <= r \/ r + y <= p
  BY <1>1, <1>3, Zenon DEF Apart
<1>5. r + 2 <= P <=> r + 2 <= Q
  BY <1>2, <1>3, <1>4
<1> QED BY <1>3, <1>5, Zenon

\* Nor the field itself, but for the end of its tag.
LEMMA NoneInField ==
    ASSUME NEW s, NEW d, NEW n, Carried(s, d, n),
           NEW P \in Nat, NEW Q \in Nat, Pos(s, d, n) <= P, P <= Q,
           Q <= Pos(s, d, n) + 1
    PROVE  NoneBetween(s, P, Q)
<1>1. Pos(s, d, n) \in Nat /\ Extent(s, d, n) \in Nat /\ 2 <= Extent(s, d, n)
  BY PosWithin, CarriedTakes
<1>2. Q <= Pos(s, d, n) + Extent(s, d, n)
  BY <1>1
<1>3. ~(Pos(s, d, n) + 2 <= P) /\ ~(Pos(s, d, n) + 2 <= Q)
  BY <1>1
<1> QED BY <1>2, <1>3, NoOtherBetween DEF NoneBetween

\* The value of a field is stored.
LEMMA ShownValue ==
    ASSUME NEW s, NEW m \in StructType, StartsFromZeros(m), NEW P, Shown(s, m, P),
           NEW d, NEW n, NEW a, NEW size, IsLeaf(d, n, a, size), Carried(s, d, n),
           P = Pos(s, d, n) + 1, NEW m2, m2 = Put(m, Span(a, size), s[a]),
           NEW Q, Q = Pos(s, d, n) + Extent(s, d, n)
    PROVE  Shown(s, m2, Q) /\ StartsFromZeros(m2)
<1>1. /\ Pos(s, d, n) \in Nat /\ StartOf(s, d) \in Nat /\ StartOf(s, d) <= Pos(s, d, n)
      /\ Extent(s, d, n) \in Nat /\ 2 <= Extent(s, d, n)
      /\ d \in Messages /\ Here(s, d)
  BY PosWithin, CarriedTakes DEF Carried
<1>2. P \in Nat /\ Q \in Nat /\ P <= Q /\ Pos(s, d, n) <= P
  BY <1>1
<1>3. Here(m, d)
  <2>1. CASE d = "MQTTMessage"
    BY <2>1 DEF Here
  <2>2. CASE d # "MQTTMessage"
    <3>1. StartOf(s, d) <= P
      BY <1>1
    <3> QED BY <1>1, <2>2, <3>1 DEF Shown
  <2> QED BY <2>1, <2>2
<1>4. /\ \A x : Here(m2, x) <=> Here(m, x)
      /\ StartsFromZeros(m2)
      /\ SeenValue(m2) = [SeenValue(m) EXCEPT ![<<d, n>>] = s[a]]
  BY <1>3, LeafWritten
<1>5. \A e, k : Carried(s, e, k) /\ ~(e = d /\ k = n) =>
         (Pos(s, e, k) + 2 <= P <=> Pos(s, e, k) + 2 <= Q)
  <2>1. Q <= Pos(s, d, n) + Extent(s, d, n)
    BY <1>2
  <2> QED BY <1>2, <2>1, NoOtherBetween
<1>6. ASSUME NEW e \in Messages \ {"MQTTMessage"}
      PROVE  Here(m2, e) <=> Here(s, e) /\ StartOf(s, e) <= Q
  <2>1. Here(s, e) => (StartOf(s, e) <= P <=> StartOf(s, e) <= Q)
    <3> SUFFICES ASSUME Here(s, e) PROVE StartOf(s, e) <= P <=> StartOf(s, e) <= Q
      OBVIOUS
    <3>1. PICK c, k : Carried(s, c, k) /\ <<c, k>> = Holder[e] /\ StartOf(s, e) = Pos(s, c, k) + 2
      BY StartsAfter
    <3>2. FieldList[c][k].ltype = "MESSAGE"
      <4>1. c = Holder[e][1] /\ k = Holder[e][2]
        BY <3>1
      <4> QED BY <4>1, HolderIs
    <3>3. ~(c = d /\ k = n)
      BY <3>2 DEF IsLeaf
    <3> QED BY <1>5, <3>1, <3>3
  <2> QED BY <1>4, <2>1 DEF Shown
<1>7. ASSUME NEW e, NEW k, NEW b, NEW size2, IsLeaf(e, k, b, size2)
      PROVE  SeenValue(m2)[<<e, k>>]
               = IF Carried(s, e, k) /\ Pos(s, e, k) + 2 <= Q THEN s[b] ELSE 0
  <2>1. <<e, k>> \in Leaves /\ <<d, n>> \in Leaves
    BY <1>7, LeafIn
  <2>2. SeenValue(m2)[<<e, k>>] = IF <<e, k>> = <<d, n>> THEN s[a] ELSE SeenValue(m)[<<e, k>>]
    <3>1. SeenValue(m) = [l \in Leaves |-> SeenValue(m)[l]]
      BY Zenon DEF SeenValue
    <3> QED BY <1>4, <2>1, <3>1, Zenon
  <2>3. CASE e = d /\ k = n
    <3>1. b = a
      BY <1>7, <2>3 DEF IsLeaf
    <3>2. Pos(s, d, n) + 2 <= Q
      BY <1>1
    <3> QED BY <2>2, <2>3, <3>1, <3>2
  <2>4. CASE ~(e = d /\ k = n)
    <3>1. <<e, k>> # <<d, n>>
      BY <2>4
    <3>2. SeenValue(m)[<<e, k>>] = IF Carried(s, e, k) /\ Pos(s, e, k) + 2 <= P THEN s[b] ELSE 0
      BY <1>7 DEF Shown
    <3>3. Carried(s, e, k) => (Pos(s, e, k) + 2 <= P <=> Pos(s, e, k) + 2 <= Q)
      BY <1>5, <2>4
    <3>4. SeenValue(m2)[<<e, k>>] = SeenValue(m)[<<e, k>>]
      BY <2>2, <3>1, Zenon
    <3> QED BY <3>2, <3>3, <3>4, Zenon
  <2> QED BY <2>3, <2>4
<1> QED BY <1>4, <1>6, <1>7 DEF Shown

\* A submessage that could not be seen starts.
LEMMA SubmessageStarted ==
    ASSUME NEW m \in StructType, StartsFromZeros(m), NEW d \in Messages,
           NEW n \in DOMAIN FieldList[d], FieldList[d][n].ltype = "MESSAGE",
           NEW e, e = FieldList[d][n].sub, Here(m, d), ~Here(m, e),
           NEW m2, m2 = decode_static_field(m, It(d, n))
    PROVE  /\ StartsFromZeros(m2)
           /\ \/ /\ e \notin {"Kart", "Track"}
                 /\ \A x : Here(m2, x) <=> x = e \/ Here(m, x)
                 /\ SeenValue(m2) = SeenValue(m)
              \/ /\ e \in {"Kart", "Track"}
                 /\ \A x : Here(m2, x) <=> x = e \/ (~InMember(x) /\ Here(m, x))
                 /\ SeenValue(m2) = [l \in Leaves |-> IF InMember(l[1]) THEN 0 ELSE SeenValue(m)[l]]
<1>1. PICK f : f = FieldList[d][n]
  OBVIOUS
<1>2. PICK it : it = It(d, n)
  OBVIOUS
<1>3. /\ it.tag = n /\ it.type = Type(f) /\ it.submsg_desc = f.sub
      /\ it.pData = Place[d] + f.offset /\ it.data_size = f.size
      /\ it.pSize = IF f.delta = 0 THEN NoAddress ELSE Place[d] + f.offset - f.delta
      /\ IsField(f)
  BY <1>1, <1>2, IterMembers, PlaceInStruct DEF It
<1>4. Place["MQTTMessage"] = 0 /\ Place["Kart"] = 32
  BY DEF Place
<1>5. m2 = decode_static_field(m, it)
  BY <1>2
<1>6. CASE f.htype = "OPTIONAL"
  <2>1. PICK has : has = it.pSize
    OBVIOUS
  <2>2. \/ d = "MQTTMessage" /\ e = "Timestamp" /\ has = 4
        \/ d = "Kart" /\ e = "LatLng" /\ has = 52
    BY <1>1, <1>3, <1>4, <1>6, <2>1, FieldTable
  <2>3. m2 = Put(m, Span(has, 1), 1)
    <3>1. PB_HTYPE(it.type) # PB_HTYPE_ONEOF
      BY <1>3, <1>6, HTypeOf
    <3> QED BY <1>5, <2>1, <3>1, Zenon DEF decode_static_field
  <2>4. (e = "Timestamp" /\ has = 4) \/ (e = "LatLng" /\ has = 52 /\ m[24] = 3)
    BY <2>2 DEF Here
  <2>5. /\ StartsFromZeros(m2) /\ Here(m2, e)
        /\ \A x : x # e => (Here(m2, x) <=> Here(m, x))
        /\ SeenValue(m2) = SeenValue(m)
    BY <2>3, <2>4, OptionalStarted
  <2>6. e \notin {"Kart", "Track"}
    BY <2>4
  <2> QED BY <2>5, <2>6, Zenon
<1>7. CASE f.htype = "ONEOF"
  <2>1. PICK tag : tag = n
    OBVIOUS
  <2>2. /\ d = "MQTTMessage" /\ f.offset = 32 /\ f.delta = 8
        /\ \/ f.sub = "Kart" /\ n = 3 /\ f.size = 40
           \/ f.sub = "Track" /\ n = 4 /\ f.size = 8
    BY <1>1, <1>7, FieldTable
  <2>3. /\ \/ e = "Kart" /\ tag = 3 /\ it.data_size = 40
           \/ e = "Track" /\ tag = 4 /\ it.data_size = 8
        /\ it.tag = tag /\ it.submsg_desc = e /\ it.pSize = 24 /\ it.pData = 32
    BY <1>1, <1>3, <1>4, <2>1, <2>2
  <2>4. PB_HTYPE(it.type) = PB_HTYPE_ONEOF
    BY <1>3, <1>7, HTypeOf
  <2>5. m[24] # tag
    BY <2>3 DEF Here
  <2>6. \A c \in Cells :
             /\ c = 24 => m2[c] = tag
             /\ c # 24 /\ c < 32 => m2[c] = m[c]
             /\ c >= 32 /\ (e = "Kart" \/ c < 40) => m2[c] = 0
    BY <1>5, <2>3, <2>4, <2>5, StaticMember
  <2>7. (e = "Kart" /\ tag = 3) \/ (e = "Track" /\ tag = 4)
    BY <2>3
  <2>8. /\ StartsFromZeros(m2)
        /\ SeenValue(m2) = [l \in Leaves |-> IF InMember(l[1]) THEN 0 ELSE SeenValue(m)[l]]
    BY <2>5, <2>6, <2>7, MemberStarted
  <2>9. \A x : Here(m2, x) <=> x = e \/ (~InMember(x) /\ Here(m, x))
    <3>1. m2[4] = m[4] /\ m2[24] = tag /\ (e = "Kart" => m2[52] = 0)
      BY <2>6, CellsAre
    <3> QED BY <2>7, <3>1 DEF Here, InMember
  <2> QED BY <2>7, <2>8, <2>9
<1>8. f.htype = "OPTIONAL" \/ f.htype = "ONEOF"
  BY <1>1, FieldTable
<1> QED BY <1>6, <1>7, <1>8

\* What a member of the oneof holds begins no earlier than the member that is there.
LEMMA MemberBegins ==
    ASSUME NEW s, NEW e, e \in {"Kart", "Track"}, Here(s, e),
           NEW x \in Messages, InMember(x), Here(s, x)
    PROVE  StartOf(s, e) <= StartOf(s, x) /\ (x = e \/ StartOf(s, e) < StartOf(s, x))
<1>1. e \in Messages /\ e # "MQTTMessage" /\ x # "MQTTMessage"
  BY MessageNames DEF InMember
<1>2. x = e \/ (x = "LatLng" /\ e = "Kart")
  BY DEF Here, InMember
<1>3. CASE x = e
  BY <1>1, <1>3, StartIs
<1>4. CASE x = "LatLng" /\ e = "Kart"
  <2>1. PICK c, k : Carried(s, c, k) /\ <<c, k>> = Holder[x] /\ StartOf(s, x) = Pos(s, c, k) + 2
    BY <1>1, StartsAfter
  <2>2. c = "Kart"
    BY <1>4, <2>1 DEF Holder
  <2>3. Pos(s, c, k) \in Nat /\ StartOf(s, c) \in Nat /\ StartOf(s, c) <= Pos(s, c, k)
    BY <2>1, PosWithin
  <2> QED BY <1>4, <2>1, <2>2, <2>3
<1> QED BY <1>2, <1>3, <1>4

\* A submessage starts: it is seen, with nothing in it.
LEMMA ShownStarted ==
    ASSUME NEW s, NEW m \in StructType, StartsFromZeros(m), NEW P, Shown(s, m, P),
           NEW d, NEW n, Carried(s, d, n), FieldList[d][n].ltype = "MESSAGE",
           NEW e, e = FieldList[d][n].sub, P = Pos(s, d, n) + 1,
           NEW m2, m2 = decode_static_field(m, It(d, n)),
           NEW Q, Q = Pos(s, d, n) + 2
    PROVE  Shown(s, m2, Q) /\ StartsFromZeros(m2)
<1>1. /\ Pos(s, d, n) \in Nat /\ StartOf(s, d) \in Nat /\ StartOf(s, d) <= Pos(s, d, n)
      /\ Extent(s, d, n) = 2
      /\ d \in Messages /\ n \in DOMAIN FieldList[d] /\ Here(s, d) /\ Present(s, It(d, n))
  BY PosWithin DEF Carried, Extent
<1>2. P \in Nat /\ Q \in Nat /\ P <= Q /\ Pos(s, d, n) <= P /\ Q <= Pos(s, d, n) + Extent(s, d, n)
  BY <1>1
<1>3. Here(m, d)
  <2>1. CASE d = "MQTTMessage"
    BY <2>1 DEF Here
  <2>2. CASE d # "MQTTMessage"
    <3>1. StartOf(s, d) <= P
      BY <1>1
    <3> QED BY <1>1, <2>2, <3>1 DEF Shown
  <2> QED BY <2>1, <2>2
<1>4. /\ e \in Messages /\ e # "MQTTMessage" /\ Holder[e] = <<d, n>>
      /\ Here(s, e) /\ StartOf(s, e) = Q
  <2>1. e \in Messages /\ e # "MQTTMessage" /\ Holder[e] = <<d, n>>
    BY <1>1, HeldBy
  <2>2. Here(s, e)
    BY <1>1, HereIfHeld
  <2>3. d = Holder[e][1] /\ n = Holder[e][2]
    BY <2>1
  <2>4. StartOf(s, e) = Pos(s, d, n) + 2
    BY <2>1, <2>2, <2>3, BytesNested
  <2> QED BY <2>1, <2>2, <2>4
<1>5. ~Here(m, e)
  <2>1. ~(Q <= P)
    BY <1>1
  <2> QED BY <1>4, <2>1 DEF Shown
<1>6. \A c, k : Carried(s, c, k) /\ ~(c = d /\ k = n) =>
         (Pos(s, c, k) + 2 <= P <=> Pos(s, c, k) + 2 <= Q)
  BY <1>2, NoOtherBetween
<1>7. \A x \in Messages : x # "MQTTMessage" /\ x # e /\ Here(s, x) =>
         (StartOf(s, x) <= P <=> StartOf(s, x) <= Q)
  <2> SUFFICES ASSUME NEW x \in Messages, x # "MQTTMessage", x # e, Here(s, x)
               PROVE  StartOf(s, x) <= P <=> StartOf(s, x) <= Q
    OBVIOUS
  <2>1. PICK c, k : Carried(s, c, k) /\ <<c, k>> = Holder[x] /\ StartOf(s, x) = Pos(s, c, k) + 2
    BY StartsAfter
  <2>2. ~(c = d /\ k = n)
    <3>1. Holder[x] # Holder[e]
      BY <1>4, MessageNames DEF Holder
    <3> QED BY <1>4, <2>1, <3>1
  <2> QED BY <1>6, <2>1, <2>2
<1>8. \A c, k, a, size : IsLeaf(c, k, a, size) /\ Carried(s, c, k) =>
         (Pos(s, c, k) + 2 <= P <=> Pos(s, c, k) + 2 <= Q)
  BY <1>6 DEF IsLeaf
<1>9. StartsFromZeros(m2)
  BY <1>1, <1>3, <1>5, SubmessageStarted
<1>10. CASE /\ e \notin {"Kart", "Track"}
            /\ \A x : Here(m2, x) <=> x = e \/ Here(m, x)
            /\ SeenValue(m2) = SeenValue(m)
  <2>1. ASSUME NEW x \in Messages \ {"MQTTMessage"}
        PROVE  Here(m2, x) <=> Here(s, x) /\ StartOf(s, x) <= Q
    <3>1. CASE x = e
      BY <1>2, <1>4, <1>10, <3>1
    <3>2. CASE x # e
      BY <1>7, <1>10, <3>2 DEF Shown
    <3> QED BY <3>1, <3>2
  <2>2. ASSUME NEW c, NEW k, NEW a, NEW size, IsLeaf(c, k, a, size)
        PROVE  SeenValue(m2)[<<c, k>>]
                 = IF Carried(s, c, k) /\ Pos(s, c, k) + 2 <= Q THEN s[a] ELSE 0
    <3>1. SeenValue(m)[<<c, k>>] = IF Carried(s, c, k) /\ Pos(s, c, k) + 2 <= P THEN s[a] ELSE 0
      BY <2>2 DEF Shown
    <3>2. Carried(s, c, k) => (Pos(s, c, k) + 2 <= P <=> Pos(s, c, k) + 2 <= Q)
      BY <1>8, <2>2
    <3> QED BY <1>10, <3>1, <3>2, Zenon
  <2> QED BY <1>9, <2>1, <2>2 DEF Shown
<1>11. CASE /\ e \in {"Kart", "Track"}
            /\ \A x : Here(m2, x) <=> x = e \/ (~InMember(x) /\ Here(m, x))
            /\ SeenValue(m2) = [l \in Leaves |-> IF InMember(l[1]) THEN 0 ELSE SeenValue(m)[l]]
  <2>1. \A x \in Messages : InMember(x) /\ Here(s, x) =>
           StartOf(s, x) \in Nat /\ Q <= StartOf(s, x) /\ (x = e \/ Q < StartOf(s, x))
    BY <1>4, <1>11, MemberBegins, StartIs
  <2>2. ASSUME NEW x \in Messages \ {"MQTTMessage"}
        PROVE  Here(m2, x) <=> Here(s, x) /\ StartOf(s, x) <= Q
    <3>1. CASE x = e
      BY <1>2, <1>4, <1>11, <3>1
    <3>2. CASE x # e /\ InMember(x)
      <4>1. Here(s, x) => ~(StartOf(s, x) <= Q)
        BY <1>2, <2>1, <3>2
      <4> QED BY <1>11, <3>2, <4>1
    <3>3. CASE x # e /\ ~InMember(x)
      BY <1>7, <1>11, <3>3 DEF Shown
    <3> QED BY <3>1, <3>2, <3>3
  <2>3. ASSUME NEW c, NEW k, NEW a, NEW size, IsLeaf(c, k, a, size)
        PROVE  SeenValue(m2)[<<c, k>>]
                 = IF Carried(s, c, k) /\ Pos(s, c, k) + 2 <= Q THEN s[a] ELSE 0
    <3>1. PICK l : l = <<c, k>>
      OBVIOUS
    <3>2. l \in Leaves /\ l[1] = c
      BY <2>3, <3>1, LeafIn
    <3>3. SeenValue(m2)[l] = IF InMember(c) THEN 0 ELSE SeenValue(m)[l]
      BY <1>11, <3>2, Zenon
    <3>4. SeenValue(m)[l] = IF Carried(s, c, k) /\ Pos(s, c, k) + 2 <= P THEN s[a] ELSE 0
      BY <2>3, <3>1 DEF Shown
    <3>5. Carried(s, c, k) => (Pos(s, c, k) + 2 <= P <=> Pos(s, c, k) + 2 <= Q)
      BY <1>8, <2>3
    <3>6. InMember(c) /\ Carried(s, c, k) => ~(Pos(s, c, k) + 2 <= Q)
      <4> SUFFICES ASSUME InMember(c), Carried(s, c, k) PROVE ~(Pos(s, c, k) + 2 <= Q)
        OBVIOUS
      <4>1. /\ c \in Messages /\ Here(s, c)
            /\ Pos(s, c, k) \in Nat /\ StartOf(s, c) \in Nat /\ StartOf(s, c) <= Pos(s, c, k)
        BY PosWithin DEF Carried
      <4>2. Q <= StartOf(s, c)
        BY <2>1, <4>1
      <4> QED BY <1>2, <4>1, <4>2
    <3> QED BY <3>1, <3>3, <3>4, <3>5, <3>6, Zenon
  <2> QED BY <1>9, <2>2, <2>3 DEF Shown
<1> QED BY <1>1, <1>3, <1>5, <1>10, <1>11, SubmessageStarted

-----------------------------------------------------------------------------
(***************************************************************************)
(* The decoder reads what the encoder wrote.                               *)
(***************************************************************************)

\* Where the stream of message d ends, if the first D bytes were sent.
EndOf(s, D, d) == IF d = "MQTTMessage" THEN D ELSE StartOf(s, d) + SizeOf(s, d)

\* The stream f reads a message that was written, as far as it goes or was sent.
InFrame(s, D, f) ==
    /\ Here(s, f.iter.descriptor)
    /\ f.end = EndOf(s, D, f.iter.descriptor) /\ f.end <= D

\* The iterator of f is at the field that holds the message of g.
Held(f, g) == f.iter = It(Holder[g.iter.descriptor][1], Holder[g.iter.descriptor][2])

\* So do all the streams, each opened at the field that holds the next.
Opened(s, D, fs) ==
    /\ \A i \in 1..Len(fs) : InFrame(s, D, fs[i])
    /\ \A i \in 1..(Len(fs) - 1) : Held(fs[i], fs[i + 1])

\* Between two fields of its message; after the tag of one that was found.
Between(s, f) ==
    \E k \in 0..Len(FieldList[f.iter.descriptor]) :
        f.pos = StartOf(s, f.iter.descriptor) + UpTo(s, f.iter.descriptor, k)

\* The tag of field n has been read, and w is its wire type.
AtValue(s, f, w) ==
    \E d, n : /\ f.iter = It(d, n) /\ Carried(s, d, n)
              /\ f.pos = Pos(s, d, n) + 1 /\ w = WireType[PB_LTYPE(f.iter.type)]

\* What has been read so far is what had been written there, and is shown.
OnTrack ==
    /\ at \in 0..Len(out) /\ Holds(out, at) = Top.pos
    /\ StartsFromZeros(mem) /\ Shown(src, mem, Top.pos)
    /\ Opened(src, dest, stack)
    /\ pc \in {"tag", "ok"} => Between(src, Top)
    /\ pc = "field" => AtValue(src, Top, wire)

\* Only a message that was not encoded as a whole is refused.
ReadInv ==
    pc # "idle" =>
        /\ FieldInv
        /\ input = out /\ len = dest /\ out # <<>>
        /\ enc \in {"ok", "failed"}
        /\ pc \in {"tag", "field", "ok", "failed"}
        /\ pc = "failed" => enc = "failed"
        /\ pc # "failed" => OnTrack

\* The inductive invariant of the round trip.
RoundInv == EncodeInv /\ ReadInv

\* The root is still reading, or has accepted the message.
Reading == RoundInv /\ pc \in {"tag", "field", "ok"}

\* What the invariant says then.
LEMMA WhileReading ==
    ASSUME Reading
    PROVE  /\ EncodeInv /\ FieldInv /\ OnTrack
           /\ input = out /\ len = dest /\ dest \in Nat /\ input # Elsewhere
           /\ src \in [Cells -> Nat]
           /\ Len(out) \in Nat /\ WrittenItems(out) /\ Holds(out, Len(out)) = dest
           /\ Placed(src, out, dest) /\ dest <= SizeOf(src, "MQTTMessage")
           /\ Chain(stack) /\ Len(stack) \in Nat /\ Len(stack) >= 1
           /\ IsFrame(Top) /\ Top = stack[Len(stack)] /\ Reaches(Top)
<1>1. EncodeInv /\ ReadInv /\ pc # "idle" /\ pc # "failed"
  BY DEF Reading, RoundInv
<1>2. PICK F : out \in Seq(F)
  BY <1>1 DEF EncodeInv, EncTypeInv
<1>3. Len(out) \in Nat
  BY <1>2, LenProperties
<1>4. FieldInv /\ OnTrack /\ input = out /\ len = dest /\ input # Elsewhere
  BY <1>1 DEF ReadInv, Elsewhere
<1>5. DecInv
  BY <1>4 DEF FieldInv
<1> QED BY <1>1, <1>3, <1>4, <1>5, TopFrame DEF EncodeInv, EncInv, EncTypeInv, OutInv

\* The message that is being read, and where it ends.
LEMMA TopReading ==
    ASSUME Reading
    PROVE  \E d \in Messages : \E n \in DOMAIN FieldList[d] :
             /\ Top.iter = It(d, n) /\ Top.iter.descriptor = d /\ Depth[d] = Len(stack)
             /\ Here(src, d)
             /\ Top.end = EndOf(src, dest, d) /\ Top.end <= dest
<1>1. FieldInv /\ OnTrack /\ Len(stack) \in 1..Len(stack) /\ Top = stack[Len(stack)]
  BY WhileReading
<1>2. PICK d \in Messages : \E n \in DOMAIN FieldList[d] :
        Top.iter = IterAt(d, Place[d], n) /\ Depth[d] = Len(stack)
  BY <1>1, TopIterator
<1>3. PICK n \in DOMAIN FieldList[d] :
        Top.iter = IterAt(d, Place[d], n) /\ Depth[d] = Len(stack)
  BY <1>2
<1>4. PICK it : it = Top.iter
  OBVIOUS
<1>5. it.descriptor = d
  BY <1>3, <1>4, PlaceInStruct, IterMembers
<1>6. InFrame(src, dest, Top)
  BY <1>1 DEF OnTrack, Opened
<1>7. Here(src, d) /\ Top.end = EndOf(src, dest, d) /\ Top.end <= dest
  BY <1>4, <1>5, <1>6, Zenon DEF InFrame
<1> QED BY <1>3, <1>4, <1>5, <1>7, Zenon DEF It

\* An item that was written where reading has got to is the next one.
LEMMA ItemNext ==
    ASSUME Reading, NEW a, Lies(out, Top.pos, a)
    PROVE  /\ at + 1 \in 1..Len(out)
           /\ \A any : Offered(a.k, any) = {a}
           /\ Holds(out, at + 1) = Top.pos + a.n /\ Top.pos + a.n <= dest
           /\ a.n \in Nat /\ a.n >= 1
<1>1. PICK k \in 0..Len(out) : k = at /\ Holds(out, k) = Top.pos
  BY WhileReading DEF OnTrack
<1>2. Lies(out, Holds(out, k), a)
  BY <1>1
<1>3. /\ k + 1 \in 1..Len(out) /\ out[k + 1] = a
      /\ Holds(out, k + 1) = Holds(out, k) + a.n
      /\ Holds(out, k + 1) <= Holds(out, Len(out))
      /\ a.n \in Nat /\ a.n >= 1
  BY <1>2, WhileReading, NextItem
<1>4. at + 1 \in DOMAIN input /\ input[at + 1] = a
  <2>1. PICK F : out \in Seq(F)
    BY WhileReading DEF EncodeInv, EncTypeInv
  <2>2. DOMAIN out = 1..Len(out)
    BY <2>1
  <2> QED BY <1>1, <1>3, <2>2, WhileReading
<1>5. \A any : Offered(a.k, any) = {a}
  BY <1>4, WhileReading, OfferedNext
<1> QED BY <1>1, <1>3, <1>5, WhileReading

\* A message that is not through has a field left, whose tag comes next.
LEMMA TagThere ==
    ASSUME Reading, pc = "tag", Top.left > 0
    PROVE  \E d, m, a :
             /\ Carried(src, d, m) /\ Top.iter.descriptor = d
             /\ Top.pos = Pos(src, d, m) /\ a = TagOf(It(d, m))
             /\ a = TagItem(m, WireType[PB_LTYPE(It(d, m).type)], 1)
             /\ at + 1 \in 0..Len(out) /\ Holds(out, at + 1) = Top.pos + 1
             /\ \A any : Offered("tag", any) = {a}
<1>1. PICK d \in Messages :
             /\ Top.iter.descriptor = d /\ Here(src, d)
             /\ Top.end = EndOf(src, dest, d) /\ Top.end <= dest
  BY TopReading
<1>2. PICK k \in 0..Len(FieldList[d]) : Top.pos = StartOf(src, d) + UpTo(src, d, k)
  BY <1>1, WhileReading DEF OnTrack, Between
<1>3. Top.pos < Top.end /\ Top.pos \in Nat /\ Top.end \in Nat
  BY WhileReading DEF Reaches, IsFrame
<1>4. UpTo(src, d, k) \in Nat /\ SizeOf(src, d) \in Nat
  <2>1. PICK count \in 2..6 : Len(FieldList[d]) = count
    BY CountOf
  <2>2. UpTo(src, d, k) \in Nat
    BY <2>1, UpToGrows
  <2>3. PICK size \in 0..73 : SizeOf(src, d) = size
    BY AllTake DEF Takes
  <2>4. size \in Nat
    OBVIOUS
  <2> QED BY <2>2, <2>3, <2>4, Zenon
<1>5. UpTo(src, d, k) < SizeOf(src, d)
  <2>1. StartOf(src, d) \in Nat /\ (d = "MQTTMessage" => StartOf(src, d) = 0)
    BY StartIs
  <2>2. CASE d = "MQTTMessage"
    BY <1>1, <1>2, <1>3, <1>4, <2>1, <2>2, WhileReading DEF EndOf
  <2>3. CASE d # "MQTTMessage"
    BY <1>1, <1>2, <1>3, <1>4, <2>1, <2>3 DEF EndOf
  <2> QED BY <2>2, <2>3
<1>6. PICK m \in DOMAIN FieldList[d] :
        Carried(src, d, m) /\ Pos(src, d, m) = StartOf(src, d) + UpTo(src, d, k)
  BY <1>1, <1>5, FieldNext
<1>7. PICK it : it = It(d, m)
  OBVIOUS
<1>8. PICK a : a = TagOf(it)
  OBVIOUS
<1>9. a = TagItem(m, WireType[PB_LTYPE(it.type)], 1)
  BY <1>6, <1>7, <1>8, WhileReading, ItemsOf
<1>10. a.k = "tag" /\ a.n = 1
  BY <1>9 DEF TagItem
<1>11. Lies(out, Top.pos, a)
  <2>1. Pos(src, d, m) < dest
    BY <1>1, <1>2, <1>3, <1>6, WhileReading
  <2> QED BY <1>2, <1>6, <1>7, <1>8, <2>1, WhileReading, Zenon DEF Placed
<1>12. /\ at + 1 \in 1..Len(out) /\ Holds(out, at + 1) = Top.pos + a.n
       /\ \A any : Offered(a.k, any) = {a}
  BY <1>11, ItemNext
<1>13. at + 1 \in 0..Len(out) /\ Holds(out, at + 1) = Top.pos + 1
  BY <1>10, <1>12, WhileReading
<1>14. \A any : Offered("tag", any) = {a}
  BY <1>10, <1>12, Zenon
<1> QED BY <1>1, <1>2, <1>6, <1>7, <1>8, <1>9, <1>13, <1>14

\* After a tag comes the value of its field, or the length of what it holds: unless
\* the buffer ended with the tag.
LEMMA SecondThere ==
    ASSUME Reading, pc = "field"
    PROVE  \E d, n, a :
             /\ Top.iter = It(d, n) /\ Carried(src, d, n) /\ a = Second(src, d, n)
             /\ Top.pos = Pos(src, d, n) + 1 /\ wire = WireType[PB_LTYPE(Top.iter.type)]
             /\ Top.iter.descriptor = d /\ Here(src, d) /\ Top.end = EndOf(src, dest, d)
             /\ \/ Top.left = 0 /\ enc = "failed"
                \/ /\ Top.left > 0
                   /\ at + 1 \in 0..Len(out) /\ Holds(out, at + 1) = Pos(src, d, n) + Extent(src, d, n)
                   /\ \A any : Offered(a.k, any) = {a}
                   /\ a.n \in Nat /\ a.n <= Top.left
                   /\ Top.pos + a.n = Pos(src, d, n) + Extent(src, d, n)
<1>1. PICK d, n : /\ Top.iter = It(d, n) /\ Carried(src, d, n)
                  /\ Top.pos = Pos(src, d, n) + 1 /\ wire = WireType[PB_LTYPE(Top.iter.type)]
  BY WhileReading DEF OnTrack, AtValue
<1>2. PICK a : a = Second(src, d, n)
  OBVIOUS
<1>3. /\ Extent(src, d, n) = 1 + a.n /\ a.n \in Nat /\ a.n >= 1
  BY <1>1, <1>2, CarriedTakes, ItemsReadable, WhileReading
<1>4. PICK it : it = Top.iter
  OBVIOUS
<1>5. d \in Messages /\ n \in DOMAIN FieldList[d]
  BY <1>1 DEF Carried
<1>6. it.descriptor = d
  BY <1>1, <1>4, <1>5, PlaceInStruct, IterMembers DEF It
<1>7. Here(src, d) /\ Top.end = EndOf(src, dest, d) /\ Top.end <= dest
  BY <1>4, <1>6, TopReading
<1>8. /\ Top.pos \in Nat /\ Top.end \in Nat /\ Top.left \in Nat
      /\ Top.pos + Top.left = Top.end
  BY WhileReading DEF Reaches, IsFrame
<1>9. /\ Pos(src, d, n) + Extent(src, d, n) <= StartOf(src, d) + SizeOf(src, d)
      /\ Pos(src, d, n) \in Nat /\ StartOf(src, d) \in Nat /\ SizeOf(src, d) \in Nat
  BY <1>1, PosWithin
<1>10. CASE Top.left = 0
  <2>1. d = "MQTTMessage" /\ Top.pos = dest
    BY <1>1, <1>3, <1>7, <1>8, <1>9, <1>10 DEF EndOf
  <2>2. StartOf(src, d) = 0
    BY <1>5, <2>1, StartIs
  <2>3. dest # SizeOf(src, "MQTTMessage")
    BY <1>1, <1>3, <1>9, <2>1, <2>2
  <2>4. enc # "ok"
    BY <2>3, WhileReading, EncodedSize
  <2>5. enc = "failed"
    BY <2>4 DEF Reading, RoundInv, ReadInv
  <2> QED BY <1>1, <1>2, <1>4, <1>6, <1>7, <1>10, <2>5
<1>11. CASE Top.left > 0
  <2>1. Lies(out, Top.pos, a)
    <3>1. Pos(src, d, n) + 1 < dest
      BY <1>1, <1>7, <1>8, <1>11, WhileReading
    <3> QED BY <1>1, <1>2, <3>1, WhileReading DEF Placed
  <2>2. /\ at + 1 \in 1..Len(out) /\ Holds(out, at + 1) = Top.pos + a.n
        /\ \A any : Offered(a.k, any) = {a}
        /\ Top.pos + a.n <= dest
    BY <2>1, ItemNext
  <2>3. Top.pos + a.n = Pos(src, d, n) + Extent(src, d, n)
    BY <1>1, <1>3, <1>9
  <2>4. a.n <= Top.left
    <3>1. CASE d = "MQTTMessage"
      BY <1>3, <1>7, <1>8, <2>2, <3>1, WhileReading DEF EndOf
    <3>2. CASE d # "MQTTMessage"
      BY <1>3, <1>7, <1>8, <1>9, <2>3, <3>2 DEF EndOf
    <3> QED BY <3>1, <3>2
  <2>5. at + 1 \in 0..Len(out)
    BY <2>2, WhileReading
  <2> QED BY <1>1, <1>2, <1>3, <1>4, <1>6, <1>7, <1>11, <2>2, <2>3, <2>4, <2>5
<1> QED BY <1>8, <1>10, <1>11

\* The streams that are open when the innermost one reads on, when a submessage is
\* opened and when it is closed.
LEMMA OpenedTop ==
    ASSUME NEW s, NEW D, NEW fs, Chain(fs), Opened(s, D, fs), NEW f,
           f.iter.descriptor = fs[Len(fs)].iter.descriptor, f.end = fs[Len(fs)].end
    PROVE  Opened(s, D, Append(SubSeq(fs, 1, Len(fs) - 1), f))
<1> DEFINE t == Append(SubSeq(fs, 1, Len(fs) - 1), f)
<1>1. PICK F : fs \in Seq(F)
  BY DEF Chain
<1>2. Len(fs) \in Nat /\ Len(fs) >= 1
  BY <1>1, LenProperties DEF Chain
<1>3. /\ Len(t) = Len(fs)
      /\ \A i \in 1..(Len(fs) - 1) : t[i] = fs[i]
      /\ t[Len(fs)] = f
  BY <1>1, <1>2, AppendBelow
<1> HIDE DEF t
<1>4. ASSUME NEW i \in 1..Len(t) PROVE InFrame(s, D, t[i])
  <2>1. CASE i = Len(fs)
    <3>1. InFrame(s, D, fs[Len(fs)])
      BY <1>3, <2>1 DEF Opened
    <3> QED BY <1>3, <2>1, <3>1 DEF InFrame
  <2>2. CASE i # Len(fs)
    <3>1. i \in 1..(Len(fs) - 1) /\ i \in 1..Len(fs)
      BY <1>2, <1>3, <2>2
    <3> QED BY <1>3, <3>1 DEF Opened
  <2> QED BY <2>1, <2>2
<1>5. ASSUME NEW i \in 1..(Len(t) - 1) PROVE Held(t[i], t[i + 1])
  <2>1. i \in 1..(Len(fs) - 1) /\ Held(fs[i], fs[i + 1]) /\ t[i] = fs[i]
    BY <1>3 DEF Opened
  <2>2. CASE i = Len(fs) - 1
    <3>1. i + 1 = Len(fs)
      BY <1>2, <2>2
    <3> QED BY <1>3, <2>1, <3>1 DEF Held
  <2>3. CASE i # Len(fs) - 1
    <3>1. i + 1 \in 1..(Len(fs) - 1)
      BY <1>2, <2>1, <2>3
    <3> QED BY <1>3, <2>1, <3>1
  <2> QED BY <2>2, <2>3
<1> QED BY <1>4, <1>5 DEF Opened, t

\* A substream opened at the field that holds its message is opened rightly,
LEMMA OpenedPush ==
    ASSUME NEW s, NEW D, NEW fs, Chain(fs), Opened(s, D, fs), NEW f,
           f.iter = fs[Len(fs)].iter, f.end = fs[Len(fs)].end,
           NEW g, InFrame(s, D, g), Held(f, g)
    PROVE  Opened(s, D, SubSeq(fs, 1, Len(fs) - 1) \o <<f, g>>)
<1> DEFINE t == SubSeq(fs, 1, Len(fs) - 1) \o <<f, g>>
<1>1. PICK F : fs \in Seq(F)
  BY DEF Chain
<1>2. Len(fs) \in Nat /\ Len(fs) >= 1
  BY <1>1, LenProperties DEF Chain
<1>3. /\ Len(t) = Len(fs) + 1
      /\ \A i \in 1..(Len(fs) - 1) : t[i] = fs[i]
      /\ t[Len(fs)] = f /\ t[Len(t)] = g
  BY <1>1, <1>2, AppendTwo
<1> HIDE DEF t
<1>4. InFrame(s, D, fs[Len(fs)])
  <2>1. Len(fs) \in 1..Len(fs)
    BY <1>2
  <2> QED BY <2>1 DEF Opened
<1>5. ASSUME NEW i \in 1..Len(t) PROVE InFrame(s, D, t[i])
  <2>1. CASE i = Len(t)
    BY <1>3, <2>1
  <2>2. CASE i = Len(fs)
    BY <1>3, <1>4, <2>2 DEF InFrame
  <2>3. CASE i # Len(fs) /\ i # Len(t)
    <3>1. i \in 1..(Len(fs) - 1) /\ i \in 1..Len(fs)
      BY <1>2, <1>3, <2>3
    <3> QED BY <1>3, <3>1 DEF Opened
  <2> QED BY <2>1, <2>2, <2>3
<1>6. ASSUME NEW i \in 1..(Len(t) - 1) PROVE Held(t[i], t[i + 1])
  <2>1. CASE i = Len(fs)
    BY <1>3, <2>1
  <2>2. CASE i = Len(fs) - 1
    <3>1. i + 1 = Len(fs) /\ i \in 1..(Len(fs) - 1)
      BY <1>2, <1>3, <2>2
    <3>2. Held(fs[i], fs[Len(fs)]) /\ t[i] = fs[i] /\ t[i + 1] = f
      BY <1>3, <3>1 DEF Opened
    <3> QED BY <3>2 DEF Held
  <2>3. CASE i # Len(fs) - 1 /\ i # Len(fs)
    <3>1. i + 1 \in 1..(Len(fs) - 1) /\ i \in 1..(Len(fs) - 1)
      BY <1>2, <1>3, <2>3
    <3> QED BY <1>3, <3>1 DEF Opened
  <2> QED BY <2>1, <2>2, <2>3
<1> QED BY <1>5, <1>6 DEF Opened, t

\* and so are the streams below one that is closed.
LEMMA OpenedPop ==
    ASSUME NEW s, NEW D, NEW fs, Chain(fs), Len(fs) > 1, Opened(s, D, fs), NEW f,
           f.iter = fs[Len(fs) - 1].iter, f.end = fs[Len(fs) - 1].end,
           NEW below, below = SubSeq(fs, 1, Len(fs) - 1)
    PROVE  Opened(s, D, [below EXCEPT ![Len(below)] = f])
<1>1. PICK F : fs \in Seq(F)
  BY DEF Chain
<1>2. Len(fs) \in Nat /\ Len(fs) > 1
  BY <1>1, LenProperties
<1>3. PICK t : t = [below EXCEPT ![Len(below)] = f]
  OBVIOUS
<1>4. /\ Len(t) = Len(fs) - 1
      /\ \A i \in 1..(Len(fs) - 2) : t[i] = fs[i]
      /\ t[Len(fs) - 1] = f
  BY <1>1, <1>2, <1>3, UpdateBelow
<1>5. ASSUME NEW i \in 1..Len(t) PROVE InFrame(s, D, t[i])
  <2>1. CASE i = Len(fs) - 1
    <3>1. i \in 1..Len(fs)
      BY <1>2, <1>4
    <3>2. InFrame(s, D, fs[i])
      BY <3>1 DEF Opened
    <3> QED BY <1>4, <2>1, <3>2 DEF InFrame
  <2>2. CASE i # Len(fs) - 1
    <3>1. i \in 1..(Len(fs) - 2) /\ i \in 1..Len(fs)
      BY <1>2, <1>4, <2>2
    <3> QED BY <1>4, <3>1 DEF Opened
  <2> QED BY <2>1, <2>2
<1>6. ASSUME NEW i \in 1..(Len(t) - 1) PROVE Held(t[i], t[i + 1])
  <2>1. /\ i \in 1..(Len(fs) - 1) /\ i \in 1..(Len(fs) - 2)
        /\ Held(fs[i], fs[i + 1]) /\ t[i] = fs[i]
    <3>1. i \in 1..(Len(fs) - 1) /\ i \in 1..(Len(fs) - 2)
      BY <1>2, <1>4
    <3> QED BY <1>4, <3>1 DEF Opened
  <2>2. CASE i = Len(fs) - 2
    <3>1. i + 1 = Len(fs) - 1
      BY <1>2, <2>2
    <3>2. t[i + 1] = f /\ f.iter = fs[i + 1].iter
      BY <1>4, <3>1
    <3> QED BY <2>1, <3>2 DEF Held
  <2>3. CASE i # Len(fs) - 2
    <3>1. i + 1 \in 1..(Len(fs) - 2)
      BY <1>2, <2>1, <2>3
    <3> QED BY <1>4, <2>1, <3>1
  <2> QED BY <2>2, <2>3
<1> QED BY <1>3, <1>5, <1>6 DEF Opened

\* The decoder goes on, with f the innermost stream.
LEMMA ReadsOnTrack ==
    ASSUME Reading, UNCHANGED encVars, UNCHANGED <<input, len>>, FieldInv',
           NEW f, stack'[Len(stack')] = f,
           at' \in 0..Len(out), Holds(out, at') = f.pos,
           StartsFromZeros(mem'), Shown(src, mem', f.pos), Opened(src, dest, stack'),
           \/ pc' \in {"tag", "ok"} /\ Between(src, f)
           \/ pc' = "field" /\ AtValue(src, f, wire')
    PROVE  ReadInv'
<1>1. ReadInv /\ pc # "idle"
  BY DEF Reading, RoundInv
<1>2. Top' = f
  BY DEF Top
<1>3. UNCHANGED <<src, out, dest, enc>>
  BY DEF encVars
<1>4. OnTrack'
  BY <1>2, <1>3 DEF OnTrack
<1> QED BY <1>1, <1>3, <1>4 DEF ReadInv

\* Every step of the decoder keeps what PbDecodeProofs says of its streams and iterators.
LEMMA DecodeKeepsFields ==
    ASSUME Reading, Next
    PROVE  FieldInv'
BY WhileReading, FieldInvNext

\* A tag that is read is the tag of the next field that was written: the search finds
\* the field, and it is known.
LEMMA ReadTagOnTrack ==
    ASSUME Reading, ReadTag, UNCHANGED encVars
    PROVE  ReadInv'
<1>1. pc = "tag" /\ Top.left > 0 /\ UNCHANGED <<input, len, mem>>
  BY DEF ReadTag
<1>2. PICK d, m, a :
             /\ Carried(src, d, m) /\ Top.iter.descriptor = d
             /\ Top.pos = Pos(src, d, m) /\ a = TagOf(It(d, m))
             /\ a = TagItem(m, WireType[PB_LTYPE(It(d, m).type)], 1)
             /\ at + 1 \in 0..Len(out) /\ Holds(out, at + 1) = Top.pos + 1
             /\ \A any : Offered("tag", any) = {a}
  BY <1>1, TagThere
<1>3. PICK it : it = It(d, m)
  OBVIOUS
<1>4. a.tag = m /\ a.n = 1 /\ a.wire = WireType[PB_LTYPE(it.type)]
  BY <1>2, <1>3 DEF TagItem
<1>5. d \in Messages /\ m \in DOMAIN FieldList[d]
  BY <1>2 DEF Carried
<1>6. PICK count \in 2..6 : Len(FieldList[d]) = count /\ DOMAIN FieldList[d] = 1..count
  BY <1>5, CountOf
<1>7. m \in Nat \ {0} /\ m <= count
  BY <1>5, <1>6
<1>8. PICK search : search = pb_field_iter_find(Top.iter, m)
  OBVIOUS
<1>9. search.found /\ search.iter = it
  <2>1. PICK e \in Messages : \E n \in DOMAIN FieldList[e] :
          Top.iter = It(e, n) /\ Top.iter.descriptor = e
    BY TopReading
  <2>2. PICK n \in 1..count : Top.iter = It(d, n)
    BY <1>2, <1>6, <2>1
  <2>3. PICK message \in Int : message = Place[d]
    BY <1>5, PlaceInStruct
  <2>4. pb_field_iter_find(IterAt(d, message, n), m)
          = [iter |-> IF m <= count THEN IterAt(d, message, m) ELSE IterAt(d, message, n),
             found |-> m <= count]
    <3>1. Len(FieldList[d]) = count
      BY <1>6
    <3> QED BY <1>5, <1>7, <3>1, EachFieldIsFound
  <2>5. PICK here, there : here = IterAt(d, message, m) /\ there = IterAt(d, message, n)
    OBVIOUS
  <2>6. search = [iter |-> IF m <= count THEN here ELSE there, found |-> m <= count]
    BY <1>8, <2>2, <2>3, <2>4, <2>5, Zenon DEF It
  <2>7. search.found /\ search.iter = here
    BY <1>7, <2>6
  <2> QED BY <1>3, <2>3, <2>5, <2>7, Zenon DEF It
<1>10. PICK f : f = [pb_read(Top, 1) EXCEPT !.iter = it]
  OBVIOUS
<1>11. Reads(a, f) /\ wire' = a.wire /\ pc' = "field"
  <2>1. PICK i \in Offered("tag", TagItems) :
             LET find == pb_field_iter_find(Top.iter, i.tag)
             IN  /\ Reads(i, [pb_read(Top, i.n) EXCEPT !.iter =
                                  IF find.found THEN find.iter
                                  ELSE pb_field_iter_find_extension(find.iter)])
                 /\ wire' = i.wire
                 /\ pc' = IF find.found THEN "field" ELSE "unknown"
    <3>1. ~Unreadable
      BY <1>1, WhileReading DEF Unreadable
    <3>2. ~ \E i \in Offered("tag", {}) : i.tag = 0
      BY <1>2, <1>4, <1>7
    <3>3. ~Misread("tag")
      <4>1. Top.left \in Nat
        BY WhileReading DEF IsFrame
      <4>2. a \in Offered("tag", {})
        BY <1>2
      <4> QED BY <1>1, <1>4, <4>1, <4>2 DEF Misread
    <3> QED BY <3>1, <3>2, <3>3, Zenon DEF ReadTag
  <2>2. i = a
    BY <1>2
  <2>3. pb_field_iter_find(Top.iter, i.tag) = search
    BY <1>4, <1>8, <2>2
  <2>4. /\ Reads(a, [pb_read(Top, 1) EXCEPT !.iter = IF search.found THEN search.iter
                              ELSE pb_field_iter_find_extension(search.iter)])
        /\ wire' = a.wire /\ pc' = IF search.found THEN "field" ELSE "unknown"
    BY <1>4, <2>1, <2>2, <2>3, Zenon
  <2> QED BY <1>9, <1>10, <2>4, Zenon
<1>12. f.pos = Top.pos + 1 /\ f.end = Top.end /\ f.iter = it
  <2>1. 1 <= Top.left
    BY <1>1, WhileReading DEF IsFrame
  <2>2. PICK r : r = pb_read(Top, 1)
    OBVIOUS
  <2>3. IsFrame(r) /\ r.end = Top.end /\ r.pos = Top.pos + 1
    BY <2>1, <2>2, WhileReading, ReadFrame
  <2> QED BY <1>10, <2>2, <2>3 DEF IsFrame
<1>13. stack' = Append(SubSeq(stack, 1, Len(stack) - 1), f) /\ at' = at + 1
  BY <1>11 DEF Reads, Below
<1>14. it.descriptor = d
  BY <1>3, <1>5, PlaceInStruct, IterMembers DEF It
<1>15. Opened(src, dest, stack')
  <2>1. f.iter.descriptor = Top.iter.descriptor
    BY <1>2, <1>12, <1>14
  <2> QED BY <1>12, <1>13, <2>1, WhileReading, OpenedTop DEF OnTrack
<1>16. stack'[Len(stack')] = f
  <2>1. PICK F : stack \in Seq(F)
    BY WhileReading DEF Chain
  <2> QED BY <1>13, <2>1, WhileReading, AppendBelow
<1>17. /\ StartsFromZeros(mem') /\ Shown(src, mem', f.pos)
       /\ at' \in 0..Len(out) /\ Holds(out, at') = f.pos
  <2>1. Top.pos \in Nat /\ f.pos \in Nat /\ Top.pos <= f.pos
    BY <1>12, WhileReading DEF IsFrame
  <2>2. NoneBetween(src, Top.pos, f.pos)
    <3>1. Extent(src, d, m) \in Nat
      BY <1>2, CarriedTakes
    <3> QED BY <1>2, <1>12, <2>1, NoneInField
  <2>3. StartsFromZeros(mem) /\ Shown(src, mem, Top.pos)
    BY WhileReading DEF OnTrack
  <2>4. Shown(src, mem, f.pos)
    BY <2>2, <2>3, ShownOn
  <2> QED BY <1>1, <1>2, <1>12, <1>13, <2>3, <2>4
<1>18. AtValue(src, f, wire')
  BY <1>2, <1>3, <1>4, <1>11, <1>12 DEF AtValue
<1>19. FieldInv'
  BY DecodeKeepsFields DEF Next
<1> QED BY <1>1, <1>11, <1>15, <1>16, <1>17, <1>18, <1>19, ReadsOnTrack

\* What can be found after a tag is of the field's wire type.
LEMMA WrongWireNever ==
    ASSUME Reading
    PROVE  ~WrongWire /\ ~SkipField
<1>1. pc = "field" => FieldHasWire
  BY SecondThere DEF FieldHasWire
<1> QED BY <1>1 DEF Reading, WrongWire, SkipField

\* The buffer ended with a tag.
LEMMA StopsOnTrack ==
    ASSUME Reading, UNCHANGED encVars, UNCHANGED <<input, len>>, FieldInv',
           enc = "failed", Stops("failed")
    PROVE  ReadInv'
<1>1. ReadInv /\ pc # "idle"
  BY DEF Reading, RoundInv
<1>2. UNCHANGED <<src, out, dest, enc>> /\ pc' = "failed"
  BY DEF encVars, Stops
<1> QED BY <1>1, <1>2 DEF ReadInv

\* pb_decode returns with the bytes all read.
LEMMA ReturnOnTrack ==
    ASSUME Reading, Return, UNCHANGED encVars
    PROVE  ReadInv'
<1>1. pc = "tag" /\ pc' = "ok" /\ UNCHANGED <<input, at, len, stack, wire, mem>>
  BY DEF Return
<1>2. FieldInv'
  BY DecodeKeepsFields DEF Next
<1>3. OnTrack /\ Top = stack[Len(stack)]
  BY WhileReading
<1> QED BY <1>1, <1>2, <1>3, ReadsOnTrack DEF OnTrack

\* Nothing that was written fits where no byte is left.
LEMMA NothingFits ==
    ASSUME Reading, Top.left = 0, NEW k, NEW any, NEW i \in Offered(k, any)
    PROVE  ~Enough(i.n)
<1>1. PICK j \in DOMAIN out : i = out[j]
  BY WhileReading DEF Offered
<1>2. PICK F : out \in Seq(F)
  BY WhileReading DEF EncodeInv, EncTypeInv
<1>3. j \in 1..Len(out)
  BY <1>1, <1>2
<1>4. i.n \in Nat /\ i.n >= 1
  BY <1>1, <1>3, WhileReading DEF WrittenItems, IsItem
<1> QED BY <1>4 DEF Enough

\* The field that a value is read for.
LEMMA LeafAt ==
    ASSUME NEW d \in Messages, NEW n \in DOMAIN FieldList[d], NEW it, it = It(d, n),
           ~PB_LTYPE_IS_SUBMSG(it.type)
    PROVE  /\ IsLeaf(d, n, it.pData, it.data_size)
           /\ FieldList[d][n].ltype # "MESSAGE"
           /\ \A m \in StructType : decode_static_field(m, it) = m
<1>1. PICK f : f = FieldList[d][n]
  OBVIOUS
<1>2. /\ it.type = Type(f) /\ IsField(f)
      /\ it.pData = Place[d] + f.offset /\ it.data_size = f.size
      /\ it.pSize = IF f.delta = 0 THEN NoAddress ELSE Place[d] + f.offset - f.delta
  BY <1>1, PlaceInStruct, IterMembers DEF It
<1>3. f.ltype # "MESSAGE"
  BY <1>2, TypeParts
<1>4. f.htype # "ONEOF" /\ f.delta = 0
  <2>1. f.sub = NULL
    BY <1>2, <1>3 DEF IsField
  <2> QED BY <1>1, <2>1, FieldTable DEF NULL
<1>5. PB_HTYPE(it.type) # PB_HTYPE_ONEOF /\ it.pSize = NoAddress
  BY <1>2, <1>4, HTypeOf
<1>6. \A m \in StructType : decode_static_field(m, it) = m
  BY <1>5, StaticPlain
<1> QED BY <1>1, <1>2, <1>3, <1>6 DEF IsLeaf

\* A value that is read is the value that was written, and is seen from then on.
LEMMA DecodeValueOnTrack ==
    ASSUME Reading, DecodeValue, UNCHANGED encVars
    PROVE  ReadInv'
<1>1. /\ pc = "field" /\ ~PB_LTYPE_IS_SUBMSG(Top.iter.type)
      /\ UNCHANGED <<input, len>>
  BY DEF DecodeValue
<1>2. PICK d, n, a :
             /\ Top.iter = It(d, n) /\ Carried(src, d, n) /\ a = Second(src, d, n)
             /\ Top.pos = Pos(src, d, n) + 1 /\ wire = WireType[PB_LTYPE(Top.iter.type)]
             /\ Top.iter.descriptor = d /\ Here(src, d) /\ Top.end = EndOf(src, dest, d)
             /\ \/ Top.left = 0 /\ enc = "failed"
                \/ /\ Top.left > 0
                   /\ at + 1 \in 0..Len(out) /\ Holds(out, at + 1) = Pos(src, d, n) + Extent(src, d, n)
                   /\ \A any : Offered(a.k, any) = {a}
                   /\ a.n \in Nat /\ a.n <= Top.left
                   /\ Top.pos + a.n = Pos(src, d, n) + Extent(src, d, n)
  BY <1>1, SecondThere
<1>3. FieldInv'
  BY DecodeKeepsFields DEF Next
<1>4. PICK it : it = Top.iter
  OBVIOUS
<1>5. d \in Messages /\ n \in DOMAIN FieldList[d] /\ it = It(d, n)
  BY <1>2, <1>4 DEF Carried
<1>6. PICK A, size : A = it.pData /\ size = it.data_size
  OBVIOUS
<1>7. /\ IsLeaf(d, n, A, size) /\ FieldList[d][n].ltype # "MESSAGE"
      /\ decode_static_field(mem, it) = mem
  <2>1. mem \in StructType
    BY WhileReading DEF FieldInv, DecTypes
  <2>2. ~PB_LTYPE_IS_SUBMSG(it.type)
    BY <1>1, <1>4
  <2>3. /\ IsLeaf(d, n, it.pData, it.data_size) /\ FieldList[d][n].ltype # "MESSAGE"
        /\ \A m \in StructType : decode_static_field(m, it) = m
    BY <1>5, <2>2, LeafAt
  <2> QED BY <1>6, <2>1, <2>3
<1>8. a.k = "val" /\ a.v = src[A]
  <2>1. PICK k \in Nat : a = ValItem(src[A], k)
    BY <1>2, <1>5, <1>6, <1>7, WhileReading, ItemsOf
  <2> QED BY <2>1 DEF ValItem
<1>9. CASE Top.left = 0
  <2>1. ~ \E i \in Offered("val", ValItems(wire)) : Reads(i, pb_read(Top, i.n))
    BY <1>9, NothingFits DEF Reads
  <2>2. input # Elsewhere /\ ~Misread("val")
    BY <1>9, WhileReading DEF Misread
  <2>3. Stops("failed")
    BY <2>1, <2>2, Zenon DEF DecodeValue
  <2>4. enc = "failed"
    BY <1>2, <1>9
  <2> QED BY <1>1, <1>3, <2>3, <2>4, StopsOnTrack
<1>10. CASE Top.left > 0
  <2>1. /\ at + 1 \in 0..Len(out) /\ Holds(out, at + 1) = Pos(src, d, n) + Extent(src, d, n)
        /\ \A any : Offered("val", any) = {a}
        /\ a.n \in Nat /\ a.n <= Top.left
        /\ Top.pos + a.n = Pos(src, d, n) + Extent(src, d, n)
    <3>1. ~(Top.left = 0)
      BY <1>10
    <3> QED BY <1>2, <1>8, <3>1, Zenon
  <2>2. PICK f : f = pb_read(Top, a.n)
    OBVIOUS
  <2>3. /\ Reads(a, f) /\ pc' = "tag"
        /\ mem' = Put(mem, Span(A, size), src[A])
    <3>1. ~Unreadable /\ input # Elsewhere
      BY <1>10, WhileReading DEF Unreadable
    <3>2. ~Misread("val")
      <4>1. Top.left \in Nat
        BY WhileReading DEF IsFrame
      <4>2. a \in Offered("val", {})
        BY <2>1
      <4> QED BY <2>1, <4>1, <4>2 DEF Misread
    <3>3. PICK i \in Offered("val", ValItems(wire)) :
            /\ Reads(i, pb_read(Top, i.n)) /\ pc' = "tag"
            /\ mem' = Put(decode_static_field(mem, Top.iter),
                          Span(Top.iter.pData, Top.iter.data_size), i.v)
      BY <3>1, <3>2, Zenon DEF DecodeValue
    <3>4. i = a
      BY <2>1
    <3> QED BY <1>4, <1>6, <1>7, <1>8, <2>2, <3>3, <3>4, Zenon
  <2>4. /\ f.pos = Top.pos + a.n /\ f.end = Top.end /\ f.iter = it
    BY <1>4, <2>1, <2>2, WhileReading, ReadFrame, ReadKeepsIter
  <2>5. stack' = Append(SubSeq(stack, 1, Len(stack) - 1), f) /\ at' = at + 1
    BY <2>3 DEF Reads, Below
  <2>6. Opened(src, dest, stack')
    BY <1>4, <2>4, <2>5, WhileReading, OpenedTop DEF OnTrack
  <2>7. stack'[Len(stack')] = f
    <3>1. PICK F : stack \in Seq(F)
      BY WhileReading DEF Chain
    <3> QED BY <2>5, <3>1, WhileReading, AppendBelow
  <2>8. StartsFromZeros(mem') /\ Shown(src, mem', f.pos)
    <3>1. mem \in StructType /\ StartsFromZeros(mem) /\ Shown(src, mem, Top.pos)
      BY WhileReading DEF OnTrack, FieldInv, DecTypes
    <3>2. PICK P, Q, m2 : P = Top.pos /\ Q = f.pos /\ m2 = mem'
      OBVIOUS
    <3>3. P = Pos(src, d, n) + 1 /\ Q = Pos(src, d, n) + Extent(src, d, n)
      BY <1>2, <2>1, <2>4, <3>2
    <3>4. Shown(src, m2, Q) /\ StartsFromZeros(m2)
      BY <1>2, <1>7, <2>3, <3>1, <3>2, <3>3, ShownValue
    <3> QED BY <3>2, <3>4
  <2>9. Between(src, f)
    <3>1. f.pos = StartOf(src, d) + UpTo(src, d, n)
      <4>1. Extent(src, d, n) = Bytes(src, d, n)
        BY <1>7 DEF Extent
      <4>2. Pos(src, d, n) + Bytes(src, d, n) = StartOf(src, d) + UpTo(src, d, n)
        BY <1>2, PosWithin
      <4> QED BY <2>1, <2>4, <4>1, <4>2
    <3>2. n \in 0..Len(FieldList[d])
      BY <1>5, CountOf
    <3>3. f.iter.descriptor = d
      BY <1>2, <1>4, <2>4
    <3> QED BY <3>1, <3>2, <3>3 DEF Between
  <2>10. at' \in 0..Len(out) /\ Holds(out, at') = f.pos
    BY <2>1, <2>4, <2>5
  <2> QED BY <1>1, <1>3, <2>3, <2>6, <2>7, <2>8, <2>9, <2>10, ReadsOnTrack
<1> QED BY <1>9, <1>10, WhileReading DEF IsFrame

\* The field that a submessage is opened for.
LEMMA OpenedAt ==
    ASSUME NEW d \in Messages, NEW n \in DOMAIN FieldList[d], NEW it, it = It(d, n),
           PB_LTYPE_IS_SUBMSG(it.type), NEW f, f = FieldList[d][n], NEW e, e = f.sub
    PROVE  /\ f.ltype = "MESSAGE" /\ it.submsg_desc = e
           /\ e \in Messages /\ e # "MQTTMessage"
           /\ Holder[e] = <<d, n>> /\ Holder[e][1] = d /\ Holder[e][2] = n
<1>1. it.type = Type(f) /\ IsField(f) /\ it.submsg_desc = f.sub
  BY PlaceInStruct, IterMembers DEF It
<1>2. f.ltype = "MESSAGE"
  BY <1>1, TypeParts
<1>3. e \in Messages /\ e # "MQTTMessage" /\ Holder[e] = <<d, n>>
  BY <1>2, HeldBy
<1>4. Holder[e][1] = d /\ Holder[e][2] = n
  BY <1>3
<1> QED BY <1>1, <1>2, <1>3, <1>4

\* The streams of a submessage whose bytes were all sent; if they were not, it is
\* in the outermost message, which is cut.
LEMMA StreamsOf ==
    ASSUME NEW s, NEW D \in Nat, NEW e \in Messages, e # "MQTTMessage", Here(s, e),
           NEW d, NEW n, d = Holder[e][1], n = Holder[e][2],
           NEW fr, IsFrame(fr), Reaches(fr), fr.pos = StartOf(s, e),
           fr.end = EndOf(s, D, d), fr.end <= D,
           NEW size, size = SizeOf(s, e), NEW iter, iter.descriptor = e,
           NEW streams, streams = pb_make_string_substream(fr, size, iter)
    PROVE  \/ streams = <<>> /\ D # SizeOf(s, "MQTTMessage")
           \/ \E parent, sub :
                /\ streams = <<parent, sub>>
                /\ parent.iter = fr.iter /\ parent.end = fr.end
                /\ sub.iter = iter /\ sub.pos = fr.pos /\ InFrame(s, D, sub)
<1>1. /\ Carried(s, d, n)
      /\ StartOf(s, e) + SizeOf(s, e) = StartOf(s, d) + UpTo(s, d, n)
  BY BytesNested
<1>2. d \in Messages /\ n \in DOMAIN FieldList[d]
  BY <1>1 DEF Carried
<1>3. UpTo(s, d, n) <= SizeOf(s, d) /\ UpTo(s, d, n) \in Nat /\ SizeOf(s, d) \in Nat
  <2>1. Takes(s, d, 73)
    BY <1>2, AllTake
  <2>2. PICK most \in 0..73 : most = SizeOf(s, d)
    BY <2>1 DEF Takes
  <2>3. UpTo(s, d, n) \in 0..most
    BY <1>2, <2>1, <2>2 DEF Takes
  <2> QED BY <2>2, <2>3
<1>4. size \in Nat /\ StartOf(s, d) \in Nat
  <2>1. size \in 0..73
    BY AllTake DEF Takes
  <2>2. size \in Nat
    BY <2>1
  <2> QED BY <1>2, <2>2, StartIs
<1>5. fr.pos \in Nat /\ fr.left \in Nat /\ fr.end \in Nat /\ fr.pos + fr.left = fr.end
  BY DEF IsFrame, Reaches
<1>6. CASE fr.left < size
  <2>1. streams = <<>>
    BY <1>6 DEF pb_make_string_substream
  <2>2. fr.end < StartOf(s, d) + SizeOf(s, d)
    BY <1>1, <1>3, <1>4, <1>5, <1>6
  <2>3. d = "MQTTMessage" /\ fr.end = D
    BY <1>3, <1>4, <1>5, <2>2 DEF EndOf
  <2>4. StartOf(s, d) = 0
    BY <1>2, <2>3, StartIs
  <2> QED BY <1>3, <2>1, <2>2, <2>3, <2>4
<1>7. CASE ~(fr.left < size)
  <2>1. pb_make_string_substream(fr, size, iter) # <<>>
    BY <1>7 DEF pb_make_string_substream
  <2>2. PICK parent, sub : /\ parent = [fr EXCEPT !.left = @ - size]
                           /\ sub = Frame(iter, fr.pos, size)
    OBVIOUS
  <2>3. streams = <<parent, sub>> /\ parent.end = fr.end
    <3>1. /\ pb_make_string_substream(fr, size, iter) = <<parent, sub>>
          /\ parent.end = fr.end
      BY <1>4, <2>1, <2>2, Substream
    <3> QED BY <3>1
  <2>4. parent.iter = fr.iter
    <3>1. PICK left : left = fr.left - size
      OBVIOUS
    <3>2. parent = [fr EXCEPT !.left = left]
      BY <2>2, <3>1
    <3> QED BY <3>2 DEF IsFrame
  <2>5. sub.iter = iter /\ sub.pos = fr.pos /\ sub.end = fr.pos + size
    <3>1. PICK end : end = fr.pos + size
      OBVIOUS
    <3>2. sub = [iter |-> iter, pos |-> fr.pos, left |-> size, end |-> end]
      BY <2>2, <3>1 DEF Frame
    <3> QED BY <3>1, <3>2
  <2>6. sub.end <= D
    BY <1>4, <1>5, <1>7, <2>5
  <2>7. sub.end = EndOf(s, D, e)
    BY <2>5 DEF EndOf
  <2>8. InFrame(s, D, sub)
    BY <2>5, <2>6, <2>7 DEF InFrame
  <2> QED BY <2>3, <2>4, <2>5, <2>8
<1> QED BY <1>6, <1>7

\* The size that is read is the one that was written: only a message that was cut ends
\* before its submessage does, and that one is refused.
LEMMA OpenSubmessageOnTrack ==
    ASSUME Reading, OpenSubmessage, UNCHANGED encVars
    PROVE  ReadInv'
<1>1. /\ pc = "field" /\ PB_LTYPE_IS_SUBMSG(Top.iter.type)
      /\ UNCHANGED <<input, len>> /\ mem' = decode_static_field(mem, Top.iter)
  BY DEF OpenSubmessage
<1>2. PICK d, n, a :
             /\ Top.iter = It(d, n) /\ Carried(src, d, n) /\ a = Second(src, d, n)
             /\ Top.pos = Pos(src, d, n) + 1 /\ wire = WireType[PB_LTYPE(Top.iter.type)]
             /\ Top.iter.descriptor = d /\ Here(src, d) /\ Top.end = EndOf(src, dest, d)
             /\ \/ Top.left = 0 /\ enc = "failed"
                \/ /\ Top.left > 0
                   /\ at + 1 \in 0..Len(out) /\ Holds(out, at + 1) = Pos(src, d, n) + Extent(src, d, n)
                   /\ \A any : Offered(a.k, any) = {a}
                   /\ a.n \in Nat /\ a.n <= Top.left
                   /\ Top.pos + a.n = Pos(src, d, n) + Extent(src, d, n)
  BY <1>1, SecondThere
<1>3. FieldInv'
  BY DecodeKeepsFields DEF Next
<1>4. PICK it : it = Top.iter
  OBVIOUS
<1>5. d \in Messages /\ n \in DOMAIN FieldList[d] /\ it = It(d, n)
  BY <1>2, <1>4 DEF Carried
<1>6. PICK e : e = FieldList[d][n].sub
  OBVIOUS
<1>7. /\ FieldList[d][n].ltype = "MESSAGE" /\ it.submsg_desc = e
      /\ e \in Messages /\ e # "MQTTMessage"
      /\ Holder[e] = <<d, n>> /\ Holder[e][1] = d /\ Holder[e][2] = n
  <2>1. PB_LTYPE_IS_SUBMSG(it.type)
    BY <1>1, <1>4
  <2>2. PICK f : f = FieldList[d][n]
    OBVIOUS
  <2>3. e = f.sub
    BY <1>6, <2>2
  <2>4. /\ f.ltype = "MESSAGE" /\ it.submsg_desc = e
        /\ e \in Messages /\ e # "MQTTMessage"
        /\ Holder[e] = <<d, n>> /\ Holder[e][1] = d /\ Holder[e][2] = n
    BY <1>5, <2>1, <2>2, <2>3, OpenedAt
  <2> QED BY <2>2, <2>4, Zenon
<1>8. Here(src, e) /\ StartOf(src, e) = Pos(src, d, n) + 2 /\ Extent(src, d, n) = 2
  <2>1. Here(src, e)
    BY <1>2, <1>5, <1>6, <1>7, HereIfHeld DEF Carried
  <2>2. StartOf(src, e) = Pos(src, d, n) + 2
    BY <1>7, <2>1, BytesNested
  <2> QED BY <1>7, <2>1, <2>2 DEF Extent
<1>9. a.k = "len" /\ a.size = SizeOf(src, e) /\ a.n = 1
  <2>1. a = LenItem(SizeOf(src, e), 1)
    BY <1>2, <1>5, <1>6, <1>7, WhileReading, ItemsOf
  <2> QED BY <2>1 DEF LenItem
<1>10. PICK iter : iter = pb_field_iter_begin(Top.iter.submsg_desc, Top.iter.pData)
  OBVIOUS
<1>11. iter.descriptor = e
  BY <1>1, <1>4, <1>7, <1>10, WhileReading, SubmessageDescriptor
<1>12. CASE Top.left = 0
  <2>1. ~ \E i \in Offered("len", LenItems) : Enough(i.n)
    BY <1>12, NothingFits
  <2>2. ~Misread("len")
    BY <1>12 DEF Misread
  <2>3. Stops("failed")
    BY <2>1, <2>2, Zenon DEF OpenSubmessage
  <2>4. enc = "failed"
    BY <1>2, <1>12
  <2> QED BY <1>1, <1>3, <2>3, <2>4, StopsOnTrack
<1>13. CASE Top.left > 0
  <2>1. /\ at + 1 \in 0..Len(out) /\ Holds(out, at + 1) = Pos(src, d, n) + 2
        /\ \A any : Offered("len", any) = {a}
        /\ 1 <= Top.left
    <3>1. ~(Top.left = 0)
      BY <1>13
    <3> QED BY <1>2, <1>8, <1>9, <3>1, Zenon
  <2>2. PICK fr : fr = pb_read(Top, 1)
    OBVIOUS
  <2>3. PICK streams : streams = pb_make_string_substream(fr, SizeOf(src, e), iter)
    OBVIOUS
  <2>4. /\ Enough(1)
        /\ IF streams = <<>> THEN Stops("failed")
           ELSE /\ stack' = Below \o streams /\ at' = at + 1 /\ pc' = "tag" /\ UNCHANGED wire
    <3>1. ~Unreadable
      BY <1>13, WhileReading DEF Unreadable
    <3>2. ~Misread("len")
      <4>1. Top.left \in Nat
        BY WhileReading DEF IsFrame
      <4>2. a \in Offered("len", {})
        BY <2>1
      <4> QED BY <1>9, <2>1, <4>1, <4>2 DEF Misread
    <3>3. PICK i \in Offered("len", LenItems) :
            LET there == pb_make_string_substream(pb_read(Top, i.n), i.size, iter)
            IN  /\ Enough(i.n)
                /\ IF there = <<>> THEN Stops("failed")
                   ELSE /\ stack' = Below \o there
                        /\ at' = at + 1 /\ pc' = "tag" /\ UNCHANGED wire
      BY <1>10, <3>1, <3>2, Zenon DEF OpenSubmessage
    <3>4. i = a
      BY <2>1
    <3>5. pb_make_string_substream(pb_read(Top, i.n), i.size, iter) = streams
      BY <1>9, <2>2, <2>3, <3>4
    <3> QED BY <1>9, <3>3, <3>4, <3>5, Zenon
  <2>5. /\ IsFrame(fr) /\ Reaches(fr) /\ fr.pos = StartOf(src, e)
        /\ fr.end = Top.end /\ fr.iter = it
    <3>1. /\ IsFrame(fr) /\ fr.end = Top.end /\ fr.pos = Top.pos + 1 /\ fr.left = Top.left - 1
          /\ fr.iter = it
      BY <1>4, <2>1, <2>2, WhileReading, ReadFrame, ReadKeepsIter
    <3>2. Pos(src, d, n) \in Nat
      BY <1>2, PosWithin
    <3> QED BY <1>2, <1>8, <3>1, <3>2, WhileReading DEF Reaches, IsFrame
  <2>6. fr.end = EndOf(src, dest, d) /\ fr.end <= dest
    BY <1>2, <2>5, TopReading
  <2>7. \/ streams = <<>> /\ dest # SizeOf(src, "MQTTMessage")
        \/ \E parent, sub :
                /\ streams = <<parent, sub>>
                /\ parent.iter = fr.iter /\ parent.end = fr.end
                /\ sub.iter = iter /\ sub.pos = fr.pos /\ InFrame(src, dest, sub)
    BY <1>7, <1>8, <1>11, <2>3, <2>5, <2>6, WhileReading, StreamsOf
  <2>8. CASE streams = <<>> /\ dest # SizeOf(src, "MQTTMessage")
    <3>1. enc # "ok"
      BY <2>8, WhileReading, EncodedSize
    <3>2. enc = "failed"
      BY <3>1 DEF Reading, RoundInv, ReadInv
    <3>3. Stops("failed")
      BY <2>4, <2>8
    <3> QED BY <1>1, <1>3, <3>2, <3>3, StopsOnTrack
  <2>9. CASE \E parent, sub :
                /\ streams = <<parent, sub>>
                /\ parent.iter = fr.iter /\ parent.end = fr.end
                /\ sub.iter = iter /\ sub.pos = fr.pos /\ InFrame(src, dest, sub)
    <3>1. PICK parent, sub :
                /\ streams = <<parent, sub>>
                /\ parent.iter = fr.iter /\ parent.end = fr.end
                /\ sub.iter = iter /\ sub.pos = fr.pos /\ InFrame(src, dest, sub)
      BY <2>9
    <3>2. /\ stack' = SubSeq(stack, 1, Len(stack) - 1) \o <<parent, sub>>
          /\ at' = at + 1 /\ pc' = "tag"
      <4>1. streams # <<>>
        BY <3>1
      <4> QED BY <2>4, <3>1, <4>1 DEF Below
    <3>3. Opened(src, dest, stack')
      <4>1. Held(parent, sub)
        BY <1>5, <1>7, <1>11, <2>5, <3>1, Zenon DEF Held
      <4>2. parent.iter = stack[Len(stack)].iter /\ parent.end = stack[Len(stack)].end
        BY <1>4, <2>5, <3>1, WhileReading
      <4>3. Chain(stack) /\ Opened(src, dest, stack)
        BY WhileReading DEF OnTrack
      <4> QED BY <3>1, <3>2, <4>1, <4>2, <4>3, OpenedPush
    <3>4. stack'[Len(stack')] = sub
      <4>1. PICK F : stack \in Seq(F)
        BY WhileReading DEF Chain
      <4> QED BY <3>2, <4>1, WhileReading, AppendTwo
    <3>5. StartsFromZeros(mem') /\ Shown(src, mem', sub.pos)
      <4>1. mem \in StructType /\ StartsFromZeros(mem) /\ Shown(src, mem, Top.pos)
        BY WhileReading DEF OnTrack, FieldInv, DecTypes
      <4>2. PICK P, Q, m2 : P = Top.pos /\ Q = sub.pos /\ m2 = mem'
        OBVIOUS
      <4>3. P = Pos(src, d, n) + 1 /\ Q = Pos(src, d, n) + 2
        BY <1>2, <1>8, <2>5, <3>1, <4>2
      <4>4. m2 = decode_static_field(mem, It(d, n))
        BY <1>1, <1>2, <4>2
      <4>5. Shown(src, m2, Q) /\ StartsFromZeros(m2)
        BY <1>2, <1>6, <1>7, <4>1, <4>2, <4>3, <4>4, ShownStarted
      <4> QED BY <4>2, <4>5
    <3>6. Between(src, sub)
      <4>1. UpTo(src, e, 0) = 0 /\ Len(FieldList[e]) \in Nat /\ StartOf(src, e) \in Nat
        <5>1. PICK count \in 2..6 : Len(FieldList[e]) = count
          BY <1>7, CountOf
        <5>2. UpTo(src, e, 0) = 0
          BY <1>7, <5>1, UpToGrows
        <5>3. StartOf(src, e) \in Nat
          BY <1>7, StartIs
        <5> QED BY <5>1, <5>2, <5>3
      <4>2. sub.pos = StartOf(src, e) + UpTo(src, e, 0)
        BY <2>5, <3>1, <4>1
      <4>3. 0 \in 0..Len(FieldList[e]) /\ sub.iter.descriptor = e
        BY <1>11, <3>1, <4>1
      <4> QED BY <4>2, <4>3 DEF Between
    <3>7. at' \in 0..Len(out) /\ Holds(out, at') = sub.pos
      BY <1>8, <2>1, <2>5, <3>1, <3>2
    <3> QED BY <1>1, <1>3, <3>2, <3>3, <3>4, <3>5, <3>6, <3>7, ReadsOnTrack
  <2> QED BY <2>7, <2>8, <2>9
<1> QED BY <1>12, <1>13, WhileReading DEF IsFrame

\* A submessage that ends was read to the byte, and its holder goes on behind it.
LEMMA CloseSubmessageOnTrack ==
    ASSUME Reading, CloseSubmessage, UNCHANGED encVars
    PROVE  ReadInv'
<1> DEFINE below == SubSeq(stack, 1, Len(stack) - 1)
           pos == Top.pos + Top.left
<1>1. PICK p : p = below[Len(below)]
  OBVIOUS
<1>2. PICK f : f = [p EXCEPT !.pos = pos]
  OBVIOUS
<1>3. /\ pc = "tag" /\ Top.left = 0 /\ Len(stack) > 1
      /\ UNCHANGED <<input, at, len, pc, wire, mem>>
      /\ stack' = [below EXCEPT ![Len(below)] = f]
  BY <1>1, <1>2 DEF CloseSubmessage, Below, Resume
<1>4. PICK F : stack \in Seq(F)
  BY WhileReading DEF Chain
<1>5. /\ Len(below) = Len(stack) - 1
      /\ \A i \in 1..(Len(stack) - 1) : below[i] = stack[i]
  BY <1>4, WhileReading, BelowFrames
<1>6. /\ Len(stack) - 1 \in 1..(Len(stack) - 1) /\ Len(stack) - 1 \in 1..Len(stack)
      /\ (Len(stack) - 1) + 1 = Len(stack)
  BY <1>3, WhileReading
<1>7. p = stack[Len(stack) - 1]
  BY <1>1, <1>5, <1>6
<1>8. pos = Top.pos /\ Top.pos = Top.end
  BY <1>3, WhileReading DEF Reaches, IsFrame
<1> HIDE DEF pos
<1>9. f.iter = p.iter /\ f.end = p.end /\ f.pos = Top.pos
  <2>1. IsFrame(p)
    BY <1>6, <1>7, WhileReading DEF Chain
  <2> QED BY <1>2, <1>8, <2>1 DEF IsFrame
<1>10. PICK e \in Messages :
          /\ Top.iter.descriptor = e /\ Depth[e] = Len(stack) /\ Here(src, e)
          /\ Top.end = EndOf(src, dest, e)
  BY TopReading
<1>11. e # "MQTTMessage"
  BY <1>3, <1>10 DEF Depth
<1>12. PICK d, n : d = Holder[e][1] /\ n = Holder[e][2]
  OBVIOUS
<1>13. /\ Carried(src, d, n)
       /\ Top.pos = StartOf(src, d) + UpTo(src, d, n)
  <2>1. Top.pos = StartOf(src, e) + SizeOf(src, e)
    BY <1>8, <1>10, <1>11 DEF EndOf
  <2> QED BY <1>10, <1>11, <1>12, <2>1, BytesNested
<1>14. d \in Messages /\ n \in DOMAIN FieldList[d]
  BY <1>13 DEF Carried
<1>15. PICK it : it = p.iter
  OBVIOUS
<1>16. it = It(d, n)
  <2>1. Held(stack[Len(stack) - 1], stack[(Len(stack) - 1) + 1])
    BY <1>6, WhileReading DEF OnTrack, Opened
  <2>2. Held(p, Top)
    BY <1>6, <1>7, <2>1, WhileReading
  <2> QED BY <1>10, <1>12, <1>15, <2>2 DEF Held
<1>17. it.descriptor = d
  BY <1>14, <1>16, PlaceInStruct, IterMembers DEF It
<1>18. Opened(src, dest, stack')
  <2>1. Chain(stack) /\ Opened(src, dest, stack)
    BY WhileReading DEF OnTrack
  <2>2. f.iter = stack[Len(stack) - 1].iter /\ f.end = stack[Len(stack) - 1].end
    BY <1>7, <1>9
  <2>3. Opened(src, dest, [below EXCEPT ![Len(below)] = f])
    BY <1>3, <2>1, <2>2, OpenedPop
  <2> QED BY <1>3, <2>3
<1>19. stack'[Len(stack')] = f
  <2>1. PICK t : t = [below EXCEPT ![Len(below)] = f]
    OBVIOUS
  <2>2. Len(t) = Len(stack) - 1 /\ t[Len(stack) - 1] = f
    BY <1>3, <1>4, <2>1, UpdateBelow
  <2> QED BY <1>3, <2>1, <2>2
<1>20. Between(src, f)
  <2>1. n \in 0..Len(FieldList[d])
    BY <1>14, CountOf
  <2>2. f.iter.descriptor = d
    BY <1>9, <1>15, <1>17
  <2> QED BY <1>9, <1>13, <2>1, <2>2 DEF Between
<1>21. /\ at' \in 0..Len(out) /\ Holds(out, at') = f.pos
       /\ StartsFromZeros(mem') /\ Shown(src, mem', f.pos)
  BY <1>3, <1>9, WhileReading DEF OnTrack
<1>22. FieldInv'
  BY DecodeKeepsFields DEF Next
<1> QED BY <1>3, <1>18, <1>19, <1>20, <1>21, <1>22, ReadsOnTrack

\* Every step of the decoder.
LEMMA DecodeOnTrack == RoundInv /\ Decode => RoundInv'
<1> SUFFICES ASSUME RoundInv, Decode PROVE RoundInv'
  OBVIOUS
<1>1. pc # "idle" /\ Next /\ UNCHANGED encVars
  BY DEF Decode
<1>2. EncodeInv'
  BY <1>1, EncodeInvNext DEF RoundInv
<1>3. Reading
  <2>1. pc \in {"tag", "field", "ok"}
    BY <1>1 DEF RoundInv, ReadInv, Next, ReadTag, SkipField, WrongWire, DecodeValue,
                OpenSubmessage, CloseSubmessage, Return
  <2> QED BY <2>1 DEF Reading
<1>4. ReadInv'
  BY <1>1, <1>3, ReadTagOnTrack, WrongWireNever, DecodeValueOnTrack,
     OpenSubmessageOnTrack, CloseSubmessageOnTrack, ReturnOnTrack DEF Next
<1> QED BY <1>2, <1>4 DEF RoundInv

\* pb_encode has returned before the bytes are sent.
LEMMA EncodeOnTrack == RoundInv /\ Encode => RoundInv'
<1> SUFFICES ASSUME RoundInv, Encode PROVE RoundInv'
  OBVIOUS
<1>1. EncodeNext /\ UNCHANGED vars
  BY DEF Encode
<1>2. EncodeInv'
  BY <1>1, EncodeInvNext DEF RoundInv
<1>3. pc = "idle"
  <2>1. enc \in {"ok", "failed"} => Len(frames) = 1
    BY DEF RoundInv, EncodeInv, EncInv
  <2>2. enc \notin {"ok", "failed"}
    BY <1>1, <2>1 DEF EncodeNext, SkipAbsent, WriteValue, BeginSubmessage, EndSubmessage,
                      EncodeReturn, Encoding
  <2> QED BY <2>2 DEF RoundInv, ReadInv
<1>4. pc' = "idle"
  BY <1>1, <1>3 DEF vars
<1> QED BY <1>2, <1>4 DEF RoundInv, ReadInv

\* What is sent is a message nothing has been read of.
LEMMA FieldInvSent == Begins' => FieldInv'
BY FieldInvBegins, PTL

\* Nothing has been read, and nothing is shown.
LEMMA ShownFresh ==
    ASSUME NEW s, NEW m, m = FreshStruct
    PROVE  Shown(s, m, 0) /\ StartsFromZeros(m)
<1>1. \A c \in Cells : m[c] = 0
  BY PutCell DEF FreshStruct, pb_message_set_to_defaults, MQTTMessage_init_default
<1>2. StartsFromZeros(m) /\ SeenValue(m) = [l \in Leaves |-> 0]
  BY <1>1, NothingSeen
<1>3. ASSUME NEW d \in Messages \ {"MQTTMessage"}
      PROVE  Here(m, d) <=> Here(s, d) /\ StartOf(s, d) <= 0
  <2>1. StartOf(s, d) \in Nat /\ StartOf(s, d) >= 2
    BY StartIs
  <2>2. m[4] = 0 /\ m[24] = 0
    BY <1>1, CellsAre
  <2>3. ~Here(m, d)
    BY <2>2, MessageNames DEF Here
  <2> QED BY <2>1, <2>3
<1>4. ASSUME NEW d, NEW n, NEW a, NEW size, IsLeaf(d, n, a, size)
      PROVE  SeenValue(m)[<<d, n>>]
               = IF Carried(s, d, n) /\ Pos(s, d, n) + 2 <= 0 THEN s[a] ELSE 0
  <2>1. SeenValue(m)[<<d, n>>] = 0
    BY <1>2, <1>4, LeafIn
  <2>2. Carried(s, d, n) => ~(Pos(s, d, n) + 2 <= 0)
    BY PosWithin
  <2> QED BY <2>1, <2>2
<1> QED BY <1>2, <1>3, <1>4 DEF Shown

\* The stream pb_decode begins with.
LEMMA FirstFrame ==
    ASSUME NEW s, NEW D \in Nat, NEW fs, fs = FirstStack(D), NEW f, f = fs[Len(fs)]
    PROVE  /\ f.pos = 0 /\ Between(s, f) /\ Opened(s, D, fs)
<1>1. PICK iter : iter = pb_field_iter_begin("MQTTMessage", 0)
  OBVIOUS
<1>2. "MQTTMessage" \in Messages /\ Place["MQTTMessage"] = 0
  BY MessageNames DEF Place
<1>3. iter.descriptor = "MQTTMessage"
  <2>1. iter = IterAt("MQTTMessage", 0, 1)
    BY <1>1, <1>2, BeginTrue
  <2>2. 1 \in DOMAIN FieldList["MQTTMessage"]
    BY <1>2, CountOf
  <2> QED BY <1>2, <2>1, <2>2, IterMembers
<1>4. fs = <<Frame(iter, 0, D)>>
  BY <1>1 DEF FirstStack
<1>5. Len(fs) = 1 /\ f = Frame(iter, 0, D) /\ fs[1] = f
  BY <1>4
<1>6. f.iter = iter /\ f.pos = 0 /\ f.end = D
  BY <1>5 DEF Frame
<1>7. InFrame(s, D, f)
  BY <1>3, <1>6 DEF InFrame, EndOf, Here
<1>8. Opened(s, D, fs)
  <2>1. (\A i \in 1..1 : i = 1) /\ (\A i \in 1..(1 - 1) : FALSE)
    OBVIOUS
  <2>2. \A i \in 1..Len(fs) : InFrame(s, D, fs[i])
    BY <1>5, <1>7, <2>1, Zenon
  <2>3. \A i \in 1..(Len(fs) - 1) : Held(fs[i], fs[i + 1])
    BY <1>5, <2>1, Zenon
  <2> QED BY <2>2, <2>3 DEF Opened
<1>9. Between(s, f)
  <2>1. PICK count \in 2..6 : Len(FieldList["MQTTMessage"]) = count
    BY <1>2, CountOf
  <2>2. UpTo(s, "MQTTMessage", 0) = 0
    BY <1>2, <2>1, UpToGrows
  <2>3. StartOf(s, "MQTTMessage") = 0
    BY <1>2, StartIs
  <2>4. 0 \in 0..Len(FieldList["MQTTMessage"])
    BY <2>1
  <2> QED BY <1>3, <1>6, <2>2, <2>3, <2>4 DEF Between
<1> QED BY <1>6, <1>8, <1>9

\* What is sent is what was written.
LEMMA SendOnTrack == RoundInv /\ Send => RoundInv'
<1> SUFFICES ASSUME RoundInv, Send PROVE RoundInv'
  OBVIOUS
<1>1. /\ enc \in {"ok", "failed"} /\ frames[1].bytes_written # 0
      /\ len' = frames[1].bytes_written /\ input' = out /\ at' = 0
      /\ stack' = FirstStack(frames[1].bytes_written) /\ pc' = "tag" /\ wire' = 0
      /\ mem' = FreshStruct /\ UNCHANGED encVars
  BY DEF Send, SendGuard
<1>2. UNCHANGED <<src, out, dest, enc>>
  BY <1>1 DEF encVars
<1>3. EncodeInv /\ EncodeInv'
  BY <1>1, EncodeInvNext DEF RoundInv
<1>4. dest \in Nat /\ frames[1].bytes_written = dest
  <2>1. Len(frames) = 1 /\ dest \in Nat
    BY <1>1, <1>3 DEF EncodeInv, EncInv
  <2>2. IsOStream(frames[1]) /\ frames[1].start = 0 /\ dest = frames[1].start + frames[1].bytes_written
    BY <1>3, <2>1 DEF EncodeInv, EncInv, Nested, Ends
  <2> QED BY <2>1, <2>2 DEF IsOStream
<1>5. PICK F : out \in Seq(F)
  BY <1>3 DEF EncodeInv, EncTypeInv
<1>6. /\ Len(out) \in Nat /\ DOMAIN out = 1..Len(out)
      /\ dest = Holds(out, Len(out)) /\ WrittenItems(out)
  BY <1>3, <1>5, LenProperties DEF EncodeInv, EncTypeInv, OutInv
<1>7. Holds(out, 0) = 0
  BY TotalIs DEF Holds
<1>8. out # <<>>
  <2>1. CASE out = <<>>
    <3>1. Len(out) = 0
      BY <2>1
    <3> QED BY <1>1, <1>4, <1>6, <1>7, <3>1
  <2> QED BY <2>1
<1>9. Readable(out)
  BY <1>6 DEF Readable, WrittenItems
<1>10. Begins'
  BY <1>1, <1>4, <1>9 DEF Begins
<1>11. FieldInv'
  BY <1>10, FieldInvSent
<1>12. PICK f : f = stack'[Len(stack')]
  OBVIOUS
<1>13. f.pos = 0 /\ Between(src, f) /\ Opened(src, dest, stack')
  BY <1>1, <1>4, <1>12, FirstFrame
<1>14. Shown(src, mem', 0) /\ StartsFromZeros(mem')
  BY <1>1, ShownFresh
<1>15. Top' = f
  BY <1>12 DEF Top
<1>16. OnTrack'
  <2>1. at' \in 0..Len(out) /\ Holds(out, at') = f.pos
    BY <1>1, <1>6, <1>7, <1>13
  <2> QED BY <1>1, <1>2, <1>13, <1>14, <1>15, <2>1 DEF OnTrack
<1>17. ReadInv'
  BY <1>1, <1>2, <1>4, <1>8, <1>11, <1>16 DEF ReadInv
<1> QED BY <1>3, <1>17 DEF RoundInv

\* Before the leaf encodes, nothing is written and nothing is read.
LEMMA RoundInvInit == RoundTripInit => RoundInv
<1> SUFFICES ASSUME RoundTripInit PROVE RoundInv
  OBVIOUS
<1>1. EncodeInit /\ pc = "idle"
  BY DEF RoundTripInit
<1>2. EncodeInv
  BY <1>1, OutInvInit, EncInvInit, EncTypeInvInit, SizeInvInit DEF EncodeInv
<1> QED BY <1>1, <1>2 DEF RoundInv, ReadInv

\* Every step of the leaf and of the root keeps it.
LEMMA RoundInvNext == RoundInv /\ [RoundTripNext]_<<encVars, vars>> => RoundInv'
<1>1. RoundInv /\ UNCHANGED <<encVars, vars>> => RoundInv'
  <2> SUFFICES ASSUME RoundInv, UNCHANGED encVars, UNCHANGED vars PROVE RoundInv'
    OBVIOUS
  <2>1. EncodeInv'
    BY EncodeInvNext DEF RoundInv
  <2>2. pc # "idle" => FieldInv'
    BY FieldInvNext DEF RoundInv, ReadInv
  <2>3. UNCHANGED <<src, out, dest, enc, input, at, len, stack, pc, wire, mem>>
    BY DEF encVars, vars
  <2>4. OnTrack => OnTrack'
    BY <2>3 DEF OnTrack, Top
  <2>5. ReadInv'
    BY <2>2, <2>3, <2>4 DEF RoundInv, ReadInv
  <2> QED BY <2>1, <2>5 DEF RoundInv
<1> QED BY <1>1, EncodeOnTrack, SendOnTrack, DecodeOnTrack DEF RoundTripNext

\* Whatever the message and the size of the buffer: as long as the root reads what the leaf
\* has encoded (mesh.cpp:126-142), its streams are those the encoder had, it stands between
\* two fields or after a tag that was written, and it has seen what lies before and nothing
\* else (mesh.cpp:82-90; pb_decode.c:1027-1229).
THEOREM RoundTripInvariant == RoundTripSpec => []RoundInv
BY RoundInvInit, RoundInvNext, PTL DEF RoundTripSpec

-----------------------------------------------------------------------------
(***************************************************************************)
(* What the root sees in the end.                                          *)
(***************************************************************************)

\* A message that is accepted was read to its last byte, and ends between two
\* fields of the outermost message.
LEMMA WhenAccepted ==
    ASSUME RoundInv, pc = "ok"
    PROVE  /\ EncodeInv /\ dest \in Nat /\ src \in [Cells -> Nat]
           /\ Shown(src, mem, dest)
           /\ \E k \in 0..Len(FieldList["MQTTMessage"]) : dest = UpTo(src, "MQTTMessage", k)
<1>1. Reading
  BY DEF Reading
<1>2. Len(stack) = 1 /\ stack[1].left = 0
  BY <1>1, WhileReading DEF FieldInv, DecInv
<1>3. PICK d \in Messages :
         /\ Top.iter.descriptor = d /\ Depth[d] = Len(stack)
         /\ Top.end = EndOf(src, dest, d)
  BY <1>1, TopReading
<1>4. d = "MQTTMessage"
  BY <1>2, <1>3, MessageNames DEF Depth
<1>5. Top.left = 0 /\ Top.pos = dest
  <2>1. Top.left = 0 /\ Top.end = dest
    BY <1>1, <1>2, <1>3, <1>4, WhileReading DEF EndOf
  <2> QED BY <1>1, <2>1, WhileReading DEF Reaches, IsFrame
<1>6. PICK k \in 0..Len(FieldList["MQTTMessage"]) :
         Top.pos = StartOf(src, "MQTTMessage") + UpTo(src, "MQTTMessage", k)
  BY <1>1, <1>3, <1>4, WhileReading DEF OnTrack, Between
<1>7. StartOf(src, "MQTTMessage") = 0 /\ UpTo(src, "MQTTMessage", k) \in Nat
  <2>1. PICK count \in 2..6 : Len(FieldList[d]) = count
    BY CountOf
  <2>2. StartOf(src, "MQTTMessage") = 0
    BY <1>4, StartIs
  <2>3. UpTo(src, d, k) \in Nat
    BY <1>4, <2>1, UpToGrows
  <2> QED BY <1>4, <2>2, <2>3
<1>8. Shown(src, mem, dest)
  BY <1>1, <1>5, WhileReading DEF OnTrack
<1> QED BY <1>1, <1>5, <1>6, <1>7, <1>8, WhileReading

\* A field whose bytes, or the first two of them, were read is seen as it was.
LEMMA LeafSeen ==
    ASSUME NEW s \in [Cells -> Nat], NEW m, NEW P, Shown(s, m, P),
           NEW d, NEW n, NEW a, NEW size, IsLeaf(d, n, a, size),
           Carried(s, d, n) => Pos(s, d, n) + 2 <= P
    PROVE  SeenValue(m)[<<d, n>>] = IF Here(s, d) THEN s[a] ELSE 0
<1>1. SeenValue(m)[<<d, n>>] = IF Carried(s, d, n) THEN s[a] ELSE 0
  BY DEF Shown
<1>2. Carried(s, d, n) => Here(s, d)
  BY DEF Carried
<1>3. Here(s, d) /\ s[a] # 0 => Carried(s, d, n)
  BY ValueCarried
<1> QED BY <1>1, <1>2, <1>3

\* Every field that is written ends within the message, and so does the start of
\* every submessage.
LEMMA AllInMessage ==
    ASSUME NEW s, NEW N, N = SizeOf(s, "MQTTMessage")
    PROVE  /\ \A d, n : Carried(s, d, n) => Pos(s, d, n) + 2 <= N
           /\ \A d \in Messages \ {"MQTTMessage"} : Here(s, d) => StartOf(s, d) <= N
<1>1. ASSUME NEW d, NEW n, Carried(s, d, n) PROVE Pos(s, d, n) + 2 <= N
  <2>1. /\ Pos(s, d, n) \in Nat /\ StartOf(s, d) \in Nat /\ SizeOf(s, d) \in Nat
        /\ Pos(s, d, n) + Extent(s, d, n) <= StartOf(s, d) + SizeOf(s, d)
    BY <1>1, PosWithin
  <2>2. StartOf(s, d) + SizeOf(s, d) <= N
    BY <1>1, PosInMessage
  <2>3. Extent(s, d, n) \in Nat /\ 2 <= Extent(s, d, n)
    BY <1>1, CarriedTakes
  <2>4. N \in Nat
    <3>1. N \in 0..73
      BY MessageNames, AllTake DEF Takes
    <3> QED BY <3>1
  <2> QED BY <2>1, <2>2, <2>3, <2>4
<1>2. ASSUME NEW d \in Messages \ {"MQTTMessage"}, Here(s, d) PROVE StartOf(s, d) <= N
  BY <1>1, <1>2, StartsAfter
<1> QED BY <1>1, <1>2

\* What is seen of a message, where its parts are seen alike.
LEMMA SubSeen ==
    ASSUME NEW m, NEW r
    PROVE  r \in SeenPresent(m) <=>
             \E d \in Messages \ {"MQTTMessage"} : r = <<d, 0>> /\ r[1] = d /\ Here(m, d)
<1>1. r \in Subs <=> \E d \in Messages \ {"MQTTMessage"} : r = <<d, 0>> /\ r[1] = d
  BY DEF Subs
<1>2. InReach(m, r) <=> Here(m, r[1])
  BY ReachIsHere
<1> QED BY <1>1, <1>2 DEF SeenPresent

\* All of a whole message lies before its end, so all of it is seen.
LEMMA ComesBackHolds == RoundInv => ComesBack
<1> SUFFICES ASSUME RoundInv, enc = "ok", pc \in {"ok", "failed", "misread"}
             PROVE  /\ pc = "ok" /\ SeenPresent(mem) = SeenPresent(src)
                    /\ SeenValue(mem) = SeenValue(src)
  BY DEF ComesBack
<1>1. pc = "ok"
  BY DEF RoundInv, ReadInv
<1>2. EncodeInv /\ src \in [Cells -> Nat] /\ Shown(src, mem, dest)
  BY <1>1, WhenAccepted
<1>3. dest = SizeOf(src, "MQTTMessage")
  BY <1>2, EncodedSize
<1>4. /\ \A d, n : Carried(src, d, n) => Pos(src, d, n) + 2 <= dest
      /\ \A d \in Messages \ {"MQTTMessage"} : Here(src, d) => StartOf(src, d) <= dest
  BY <1>3, AllInMessage
<1>5. SeenPresent(mem) = SeenPresent(src)
  <2>1. \A d \in Messages \ {"MQTTMessage"} : Here(mem, d) <=> Here(src, d)
    BY <1>2, <1>4 DEF Shown
  <2>2. \A r : r \in SeenPresent(mem) <=> r \in SeenPresent(src)
    BY <2>1, SubSeen
  <2> QED BY <2>2 DEF SeenPresent
<1>6. SeenValue(mem) = SeenValue(src)
  <2>1. PICK f : f = SeenValue(mem)
    OBVIOUS
  <2>2. f = [l \in Leaves |-> f[l]]
    BY <2>1 DEF SeenValue
  <2>3. ASSUME NEW d, NEW n, NEW a, NEW size, IsLeaf(d, n, a, size)
        PROVE  f[<<d, n>>] = IF Here(src, d) THEN src[a] ELSE 0
    BY <1>2, <1>4, <2>1, <2>3, LeafSeen
  <2> QED BY <2>1, <2>2, <2>3, SeenAll
<1> QED BY <1>1, <1>5, <1>6

\* A submessage that has begun at the end of the outermost one's fields is there as
\* a whole, with the payload it is in.
LEMMA WholePayload ==
    ASSUME NEW s, NEW k \in 0..Len(FieldList["MQTTMessage"]),
           NEW P, P = UpTo(s, "MQTTMessage", k),
           NEW e \in Messages, e # "MQTTMessage", Here(s, e), StartOf(s, e) <= P,
           NEW p, p = PayloadOf(e)
    PROVE  Here(s, p) /\ StartOf(s, p) + SizeOf(s, p) <= P /\ p # "MQTTMessage"
<1>1. /\ p \in Messages /\ p # "MQTTMessage" /\ Here(s, p)
      /\ Holder[p][1] = "MQTTMessage" /\ StartOf(s, p) <= StartOf(s, e)
  BY WithinPayload
<1>2. PICK n : n = Holder[p][2]
  OBVIOUS
<1>3. /\ Carried(s, "MQTTMessage", n) /\ StartOf(s, p) = Pos(s, "MQTTMessage", n) + 2
      /\ StartOf(s, p) + SizeOf(s, p) = StartOf(s, "MQTTMessage") + UpTo(s, "MQTTMessage", n)
  <2>1. PICK d : d = "MQTTMessage"
    OBVIOUS
  <2>2. /\ Carried(s, d, n) /\ StartOf(s, p) = Pos(s, d, n) + 2
        /\ StartOf(s, p) + SizeOf(s, p) = StartOf(s, d) + UpTo(s, d, n)
    BY <1>1, <1>2, <2>1, BytesNested
  <2> QED BY <2>1, <2>2
<1>4. "MQTTMessage" \in Messages /\ n \in DOMAIN FieldList["MQTTMessage"]
  BY <1>3 DEF Carried
<1>5. PICK count \in 2..6 : Len(FieldList["MQTTMessage"]) = count /\ n \in 1..count
  BY <1>4, CountOf
<1> DEFINE u(j) == UpTo(s, "MQTTMessage", j)
<1>6. /\ \A j \in 0..count : u(j) \in Nat
      /\ \A j \in 0..count : \A i \in 0..j : u(i) <= u(j)
  BY <1>4, <1>5, UpToGrows
<1>7. StartOf(s, "MQTTMessage") = 0
  BY <1>4, StartIs
<1>8. Pos(s, "MQTTMessage", n) = u(n - 1)
  <2>1. n - 1 \in 0..count
    BY <1>5
  <2> QED BY <1>6, <1>7, <2>1 DEF Pos
<1>9. StartOf(s, e) \in Nat /\ StartOf(s, p) \in Nat
  BY <1>1, StartIs
<1> HIDE DEF u
<1>10. P = u(k) /\ k \in 0..count
  BY <1>5 DEF u
<1>11. u(n - 1) < u(k)
  <2>1. n - 1 \in 0..count
    BY <1>5
  <2> QED BY <1>1, <1>3, <1>6, <1>8, <1>9, <1>10, <2>1
<1>12. n <= k
  <2>1. CASE k <= n - 1
    <3>1. PICK j \in 0..count : j = n - 1
      BY <1>5
    <3>2. k \in 0..j
      BY <1>10, <2>1, <3>1
    <3>3. u(k) <= u(j) /\ u(k) \in Nat /\ u(j) \in Nat
      BY <1>6, <1>10, <3>1, <3>2
    <3> QED BY <1>11, <3>1, <3>3
  <2> QED BY <1>5, <1>10, <2>1
<1>13. u(n) <= u(k) /\ u(n) \in Nat
  <2>1. n \in 0..k /\ n \in 0..count
    BY <1>5, <1>10, <1>12
  <2> QED BY <1>6, <1>10, <2>1
<1>14. StartOf(s, p) + SizeOf(s, p) = u(n)
  BY <1>3, <1>7, <1>13 DEF u
<1> QED BY <1>1, <1>10, <1>13, <1>14

\* An accepted message ends between two fields of the outermost message: a submessage
\* that is seen lies before that end with all its payload.
LEMMA NeverInPartHolds == RoundInv => NeverInPart
<1> SUFFICES ASSUME RoundInv PROVE NeverInPart
  OBVIOUS
<1>1. pc # "misread"
  BY DEF RoundInv, ReadInv
<1>2. ASSUME pc = "ok", NEW r \in SeenPresent(mem)
      PROVE  /\ r \in SeenPresent(src)
             /\ \A l \in Leaves :
                  TopPart(l) = TopPart(r) => SeenValue(mem)[l] = SeenValue(src)[l]
             /\ \A q \in SeenPresent(src) : TopPart(q) = TopPart(r) => q \in SeenPresent(mem)
  <2>1. src \in [Cells -> Nat] /\ Shown(src, mem, dest) /\ dest \in Nat
    BY <1>2, WhenAccepted
  <2>2. PICK k \in 0..Len(FieldList["MQTTMessage"]) : dest = UpTo(src, "MQTTMessage", k)
    BY <1>2, WhenAccepted
  <2>3. PICK e \in Messages \ {"MQTTMessage"} : r = <<e, 0>> /\ r[1] = e /\ Here(mem, e)
    BY <1>2, SubSeen
  <2>4. Here(src, e) /\ StartOf(src, e) <= dest
    BY <2>1, <2>3 DEF Shown
  <2>5. r \in SeenPresent(src)
    BY <2>3, <2>4, SubSeen
  <2>6. PICK p : p = PayloadOf(e)
    OBVIOUS
  <2>7. TopPart(r) = p
    BY <2>3, <2>6 DEF TopPart, PayloadOf
  <2>8. Here(src, p) /\ StartOf(src, p) + SizeOf(src, p) <= dest /\ p # "MQTTMessage"
    BY <2>2, <2>3, <2>4, <2>6, WholePayload
  <2>9. ASSUME NEW d \in Messages, PayloadOf(d) = p, Here(src, d)
        PROVE  /\ d # "MQTTMessage" /\ StartOf(src, d) \in Nat /\ SizeOf(src, d) \in Nat
               /\ StartOf(src, d) + SizeOf(src, d) <= dest
    <3>1. d # "MQTTMessage"
      BY <2>8, <2>9 DEF PayloadOf
    <3>2. StartOf(src, d) + SizeOf(src, d) <= StartOf(src, p) + SizeOf(src, p) /\ p \in Messages
      BY <2>9, <3>1, WithinPayload
    <3>3. PICK sd, zd : sd = StartOf(src, d) /\ zd = SizeOf(src, d)
      OBVIOUS
    <3>4. PICK sp, zp : sp = StartOf(src, p) /\ zp = SizeOf(src, p)
      OBVIOUS
    <3>5. sd \in Nat /\ sp \in Nat
      BY <2>9, <3>2, <3>3, <3>4, StartIs
    <3>6. zd \in 0..73 /\ zp \in 0..73
      BY <2>9, <3>2, <3>3, <3>4, AllTake DEF Takes
    <3>7. sd + zd <= dest
      BY <2>1, <2>8, <3>2, <3>3, <3>4, <3>5, <3>6
    <3>8. zd \in Nat
      BY <3>6
    <3> QED BY <3>1, <3>3, <3>5, <3>7, <3>8
  <2>10. ASSUME NEW l \in Leaves, TopPart(l) = TopPart(r)
         PROVE  SeenValue(mem)[l] = SeenValue(src)[l]
    <3>1. PICK d, n, a, size : IsLeaf(d, n, a, size) /\ l = <<d, n>> /\ l[1] = d
      BY LeafIs
    <3>2. PayloadOf(d) = p
      BY <2>7, <2>10, <3>1 DEF TopPart, PayloadOf
    <3>3. Carried(src, d, n) => Pos(src, d, n) + 2 <= dest
      <4> SUFFICES ASSUME Carried(src, d, n) PROVE Pos(src, d, n) + 2 <= dest
        OBVIOUS
      <4>1. d \in Messages /\ Here(src, d)
        BY DEF Carried
      <4>2. Pos(src, d, n) + Extent(src, d, n) <= StartOf(src, d) + SizeOf(src, d)
            /\ Pos(src, d, n) \in Nat
        BY PosWithin
      <4>3. Extent(src, d, n) \in Nat /\ 2 <= Extent(src, d, n)
        BY CarriedTakes
      <4> QED BY <2>1, <2>9, <3>2, <4>1, <4>2, <4>3
    <3>4. SeenValue(mem)[<<d, n>>] = IF Here(src, d) THEN src[a] ELSE 0
      BY <2>1, <3>1, <3>3, LeafSeen
    <3>5. SeenValue(src)[<<d, n>>] = IF Here(src, d) THEN src[a] ELSE 0
      BY <3>1, SeenIs
    <3> QED BY <3>1, <3>4, <3>5, Zenon
  <2>11. ASSUME NEW q \in SeenPresent(src), TopPart(q) = TopPart(r)
         PROVE  q \in SeenPresent(mem)
    <3>1. PICK d \in Messages \ {"MQTTMessage"} : q = <<d, 0>> /\ q[1] = d /\ Here(src, d)
      BY <2>11, SubSeen
    <3>2. PayloadOf(d) = p
      BY <2>7, <2>11, <3>1 DEF TopPart, PayloadOf
    <3>3. StartOf(src, d) <= dest
      BY <2>1, <2>9, <3>1, <3>2
    <3>4. Here(mem, d)
      BY <2>1, <3>1, <3>3 DEF Shown
    <3> QED BY <3>1, <3>4, SubSeen
  <2> QED BY <2>5, <2>10, <2>11
<1> QED BY <1>1, <1>2 DEF NeverInPart

\* The leaf's part of the round trip is a run of the encoder, which the root does not
\* disturb: what is proved of PbEncode holds here too (mesh.cpp:131-142).
THEOREM LeafEncodes ==
    RoundTripSpec
    => /\ EncodeSpec
       /\ [](EncodeTypeOK /\ WithinBuffer /\ SentIsWritten /\ SizeIsEnough)
<1>1. RoundTripInit => EncodeInit
  BY DEF RoundTripInit
<1>2. [RoundTripNext]_<<encVars, vars>> => [EncodeNext]_encVars
  BY DEF RoundTripNext, Encode, Send, Decode
<1>3. RoundTripSpec => EncodeSpec
  BY <1>1, <1>2, PTL DEF RoundTripSpec, EncodeSpec
<1> QED BY <1>3, EncoderTypeCorrect, EncoderStaysInBuffer, EncoderCountsAll, BufferIsEnough, PTL

\* A message that pb_encode has written as a whole is accepted by pb_decode and decoded as
\* it was, every submessage and every field of it (pb_encode.c:512, pb_decode.c:1226).
THEOREM WholeMessageComesBack == RoundTripSpec => []ComesBack
BY ComesBackHolds, RoundTripInvariant, PTL

\* Of a message that was cut because the buffer was too small, and sent all the same, the
\* root sees each submessage of the outermost message as a whole or not at all: it refuses
\* the message, or accepts it at the end of one of them.
THEOREM NoSubmessageInPart == RoundTripSpec => []NeverInPart
BY NeverInPartHolds, RoundTripInvariant, PTL
=============================================================================
