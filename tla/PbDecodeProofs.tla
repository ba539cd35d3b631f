--------------------------- MODULE PbDecodeProofs ---------------------------
(***************************************************************************)
(* Proofs about PbDecode, for messages of every length and all bytes in    *)
(* them.  The streams of nested messages share the bytes out without a gap *)
(* or an overlap, which depends neither on the schemas nor on what becomes *)
(* of the struct.  Each iterator is at a field of its message, at the one  *)
(* place of the struct where that message is, so that no message is nested *)
(* more than three deep.  So each write is to a message that can be seen,  *)
(* and the decoder implements ProtoMessage.                                *)
(***************************************************************************)
EXTENDS PbDecode, PbFieldsProofs, SequenceTheorems, TLAPS

(***************************************************************************)
(* The inductive invariant: BytesSharedOut with the shape of the stack.    *)
(***************************************************************************)

\* The shape of a frame; its iterator may be anything.
IsFrame(f) ==
    /\ f = [iter |-> f.iter, pos |-> f.pos, left |-> f.left, end |-> f.end]
    /\ f.pos \in Nat /\ f.left \in Nat /\ f.end \in Nat

\* Each stream ends where its parent goes on.
Chain(s) ==
    /\ \E F : s \in Seq(F)
    /\ Len(s) >= 1
    /\ \A i \in 1..Len(s) : IsFrame(s[i])
    /\ s[1].end = len
    /\ \A i \in 1..(Len(s) - 1) : s[i].left + s[i + 1].end = s[i].end

\* A stream that is being read ends pos + left.
Reaches(f) == f.pos + f.left = f.end

\* What is read has a size, a tag a number, and so on.
IsItem(i) ==
    /\ i.n \in Nat
    /\ i.k = "tag" => i.tag \in Nat /\ i.wire \in 0..5
    /\ i.k = "val" => i.v \in Nat
    /\ i.k = "len" => i.size \in Nat

Readable(bytes) == \A j \in DOMAIN bytes : IsItem(bytes[j])

DecInv ==
    /\ Readable(input)
    /\ Chain(stack)
    /\ Reaches(stack[Len(stack)])
    /\ pc = "ok" => Len(stack) = 1 /\ stack[1].left = 0

(***************************************************************************)
(* Sequences.                                                              *)
(***************************************************************************)

LEMMA BelowFrames ==
    ASSUME NEW F, NEW s \in Seq(F), Len(s) >= 1
    PROVE  /\ SubSeq(s, 1, Len(s) - 1) \in Seq(F)
           /\ Len(SubSeq(s, 1, Len(s) - 1)) = Len(s) - 1
           /\ \A i \in 1..(Len(s) - 1) : SubSeq(s, 1, Len(s) - 1)[i] = s[i]
<1>1. Len(s) \in Nat
  BY LenProperties
<1> DEFINE n == Len(s) - 1
<1>2. /\ 1 \in Int /\ n \in Int /\ n >= 0
      /\ \A i \in 1..n : i \in 1..Len(s) /\ s[i] \in F
  BY <1>1, ElementOfSeq
<1> HIDE DEF n
<1>3. /\ SubSeq(s, 1, n) \in Seq(F)
      /\ Len(SubSeq(s, 1, n)) = IF 1 <= n THEN n - 1 + 1 ELSE 0
      /\ \A i \in 1..(n - 1 + 1) : SubSeq(s, 1, n)[i] = s[1 + i - 1]
  BY <1>2, SubSeqProperties
<1>4. Len(SubSeq(s, 1, n)) = n
  BY <1>2, <1>3
<1>5. ASSUME NEW i \in 1..n PROVE SubSeq(s, 1, n)[i] = s[i]
  <2>1. i \in 1..(n - 1 + 1) /\ 1 + i - 1 = i
    BY <1>2
  <2> QED BY <1>3, <2>1
<1> QED BY <1>3, <1>4, <1>5 DEF n

\* s with another last element.
LEMMA AppendBelow ==
    ASSUME NEW F, NEW s \in Seq(F), Len(s) >= 1, NEW f
    PROVE  LET t == Append(SubSeq(s, 1, Len(s) - 1), f)
           IN  /\ \E G : t \in Seq(G)
               /\ Len(t) = Len(s)
               /\ \A i \in 1..(Len(s) - 1) : t[i] = s[i]
               /\ t[Len(s)] = f
<1> DEFINE below == SubSeq(s, 1, Len(s) - 1)
           t == Append(below, f)
           G == F \cup {f}
<1>1. Len(s) \in Nat
  BY LenProperties
<1>2. /\ below \in Seq(G) /\ Len(below) = Len(s) - 1
      /\ \A i \in 1..(Len(s) - 1) : below[i] = s[i]
  BY BelowFrames, SeqMonotonic
<1> HIDE DEF below, G
<1>3. f \in G
  BY DEF G
<1>4. /\ t \in Seq(G) /\ Len(t) = Len(below) + 1
      /\ \A i \in 1..Len(below) : t[i] = below[i]
      /\ t[Len(below) + 1] = f
  BY <1>2, <1>3, AppendProperties
<1> HIDE DEF t
<1>5. /\ \E H : t \in Seq(H)
      /\ Len(t) = Len(s)
      /\ \A i \in 1..(Len(s) - 1) : t[i] = s[i]
      /\ t[Len(s)] = f
  BY <1>1, <1>2, <1>4
<1> QED BY <1>5 DEF t, below

\* s with two elements in the place of the last one.
LEMMA AppendTwo ==
    ASSUME NEW F, NEW s \in Seq(F), Len(s) >= 1, NEW f, NEW g
    PROVE  LET t == SubSeq(s, 1, Len(s) - 1) \o <<f, g>>
           IN  /\ \E G : t \in Seq(G)
               /\ Len(t) = Len(s) + 1
               /\ \A i \in 1..(Len(s) - 1) : t[i] = s[i]
               /\ t[Len(s)] = f /\ t[Len(t)] = g
<1> DEFINE below == SubSeq(s, 1, Len(s) - 1)
           two == <<f, g>>
           t == below \o two
           G == F \cup {f, g}
<1>1. Len(s) \in Nat
  BY LenProperties
<1>2. /\ below \in Seq(G) /\ Len(below) = Len(s) - 1
      /\ \A i \in 1..(Len(s) - 1) : below[i] = s[i]
  BY BelowFrames, SeqMonotonic
<1>3. two \in Seq(G) /\ Len(two) = 2 /\ two[1] = f /\ two[2] = g
  OBVIOUS
<1> HIDE DEF below, two, G
<1>5. /\ t \in Seq(G) /\ Len(t) = Len(below) + Len(two)
      /\ \A i \in 1..(Len(below) + Len(two)) :
           t[i] = IF i <= Len(below) THEN below[i] ELSE two[i - Len(below)]
  BY <1>2, <1>3, ConcatProperties
<1> HIDE DEF t
<1>6. Len(t) = Len(s) + 1
  BY <1>1, <1>2, <1>3, <1>5
<1>7. ASSUME NEW i \in 1..(Len(s) - 1) PROVE t[i] = s[i]
  BY <1>1, <1>2, <1>3, <1>5
<1>8. t[Len(s)] = f
  <2>1. Len(s) \in 1..(Len(below) + 2) /\ ~(Len(s) <= Len(below)) /\ Len(s) - Len(below) = 1
    BY <1>1, <1>2
  <2> QED BY <1>3, <1>5, <2>1
<1>9. t[Len(s) + 1] = g
  <2>1. /\ Len(s) + 1 \in 1..(Len(below) + 2)
        /\ ~(Len(s) + 1 <= Len(below)) /\ Len(s) + 1 - Len(below) = 2
    BY <1>1, <1>2
  <2> QED BY <1>3, <1>5, <2>1
<1>10. t[Len(t)] = g
  BY <1>6, <1>9
<1> QED BY <1>5, <1>6, <1>7, <1>8, <1>10 DEF t, below, two

\* s without its last element, and the one below replaced.
LEMMA UpdateBelow ==
    ASSUME NEW F, NEW s \in Seq(F), Len(s) > 1, NEW f
    PROVE  LET below == SubSeq(s, 1, Len(s) - 1)
               t == [below EXCEPT ![Len(below)] = f]
           IN  /\ \E G : t \in Seq(G)
               /\ Len(t) = Len(s) - 1
               /\ \A i \in 1..(Len(s) - 2) : t[i] = s[i]
               /\ t[Len(s) - 1] = f
<1> DEFINE G == F \cup {f}
           below == SubSeq(s, 1, Len(s) - 1)
           t == [below EXCEPT ![Len(below)] = f]
<1>1. Len(s) \in Nat
  BY LenProperties
<1>2. /\ below \in Seq(G) /\ Len(below) = Len(s) - 1
      /\ \A i \in 1..(Len(s) - 1) : below[i] = s[i]
  BY <1>1, BelowFrames, SeqMonotonic
<1>3. f \in G /\ Len(below) \in 1..Len(below)
  BY <1>1, <1>2
<1> HIDE DEF G, below
<1>4. /\ t \in Seq(G) /\ Len(t) = Len(below)
      /\ \A i \in 1..Len(below) : t[i] = IF i = Len(below) THEN f ELSE below[i]
  BY <1>2, <1>3, ExceptSeq
<1> HIDE DEF t
<1>5. /\ \E H : t \in Seq(H)
      /\ Len(t) = Len(s) - 1
      /\ \A i \in 1..(Len(s) - 2) : t[i] = s[i]
      /\ t[Len(s) - 1] = f
  BY <1>1, <1>2, <1>3, <1>4
<1> QED BY <1>5 DEF t, below

(***************************************************************************)
(* Stacks.                                                                 *)
(***************************************************************************)

\* The innermost stream reads on.
LEMMA ReadKeepsChain ==
    ASSUME NEW s, Chain(s), NEW f, IsFrame(f), f.end = s[Len(s)].end
    PROVE  LET t == Append(SubSeq(s, 1, Len(s) - 1), f)
           IN  Chain(t) /\ t[Len(t)] = f
<1> DEFINE t == Append(SubSeq(s, 1, Len(s) - 1), f)
<1>1. PICK F : s \in Seq(F)
  BY DEF Chain
<1>2. Len(s) \in Nat /\ Len(s) >= 1
  BY <1>1, LenProperties DEF Chain
<1>3. /\ \E G : t \in Seq(G)
      /\ Len(t) = Len(s)
      /\ \A i \in 1..(Len(s) - 1) : t[i] = s[i]
      /\ t[Len(s)] = f
  BY <1>1, <1>2, AppendBelow
<1> HIDE DEF t
<1>4. ASSUME NEW i \in 1..Len(s) PROVE IsFrame(t[i]) /\ t[i].end = s[i].end
  <2>1. CASE i = Len(s)
    BY <1>3, <2>1
  <2>2. CASE i # Len(s)
    <3>1. i \in 1..(Len(s) - 1)
      BY <1>2, <2>2
    <3> QED BY <1>3, <3>1 DEF Chain
  <2> QED BY <2>1, <2>2
<1>5. ASSUME NEW i \in 1..(Len(s) - 1) PROVE t[i].left + t[i + 1].end = t[i].end
  <2>1. i + 1 \in 1..Len(s)
    BY <1>2
  <2> QED BY <1>3, <1>4, <2>1 DEF Chain
<1>6. t[1].end = len
  BY <1>2, <1>4 DEF Chain
<1>7. Chain(t) /\ t[Len(t)] = f
  BY <1>2, <1>3, <1>4, <1>5, <1>6 DEF Chain
<1> QED BY <1>7 DEF t

\* A substream is made of the innermost stream.
LEMMA OpenKeepsChain ==
    ASSUME NEW s, Chain(s), NEW f, IsFrame(f), f.end = s[Len(s)].end,
           NEW g, IsFrame(g), f.left + g.end = f.end
    PROVE  LET t == SubSeq(s, 1, Len(s) - 1) \o <<f, g>>
           IN  Chain(t) /\ t[Len(t)] = g
<1> DEFINE t == SubSeq(s, 1, Len(s) - 1) \o <<f, g>>
<1>1. PICK F : s \in Seq(F)
  BY DEF Chain
<1>2. Len(s) \in Nat /\ Len(s) >= 1
  BY <1>1, LenProperties DEF Chain
<1>3. /\ \E G : t \in Seq(G)
      /\ Len(t) = Len(s) + 1
      /\ \A i \in 1..(Len(s) - 1) : t[i] = s[i]
      /\ t[Len(s)] = f /\ t[Len(t)] = g
  <2>1. \E G : t \in Seq(G)
    BY <1>1, <1>2, AppendTwo
  <2>2. Len(t) = Len(s) + 1
    BY <1>1, <1>2, AppendTwo
  <2>3. t[Len(s)] = f
    BY <1>1, <1>2, AppendTwo
  <2>4. t[Len(t)] = g
    BY <1>1, <1>2, AppendTwo
  <2>5. \A i \in 1..(Len(s) - 1) : t[i] = s[i]
    BY <1>1, <1>2, AppendTwo
  <2> QED BY <2>1, <2>2, <2>3, <2>4, <2>5
<1> HIDE DEF t
<1>4. ASSUME NEW i \in 1..Len(s) PROVE IsFrame(t[i]) /\ t[i].end = s[i].end
  <2>1. CASE i = Len(s)
    BY <1>3, <2>1
  <2>2. CASE i # Len(s)
    <3>1. i \in 1..(Len(s) - 1)
      BY <1>2, <2>2
    <3> QED BY <1>3, <3>1 DEF Chain
  <2> QED BY <2>1, <2>2
<1>5. ASSUME NEW i \in 1..(Len(t) - 1) PROVE t[i].left + t[i + 1].end = t[i].end
  <2>1. CASE i = Len(s)
    BY <1>3, <2>1
  <2>2. CASE i # Len(s)
    <3>1. i \in 1..(Len(s) - 1) /\ i + 1 \in 1..Len(s)
      BY <1>2, <1>3, <2>2
    <3> QED BY <1>3, <1>4, <3>1 DEF Chain
  <2> QED BY <2>1, <2>2
<1>6. ASSUME NEW i \in 1..Len(t) PROVE IsFrame(t[i])
  <2>1. CASE i = Len(s) + 1
    BY <1>3, <2>1
  <2>2. CASE i # Len(s) + 1
    <3>1. i \in 1..Len(s)
      BY <1>2, <1>3, <2>2
    <3> QED BY <1>4, <3>1
  <2> QED BY <2>1, <2>2
<1>7. t[1].end = len
  BY <1>2, <1>4 DEF Chain
<1>8. Chain(t) /\ t[Len(t)] = g
  BY <1>2, <1>3, <1>5, <1>6, <1>7 DEF Chain
<1> QED BY <1>8 DEF t

\* The innermost stream is closed, and its parent's pos changes.
LEMMA CloseKeepsChain ==
    ASSUME NEW s, Chain(s), Len(s) > 1,
           NEW f, IsFrame(f), f.end = s[Len(s) - 1].end
    PROVE  LET below == SubSeq(s, 1, Len(s) - 1)
               t == [below EXCEPT ![Len(below)] = f]
           IN  Chain(t) /\ t[Len(t)] = f
<1> DEFINE below == SubSeq(s, 1, Len(s) - 1)
           t == [below EXCEPT ![Len(below)] = f]
<1>1. PICK F : s \in Seq(F)
  BY DEF Chain
<1>2. Len(s) \in Nat
  BY <1>1, LenProperties
<1>3. /\ \E G : t \in Seq(G)
      /\ Len(t) = Len(s) - 1
      /\ \A i \in 1..(Len(s) - 2) : t[i] = s[i]
      /\ t[Len(s) - 1] = f
  BY <1>1, <1>2, UpdateBelow
<1> HIDE DEF t
<1>4. ASSUME NEW i \in 1..Len(t) PROVE IsFrame(t[i]) /\ t[i].end = s[i].end
  <2>1. CASE i = Len(s) - 1
    BY <1>3, <2>1
  <2>2. CASE i # Len(s) - 1
    <3>1. i \in 1..(Len(s) - 2) /\ i \in 1..Len(s)
      BY <1>2, <1>3, <2>2
    <3> QED BY <1>3, <3>1 DEF Chain
  <2> QED BY <2>1, <2>2
<1>5. ASSUME NEW i \in 1..(Len(t) - 1) PROVE t[i].left + t[i + 1].end = t[i].end
  <2>1. i \in 1..(Len(s) - 2) /\ i \in 1..(Len(s) - 1) /\ i + 1 \in 1..Len(t)
    BY <1>2, <1>3
  <2> QED BY <1>3, <1>4, <2>1 DEF Chain
<1>6. 1 \in 1..Len(t) /\ Len(t) >= 1
  BY <1>2, <1>3
<1>7. t[1].end = len
  BY <1>4, <1>6 DEF Chain
<1>8. Chain(t) /\ t[Len(t)] = f
  BY <1>2, <1>3, <1>4, <1>5, <1>6, <1>7 DEF Chain
<1> QED BY <1>8 DEF t

(***************************************************************************)
(* Steps.                                                                  *)
(***************************************************************************)

\* The innermost stream.
LEMMA TopFrame ==
    ASSUME DecInv
    PROVE  /\ Chain(stack) /\ Len(stack) \in Nat /\ Len(stack) >= 1
           /\ IsFrame(Top) /\ Top = stack[Len(stack)] /\ Reaches(Top)
<1>1. Len(stack) \in Nat /\ Len(stack) >= 1
  BY LenProperties DEF DecInv, Chain
<1> QED BY <1>1 DEF DecInv, Chain, Top

\* Whoever sent it, what is read takes a number of bytes.
LEMMA OfferedSizes ==
    ASSUME Readable(input), NEW wt
    PROVE  /\ \A i \in Offered("tag", TagItems) : i.n \in Nat
           /\ \A i \in Offered("val", ValItems(wt)) : i.n \in Nat
           /\ \A i \in Offered("len", LenItems) : i.n \in Nat
<1>1. \A i \in TagItems : i.n \in Nat
  BY DecodeAssumption DEF TagItems, TagItem
<1>2. \A i \in ValItems(wt) : i.n \in Nat
  BY DecodeAssumption DEF ValItems, ValItem, SizesOf
<1>3. \A i \in LenItems : i.n \in Nat
  BY DecodeAssumption DEF LenItems, LenItem
<1>4. ASSUME NEW k, NEW any, NEW i \in Offered(k, any)
      PROVE  i \in any \/ i.n \in Nat
  BY <1>4, Zenon DEF Offered, Readable, IsItem
<1> QED BY <1>1, <1>2, <1>3, <1>4, Zenon

\* The sizes of a submessage or of bytes that are skipped.
LEMMA OfferedLengths ==
    ASSUME DecInv
    PROVE  \A i \in Offered("len", LenItems) : i.size \in Nat
<1>1. Top.left \in Nat /\ Readable(input)
  BY TopFrame DEF IsFrame, DecInv
<1>2. \A i \in LenItems : i.size \in Nat
  BY <1>1 DEF LenItems, LenItem
<1>3. ASSUME NEW i \in Offered("len", LenItems)
      PROVE  i \in LenItems \/ i.size \in Nat
  BY <1>1, <1>3, Zenon DEF Offered, Readable, IsItem
<1> QED BY <1>2, <1>3, Zenon

\* pb_read's test keeps bytes_left from going below zero.
LEMMA ReadFrame ==
    ASSUME NEW f, IsFrame(f), NEW count \in Nat, count <= f.left
    PROVE  /\ IsFrame(pb_read(f, count))
           /\ pb_read(f, count).end = f.end
           /\ pb_read(f, count).pos = f.pos + count
           /\ pb_read(f, count).left = f.left - count
<1> DEFINE pos == f.pos + count
           left == f.left - count
<1>1. pb_read(f, count) = [f EXCEPT !.pos = pos, !.left = left]
  BY DEF pb_read
<1>2. pos \in Nat /\ left \in Nat
  BY DEF IsFrame
<1> HIDE DEF pos, left
<1>3. /\ IsFrame(pb_read(f, count))
      /\ pb_read(f, count).end = f.end
      /\ pb_read(f, count).pos = pos
      /\ pb_read(f, count).left = left
  BY <1>1, <1>2 DEF IsFrame
<1> QED BY <1>3 DEF pos, left

\* The innermost stream has read count bytes; its iterator may have moved.
LEMMA TopReads ==
    ASSUME DecInv, UNCHANGED <<input, len>>,
           NEW count \in Nat, Enough(count), NEW f, IsFrame(f),
           f.end = Top.end, f.pos = Top.pos + count, f.left = Top.left - count,
           stack' = Append(Below, f), pc' # "ok"
    PROVE  DecInv'
<1>1. Chain(stack') /\ stack'[Len(stack')] = f
  <2>1. Chain(stack) /\ f.end = stack[Len(stack)].end
    BY TopFrame
  <2> QED BY <2>1, ReadKeepsChain DEF Below
<1>2. Reaches(f)
  BY TopFrame DEF Reaches, IsFrame
<1> QED BY <1>1, <1>2 DEF DecInv, Chain, Reaches

LEMMA StopsKeeps ==
    ASSUME DecInv, UNCHANGED <<input, len>>, NEW result, result # "ok", Stops(result)
    PROVE  DecInv'
BY DEF DecInv, Stops, Chain, Reaches

LEMMA ReadTagKeeps == DecInv /\ ReadTag => DecInv'
<1> SUFFICES ASSUME DecInv, ReadTag PROVE DecInv'
  OBVIOUS
<1>1. UNCHANGED <<input, len>> /\ Readable(input)
  BY DEF ReadTag, DecInv
<1>2. CASE Stops("failed") \/ Stops("misread")
  BY <1>1, <1>2, StopsKeeps
<1>3. ASSUME NEW i \in Offered("tag", TagItems), NEW iter,
             Reads(i, [pb_read(Top, i.n) EXCEPT !.iter = iter]), pc' # "ok"
      PROVE  DecInv'
  <2> DEFINE f == [pb_read(Top, i.n) EXCEPT !.iter = iter]
  <2>1. i.n \in Nat /\ Enough(i.n) /\ i.n <= Top.left /\ stack' = Append(Below, f)
    BY <1>1, <1>3, OfferedSizes DEF Reads, Enough
  <2>2. /\ IsFrame(pb_read(Top, i.n)) /\ pb_read(Top, i.n).end = Top.end
        /\ pb_read(Top, i.n).pos = Top.pos + i.n
        /\ pb_read(Top, i.n).left = Top.left - i.n
    BY <2>1, TopFrame, ReadFrame
  <2>3. /\ IsFrame(f) /\ f.end = Top.end
        /\ f.pos = Top.pos + i.n /\ f.left = Top.left - i.n
    BY <2>2 DEF IsFrame
  <2> HIDE DEF f
  <2> QED BY <1>1, <1>3, <2>1, <2>3, TopReads
<1>4. \/ Stops("failed") \/ Stops("misread")
      \/ \E i \in Offered("tag", TagItems) : \E iter :
            Reads(i, [pb_read(Top, i.n) EXCEPT !.iter = iter]) /\ pc' # "ok"
  <2>1. ASSUME NEW i \in Offered("tag", TagItems),
               Reads(i, [pb_read(Top, i.n) EXCEPT
                             !.iter = pb_field_iter_find(Top.iter, i.tag).iter]),
               pc' = IF pb_field_iter_find(Top.iter, i.tag).found
                     THEN "field" ELSE "unknown"
        PROVE  \E iter : Reads(i, [pb_read(Top, i.n) EXCEPT !.iter = iter]) /\ pc' # "ok"
    <3>1. pc' # "ok"
      BY <2>1
    <3> WITNESS pb_field_iter_find(Top.iter, i.tag).iter
    <3> QED BY <2>1, <3>1
  <2> QED BY <2>1, Zenon DEF ReadTag
<1> QED BY <1>2, <1>3, <1>4

LEMMA SkipFieldKeeps == DecInv /\ SkipField => DecInv'
<1> SUFFICES ASSUME DecInv, SkipField PROVE DecInv'
  OBVIOUS
<1>1. UNCHANGED <<input, len>> /\ Readable(input)
  BY DEF SkipField, DecInv
<1>2. CASE Stops("failed") \/ Stops("misread")
  BY <1>1, <1>2, StopsKeeps
<1>3. CASE pc' = "tag"
           /\ \E i \in IF wire = PB_WT_STRING THEN Offered("len", LenItems)
                       ELSE Offered("val", ValItems(wire)) :
                 Enough(SkipSize(i)) /\ Reads(i, pb_read(Top, SkipSize(i)))
  <2>1. PICK i \in IF wire = PB_WT_STRING THEN Offered("len", LenItems)
                   ELSE Offered("val", ValItems(wire)) :
               Enough(SkipSize(i)) /\ Reads(i, pb_read(Top, SkipSize(i)))
    BY <1>3
  <2>2. SkipSize(i) \in Nat
    BY <1>1, OfferedSizes, OfferedLengths DEF SkipSize
  <2> DEFINE k == SkipSize(i)
  <2> HIDE DEF k
  <2>3. k \in Nat /\ Enough(k) /\ k <= Top.left /\ stack' = Append(Below, pb_read(Top, k))
    BY <2>1, <2>2 DEF Reads, Enough, k
  <2>4. /\ IsFrame(pb_read(Top, k)) /\ pb_read(Top, k).end = Top.end
        /\ pb_read(Top, k).pos = Top.pos + k
        /\ pb_read(Top, k).left = Top.left - k
    BY <2>3, TopFrame, ReadFrame
  <2> QED BY <1>1, <1>3, <2>3, <2>4, TopReads
<1> QED BY <1>2, <1>3 DEF SkipField

LEMMA DecodeValueKeeps == DecInv /\ DecodeValue => DecInv'
<1> SUFFICES ASSUME DecInv, DecodeValue PROVE DecInv'
  OBVIOUS
<1>1. UNCHANGED <<input, len>> /\ Readable(input)
  BY DEF DecodeValue, DecInv
<1>2. CASE Stops("failed") \/ Stops("misread")
  BY <1>1, <1>2, StopsKeeps
<1>3. CASE pc' = "tag" /\ \E i \in Offered("val", ValItems(wire)) : Reads(i, pb_read(Top, i.n))
  <2>1. PICK i \in Offered("val", ValItems(wire)) : Reads(i, pb_read(Top, i.n))
    BY <1>3
  <2> DEFINE k == i.n
  <2>2. k \in Nat
    BY <1>1, OfferedSizes
  <2>3. Enough(k) /\ k <= Top.left /\ stack' = Append(Below, pb_read(Top, k))
    BY <2>1 DEF Reads, Enough
  <2> HIDE DEF k
  <2>4. /\ IsFrame(pb_read(Top, k)) /\ pb_read(Top, k).end = Top.end
        /\ pb_read(Top, k).pos = Top.pos + k
        /\ pb_read(Top, k).left = Top.left - k
    BY <2>2, <2>3, TopFrame, ReadFrame
  <2> QED BY <1>1, <1>3, <2>2, <2>3, <2>4, TopReads
<1> QED BY <1>2, <1>3 DEF DecodeValue

\* The two streams a substream leaves behind.
LEMMA Substream ==
    ASSUME NEW fr, IsFrame(fr), Reaches(fr), NEW size \in Nat, NEW iter,
           pb_make_string_substream(fr, size, iter) # <<>>
    PROVE  LET parent == [fr EXCEPT !.left = @ - size]
               sub == Frame(iter, fr.pos, size)
           IN  /\ pb_make_string_substream(fr, size, iter) = <<parent, sub>>
               /\ IsFrame(parent) /\ parent.end = fr.end
               /\ IsFrame(sub) /\ Reaches(sub) /\ parent.left + sub.end = parent.end
<1> DEFINE left == fr.left - size
           end == fr.pos + size
           parent == [fr EXCEPT !.left = left]
           sub == [iter |-> iter, pos |-> fr.pos, left |-> size, end |-> end]
<1>1. size <= fr.left
  BY DEF pb_make_string_substream, IsFrame
<1>2. /\ left \in Nat /\ end \in Nat /\ left + end = fr.end /\ fr.pos + size = end
  BY <1>1 DEF IsFrame, Reaches
<1>3. pb_make_string_substream(fr, size, iter) = <<parent, sub>>
  BY DEF pb_make_string_substream, Frame
<1> HIDE DEF left, end
<1>4. IsFrame(parent) /\ parent.end = fr.end /\ parent.left = left
  BY <1>2 DEF IsFrame
<1>5. IsFrame(sub) /\ sub.end = end /\ sub.pos = fr.pos /\ sub.left = size
  BY <1>2 DEF IsFrame
<1>6. Reaches(sub) /\ parent.left + sub.end = parent.end
  BY <1>2, <1>4, <1>5 DEF Reaches
<1> HIDE DEF parent, sub
<1> QED BY <1>3, <1>4, <1>5, <1>6 DEF parent, sub, left, end, Frame

LEMMA OpenSubmessageKeeps == DecInv /\ OpenSubmessage => DecInv'
<1> SUFFICES ASSUME DecInv, OpenSubmessage PROVE DecInv'
  OBVIOUS
<1>1. UNCHANGED <<input, len>> /\ Readable(input)
  BY DEF OpenSubmessage, DecInv
<1>2. CASE Stops("failed") \/ Stops("misread")
  BY <1>1, <1>2, StopsKeeps
<1> DEFINE iter == pb_field_iter_begin(Top.iter.submsg_desc, Top.iter.pData)
           streams(i) == pb_make_string_substream(pb_read(Top, i.n), i.size, iter)
<1> HIDE DEF iter
<1>3. CASE \E i \in Offered("len", LenItems) :
              /\ Enough(i.n) /\ streams(i) # <<>>
              /\ stack' = Below \o streams(i) /\ pc' = "tag"
  <2>1. PICK i \in Offered("len", LenItems) :
              /\ Enough(i.n) /\ streams(i) # <<>>
              /\ stack' = Below \o streams(i) /\ pc' = "tag"
    BY <1>3
  <2> DEFINE fr == pb_read(Top, i.n)
             parent == [fr EXCEPT !.left = @ - i.size]
             sub == Frame(iter, fr.pos, i.size)
  <2>2. i.n \in Nat /\ i.n <= Top.left /\ i.size \in Nat
    BY <1>1, <2>1, OfferedSizes, OfferedLengths DEF Enough
  <2>3. IsFrame(fr) /\ fr.end = Top.end /\ Reaches(fr)
    <3>1. /\ IsFrame(fr) /\ fr.end = Top.end
          /\ fr.pos = Top.pos + i.n /\ fr.left = Top.left - i.n
      BY <2>2, TopFrame, ReadFrame
    <3> HIDE DEF fr
    <3> QED BY <2>2, <3>1, TopFrame DEF IsFrame, Reaches
  <2> HIDE DEF fr
  <2>4. pb_make_string_substream(fr, i.size, iter) # <<>>
    BY <2>1 DEF fr
  <2>5. /\ pb_make_string_substream(fr, i.size, iter) = <<parent, sub>>
        /\ IsFrame(parent) /\ parent.end = fr.end
        /\ IsFrame(sub) /\ Reaches(sub) /\ parent.left + sub.end = parent.end
    BY <2>2, <2>3, <2>4, Substream
  <2>6. stack' = SubSeq(stack, 1, Len(stack) - 1) \o <<parent, sub>>
    BY <2>1, <2>5 DEF Below, fr
  <2> HIDE DEF parent, sub
  <2>7. parent.end = stack[Len(stack)].end
    BY <2>3, <2>5, TopFrame
  <2>8. Chain(stack)
    BY TopFrame
  <2>9. Chain(stack') /\ stack'[Len(stack')] = sub
    BY <2>5, <2>6, <2>7, <2>8, OpenKeepsChain
  <2> QED BY <1>1, <2>1, <2>5, <2>9 DEF DecInv, Chain, Reaches
<1>4. \/ Stops("failed") \/ Stops("misread")
      \/ \E i \in Offered("len", LenItems) :
              /\ Enough(i.n) /\ streams(i) # <<>>
              /\ stack' = Below \o streams(i) /\ pc' = "tag"
  BY Zenon DEF OpenSubmessage, iter
<1> QED BY <1>2, <1>3, <1>4

LEMMA CloseSubmessageKeeps == DecInv /\ CloseSubmessage => DecInv'
<1> SUFFICES ASSUME DecInv, CloseSubmessage PROVE DecInv'
  OBVIOUS
<1> DEFINE below == SubSeq(stack, 1, Len(stack) - 1)
           p == below[Len(below)]
           pos == Top.pos + Top.left
           f == [p EXCEPT !.pos = pos]
<1>1. /\ UNCHANGED <<input, len, pc>> /\ pc = "tag" /\ Len(stack) > 1 /\ Top.left = 0
      /\ stack' = [below EXCEPT ![Len(below)] = f]
  BY DEF CloseSubmessage, Below, Resume
<1>2. PICK F : stack \in Seq(F)
  BY TopFrame DEF Chain
<1>3. /\ Len(below) = Len(stack) - 1
      /\ \A i \in 1..(Len(stack) - 1) : below[i] = stack[i]
  BY <1>2, TopFrame, BelowFrames
<1>4. /\ Len(stack) - 1 \in 1..(Len(stack) - 1)
      /\ Len(stack) - 1 \in 1..Len(stack)
      /\ Len(stack) - 1 + 1 = Len(stack)
  BY <1>1, TopFrame
<1>5. p = stack[Len(stack) - 1]
  BY <1>3, <1>4
<1>6. IsFrame(p) /\ p.left + Top.end = p.end
  <2> HIDE DEF p
  <2> QED BY <1>4, <1>5, TopFrame DEF Chain
<1>7. pos \in Nat /\ pos = Top.end
  BY TopFrame DEF IsFrame, Reaches
<1> HIDE DEF p, pos
<1>8. IsFrame(f) /\ f.end = p.end /\ f.pos = pos /\ f.left = p.left
  BY <1>6, <1>7 DEF IsFrame
<1> HIDE DEF f
<1>9. Reaches(f)
  BY <1>6, <1>7, <1>8 DEF Reaches, IsFrame
<1>10. Chain(stack') /\ stack'[Len(stack')] = f
  <2>1. Chain(stack) /\ f.end = stack[Len(stack) - 1].end
    BY <1>5, <1>8, TopFrame
  <2>2. /\ Chain([below EXCEPT ![Len(below)] = f])
        /\ [below EXCEPT ![Len(below)] = f][Len([below EXCEPT ![Len(below)] = f])] = f
    BY <1>1, <1>8, <2>1, CloseKeepsChain
  <2> HIDE DEF below
  <2> QED BY <1>1, <2>2
<1> QED BY <1>1, <1>9, <1>10 DEF DecInv, Chain, Reaches

LEMMA ReturnKeeps == DecInv /\ Return => DecInv'
BY DEF DecInv, Return, Chain, Reaches, Top

\* pb_decode begins, with bytes that can be read.
Begins ==
    /\ len \in Nat /\ Readable(input) /\ at = 0
    /\ stack = FirstStack(len)
    /\ pc = "tag" /\ wire = 0
    /\ mem = FreshStruct

LEMMA InitBegins == Init => Begins
BY DecodeAssumption DEF Init, Begins, Elsewhere, Readable

LEMMA DecInvBegins == Begins => DecInv
<1> SUFFICES ASSUME Begins PROVE DecInv
  OBVIOUS
<1> DEFINE iter == pb_field_iter_begin("MQTTMessage", 0)
           f == Frame(iter, 0, len)
<1>1. len \in Nat /\ Readable(input) /\ stack = <<f>> /\ pc = "tag"
  BY DEF Begins, FirstStack
<1> HIDE DEF iter
<1>2. IsFrame(f) /\ f.end = len /\ Reaches(f)
  BY <1>1 DEF IsFrame, Frame, Reaches
<1> HIDE DEF f
<1>3. /\ \E F : stack \in Seq(F)
      /\ Len(stack) = 1 /\ stack[1] = f
      /\ \A i \in 1..1 : i = 1
  <2>1. stack \in Seq({f})
    BY <1>1
  <2>2. \E F : stack \in Seq(F)
    BY <2>1
  <2>3. Len(stack) = 1 /\ stack[1] = f
    BY <1>1
  <2>4. \A i \in 1..1 : i = 1
    OBVIOUS
  <2> QED BY <2>2, <2>3, <2>4
<1>4. Chain(stack)
  BY <1>2, <1>3 DEF Chain
<1> QED BY <1>1, <1>2, <1>3, <1>4 DEF DecInv

LEMMA DecInvNext == DecInv /\ [Next]_vars => DecInv'
<1>1. DecInv /\ WrongWire => DecInv'
  BY StopsKeeps DEF WrongWire
<1>2. DecInv /\ UNCHANGED vars => DecInv'
  BY DEF DecInv, vars, Chain, Reaches
<1> QED BY <1>1, <1>2, ReadTagKeeps, SkipFieldKeeps, DecodeValueKeeps,
           OpenSubmessageKeeps, CloseSubmessageKeeps, ReturnKeeps DEF Next

THEOREM DecoderInvariant == Spec => []DecInv
BY InitBegins, DecInvBegins, DecInvNext, PTL DEF Spec

\* Nested messages share the bytes out exactly, for messages of every length and
\* any bytes: no stream reads beyond its submessage, and none of a message that is
\* accepted is left unread (pb_decode.c:383-411, 1622-1672).
THEOREM DecoderSharesBytesOut == Spec => []BytesSharedOut
<1>1. DecInv => BytesSharedOut
  BY TopFrame DEF BytesSharedOut, DecInv, Chain, Reaches, IsFrame, Top
<1> QED BY <1>1, DecoderInvariant, PTL

(***************************************************************************)
(* Iterators.  Each pb_decode_inner has its iterator at a field of its     *)
(* message, at the one place of the struct where that message is.          *)
(***************************************************************************)

LEMMA ReadKeepsFields ==
    ASSUME NEW s, Chain(s), AtFields(s), NEW f, FrameAt(f, Len(s))
    PROVE  AtFields(Append(SubSeq(s, 1, Len(s) - 1), f))
<1> DEFINE t == Append(SubSeq(s, 1, Len(s) - 1), f)
<1>1. PICK F : s \in Seq(F)
  BY DEF Chain
<1>2. Len(s) \in Nat /\ Len(s) >= 1
  BY <1>1, LenProperties DEF Chain
<1>3. /\ Len(t) = Len(s)
      /\ \A i \in 1..(Len(s) - 1) : t[i] = s[i]
      /\ t[Len(s)] = f
  BY <1>1, <1>2, AppendBelow
<1> HIDE DEF t
<1>4. ASSUME NEW i \in 1..Len(t) PROVE FrameAt(t[i], i)
  <2>1. CASE i = Len(s)
    BY <1>3, <2>1
  <2>2. CASE i # Len(s)
    <3>1. i \in 1..(Len(s) - 1) /\ i \in 1..Len(s)
      BY <1>2, <1>3, <2>2
    <3> QED BY <1>3, <3>1 DEF AtFields
  <2> QED BY <2>1, <2>2
<1> QED BY <1>4 DEF AtFields, t

LEMMA OpenKeepsFields ==
    ASSUME NEW s, Chain(s), AtFields(s), NEW f, FrameAt(f, Len(s)),
           NEW g, FrameAt(g, Len(s) + 1)
    PROVE  AtFields(SubSeq(s, 1, Len(s) - 1) \o <<f, g>>)
<1> DEFINE t == SubSeq(s, 1, Len(s) - 1) \o <<f, g>>
<1>1. PICK F : s \in Seq(F)
  BY DEF Chain
<1>2. Len(s) \in Nat /\ Len(s) >= 1
  BY <1>1, LenProperties DEF Chain
<1>3. Len(t) = Len(s) + 1
  BY <1>1, <1>2, AppendTwo
<1>4. t[Len(s)] = f
  BY <1>1, <1>2, AppendTwo
<1>5. t[Len(t)] = g
  BY <1>1, <1>2, AppendTwo
<1>6. \A i \in 1..(Len(s) - 1) : t[i] = s[i]
  BY <1>1, <1>2, AppendTwo
<1> HIDE DEF t
<1>7. ASSUME NEW i \in 1..Len(t) PROVE FrameAt(t[i], i)
  <2>1. CASE i = Len(s)
    BY <1>4, <2>1
  <2>2. CASE i = Len(s) + 1
    <3>1. i = Len(t)
      BY <1>3, <2>2
    <3>2. t[i] = g
      BY <1>5, <3>1
    <3> QED BY <2>2, <3>2
  <2>3. CASE i # Len(s) /\ i # Len(s) + 1
    <3>1. i \in 1..(Len(s) - 1) /\ i \in 1..Len(s)
      BY <1>2, <1>3, <2>3
    <3> QED BY <1>6, <3>1 DEF AtFields
  <2> QED BY <2>1, <2>2, <2>3
<1> QED BY <1>7 DEF AtFields, t

LEMMA CloseKeepsFields ==
    ASSUME NEW s, Chain(s), AtFields(s), Len(s) > 1, NEW f, FrameAt(f, Len(s) - 1)
    PROVE  LET below == SubSeq(s, 1, Len(s) - 1)
           IN  AtFields([below EXCEPT ![Len(below)] = f])
<1> DEFINE below == SubSeq(s, 1, Len(s) - 1)
           t == [below EXCEPT ![Len(below)] = f]
<1>1. PICK F : s \in Seq(F)
  BY DEF Chain
<1>2. Len(s) \in Nat
  BY <1>1, LenProperties
<1>3. /\ Len(t) = Len(s) - 1
      /\ \A i \in 1..(Len(s) - 2) : t[i] = s[i]
      /\ t[Len(s) - 1] = f
  BY <1>1, <1>2, UpdateBelow
<1> HIDE DEF t
<1>4. ASSUME NEW i \in 1..Len(t) PROVE FrameAt(t[i], i)
  <2>1. CASE i = Len(s) - 1
    BY <1>3, <2>1
  <2>2. CASE i # Len(s) - 1
    <3>1. i \in 1..(Len(s) - 2) /\ i \in 1..Len(s)
      BY <1>2, <1>3, <2>2
    <3> QED BY <1>3, <3>1 DEF AtFields
  <2> QED BY <2>1, <2>2
<1> QED BY <1>4 DEF AtFields, t

(***************************************************************************)
(* The struct.                                                             *)
(***************************************************************************)

StructType == [Cells -> Nat]

LEMMA PutKeepsType ==
    ASSUME NEW m \in StructType, NEW cells, NEW v \in Nat
    PROVE  Put(m, cells, v) \in StructType
BY DEF Put, StructType

LEMMA DefaultsKeepType ==
    ASSUME NEW m \in StructType, NEW desc, NEW message
    PROVE  pb_message_set_to_defaults(m, desc, message) \in StructType
<1>1. 0 \in Nat
  OBVIOUS
<1> QED BY <1>1, PutKeepsType, Zenon DEF pb_message_set_to_defaults

LEMMA StaticFieldKeepsType ==
    ASSUME NEW m \in StructType, NEW it, it.tag \in Nat
    PROVE  decode_static_field(m, it) \in StructType
<1> DEFINE zeros == Put(m, Span(it.pData, it.data_size), 0)
<1>1. ClearMember(m, it) \in StructType
  <2>1. 0 \in Nat
    OBVIOUS
  <2>2. zeros \in StructType
    BY <2>1, PutKeepsType, Zenon
  <2>3. pb_message_set_to_defaults(zeros, it.submsg_desc, it.pData) \in StructType
    BY <2>2, DefaultsKeepType, Zenon
  <2> QED BY <2>2, <2>3, Zenon DEF ClearMember
<1> DEFINE base == IF m[it.pSize] # it.tag THEN ClearMember(m, it) ELSE m
<1>2. base \in StructType
  BY <1>1
<1> HIDE DEF base
<1>3. Put(base, Span(it.pSize, 2), it.tag) \in StructType
  BY <1>2, PutKeepsType, Zenon
<1>4. Put(m, Span(it.pSize, 1), 1) \in StructType
  <2>1. 1 \in Nat
    OBVIOUS
  <2> QED BY <2>1, PutKeepsType, Zenon
<1> QED BY <1>3, <1>4, Zenon DEF decode_static_field, base

(***************************************************************************)
(* The inductive invariant of the iterators and the types.                 *)
(***************************************************************************)

DecTypes ==
    /\ at \in Nat /\ len \in Nat
    /\ pc \in Running \cup {"ok", "failed", "misread"}
    /\ wire \in 0..5
    /\ mem \in StructType

FieldInv == DecInv /\ AtFields(stack) /\ DecTypes

\* Where the innermost iterator is.
LEMMA TopIterator ==
    ASSUME FieldInv
    PROVE  \E desc \in Messages : \E n \in DOMAIN FieldList[desc] :
              Top.iter = IterAt(desc, Place[desc], n) /\ Depth[desc] = Len(stack)
<1>1. Len(stack) \in 1..Len(stack) /\ Top = stack[Len(stack)]
  BY TopFrame DEF FieldInv
<1>2. FrameAt(Top, Len(stack))
  BY <1>1 DEF FieldInv, AtFields
<1> QED BY <1>2 DEF FrameAt

LEMMA TopTag ==
    ASSUME FieldInv
    PROVE  Top.iter.tag \in Nat
<1>1. PICK desc \in Messages :
         \E n \in DOMAIN FieldList[desc] : Top.iter = IterAt(desc, Place[desc], n)
  BY TopIterator
<1>0. PICK n \in DOMAIN FieldList[desc] : Top.iter = IterAt(desc, Place[desc], n)
  BY <1>1
<1>2. Place[desc] \in Int
  BY PlaceInStruct
<1>3. Top.iter.tag = n
  BY <1>0, <1>2, IterMembers
<1>4. n \in Nat
  BY CountOf
<1> QED BY <1>3, <1>4

LEMMA StopsKeepsTypes ==
    ASSUME FieldInv, UNCHANGED len, NEW result, result \in {"failed", "misread"},
           Stops(result), mem' \in StructType
    PROVE  AtFields(stack)' /\ DecTypes'
BY DEF FieldInv, DecTypes, Stops, AtFields

\* The innermost stream reads on, and stays at its field or goes to another one.
LEMMA ReadKeepsTypes ==
    ASSUME FieldInv, UNCHANGED len, NEW i, NEW f, Reads(i, f), FrameAt(f, Len(stack)),
           pc' \in Running, wire' \in 0..5, mem' \in StructType
    PROVE  AtFields(stack)' /\ DecTypes'
<1>1. stack' = Append(SubSeq(stack, 1, Len(stack) - 1), f) /\ at' = at + 1
  BY DEF Reads, Below
<1>2. AtFields(stack')
  BY <1>1, TopFrame, ReadKeepsFields DEF FieldInv
<1> QED BY <1>1, <1>2 DEF FieldInv, DecTypes, AtFields

\* After the searches for a tag, and for an extension, the iterator is at a field
\* of the same message.
LEMMA SearchKeepsField ==
    ASSUME FieldInv, NEW tag \in Nat \ {0}, NEW search,
           search = pb_field_iter_find(Top.iter, tag),
           NEW f, f.iter = IF search.found THEN search.iter
                           ELSE pb_field_iter_find_extension(search.iter)
    PROVE  FrameAt(f, Len(stack)) /\ f.iter.descriptor = Top.iter.descriptor
<1>1. PICK desc \in Messages :
         \E n \in DOMAIN FieldList[desc] :
            Top.iter = IterAt(desc, Place[desc], n) /\ Depth[desc] = Len(stack)
  BY TopIterator
<1>2. PICK count \in 2..6 : Len(FieldList[desc]) = count /\ DOMAIN FieldList[desc] = 1..count
  BY CountOf
<1>3. PICK n \in 1..count :
         Top.iter = IterAt(desc, Place[desc], n) /\ Depth[desc] = Len(stack)
  BY <1>1, <1>2
<1>4. PICK message \in Int : message = Place[desc]
  BY PlaceInStruct
<1>5. search = [iter |-> IF tag <= count THEN IterAt(desc, message, tag)
                         ELSE IterAt(desc, message, n),
                found |-> tag <= count]
  <2>1. Len(FieldList[desc]) = count
    BY <1>2
  <2>2. pb_field_iter_find(IterAt(desc, message, n), tag)
          = [iter |-> IF tag <= count THEN IterAt(desc, message, tag)
                      ELSE IterAt(desc, message, n),
             found |-> tag <= count]
    BY <2>1, EachFieldIsFound
  <2> QED BY <1>3, <1>4, <2>2, Zenon
<1> DEFINE there == IF tag <= count THEN IterAt(desc, message, tag)
                    ELSE IterAt(desc, message, n)
           found == tag <= count
<1>8. f.iter = IF found THEN there ELSE pb_field_iter_find_extension(there)
  <2>1. search = [iter |-> there, found |-> found]
    BY <1>5, Zenon
  <2> HIDE DEF there, found
  <2> QED BY <2>1
<1>6. CASE tag <= count
  <2>1. PICK k \in 1..count : k = tag
    BY <1>6
  <2>2. f.iter = IterAt(desc, message, k)
    BY <1>6, <1>8, <2>1, Zenon
  <2>3. k \in DOMAIN FieldList[desc] /\ n \in DOMAIN FieldList[desc]
    BY <1>2
  <2>4. FrameAt(f, Len(stack))
    BY <1>3, <1>4, <2>2, <2>3, Zenon DEF FrameAt
  <2>5. f.iter.descriptor = desc
    <3>1. PICK it : it = f.iter
      OBVIOUS
    <3>2. it = IterAt(desc, message, k)
      BY <2>2, <3>1
    <3> QED BY <2>3, <3>1, <3>2, IterMembers
  <2>6. Top.iter.descriptor = desc
    <3>1. PICK it : it = Top.iter
      OBVIOUS
    <3>2. it = IterAt(desc, message, n)
      BY <1>3, <1>4, <3>1, Zenon
    <3> QED BY <2>3, <3>1, <3>2, IterMembers
  <2> QED BY <2>4, <2>5, <2>6
<1>7. CASE ~(tag <= count)
  <2>1. f.iter = pb_field_iter_find_extension(IterAt(desc, message, n))
    BY <1>7, <1>8, Zenon
  <2>2. pb_field_iter_find_extension(IterAt(desc, message, n)) = IterAt(desc, message, n)
    <3>1. Len(FieldList[desc]) = count
      BY <1>2
    <3> QED BY <3>1, ExtensionSearchComesBack
  <2>3. n \in DOMAIN FieldList[desc]
    BY <1>2
  <2>4. f.iter = Top.iter
    BY <1>3, <1>4, <2>1, <2>2, Zenon
  <2> QED BY <1>3, <2>3, <2>4, Zenon DEF FrameAt
<1> QED BY <1>6, <1>7

\* Whoever sent it, what is read is a tag, or a value.
LEMMA OfferedTypes ==
    ASSUME Readable(input)
    PROVE  /\ \A i \in Offered("tag", TagItems) : i.tag \in Nat /\ i.wire \in 0..5
           /\ \A i \in Offered("val", ValItems(wire)) : i.v \in Nat
<1>1. \A i \in TagItems : i.tag \in Nat /\ i.wire \in 0..5
  BY DEF TagItems, TagItem
<1>2. \A i \in ValItems(wire) : i.v \in Nat
  BY DecodeAssumption DEF ValItems, ValItem
<1>3. ASSUME NEW i \in Offered("tag", TagItems)
      PROVE  i.tag \in Nat /\ i.wire \in 0..5
  BY <1>1, <1>3, Zenon DEF Offered, Readable, IsItem
<1>4. ASSUME NEW i \in Offered("val", ValItems(wire))
      PROVE  i.v \in Nat
  BY <1>2, <1>4, Zenon DEF Offered, Readable, IsItem
<1> QED BY <1>3, <1>4, Zenon

\* pb_read leaves the iterator alone.
LEMMA ReadKeepsIter ==
    ASSUME NEW f, IsFrame(f), NEW count
    PROVE  pb_read(f, count).iter = f.iter
<1> DEFINE pos == f.pos + count
           left == f.left - count
<1>1. pb_read(f, count) = [f EXCEPT !.pos = pos, !.left = left]
  BY DEF pb_read
<1> HIDE DEF pos, left
<1>2. [f EXCEPT !.pos = pos, !.left = left].iter = f.iter
  BY DEF IsFrame
<1> QED BY <1>1, <1>2

LEMMA TopReadsOn ==
    ASSUME FieldInv, NEW count
    PROVE  FrameAt(pb_read(Top, count), Len(stack))
<1>1. pb_read(Top, count).iter = Top.iter
  BY TopFrame, ReadKeepsIter DEF FieldInv
<1>2. FrameAt(Top, Len(stack))
  BY TopIterator DEF FrameAt
<1> QED BY <1>1, <1>2, SameIterator

LEMMA ReadTagKeepsTypes == FieldInv /\ ReadTag => AtFields(stack)' /\ DecTypes'
<1> SUFFICES ASSUME FieldInv, ReadTag PROVE AtFields(stack)' /\ DecTypes'
  OBVIOUS
<1>1. UNCHANGED len /\ Readable(input) /\ mem' \in StructType
  BY DEF ReadTag, FieldInv, DecInv, DecTypes
<1>2. CASE Stops("failed") \/ Stops("misread")
  BY <1>1, <1>2, StopsKeepsTypes
<1>3. ASSUME NEW i \in Offered("tag", TagItems), i.tag # 0, NEW search,
             search = pb_field_iter_find(Top.iter, i.tag), NEW iter,
             iter = (IF search.found THEN search.iter
                     ELSE pb_field_iter_find_extension(search.iter)),
             Reads(i, [pb_read(Top, i.n) EXCEPT !.iter = iter]),
             wire' = i.wire, pc' = IF search.found THEN "field" ELSE "unknown"
      PROVE  AtFields(stack)' /\ DecTypes'
  <2>1. i.tag \in Nat \ {0} /\ wire' \in 0..5
    BY <1>1, <1>3, OfferedTypes
  <2>2. pc' \in Running
    BY <1>3 DEF Running
  <2>3. PICK f : f = [pb_read(Top, i.n) EXCEPT !.iter = iter]
    OBVIOUS
  <2>4. f.iter = iter
    <3>1. i.n \in Nat /\ i.n <= Top.left
      BY <1>1, <1>3, OfferedSizes DEF Reads, Enough
    <3>2. PICK r : r = pb_read(Top, i.n)
      OBVIOUS
    <3>3. IsFrame(r)
      BY <3>1, <3>2, TopFrame, ReadFrame DEF FieldInv
    <3> QED BY <2>3, <3>2, <3>3 DEF IsFrame
  <2>5. FrameAt(f, Len(stack))
    BY <1>3, <2>1, <2>4, SearchKeepsField
  <2> QED BY <1>1, <1>3, <2>1, <2>2, <2>3, <2>5, ReadKeepsTypes
<1>4. \/ Stops("failed") \/ Stops("misread")
      \/ \E i \in Offered("tag", TagItems) : \E search : \E iter :
            /\ i.tag # 0
            /\ search = pb_field_iter_find(Top.iter, i.tag)
            /\ iter = (IF search.found THEN search.iter
                       ELSE pb_field_iter_find_extension(search.iter))
            /\ Reads(i, [pb_read(Top, i.n) EXCEPT !.iter = iter])
            /\ wire' = i.wire
            /\ pc' = IF search.found THEN "field" ELSE "unknown"
  BY Zenon DEF ReadTag
<1> QED BY <1>2, <1>3, <1>4

LEMMA SkipFieldKeepsTypes == FieldInv /\ SkipField => AtFields(stack)' /\ DecTypes'
<1> SUFFICES ASSUME FieldInv, SkipField PROVE AtFields(stack)' /\ DecTypes'
  OBVIOUS
<1>1. UNCHANGED len /\ mem' \in StructType
  BY DEF SkipField, FieldInv, DecTypes
<1>2. CASE Stops("failed") \/ Stops("misread")
  BY <1>1, <1>2, StopsKeepsTypes
<1>3. CASE /\ pc' = "tag" /\ UNCHANGED wire
           /\ \E i : Reads(i, pb_read(Top, SkipSize(i)))
  <2>1. PICK i : Reads(i, pb_read(Top, SkipSize(i)))
    BY <1>3
  <2>2. FrameAt(pb_read(Top, SkipSize(i)), Len(stack))
    BY TopReadsOn
  <2>3. pc' \in Running /\ wire' \in 0..5
    BY <1>3 DEF Running, FieldInv, DecTypes
  <2> QED BY <1>1, <2>1, <2>2, <2>3, ReadKeepsTypes
<1>4. \/ Stops("failed") \/ Stops("misread")
      \/ /\ pc' = "tag" /\ UNCHANGED wire
         /\ \E i : Reads(i, pb_read(Top, SkipSize(i)))
  BY Zenon DEF SkipField
<1> QED BY <1>2, <1>3, <1>4

LEMMA WrongWireKeepsTypes == FieldInv /\ WrongWire => AtFields(stack)' /\ DecTypes'
<1> SUFFICES ASSUME FieldInv, WrongWire PROVE AtFields(stack)' /\ DecTypes'
  OBVIOUS
<1>1. mem \in StructType
  BY DEF FieldInv, DecTypes
<1>2. mem' \in StructType
  BY <1>1, TopTag, StaticFieldKeepsType DEF WrongWire
<1> QED BY <1>2, StopsKeepsTypes DEF WrongWire

LEMMA DecodeValueKeepsTypes == FieldInv /\ DecodeValue => AtFields(stack)' /\ DecTypes'
<1> SUFFICES ASSUME FieldInv, DecodeValue PROVE AtFields(stack)' /\ DecTypes'
  OBVIOUS
<1>1. UNCHANGED len /\ Readable(input) /\ mem \in StructType
  BY DEF DecodeValue, FieldInv, DecInv, DecTypes
<1> DEFINE field == decode_static_field(mem, Top.iter)
           Stored(v) == Put(field, Span(Top.iter.pData, Top.iter.data_size), v)
<1>2. field \in StructType
  BY <1>1, TopTag, StaticFieldKeepsType
<1> HIDE DEF field
<1>3. ASSUME NEW v \in Nat PROVE Stored(v) \in StructType
  BY <1>2, PutKeepsType, Zenon
<1> HIDE DEF Stored
<1>4. CASE /\ Stops("failed") \/ Stops("misread")
           /\ \/ mem' = field \/ UNCHANGED mem
              \/ \E v \in Values : mem' = Stored(v)
  <2>1. mem' \in StructType
    BY <1>1, <1>2, <1>3, <1>4, DecodeAssumption
  <2> QED BY <1>1, <1>4, <2>1, StopsKeepsTypes
<1>5. ASSUME NEW i \in Offered("val", ValItems(wire)), Reads(i, pb_read(Top, i.n)),
             mem' = Stored(i.v), pc' = "tag", UNCHANGED wire
      PROVE  AtFields(stack)' /\ DecTypes'
  <2>1. i.v \in Nat
    BY <1>1, OfferedTypes
  <2>2. mem' \in StructType
    BY <1>3, <1>5, <2>1
  <2>3. FrameAt(pb_read(Top, i.n), Len(stack))
    BY TopReadsOn
  <2>4. pc' \in Running /\ wire' \in 0..5
    BY <1>5 DEF Running, FieldInv, DecTypes
  <2> QED BY <1>1, <1>5, <2>2, <2>3, <2>4, ReadKeepsTypes
<1>6. \/ /\ Stops("failed") \/ Stops("misread")
         /\ \/ mem' = field \/ UNCHANGED mem
            \/ \E v \in Values : mem' = Stored(v)
      \/ \E i \in Offered("val", ValItems(wire)) :
            /\ Reads(i, pb_read(Top, i.n)) /\ mem' = Stored(i.v)
            /\ pc' = "tag" /\ UNCHANGED wire
  BY Zenon DEF DecodeValue, Stored, field
<1> QED BY <1>4, <1>5, <1>6

\* The iterator a submessage is opened with is at its first field.
LEMMA SubmessageBegins ==
    ASSUME FieldInv, PB_LTYPE_IS_SUBMSG(Top.iter.type),
           NEW f, f.iter = pb_field_iter_begin(Top.iter.submsg_desc, Top.iter.pData)
    PROVE  FrameAt(f, Len(stack) + 1)
<1>1. PICK desc \in Messages :
         \E n \in DOMAIN FieldList[desc] :
            Top.iter = IterAt(desc, Place[desc], n) /\ Depth[desc] = Len(stack)
  BY TopIterator
<1>2. PICK n \in DOMAIN FieldList[desc] :
         Top.iter = IterAt(desc, Place[desc], n) /\ Depth[desc] = Len(stack)
  BY <1>1
<1>3. Place[desc] \in Int
  BY PlaceInStruct
<1>4. PICK field : field = FieldList[desc][n]
  OBVIOUS
<1>5. /\ Top.iter.type = Type(field)
      /\ Top.iter.pData = Place[desc] + field.offset
      /\ Top.iter.submsg_desc = field.sub
      /\ IsField(field)
  BY <1>2, <1>3, <1>4, IterMembers
<1>6. PICK sub : sub = field.sub
  OBVIOUS
<1>7. sub # NULL
  BY <1>5, <1>6, TypeParts DEF IsField
<1>8. /\ sub \in Messages
      /\ Place[sub] = Place[desc] + field.offset
      /\ Depth[sub] = Depth[desc] + 1
  BY <1>4, <1>6, <1>7, PlaceOfSubmessage
<1>9. PICK message \in Int : message = Place[sub]
  BY <1>8, PlaceInStruct
<1>10. f.iter = IterAt(sub, message, 1)
  <2>1. f.iter = pb_field_iter_begin(sub, message)
    BY <1>5, <1>6, <1>8, <1>9, Zenon
  <2> QED BY <1>8, <2>1, BeginTrue
<1>11. PICK first \in DOMAIN FieldList[sub] : first = 1
  BY <1>8, CountOf
<1>12. f.iter = IterAt(sub, Place[sub], first)
  BY <1>9, <1>10, <1>11, Zenon
<1>13. Depth[sub] = Len(stack) + 1
  BY <1>2, <1>8
<1> QED BY <1>8, <1>12, <1>13 DEF FrameAt

LEMMA OpenSubmessageKeepsTypes == FieldInv /\ OpenSubmessage => AtFields(stack)' /\ DecTypes'
<1> SUFFICES ASSUME FieldInv, OpenSubmessage PROVE AtFields(stack)' /\ DecTypes'
  OBVIOUS
<1>1. /\ UNCHANGED len /\ mem \in StructType /\ at \in Nat /\ wire \in 0..5
      /\ PB_LTYPE_IS_SUBMSG(Top.iter.type)
  BY DEF OpenSubmessage, FieldInv, DecTypes
<1>2. mem' \in StructType
  BY <1>1, TopTag, StaticFieldKeepsType DEF OpenSubmessage
<1>3. CASE Stops("failed") \/ Stops("misread")
  BY <1>1, <1>2, <1>3, StopsKeepsTypes
<1> DEFINE iter == pb_field_iter_begin(Top.iter.submsg_desc, Top.iter.pData)
           streams(i) == pb_make_string_substream(pb_read(Top, i.n), i.size, iter)
<1>4. CASE \E i : /\ streams(i) # <<>> /\ stack' = Below \o streams(i)
                  /\ at' = at + 1 /\ pc' = "tag" /\ UNCHANGED wire
  <2>1. PICK i : /\ streams(i) # <<>> /\ stack' = Below \o streams(i)
                 /\ at' = at + 1 /\ pc' = "tag" /\ UNCHANGED wire
    BY <1>4
  <2> DEFINE fr == pb_read(Top, i.n)
  <2>2. PICK parent, sub : /\ parent = [fr EXCEPT !.left = @ - i.size]
                           /\ sub = Frame(iter, fr.pos, i.size)
    OBVIOUS
  <2>3. stack' = SubSeq(stack, 1, Len(stack) - 1) \o <<parent, sub>>
    BY <2>1, <2>2 DEF pb_make_string_substream, Below
  <2>4. FrameAt(sub, Len(stack) + 1)
    <3> HIDE DEF iter, fr
    <3>1. sub.iter = iter
      BY <2>2 DEF Frame
    <3> QED BY <1>1, <3>1, SubmessageBegins DEF iter
  <2>5. FrameAt(parent, Len(stack))
    <3>1. parent.iter = Top.iter
      <4> DEFINE pos == Top.pos + i.n
                 left == Top.left - i.n
                 rest == fr.left - i.size
      <4>1. fr = [Top EXCEPT !.pos = pos, !.left = left]
        BY DEF pb_read
      <4>2. parent = [fr EXCEPT !.left = rest]
        BY <2>2
      <4> HIDE DEF fr, pos, left, rest
      <4>3. Top = [iter |-> Top.iter, pos |-> Top.pos, left |-> Top.left, end |-> Top.end]
        BY TopFrame DEF FieldInv, IsFrame
      <4>4. PICK t : t = Top
        OBVIOUS
      <4>5. t = [iter |-> t.iter, pos |-> t.pos, left |-> t.left, end |-> t.end]
        BY <4>3, <4>4
      <4>6. fr = [iter |-> t.iter, pos |-> pos, left |-> left, end |-> t.end]
        BY <4>1, <4>4, <4>5
      <4> QED BY <4>2, <4>4, <4>6
    <3>2. FrameAt(Top, Len(stack))
      BY TopIterator DEF FrameAt
    <3> QED BY <3>1, <3>2, SameIterator
  <2>6. AtFields(stack')
    BY <2>3, <2>4, <2>5, TopFrame, OpenKeepsFields DEF FieldInv
  <2> QED BY <1>1, <1>2, <2>1, <2>6 DEF FieldInv, DecTypes, AtFields, Running
<1>5. \/ Stops("failed") \/ Stops("misread")
      \/ \E i : /\ streams(i) # <<>> /\ stack' = Below \o streams(i)
                /\ at' = at + 1 /\ pc' = "tag" /\ UNCHANGED wire
  <2> HIDE DEF iter
  <2> QED BY Zenon DEF OpenSubmessage, iter
<1> QED BY <1>3, <1>4, <1>5

LEMMA CloseSubmessageKeepsTypes == FieldInv /\ CloseSubmessage => AtFields(stack)' /\ DecTypes'
<1> SUFFICES ASSUME FieldInv, CloseSubmessage PROVE AtFields(stack)' /\ DecTypes'
  OBVIOUS
<1> DEFINE below == SubSeq(stack, 1, Len(stack) - 1)
           pos == Top.pos + Top.left
<1>1. PICK p : p = below[Len(below)]
  OBVIOUS
<1>2. PICK f : f = [p EXCEPT !.pos = pos]
  OBVIOUS
<1>3. /\ UNCHANGED <<at, len, pc, wire, mem>> /\ Len(stack) > 1
      /\ stack' = [below EXCEPT ![Len(below)] = f]
  BY <1>1, <1>2 DEF CloseSubmessage, Below, Resume
<1>4. PICK F : stack \in Seq(F)
  BY TopFrame DEF FieldInv, Chain
<1>5. /\ Len(below) = Len(stack) - 1
      /\ \A i \in 1..(Len(stack) - 1) : below[i] = stack[i]
  BY <1>4, TopFrame, BelowFrames DEF FieldInv
<1>6. /\ Len(stack) - 1 \in 1..(Len(stack) - 1)
      /\ Len(stack) - 1 \in 1..Len(stack)
  BY <1>3, TopFrame DEF FieldInv
<1>7. p = stack[Len(stack) - 1]
  BY <1>1, <1>5, <1>6
<1> HIDE DEF pos
<1>8. f.iter = p.iter
  <2>1. IsFrame(p)
    BY <1>6, <1>7, TopFrame DEF FieldInv, Chain
  <2> QED BY <1>2, <2>1 DEF IsFrame
<1>9. FrameAt(f, Len(stack) - 1)
  <2>1. FrameAt(p, Len(stack) - 1)
    BY <1>6, <1>7 DEF FieldInv, AtFields
  <2> QED BY <1>8, <2>1, SameIterator
<1>10. AtFields(stack')
  <2>1. AtFields([below EXCEPT ![Len(below)] = f])
    BY <1>3, <1>9, TopFrame, CloseKeepsFields DEF FieldInv
  <2> QED BY <1>3, <2>1, Zenon
<1> QED BY <1>3, <1>10 DEF FieldInv, DecTypes, AtFields

LEMMA FieldInvBegins == Begins => FieldInv
<1> SUFFICES ASSUME Begins PROVE FieldInv
  OBVIOUS
<1>1. DecInv
  BY DecInvBegins
<1>2. PICK iter : iter = pb_field_iter_begin("MQTTMessage", 0)
  OBVIOUS
<1>3. PICK f : f = Frame(iter, 0, len)
  OBVIOUS
<1>4. stack = <<f>>
  BY <1>2, <1>3 DEF Begins, FirstStack
<1>5. FrameAt(f, 1)
  <2>1. f.iter = iter
    BY <1>3 DEF Frame
  <2>2. "MQTTMessage" \in Messages /\ Place["MQTTMessage"] = 0 /\ Depth["MQTTMessage"] = 1
    BY MessageNames DEF Place, Depth
  <2>3. iter = IterAt("MQTTMessage", 0, 1)
    BY <1>2, <2>2, BeginTrue
  <2>4. 1 \in DOMAIN FieldList["MQTTMessage"]
    BY <2>2, CountOf
  <2> QED BY <2>1, <2>2, <2>3, <2>4 DEF FrameAt
<1>6. AtFields(stack)
  BY <1>4, <1>5 DEF AtFields
<1>7. mem \in StructType
  <2>1. MQTTMessage_init_default \in StructType
    BY DEF MQTTMessage_init_default, StructType
  <2>2. FreshStruct \in StructType
    BY <2>1, DefaultsKeepType DEF FreshStruct
  <2> QED BY <2>2 DEF Begins
<1>8. DecTypes
  BY <1>7 DEF Begins, DecTypes, Running
<1> QED BY <1>1, <1>6, <1>8 DEF FieldInv

LEMMA FieldInvNext == FieldInv /\ [Next]_vars => FieldInv'
<1> SUFFICES ASSUME FieldInv, [Next]_vars PROVE FieldInv'
  OBVIOUS
<1>1. DecInv'
  BY DecInvNext DEF FieldInv
<1>2. CASE Return \/ UNCHANGED vars
  <2>1. AtFields(stack)' /\ DecTypes'
    BY <1>2 DEF FieldInv, AtFields, DecTypes, Return, vars
  <2> QED BY <1>1, <2>1 DEF FieldInv
<1>3. CASE ~(Return \/ UNCHANGED vars)
  <2>1. AtFields(stack)' /\ DecTypes'
    BY <1>3, ReadTagKeepsTypes, SkipFieldKeepsTypes, WrongWireKeepsTypes,
       DecodeValueKeepsTypes, OpenSubmessageKeepsTypes, CloseSubmessageKeepsTypes DEF Next
  <2> QED BY <1>1, <2>1 DEF FieldInv
<1> QED BY <1>2, <1>3

THEOREM FieldInvariant == Spec => []FieldInv
BY InitBegins, FieldInvBegins, FieldInvNext, PTL DEF Spec

\* Messages are never nested more than three deep, whatever the bytes are, and no
\* stream has fewer than no bytes left (pb_decode.c:81-140, 383-411,
\* 1622-1672).
THEOREM DecoderTypeCorrect == Spec => []TypeOK
<1>1. FieldInv => TypeOK
  <2> SUFFICES ASSUME FieldInv PROVE TypeOK
    OBVIOUS
  <2>1. Len(stack) \in 1..3
    BY TopFrame, DepthOfStack DEF FieldInv
  <2>2. DOMAIN stack = 1..Len(stack)
    BY LenProperties DEF FieldInv, DecInv, Chain
  <2>3. \A i \in DOMAIN stack : stack[i].pos \in Nat /\ stack[i].left \in Nat
    BY <2>2 DEF FieldInv, DecInv, Chain, IsFrame
  <2> QED BY <2>1, <2>3 DEF FieldInv, DecTypes, TypeOK, StructType
<1> QED BY <1>1, FieldInvariant, PTL

\* Whatever the tags were and the order they came in, the iterator has the indices
\* and addresses of one field of the message it is in, and finds every field of
\* it from there (pb_common.c:8-275, pb_decode.c:1065-1115).
THEOREM DecoderIteratorTrue == Spec => []IteratorTrue
<1>1. FieldInv => IteratorTrue
  <2> SUFFICES ASSUME FieldInv PROVE IteratorTrue
    OBVIOUS
  <2>1. PICK desc \in Messages :
           \E n \in DOMAIN FieldList[desc] : Top.iter = IterAt(desc, Place[desc], n)
    BY TopIterator
  <2>2. PICK message \in Int : message = Place[desc]
    BY PlaceInStruct
  <2>3. PICK n \in DOMAIN FieldList[desc] : Top.iter = IterAt(desc, message, n)
    BY <2>1, <2>2
  <2>4. PICK it : it = Top.iter
    OBVIOUS
  <2>5. it.descriptor = desc /\ it.message = message
    BY <2>3, <2>4, IterMembers
  <2>6. it = IterAt(it.descriptor, it.message, n)
    BY <2>3, <2>4, <2>5, Zenon
  <2>7. PICK count \in 2..6 : Len(FieldList[desc]) = count /\ DOMAIN FieldList[desc] = 1..count
    BY CountOf
  <2>8. \A k \in 1..count : FieldList[desc][k].tag = k
    BY <2>7, AllListed DEF Listed
  <2>9. ASSUME NEW tag \in 1..7
        PROVE  LET search == pb_field_iter_find(it, tag)
               IN  /\ search.found <=> \E k \in 1..count : FieldList[desc][k].tag = tag
                   /\ search.found => search.iter.tag = tag
    <3>1. PICK search : search = pb_field_iter_find(it, tag)
      OBVIOUS
    <3>2. PICK m \in 1..count : m = n
      BY <2>7
    <3>3. PICK tag2 \in Nat \ {0} : tag2 = tag
      OBVIOUS
    <3>4. pb_field_iter_find(IterAt(desc, message, m), tag2)
            = [iter |-> IF tag2 <= count THEN IterAt(desc, message, tag2)
                        ELSE IterAt(desc, message, m),
               found |-> tag2 <= count]
      <4>1. Len(FieldList[desc]) = count
        BY <2>7
      <4> QED BY <4>1, EachFieldIsFound
    <3>5. search = [iter |-> IF tag <= count THEN IterAt(desc, message, tag)
                             ELSE IterAt(desc, message, n),
                    found |-> tag <= count]
      BY <2>3, <2>4, <3>1, <3>2, <3>3, <3>4, Zenon
    <3> DEFINE there == IF tag <= count THEN IterAt(desc, message, tag)
                        ELSE IterAt(desc, message, n)
    <3>6. search.iter = there /\ search.found = (tag <= count)
      <4> HIDE DEF there
      <4> QED BY <3>5 DEF there
    <3>7. search.found <=> \E k \in 1..count : FieldList[desc][k].tag = tag
      <4>1. search.found <=> tag <= count
        BY <3>6, Zenon
      <4>2. tag <= count <=> \E k \in 1..count : FieldList[desc][k].tag = tag
        <5>1. CASE tag <= count
          <6>1. tag \in 1..count
            BY <5>1
          <6> QED BY <2>8, <5>1, <6>1
        <5>2. CASE ~(tag <= count)
          <6>1. \A k \in 1..count : k # tag
            BY <5>2
          <6> QED BY <2>8, <5>2, <6>1
        <5> QED BY <5>1, <5>2
      <4> QED BY <4>1, <4>2, Zenon
    <3>8. tag <= count => IterAt(desc, message, tag).tag = tag
      <4>1. tag <= count => FieldList[desc][tag].tag = tag
        BY <2>8
      <4> QED BY <4>1, IterAtIsAt
    <3>9. search.found => search.iter.tag = tag
      BY <3>6, <3>8, Zenon
    <3> QED BY <3>1, <3>7, <3>9, Zenon
  <2>10. \E k \in DOMAIN FieldList[it.descriptor] : it = IterAt(it.descriptor, it.message, k)
    BY <2>5, <2>6
  <2>11. DOMAIN FieldList[it.descriptor] = 1..count
         /\ FieldList[it.descriptor] = FieldList[desc]
    BY <2>5, <2>7
  <2> QED BY <2>4, <2>9, <2>10, <2>11, ZenonT(30) DEF IteratorTrue
<1> QED BY <1>1, FieldInvariant, PTL

(***************************************************************************)
(* Default values.  No message clears a submessage field by field that has *)
(* submessages itself, but the member of the oneof that is selected.       *)
(***************************************************************************)

\* What pb_field_set_to_default clears of a field, if its submessage is a plain one.
OwnCells(it) ==
    IF PB_HTYPE(it.type) = PB_HTYPE_ONEOF THEN Span(it.pSize, 2)
    ELSE Span(it.pSize, 1) \cup Span(it.pData, it.data_size)

\* The same with f for DefaultCells.
CellsWith(f, it) ==
    IF PB_HTYPE(it.type) = PB_HTYPE_ONEOF THEN Span(it.pSize, 2)
    ELSE Span(it.pSize, 1)
         \cup IF it.submsg_desc # NULL /\ HasSubmessages(it.submsg_desc)
              THEN f[it.submsg_desc][it.pData]
              ELSE Span(it.pData, it.data_size)

Iterators(desc, message) == {Walk(desc, message)[n] : n \in 1..Descriptor[desc].field_count}

LEMMA PlainOrOneof ==
    ASSUME NEW desc \in Messages, NEW n \in DOMAIN FieldList[desc],
           NEW f, f = FieldList[desc][n]
    PROVE  f.htype = "ONEOF" \/ f.sub = NULL \/ f.sub \in {"Timestamp", "LatLng", "Track"}
<1>1. CASE desc = "MQTTMessage"
  BY <1>1, MQTTMessageLines DEF Line
<1>2. CASE desc = "Timestamp"
  BY <1>2, TimestampLines DEF Line
<1>3. CASE desc = "Kart"
  BY <1>3, KartLines DEF Line
<1>4. CASE desc = "LatLng"
  BY <1>4, LatLngLines DEF Line
<1>5. CASE desc = "Track"
  BY <1>5, TrackLines DEF Line
<1> QED BY <1>1, <1>2, <1>3, <1>4, <1>5, MessageNames

\* The iterators of a message are those of its fields.
LEMMA IteratorsAt ==
    ASSUME NEW desc \in Messages, NEW message \in Int, NEW it \in Iterators(desc, message)
    PROVE  \E n \in DOMAIN FieldList[desc] : it = IterAt(desc, message, n)
<1>1. PICK count \in 2..6 : Len(FieldList[desc]) = count /\ DOMAIN FieldList[desc] = 1..count
  BY CountOf
<1>2. Descriptor[desc].field_count = count
  BY <1>1, FieldCount
<1>3. PICK n \in 1..count : it = Walk(desc, message)[n]
  BY <1>2 DEF Iterators
<1>4. Walk(desc, message)[n] = IterAt(desc, message, n)
  <2>1. Len(FieldList[desc]) = count
    BY <1>1
  <2> QED BY <2>1, WalkVisitsEachField
<1>5. PICK k \in DOMAIN FieldList[desc] : k = n
  BY <1>1
<1>6. it = IterAt(desc, message, k)
  BY <1>3, <1>4, <1>5, Zenon
<1> QED BY <1>6

LEMMA CellsOwn ==
    ASSUME NEW desc \in Messages, NEW message \in Int, NEW it \in Iterators(desc, message),
           NEW f
    PROVE  CellsWith(f, it) = OwnCells(it)
<1>1. PICK n \in DOMAIN FieldList[desc] : it = IterAt(desc, message, n)
  BY IteratorsAt
<1>2. PICK field : field = FieldList[desc][n]
  OBVIOUS
<1>3. it.type = Type(field) /\ it.submsg_desc = field.sub /\ IsField(field)
  BY <1>1, <1>2, IterMembers
<1>4. CASE field.htype = "ONEOF"
  BY <1>3, <1>4, HTypeOf DEF CellsWith, OwnCells
<1>5. CASE field.htype # "ONEOF"
  <2>1. field.sub = NULL \/ field.sub \in {"Timestamp", "LatLng", "Track"}
    BY <1>2, <1>5, PlainOrOneof
  <2>2. ~(it.submsg_desc # NULL /\ HasSubmessages(it.submsg_desc))
    BY <1>3, <2>1, PlainMessages
  <2> QED BY <2>2, Zenon DEF CellsWith, OwnCells
<1> QED BY <1>4, <1>5

LEMMA DefaultCellsAre ==
    ASSUME NEW desc \in Messages, NEW message \in 0..72
    PROVE  DefaultCells[desc][message] = UNION {OwnCells(it) : it \in Iterators(desc, message)}
<1> DEFINE D(f) == [d \in Messages |-> [m \in 0..72 |->
                        UNION {CellsWith(f, it) : it \in Iterators(d, m)}]]
           P(f) == f = D(f)
           own == [d \in Messages |-> [m \in 0..72 |->
                        UNION {OwnCells(it) : it \in Iterators(d, m)}]]
           h == CHOOSE f : P(f)
<1>1. ASSUME NEW f PROVE D(f) = own
  <2>1. ASSUME NEW d \in Messages, NEW m \in 0..72
        PROVE  {CellsWith(f, it) : it \in Iterators(d, m)}
                 = {OwnCells(it) : it \in Iterators(d, m)}
    <3>1. m \in Int
      OBVIOUS
    <3>2. \A it \in Iterators(d, m) : CellsWith(f, it) = OwnCells(it)
      BY <3>1, CellsOwn
    <3> QED BY <3>2, Zenon
  <2> QED BY <2>1, Zenon
<1> HIDE DEF D, own
<1>2. P(own)
  BY <1>1
<1>3. P(h)
  <2> HIDE DEF P
  <2> QED BY <1>2, Zenon
<1>4. h = own
  <2>1. h = D(h)
    BY <1>3
  <2> HIDE DEF h
  <2> QED BY <1>1, <2>1
<1>5. DefaultCells = h
  BY Zenon DEF DefaultCells, CellsWith, Iterators, D
<1>6. DefaultCells = own
  BY <1>4, <1>5, Zenon
<1> QED BY <1>6, Zenon DEF own

(***************************************************************************)
(* What is seen of the struct.                                             *)
(***************************************************************************)

\* Message desc of struct m can be seen.
Here(m, desc) ==
    /\ desc = "Timestamp" => m[4] # 0
    /\ desc \in {"Kart", "LatLng"} => m[24] = 3
    /\ desc = "Track" => m[24] = 4
    /\ desc = "LatLng" => m[52] # 0

LEMMA ReachIsHere ==
    ASSUME NEW m, NEW x
    PROVE  InReach(m, x) <=> Here(m, x[1])
<1>1. x[1] \in DOMAIN MemberTag <=> x[1] \in {"Kart", "LatLng", "Track"}
  BY DEF MemberTag
<1>2. x[1] \in DOMAIN HasCell <=> x[1] \in {"Timestamp", "LatLng"}
  BY DEF HasCell
<1>3. /\ MemberTag["Kart"] = 3 /\ MemberTag["LatLng"] = 3 /\ MemberTag["Track"] = 4
      /\ HasCell["Timestamp"] = 4 /\ HasCell["LatLng"] = 52
  BY DEF MemberTag, HasCell
<1> QED BY <1>1, <1>2, <1>3 DEF InReach, Here, WhichCell

\* An optional message that cannot be seen is all zeros: it is when it starts.
StartsFromZeros(m) ==
    /\ m[4] = 0 => m[8] = 0 /\ m[16] = 0
    /\ m[24] = 3 /\ m[52] = 0 => m[56] = 0 /\ m[64] = 0

LEMMA CellsAre ==
    /\ Cells \subseteq Nat
    /\ 0 \in Cells /\ 4 \in Cells /\ 8 \in Cells /\ 12 \in Cells /\ 16 \in Cells
    /\ 24 \in Cells /\ 32 \in Cells /\ 36 \in Cells /\ 40 \in Cells /\ 44 \in Cells
    /\ 48 \in Cells /\ 52 \in Cells /\ 56 \in Cells /\ 64 \in Cells
    /\ \A c \in Cells : c <= 68 /\ c % 4 = 0
BY DEF Cells

LEMMA InSpan ==
    ASSUME NEW a, NEW size, NEW c \in Cells
    PROVE  c \in Span(a, size) <=> a <= c /\ c < a + size
BY DEF Span

LEMMA PutCell ==
    ASSUME NEW m, NEW cells, NEW v, NEW c \in Cells
    PROVE  Put(m, cells, v)[c] = IF c \in cells THEN v ELSE m[c]
BY DEF Put

\* Field n of desc holds a value, in size bytes from address a.
IsLeaf(desc, n, a, size) ==
    /\ desc \in Messages /\ n \in DOMAIN FieldList[desc]
    /\ FieldList[desc][n].ltype # "MESSAGE"
    /\ a = Place[desc] + FieldList[desc][n].offset
    /\ size = FieldList[desc][n].size

LEMMA LeafTable ==
    ASSUME NEW desc, NEW n, NEW a, NEW size, IsLeaf(desc, n, a, size)
    PROVE  \/ desc = "MQTTMessage" /\ n = 1 /\ a = 0 /\ size = 4
           \/ desc = "Timestamp" /\ n = 1 /\ a = 8 /\ size = 8
           \/ desc = "Timestamp" /\ n = 2 /\ a = 16 /\ size = 4
           \/ desc = "Kart" /\ n = 1 /\ a = 32 /\ size = 1
           \/ desc = "Kart" /\ n = 2 /\ a = 36 /\ size = 4
           \/ desc = "Kart" /\ n = 3 /\ a = 40 /\ size = 4
           \/ desc = "Kart" /\ n = 4 /\ a = 44 /\ size = 4
           \/ desc = "Kart" /\ n = 5 /\ a = 48 /\ size = 4
           \/ desc = "LatLng" /\ n = 1 /\ a = 56 /\ size = 8
           \/ desc = "LatLng" /\ n = 2 /\ a = 64 /\ size = 8
           \/ desc = "Track" /\ n = 1 /\ a = 32 /\ size = 4
           \/ desc = "Track" /\ n = 2 /\ a = 36 /\ size = 4
<1>1. CASE desc = "MQTTMessage"
  BY <1>1, MQTTMessageLines DEF IsLeaf, Line, Place
<1>2. CASE desc = "Timestamp"
  BY <1>2, TimestampLines DEF IsLeaf, Line, Place
<1>3. CASE desc = "Kart"
  BY <1>3, KartLines DEF IsLeaf, Line, Place
<1>4. CASE desc = "LatLng"
  BY <1>4, LatLngLines DEF IsLeaf, Line, Place
<1>5. CASE desc = "Track"
  BY <1>5, TrackLines DEF IsLeaf, Line, Place
<1> QED BY <1>1, <1>2, <1>3, <1>4, <1>5, MessageNames DEF IsLeaf

\* Leaves are the fields that hold a value.
LEMMA LeafIs ==
    ASSUME NEW l \in Leaves
    PROVE  \E desc, n, a, size :
              /\ IsLeaf(desc, n, a, size) /\ l = <<desc, n>>
              /\ l[1] = desc /\ l[2] = n
<1>1. PICK desc \in Messages : l \in {<<desc, k>> : k \in {k \in DOMAIN FieldList[desc] :
                                           FieldList[desc][k].ltype # "MESSAGE"}}
  BY Zenon DEF Leaves, Parts
<1>2. PICK n \in DOMAIN FieldList[desc] :
         FieldList[desc][n].ltype # "MESSAGE" /\ l = <<desc, n>>
  BY <1>1
<1>3. IsLeaf(desc, n, Place[desc] + FieldList[desc][n].offset, FieldList[desc][n].size)
  BY <1>2 DEF IsLeaf
<1>4. l[1] = desc /\ l[2] = n
  BY <1>2
<1> QED BY <1>2, <1>3, <1>4, Zenon

LEMMA LeafIn ==
    ASSUME NEW desc, NEW n, NEW a, NEW size, IsLeaf(desc, n, a, size)
    PROVE  <<desc, n>> \in Leaves
<1>1. <<desc, n>> \in {<<desc, k>> : k \in {k \in DOMAIN FieldList[desc] :
                                           FieldList[desc][k].ltype # "MESSAGE"}}
  BY Zenon DEF IsLeaf
<1> QED BY <1>1, Zenon DEF Leaves, Parts, IsLeaf

\* What a reader sees of a leaf.
LEMMA SeenIs ==
    ASSUME NEW m, NEW desc, NEW n, NEW a, NEW size, IsLeaf(desc, n, a, size)
    PROVE  SeenValue(m)[<<desc, n>>] = IF Here(m, desc) THEN m[a] ELSE 0
<1>0. PICK l : l = <<desc, n>>
  OBVIOUS
<1>1. l = <<desc, n>> /\ l[1] = desc /\ l[2] = n
  BY <1>0
<1>2. l \in Leaves
  BY <1>1, LeafIn, Zenon
<1>3. SeenValue(m)[l]
        = IF InReach(m, l) THEN m[Place[l[1]] + FieldList[l[1]][l[2]].offset] ELSE 0
  BY <1>2, Zenon DEF SeenValue
<1>4. InReach(m, l) <=> Here(m, desc)
  BY <1>1, ReachIsHere, Zenon
<1>5. Place[l[1]] + FieldList[l[1]][l[2]].offset = a
  BY <1>1, Zenon DEF IsLeaf
<1> QED BY <1>1, <1>3, <1>4, <1>5, Zenon

\* Two leaves have no cell in common, but for a Kart's and a Track's.
LEMMA LeavesApart ==
    ASSUME NEW d, NEW n, NEW a, NEW size, IsLeaf(d, n, a, size),
           NEW e, NEW k, NEW b, NEW size2, IsLeaf(e, k, b, size2),
           a <= b, b < a + size
    PROVE  \/ d = e /\ n = k
           \/ d = "Kart" /\ e = "Track"
           \/ d = "Track" /\ e = "Kart"
BY LeafTable

(***************************************************************************)
(* What the decoder does to what is seen.                                  *)
(***************************************************************************)

LEMMA SamePresent ==
    ASSUME NEW m, NEW m2, \A x : Here(m2, x) <=> Here(m, x)
    PROVE  SeenPresent(m2) = SeenPresent(m)
<1>1. \A s : InReach(m2, s) <=> InReach(m, s)
  BY ReachIsHere
<1> QED BY <1>1, Zenon DEF SeenPresent

\* A function that says what is seen of each leaf is what is seen.
LEMMA SeenAll ==
    ASSUME NEW m, NEW f, f = [l \in Leaves |-> f[l]],
           \A d, n, a, size : IsLeaf(d, n, a, size) =>
               f[<<d, n>>] = IF Here(m, d) THEN m[a] ELSE 0
    PROVE  SeenValue(m) = f
<1>1. ASSUME NEW l \in Leaves PROVE SeenValue(m)[l] = f[l]
  <2>1. PICK d, n, a, size : IsLeaf(d, n, a, size) /\ l = <<d, n>>
    BY LeafIs
  <2>2. SeenValue(m)[<<d, n>>] = IF Here(m, d) THEN m[a] ELSE 0
    BY <2>1, SeenIs
  <2>3. f[<<d, n>>] = IF Here(m, d) THEN m[a] ELSE 0
    BY <2>1
  <2> QED BY <2>1, <2>2, <2>3, Zenon
<1>2. SeenValue(m) = [l \in Leaves |-> SeenValue(m)[l]]
  BY Zenon DEF SeenValue
<1> QED BY <1>1, <1>2, Zenon

\* A value is stored: the leaf has it, and nothing else is seen to change.
LEMMA LeafWritten ==
    ASSUME NEW m \in StructType, NEW d, NEW n, NEW a, NEW size, IsLeaf(d, n, a, size),
           Here(m, d), StartsFromZeros(m), NEW v, NEW m2, m2 = Put(m, Span(a, size), v)
    PROVE  /\ \A x : Here(m2, x) <=> Here(m, x)
           /\ StartsFromZeros(m2)
           /\ SeenValue(m2) = [SeenValue(m) EXCEPT ![<<d, n>>] = v]
           /\ SeenPresent(m2) = SeenPresent(m)
<1>1. ASSUME NEW c \in Cells PROVE m2[c] = IF a <= c /\ c < a + size THEN v ELSE m[c]
  <2>1. m2[c] = IF c \in Span(a, size) THEN v ELSE m[c]
    BY PutCell
  <2>2. c \in Span(a, size) <=> a <= c /\ c < a + size
    BY InSpan
  <2> QED BY <2>1, <2>2
<1>2. m2[4] = m[4] /\ m2[24] = m[24] /\ m2[52] = m[52]
  BY <1>1, CellsAre, LeafTable
<1>3. \A x : Here(m2, x) <=> Here(m, x)
  BY <1>2 DEF Here
<1>4. StartsFromZeros(m2)
  <2>1. m[4] = 0 => m2[8] = 0 /\ m2[16] = 0
    BY <1>1, CellsAre, LeafTable DEF Here, StartsFromZeros
  <2>2. m[24] = 3 /\ m[52] = 0 => m2[56] = 0 /\ m2[64] = 0
    BY <1>1, CellsAre, LeafTable DEF Here, StartsFromZeros
  <2> QED BY <1>2, <2>1, <2>2 DEF StartsFromZeros
<1>5. ASSUME NEW e, NEW k, NEW b, NEW size2, IsLeaf(e, k, b, size2)
      PROVE  (IF Here(m2, e) THEN m2[b] ELSE 0)
               = IF e = d /\ k = n THEN v ELSE IF Here(m, e) THEN m[b] ELSE 0
  <2>1. b \in Cells
    BY <1>5, LeafTable, CellsAre
  <2>2. CASE e = d /\ k = n
    <3>1. b = a /\ size2 = size /\ a <= b /\ b < a + size
      BY <1>5, <2>2, LeafTable
    <3> QED BY <1>1, <1>3, <2>1, <2>2, <3>1
  <2>3. CASE ~(e = d /\ k = n)
    <3>1. CASE ~(a <= b /\ b < a + size)
      BY <1>1, <1>3, <2>1, <2>3, <3>1
    <3>2. CASE a <= b /\ b < a + size
      <4>1. (d = "Kart" /\ e = "Track") \/ (d = "Track" /\ e = "Kart")
        BY <1>5, <2>3, <3>2, LeavesApart
      <4>2. ~Here(m, e)
        BY <4>1 DEF Here
      <4> QED BY <1>3, <2>3, <4>2
    <3> QED BY <3>1, <3>2
  <2> QED BY <2>2, <2>3
<1> DEFINE f == [SeenValue(m) EXCEPT ![<<d, n>>] = v]
<1>6. ASSUME NEW e, NEW k, NEW b, NEW size2, IsLeaf(e, k, b, size2)
      PROVE  f[<<e, k>>] = IF Here(m2, e) THEN m2[b] ELSE 0
  <2>1. <<e, k>> \in Leaves /\ <<d, n>> \in Leaves
    BY <1>6, LeafIn
  <2>2. <<e, k>> = <<d, n>> <=> e = d /\ k = n
    OBVIOUS
  <2>3. f[<<e, k>>] = IF <<e, k>> = <<d, n>> THEN v ELSE SeenValue(m)[<<e, k>>]
    BY <2>1, Zenon DEF SeenValue
  <2>4. SeenValue(m)[<<e, k>>] = IF Here(m, e) THEN m[b] ELSE 0
    BY <1>6, SeenIs
  <2> QED BY <1>5, <1>6, <2>2, <2>3, <2>4, Zenon
<1>7. SeenValue(m2) = f
  <2>1. f = [l \in Leaves |-> f[l]]
    BY Zenon DEF SeenValue
  <2> HIDE DEF f
  <2> QED BY <1>6, <2>1, SeenAll
<1> QED BY <1>3, <1>4, <1>7, SamePresent, Zenon

\* The presence of an optional submessage is set: it is seen from then on, with no
\* value in it.
LEMMA OptionalStarted ==
    ASSUME NEW m \in StructType, StartsFromZeros(m), NEW desc, NEW has,
           (desc = "Timestamp" /\ has = 4) \/ (desc = "LatLng" /\ has = 52 /\ m[24] = 3),
           NEW m2, m2 = Put(m, Span(has, 1), 1)
    PROVE  /\ StartsFromZeros(m2) /\ Here(m2, desc)
           /\ \A x : x # desc => (Here(m2, x) <=> Here(m, x))
           /\ SeenValue(m2) = SeenValue(m)
           /\ SeenPresent(m2) = SeenPresent(m) \cup {<<desc, 0>>}
<1>1. ASSUME NEW c \in Cells PROVE m2[c] = IF c = has THEN 1 ELSE m[c]
  <2>1. m2[c] = IF c \in Span(has, 1) THEN 1 ELSE m[c]
    BY PutCell
  <2>2. c \in Span(has, 1) <=> has <= c /\ c < has + 1
    BY InSpan
  <2>3. c \in Nat /\ has \in Nat
    BY CellsAre
  <2> QED BY <2>1, <2>2, <2>3
<1>2. /\ m2[4] = IF has = 4 THEN 1 ELSE m[4]
      /\ m2[52] = IF has = 52 THEN 1 ELSE m[52]
      /\ m2[24] = m[24]
      /\ m2[8] = m[8] /\ m2[16] = m[16] /\ m2[56] = m[56] /\ m2[64] = m[64]
  BY <1>1, CellsAre
<1>3. StartsFromZeros(m2) /\ Here(m2, desc)
  BY <1>2 DEF StartsFromZeros, Here
<1>4. \A x : x # desc => (Here(m2, x) <=> Here(m, x))
  BY <1>2 DEF Here
<1>5. ASSUME NEW e, NEW k, NEW b, NEW size, IsLeaf(e, k, b, size)
      PROVE  SeenValue(m)[<<e, k>>] = IF Here(m2, e) THEN m2[b] ELSE 0
  <2>1. SeenValue(m)[<<e, k>>] = IF Here(m, e) THEN m[b] ELSE 0
    BY <1>5, SeenIs
  <2>2. b \in Cells /\ b # has
    BY <1>5, LeafTable, CellsAre
  <2>3. m2[b] = m[b]
    BY <1>1, <2>2
  <2>4. CASE e # desc
    BY <1>4, <2>1, <2>3, <2>4
  <2>5. CASE e = desc
    <3>1. CASE Here(m, e)
      BY <1>3, <2>1, <2>3, <2>5, <3>1
    <3>2. CASE ~Here(m, e)
      <4>1. m[b] = 0
        BY <1>5, <2>5, <3>2, LeafTable DEF Here, StartsFromZeros
      <4> QED BY <1>3, <2>1, <2>3, <2>5, <3>2, <4>1
    <3> QED BY <3>1, <3>2
  <2> QED BY <2>4, <2>5
<1>6. SeenValue(m2) = SeenValue(m)
  <2>1. PICK f : f = SeenValue(m)
    OBVIOUS
  <2>2. f = [l \in Leaves |-> f[l]]
    BY <2>1, Zenon DEF SeenValue
  <2>3. ASSUME NEW e, NEW k, NEW b, NEW size, IsLeaf(e, k, b, size)
        PROVE  f[<<e, k>>] = IF Here(m2, e) THEN m2[b] ELSE 0
    BY <1>5, <2>1, <2>3, ZenonT(30)
  <2>4. SeenValue(m2) = f
    BY <2>2, <2>3, SeenAll
  <2> QED BY <2>1, <2>4
<1>7. SeenPresent(m2) = SeenPresent(m) \cup {<<desc, 0>>}
  <2>1. <<desc, 0>> \in Subs
    BY MessageNames DEF Subs
  <2>2. ASSUME NEW s \in Subs
        PROVE  InReach(m2, s) <=> InReach(m, s) \/ s = <<desc, 0>>
    <3>1. PICK d \in Messages : s = <<d, 0>>
      BY DEF Subs
    <3>2. s[1] = d /\ (s = <<desc, 0>> <=> d = desc)
      BY <3>1
    <3> QED BY <1>3, <1>4, <3>2, ReachIsHere
  <2> QED BY <2>1, <2>2 DEF SeenPresent
<1> QED BY <1>3, <1>4, <1>6, <1>7

InMember(desc) == desc \in {"Kart", "LatLng", "Track"}

\* A member of the oneof is selected: it alone is seen from then on, with nothing in
\* it.
LEMMA MemberStarted ==
    ASSUME NEW m \in StructType, StartsFromZeros(m), NEW desc, NEW tag,
           (desc = "Kart" /\ tag = 3) \/ (desc = "Track" /\ tag = 4),
           m[24] # tag, NEW m2,
           \A c \in Cells :
              /\ c = 24 => m2[c] = tag
              /\ c # 24 /\ c < 32 => m2[c] = m[c]
              /\ c >= 32 /\ (desc = "Kart" \/ c < 40) => m2[c] = 0
    PROVE  /\ StartsFromZeros(m2) /\ Here(m2, desc)
           /\ \A x : Here(m2, x) <=> x = desc \/ (~InMember(x) /\ Here(m, x))
           /\ SeenValue(m2) = [l \in Leaves |-> IF InMember(l[1]) THEN 0 ELSE SeenValue(m)[l]]
           /\ SeenPresent(m2) = {s \in SeenPresent(m) : ~InMember(s[1])} \cup {<<desc, 0>>}
<1>1. /\ m2[4] = m[4] /\ m2[24] = tag
      /\ m2[8] = m[8] /\ m2[16] = m[16]
      /\ desc = "Kart" => m2[52] = 0 /\ m2[56] = 0 /\ m2[64] = 0
  BY CellsAre
<1>2. StartsFromZeros(m2) /\ Here(m2, desc)
  BY <1>1 DEF StartsFromZeros, Here
<1>3. \A x : Here(m2, x) <=> x = desc \/ (~InMember(x) /\ Here(m, x))
  BY <1>1 DEF Here, InMember
<1>4. PICK f : f = [l \in Leaves |-> IF InMember(l[1]) THEN 0 ELSE SeenValue(m)[l]]
  OBVIOUS
<1>5. ASSUME NEW e, NEW k, NEW b, NEW size, IsLeaf(e, k, b, size)
      PROVE  f[<<e, k>>] = IF Here(m2, e) THEN m2[b] ELSE 0
  <2>1. PICK l : l = <<e, k>>
    OBVIOUS
  <2>2. l \in Leaves /\ l[1] = e
    BY <1>5, <2>1, LeafIn
  <2>3. f[l] = IF InMember(e) THEN 0 ELSE SeenValue(m)[l]
    BY <1>4, <2>2, Zenon
  <2>4. SeenValue(m)[l] = IF Here(m, e) THEN m[b] ELSE 0
    BY <1>5, <2>1, SeenIs
  <2>5. CASE InMember(e)
    <3>1. e = desc => m2[b] = 0
      <4>1. b \in Cells /\ (e = desc => b >= 32 /\ (desc = "Kart" \/ b < 40))
        BY <1>5, <2>5, LeafTable, CellsAre DEF InMember
      <4> QED BY <4>1
    <3> QED BY <1>3, <2>1, <2>3, <2>5, <3>1
  <2>6. CASE ~InMember(e)
    <3>1. b \in Cells /\ b # 24 /\ b < 32 /\ e # desc
      BY <1>5, <2>6, LeafTable, CellsAre DEF InMember
    <3>2. m2[b] = m[b]
      BY <3>1
    <3> QED BY <1>3, <2>1, <2>3, <2>4, <2>6, <3>1, <3>2
  <2> QED BY <2>5, <2>6
<1>6. SeenValue(m2) = f
  <2>1. f = [l \in Leaves |-> f[l]]
    BY <1>4, Zenon
  <2> QED BY <1>5, <2>1, SeenAll
<1>7. SeenPresent(m2) = {s \in SeenPresent(m) : ~InMember(s[1])} \cup {<<desc, 0>>}
  <2>1. <<desc, 0>> \in Subs
    BY MessageNames DEF Subs
  <2>2. ASSUME NEW s \in Subs
        PROVE  InReach(m2, s) <=> (InReach(m, s) /\ ~InMember(s[1])) \/ s = <<desc, 0>>
    <3>1. PICK d \in Messages : s = <<d, 0>>
      BY DEF Subs
    <3>2. s[1] = d /\ (s = <<desc, 0>> <=> d = desc)
      BY <3>1
    <3> QED BY <1>2, <1>3, <3>2, ReachIsHere
  <2> QED BY <2>1, <2>2 DEF SeenPresent
<1> QED BY <1>2, <1>3, <1>4, <1>6, <1>7

(***************************************************************************)
(* decode_static_field.                                                    *)
(***************************************************************************)

\* Selecting kart_status clears nothing but the union.
LEMMA KartDefaults ==
    ASSUME NEW c \in DefaultCells["Kart"][32]
    PROVE  c \in Cells /\ c >= 32
<1>1. "Kart" \in Messages /\ Place["Kart"] = 32 /\ 32 \in 0..72 /\ 32 \in Int
  BY MessageNames DEF Place
<1>2. PICK it \in Iterators("Kart", 32) : c \in OwnCells(it)
  BY <1>1, DefaultCellsAre
<1>3. PICK n \in DOMAIN FieldList["Kart"] : it = IterAt("Kart", 32, n)
  BY <1>1, IteratorsAt
<1>4. PICK f : f = FieldList["Kart"][n]
  OBVIOUS
<1>5. /\ it.type = Type(f) /\ it.pData = 32 + f.offset /\ it.data_size = f.size
      /\ it.pSize = (IF f.delta = 0 THEN NoAddress ELSE 32 + f.offset - f.delta)
      /\ IsField(f)
  BY <1>1, <1>3, <1>4, IterMembers
<1>6. f.htype # "ONEOF" /\ (f.delta = 0 \/ (f.delta = 4 /\ f.offset = 24))
  BY <1>1, <1>4, FieldTable
<1>7. c \in Span(it.pSize, 1) \/ c \in Span(it.pData, it.data_size)
  BY <1>2, <1>5, <1>6, HTypeOf DEF OwnCells
<1>8. c \in Cells /\ (c >= it.pSize \/ c >= it.pData)
  BY <1>7 DEF Span
<1>9. it.pSize \in Int /\ it.pSize >= 32
  BY <1>5, <1>6 DEF NoAddress
<1>10. it.pData \in Int /\ it.pData >= 32
  BY <1>5 DEF IsField
<1>11. c \in Int
  BY <1>8, CellsAre
<1> QED BY <1>8, <1>9, <1>10, <1>11

LEMMA SameStruct ==
    ASSUME NEW m \in StructType, NEW cells, NEW v, \A c \in Cells : c \in cells => m[c] = v
    PROVE  Put(m, cells, v) = m
<1>1. m = [c \in Cells |-> m[c]]
  BY DEF StructType
<1>2. \A c \in Cells : (IF c \in cells THEN v ELSE m[c]) = m[c]
  OBVIOUS
<1> QED BY <1>1, <1>2, Zenon DEF Put

\* A field without has_ or which_.
LEMMA StaticPlain ==
    ASSUME NEW m \in StructType, NEW it, PB_HTYPE(it.type) # PB_HTYPE_ONEOF,
           it.pSize = NoAddress
    PROVE  decode_static_field(m, it) = m
<1>1. \A c \in Cells : c \notin Span(it.pSize, 1)
  BY CellsAre DEF Span, NoAddress
<1>2. Put(m, Span(it.pSize, 1), 1) = m
  BY <1>1, SameStruct
<1> QED BY <1>2 DEF decode_static_field

\* A member of the oneof: all of it is cleared, unless it is selected already.
LEMMA StaticMember ==
    ASSUME NEW m \in StructType, NEW it, PB_HTYPE(it.type) = PB_HTYPE_ONEOF,
           NEW desc, NEW tag,
           \/ desc = "Kart" /\ tag = 3 /\ it.data_size = 40
           \/ desc = "Track" /\ tag = 4 /\ it.data_size = 8,
           it.tag = tag, it.submsg_desc = desc, it.pSize = 24, it.pData = 32,
           NEW m2, m2 = decode_static_field(m, it)
    PROVE  /\ m[24] = tag => m2 = m
           /\ m[24] # tag => \A c \in Cells :
                /\ c = 24 => m2[c] = tag
                /\ c # 24 /\ c < 32 => m2[c] = m[c]
                /\ c >= 32 /\ (desc = "Kart" \/ c < 40) => m2[c] = 0
<1>1. \A c \in Cells : c \in Span(24, 2) <=> c = 24
  <2> SUFFICES ASSUME NEW c \in Cells PROVE c \in Span(24, 2) <=> c = 24
    OBVIOUS
  <2>1. c \in Span(24, 2) <=> 24 <= c /\ c < 24 + 2
    BY InSpan
  <2>2. c \in Nat /\ c % 4 = 0
    BY CellsAre
  <2> QED BY <2>1, <2>2
<1>2. CASE m[24] = tag
  <2>1. m2 = Put(m, Span(24, 2), tag)
    BY <1>2, Zenon DEF decode_static_field
  <2> QED BY <1>1, <1>2, <2>1, SameStruct
<1>3. CASE m[24] # tag
  <2>1. PICK zeros, cleared :
           zeros = Put(m, Span(32, it.data_size), 0) /\ cleared = ClearMember(m, it)
    OBVIOUS
  <2>2. m2 = Put(cleared, Span(24, 2), tag)
    BY <1>3, <2>1, Zenon DEF decode_static_field
  <2>3. \A c \in Cells : zeros[c] = IF 32 <= c /\ c < 32 + it.data_size THEN 0 ELSE m[c]
    BY <2>1, PutCell, InSpan
  <2>4. \A c \in Cells : cleared[c] = zeros[c] \/ (desc = "Kart" /\ c >= 32 /\ cleared[c] = 0)
    <3>1. CASE desc = "Track"
      <4>1. ~HasSubmessages(it.submsg_desc)
        BY <3>1, PlainMessages
      <4> QED BY <2>1, <4>1, Zenon DEF ClearMember
    <3>2. CASE desc = "Kart"
      <4>1. \/ cleared = zeros
            \/ cleared = Put(zeros, DefaultCells["Kart"][32], 0)
        BY <2>1, <3>2, Zenon DEF ClearMember, pb_message_set_to_defaults
      <4>2. ASSUME NEW c \in Cells
            PROVE  Put(zeros, DefaultCells["Kart"][32], 0)[c] = zeros[c]
                   \/ (c >= 32 /\ Put(zeros, DefaultCells["Kart"][32], 0)[c] = 0)
        BY PutCell, KartDefaults
      <4> QED BY <3>2, <4>1, <4>2
    <3> QED BY <3>1, <3>2
  <2>5. \A c \in Cells : m2[c] = IF c = 24 THEN tag ELSE cleared[c]
    BY <1>1, <2>2, PutCell
  <2>6. \A c \in Cells : c \in Nat /\ c <= 68
    BY CellsAre
  <2> QED BY <1>3, <2>3, <2>4, <2>5, <2>6
<1> QED BY <1>2, <1>3

(***************************************************************************)
(* PbDecode implements ProtoMessage.  While the decoder runs, each message *)
(* it is in can be seen, and no optional one has values before it starts.  *)
(***************************************************************************)

OpenHere(s, m) == \A i \in 1..Len(s) : Here(m, s[i].iter.descriptor)

SeenInv == pc \in Running => StartsFromZeros(mem) /\ OpenHere(stack, mem)

\* The field the innermost iterator is at.
LEMMA TopField ==
    ASSUME FieldInv
    PROVE  \E desc \in Messages : \E n \in DOMAIN FieldList[desc] : \E f :
              /\ f = FieldList[desc][n] /\ IsField(f) /\ Depth[desc] = Len(stack)
              /\ Top.iter.descriptor = desc /\ Top.iter.tag = n
              /\ Top.iter.type = Type(f) /\ Top.iter.submsg_desc = f.sub
              /\ Top.iter.pData = Place[desc] + f.offset /\ Top.iter.data_size = f.size
              /\ Top.iter.pSize = IF f.delta = 0 THEN NoAddress
                                  ELSE Place[desc] + f.offset - f.delta
<1>1. PICK desc \in Messages :
         \E n \in DOMAIN FieldList[desc] :
            Top.iter = IterAt(desc, Place[desc], n) /\ Depth[desc] = Len(stack)
  BY TopIterator
<1>2. PICK n \in DOMAIN FieldList[desc] :
         Top.iter = IterAt(desc, Place[desc], n) /\ Depth[desc] = Len(stack)
  BY <1>1
<1>3. Place[desc] \in Int
  BY PlaceInStruct
<1>4. PICK it : it = Top.iter
  OBVIOUS
<1>5. it = IterAt(desc, Place[desc], n)
  BY <1>2, <1>4
<1>6. /\ it.descriptor = desc /\ it.tag = n
      /\ it.type = Type(FieldList[desc][n]) /\ it.submsg_desc = FieldList[desc][n].sub
      /\ it.pData = Place[desc] + FieldList[desc][n].offset
      /\ it.data_size = FieldList[desc][n].size
      /\ it.pSize = (IF FieldList[desc][n].delta = 0 THEN NoAddress
                     ELSE Place[desc] + FieldList[desc][n].offset - FieldList[desc][n].delta)
      /\ IsField(FieldList[desc][n])
  BY <1>3, <1>5, IterMembers
<1> QED BY <1>2, <1>4, <1>6, Zenon

LEMMA TopHere ==
    ASSUME FieldInv, OpenHere(stack, mem)
    PROVE  Here(mem, Top.iter.descriptor)
<1>1. Len(stack) \in 1..Len(stack) /\ Top = stack[Len(stack)]
  BY TopFrame DEF FieldInv
<1> QED BY <1>1 DEF OpenHere

\* The member a leaf or a submessage is in, and whether it is there.
LEMMA WithinIs ==
    ASSUME NEW x
    PROVE  /\ WithinMember(x) \in Members <=> InMember(x[1])
           /\ x[1] = "Kart" => WithinMember(x) = <<"Kart", 0>>
           /\ x[1] = "LatLng" => WithinMember(x) = <<"Kart", 0>>
           /\ x[1] = "Track" => WithinMember(x) = <<"Track", 0>>
BY DEF WithinMember, Members, InMember

LEMMA ReachableIs ==
    ASSUME NEW m, NEW x, Here(m, x[1]) \/ (x[1] = "LatLng" /\ m[24] = 3)
    PROVE  WithinMember(x) \in Members => WithinMember(x) \in SeenPresent(m)
<1>1. <<"Kart", 0>> \in Subs /\ <<"Track", 0>> \in Subs
  BY MessageNames DEF Subs
<1>2. m[24] = 3 => <<"Kart", 0>> \in SeenPresent(m)
  <2>1. ASSUME m[24] = 3 PROVE InReach(m, <<"Kart", 0>>)
    <3>1. Here(m, "Kart")
      BY <2>1 DEF Here
    <3> QED BY <3>1, ReachIsHere
  <2> QED BY <1>1, <2>1, Zenon DEF SeenPresent
<1>3. m[24] = 4 => <<"Track", 0>> \in SeenPresent(m)
  <2>1. ASSUME m[24] = 4 PROVE InReach(m, <<"Track", 0>>)
    <3>1. Here(m, "Track")
      BY <2>1 DEF Here
    <3> QED BY <3>1, ReachIsHere
  <2> QED BY <1>1, <2>1, Zenon DEF SeenPresent
<1>4. CASE x[1] = "Kart"
  BY <1>2, <1>4, WithinIs DEF Here
<1>5. CASE x[1] = "LatLng"
  BY <1>2, <1>5, WithinIs DEF Here
<1>6. CASE x[1] = "Track"
  BY <1>3, <1>6, WithinIs DEF Here
<1>7. CASE ~InMember(x[1])
  BY <1>7, WithinIs
<1> QED BY <1>4, <1>5, <1>6, <1>7 DEF InMember

\* A value of the message is stored.
LEMMA ValueStep ==
    ASSUME FieldInv, SeenInv, pc = "field", pc' = "tag",
           ~PB_LTYPE_IS_SUBMSG(Top.iter.type), NEW v \in Values,
           mem' = Put(decode_static_field(mem, Top.iter),
                      Span(Top.iter.pData, Top.iter.data_size), v)
    PROVE  Message!Next /\ StartsFromZeros(mem') /\ OpenHere(stack, mem')
<1>1. PICK desc, n, f :
              /\ desc \in Messages /\ n \in DOMAIN FieldList[desc]
              /\ f = FieldList[desc][n] /\ IsField(f)
              /\ Top.iter.descriptor = desc
              /\ Top.iter.type = Type(f)
              /\ Top.iter.pData = Place[desc] + f.offset /\ Top.iter.data_size = f.size
              /\ Top.iter.pSize = IF f.delta = 0 THEN NoAddress
                                  ELSE Place[desc] + f.offset - f.delta
  BY TopField
<1>2. f.ltype # "MESSAGE"
  BY <1>1, TypeParts
<1>3. f.htype # "ONEOF" /\ f.delta = 0
  <2>1. f.sub = NULL
    BY <1>1, <1>2 DEF IsField
  <2> QED BY <1>1, <2>1, FieldTable DEF NULL
<1>4. mem \in StructType /\ StartsFromZeros(mem) /\ OpenHere(stack, mem)
  BY DEF FieldInv, DecTypes, SeenInv, Running
<1>5. decode_static_field(mem, Top.iter) = mem
  BY <1>1, <1>3, <1>4, HTypeOf, StaticPlain
<1>6. PICK a, size : a = Place[desc] + f.offset /\ size = f.size
  OBVIOUS
<1>7. IsLeaf(desc, n, a, size)
  BY <1>1, <1>2, <1>6 DEF IsLeaf
<1>8. Here(mem, desc)
  BY <1>1, <1>4, TopHere
<1>9. PICK m2 : m2 = mem'
  OBVIOUS
<1>10. m2 = Put(mem, Span(a, size), v)
  BY <1>1, <1>5, <1>6, <1>9
<1>11. /\ \A x : Here(m2, x) <=> Here(mem, x)
       /\ StartsFromZeros(m2)
       /\ SeenValue(m2) = [SeenValue(mem) EXCEPT ![<<desc, n>>] = v]
       /\ SeenPresent(m2) = SeenPresent(mem)
  BY <1>4, <1>7, <1>8, <1>10, LeafWritten
<1>12. OpenHere(stack, m2)
  BY <1>4, <1>11 DEF OpenHere
<1>13. PICK l : l = <<desc, n>>
  OBVIOUS
<1>14. l \in Leaves /\ l[1] = desc
  BY <1>7, <1>13, LeafIn
<1>15. Message!SetLeaf(l)
  <2>1. Message!Reachable(l)
    BY <1>8, <1>14, ReachableIs DEF Message!Reachable
  <2>2. /\ SeenValue(mem)' = [SeenValue(mem) EXCEPT ![l] = v]
        /\ SeenPresent(mem)' = SeenPresent(mem)
    BY <1>9, <1>11, <1>13
  <2> QED BY <2>1, <2>2 DEF Message!SetLeaf
<1>16. Message!Next
  BY <1>14, <1>15 DEF Message!Next, Running
<1> QED BY <1>9, <1>11, <1>12, <1>16

\* A submessage starts, or goes on.
LEMMA SubmessageStep ==
    ASSUME FieldInv, SeenInv, pc = "field", pc' = "tag",
           PB_LTYPE_IS_SUBMSG(Top.iter.type),
           mem' = decode_static_field(mem, Top.iter)
    PROVE  /\ Message!Next \/ UNCHANGED <<SeenValue(mem), SeenPresent(mem)>>
           /\ StartsFromZeros(mem') /\ OpenHere(stack, mem')
           /\ Here(mem', Top.iter.submsg_desc)
<1>1. PICK desc, n, f :
              /\ desc \in Messages /\ n \in DOMAIN FieldList[desc]
              /\ f = FieldList[desc][n] /\ IsField(f) /\ Depth[desc] = Len(stack)
              /\ Top.iter.descriptor = desc /\ Top.iter.tag = n
              /\ Top.iter.type = Type(f) /\ Top.iter.submsg_desc = f.sub
              /\ Top.iter.pData = Place[desc] + f.offset /\ Top.iter.data_size = f.size
              /\ Top.iter.pSize = IF f.delta = 0 THEN NoAddress
                                  ELSE Place[desc] + f.offset - f.delta
  BY TopField
<1>2. f.ltype = "MESSAGE"
  BY <1>1, TypeParts
<1>4. mem \in StructType /\ StartsFromZeros(mem) /\ OpenHere(stack, mem) /\ Here(mem, desc)
  BY <1>1, TopHere DEF FieldInv, DecTypes, SeenInv, Running
<1>5. PICK m2 : m2 = mem'
  OBVIOUS
<1>6. PICK sub : sub = f.sub
  OBVIOUS
<1>7. PICK s : s = <<sub, 0>>
  OBVIOUS
<1>8. s[1] = sub
  BY <1>7
<1>9. CASE f.htype = "OPTIONAL"
  <2>1. PICK has : has = Top.iter.pSize
    OBVIOUS
  <2>2. \/ desc = "MQTTMessage" /\ sub = "Timestamp" /\ has = 4
        \/ desc = "Kart" /\ sub = "LatLng" /\ has = 52
    <3>1. Place["MQTTMessage"] = 0 /\ Place["Kart"] = 32
      BY DEF Place
    <3> QED BY <1>1, <1>2, <1>6, <1>9, <2>1, <3>1, FieldTable
  <2>3. m2 = Put(mem, Span(has, 1), 1)
    <3>1. PB_HTYPE(Top.iter.type) # PB_HTYPE_ONEOF
      BY <1>1, <1>9, HTypeOf
    <3> QED BY <1>5, <2>1, <3>1, Zenon DEF decode_static_field
  <2>4. (sub = "Timestamp" /\ has = 4) \/ (sub = "LatLng" /\ has = 52 /\ mem[24] = 3)
    BY <1>4, <2>2 DEF Here
  <2>5. /\ StartsFromZeros(m2) /\ Here(m2, sub)
        /\ \A x : x # sub => (Here(m2, x) <=> Here(mem, x))
        /\ SeenValue(m2) = SeenValue(mem)
        /\ SeenPresent(m2) = SeenPresent(mem) \cup {s}
    BY <1>4, <1>7, <2>3, <2>4, OptionalStarted
  <2>6. OpenHere(stack, m2)
    BY <1>4, <2>5 DEF OpenHere
  <2>7. s \in Subs \ Members
    BY <1>7, <2>2, MessageNames DEF Subs, Members
  <2>8. Message!StartOptional(s)
    <3>1. Message!Reachable(s)
      <4>1. CASE sub = "Timestamp"
        BY <1>8, <4>1, WithinIs DEF Message!Reachable, InMember
      <4>2. CASE sub = "LatLng"
        BY <1>8, <2>4, <4>2, ReachableIs DEF Message!Reachable
      <4> QED BY <2>2, <4>1, <4>2
    <3>2. SeenValue(mem)' = SeenValue(mem) /\ SeenPresent(mem)' = SeenPresent(mem) \cup {s}
      BY <1>5, <2>5
    <3> QED BY <2>7, <3>1, <3>2 DEF Message!StartOptional
  <2>9. Message!Next
    BY <2>7, <2>8 DEF Message!Next, Running
  <2> QED BY <1>1, <1>5, <1>6, <2>5, <2>6, <2>9
<1>10. CASE f.htype = "ONEOF"
  <2>1. PICK it : it = Top.iter
    OBVIOUS
  <2>2. PICK tag : tag = n
    OBVIOUS
  <2>3. /\ desc = "MQTTMessage"
        /\ \/ sub = "Kart" /\ tag = 3 /\ it.data_size = 40
           \/ sub = "Track" /\ tag = 4 /\ it.data_size = 8
        /\ it.tag = tag /\ it.submsg_desc = sub /\ it.pSize = 24 /\ it.pData = 32
    <3>1. Place["MQTTMessage"] = 0
      BY DEF Place
    <3>2. /\ desc = "MQTTMessage" /\ f.offset = 32 /\ f.delta = 8
          /\ \/ f.sub = "Kart" /\ n = 3 /\ f.size = 40
             \/ f.sub = "Track" /\ n = 4 /\ f.size = 8
      BY <1>1, <1>2, <1>10, FieldTable
    <3> QED BY <1>1, <1>6, <2>1, <2>2, <3>1, <3>2
  <2>4. PB_HTYPE(it.type) = PB_HTYPE_ONEOF
    BY <1>1, <1>10, <2>1, HTypeOf
  <2>5. m2 = decode_static_field(mem, it)
    BY <1>5, <2>1
  <2>6. /\ mem[24] = tag => m2 = mem
        /\ mem[24] # tag => \A c \in Cells :
             /\ c = 24 => m2[c] = tag
             /\ c # 24 /\ c < 32 => m2[c] = mem[c]
             /\ c >= 32 /\ (sub = "Kart" \/ c < 40) => m2[c] = 0
    BY <1>4, <2>3, <2>4, <2>5, StaticMember
  <2>7. CASE mem[24] = tag
    <3>1. mem' = mem
      BY <1>5, <2>6, <2>7
    <3>2. Here(mem, sub)
      BY <2>3, <2>7 DEF Here
    <3> QED BY <1>1, <1>4, <1>6, <3>1, <3>2
  <2>8. CASE mem[24] # tag
    <3>1. /\ StartsFromZeros(m2) /\ Here(m2, sub)
          /\ \A x : Here(m2, x) <=> x = sub \/ (~InMember(x) /\ Here(mem, x))
          /\ SeenValue(m2) = [l \in Leaves |-> IF InMember(l[1]) THEN 0 ELSE SeenValue(mem)[l]]
          /\ SeenPresent(m2) = {p \in SeenPresent(mem) : ~InMember(p[1])} \cup {s}
      <4>1. (sub = "Kart" /\ tag = 3) \/ (sub = "Track" /\ tag = 4)
        BY <2>3
      <4>2. \A c \in Cells :
             /\ c = 24 => m2[c] = tag
             /\ c # 24 /\ c < 32 => m2[c] = mem[c]
             /\ c >= 32 /\ (sub = "Kart" \/ c < 40) => m2[c] = 0
        BY <2>6, <2>8
      <4>3. StartsFromZeros(m2) /\ Here(m2, sub)
        BY <1>4, <2>8, <4>1, <4>2, MemberStarted
      <4>4. \A x : Here(m2, x) <=> x = sub \/ (~InMember(x) /\ Here(mem, x))
        <5>1. m2[4] = mem[4] /\ m2[24] = tag /\ (sub = "Kart" => m2[52] = 0)
          BY <4>2, CellsAre
        <5> QED BY <4>1, <5>1 DEF Here, InMember
      <4>5. SeenValue(m2) = [l \in Leaves |-> IF InMember(l[1]) THEN 0 ELSE SeenValue(mem)[l]]
        BY <1>4, <2>8, <4>1, <4>2, MemberStarted
      <4>6. SeenPresent(m2) = {p \in SeenPresent(mem) : ~InMember(p[1])} \cup {s}
        BY <1>4, <1>7, <2>8, <4>1, <4>2, MemberStarted
      <4> QED BY <4>3, <4>4, <4>5, <4>6, Zenon
    <3>2. OpenHere(stack, m2)
      \* The message with the oneof is the outermost one.
      <4>1. Len(stack) = 1
        BY <1>1, <2>3 DEF Depth
      <4>2. Top = stack[1]
        BY <4>1 DEF Top
      <4>3. Here(m2, "MQTTMessage")
        BY DEF Here
      <4> QED BY <1>1, <2>3, <4>1, <4>2, <4>3 DEF OpenHere
    <3>3. s \in Members
      BY <1>7, <2>3 DEF Members
    <3>4. s \notin SeenPresent(mem)
      <4>1. ~Here(mem, sub)
        BY <2>3, <2>8 DEF Here
      <4>2. ~InReach(mem, s)
        BY <1>8, <4>1, ReachIsHere
      <4> QED BY <4>2, Zenon DEF SeenPresent
    <3>5. \A x : WithinMember(x) \in Members <=> InMember(x[1])
      BY WithinIs
    <3>6. SeenPresent(mem)' = {p \in SeenPresent(mem) : WithinMember(p) \notin Members} \cup {s}
      <4>1. {p \in SeenPresent(mem) : ~InMember(p[1])}
              = {p \in SeenPresent(mem) : WithinMember(p) \notin Members}
        BY <3>5, Zenon
      <4> QED BY <1>5, <3>1, <4>1
    <3>7. SeenValue(mem)' = [l \in Leaves |-> IF WithinMember(l) \in Members THEN 0
                                              ELSE SeenValue(mem)[l]]
      <4>1. [l \in Leaves |-> IF InMember(l[1]) THEN 0 ELSE SeenValue(mem)[l]]
              = [l \in Leaves |-> IF WithinMember(l) \in Members THEN 0 ELSE SeenValue(mem)[l]]
        BY <3>5, Zenon
      <4> QED BY <1>5, <3>1, <4>1
    <3>8. Message!StartMember(s)
      BY <3>4, <3>6, <3>7 DEF Message!StartMember
    <3>9. Message!Next
      BY <3>3, <3>8 DEF Message!Next, Running
    <3> QED BY <1>1, <1>5, <1>6, <3>1, <3>2, <3>9
  <2> QED BY <2>7, <2>8
<1>11. f.htype = "OPTIONAL" \/ f.htype = "ONEOF"
  BY <1>1, <1>2, FieldTable
<1> QED BY <1>9, <1>10, <1>11

\* Which messages the decoder is in changes at the top of the stack only.
LEMMA ReadKeepsHere ==
    ASSUME DecInv, NEW m, OpenHere(stack, m), NEW f, stack' = Append(Below, f),
           f.iter.descriptor = Top.iter.descriptor
    PROVE  OpenHere(stack', m)
<1>1. PICK F : stack \in Seq(F)
  BY TopFrame DEF Chain
<1>2. Len(stack) \in Nat /\ Len(stack) >= 1 /\ Top = stack[Len(stack)]
  BY TopFrame
<1>3. PICK t : t = Append(SubSeq(stack, 1, Len(stack) - 1), f)
  OBVIOUS
<1>4. /\ Len(t) = Len(stack)
      /\ \A i \in 1..(Len(stack) - 1) : t[i] = stack[i]
      /\ t[Len(stack)] = f
  BY <1>1, <1>2, <1>3, AppendBelow
<1>5. Here(m, f.iter.descriptor)
  <2>1. Len(stack) \in 1..Len(stack)
    BY <1>2
  <2> QED BY <1>2, <2>1 DEF OpenHere
<1>6. ASSUME NEW i \in 1..Len(t) PROVE Here(m, t[i].iter.descriptor)
  <2>1. CASE i = Len(stack)
    BY <1>4, <1>5, <2>1
  <2>2. CASE i # Len(stack)
    <3>1. i \in 1..(Len(stack) - 1) /\ i \in 1..Len(stack)
      BY <1>2, <1>4, <2>2
    <3> QED BY <1>4, <3>1 DEF OpenHere
  <2> QED BY <2>1, <2>2
<1>7. stack' = t
  BY <1>3 DEF Below
<1> QED BY <1>6, <1>7 DEF OpenHere

LEMMA OpenKeepsHere ==
    ASSUME DecInv, NEW m, OpenHere(stack, m), NEW f, NEW g,
           stack' = SubSeq(stack, 1, Len(stack) - 1) \o <<f, g>>,
           f.iter.descriptor = Top.iter.descriptor, Here(m, g.iter.descriptor)
    PROVE  OpenHere(stack', m)
<1>1. PICK F : stack \in Seq(F)
  BY TopFrame DEF Chain
<1>2. Len(stack) \in Nat /\ Len(stack) >= 1 /\ Top = stack[Len(stack)]
  BY TopFrame
<1>3. PICK t : t = SubSeq(stack, 1, Len(stack) - 1) \o <<f, g>>
  OBVIOUS
<1>4. Len(t) = Len(stack) + 1
  BY <1>1, <1>2, <1>3, AppendTwo
<1>5. t[Len(stack)] = f
  BY <1>1, <1>2, <1>3, AppendTwo
<1>6. t[Len(t)] = g
  BY <1>1, <1>2, <1>3, AppendTwo
<1>7. \A i \in 1..(Len(stack) - 1) : t[i] = stack[i]
  BY <1>1, <1>2, <1>3, AppendTwo
<1>8. Here(m, f.iter.descriptor)
  <2>1. Len(stack) \in 1..Len(stack)
    BY <1>2
  <2> QED BY <1>2, <2>1 DEF OpenHere
<1>9. ASSUME NEW i \in 1..Len(t) PROVE Here(m, t[i].iter.descriptor)
  <2>1. CASE i = Len(stack)
    BY <1>5, <1>8, <2>1
  <2>2. CASE i = Len(stack) + 1
    BY <1>4, <1>6, <2>2
  <2>3. CASE i # Len(stack) /\ i # Len(stack) + 1
    <3>1. i \in 1..(Len(stack) - 1) /\ i \in 1..Len(stack)
      BY <1>2, <1>4, <2>3
    <3> QED BY <1>7, <3>1 DEF OpenHere
  <2> QED BY <2>1, <2>2, <2>3
<1> QED BY <1>3, <1>9 DEF OpenHere

LEMMA CloseKeepsHere ==
    ASSUME DecInv, CloseSubmessage, NEW m, OpenHere(stack, m)
    PROVE  OpenHere(stack', m)
<1>1. PICK F : stack \in Seq(F)
  BY TopFrame DEF Chain
<1>2. PICK below : below = SubSeq(stack, 1, Len(stack) - 1)
  OBVIOUS
<1>3. PICK p : p = below[Len(below)]
  OBVIOUS
<1>4. PICK pos : pos = Top.pos + Top.left
  OBVIOUS
<1>5. PICK f : f = [p EXCEPT !.pos = pos]
  OBVIOUS
<1>6. PICK t : t = [below EXCEPT ![Len(below)] = f]
  OBVIOUS
<1>7. Len(stack) \in Nat /\ Len(stack) > 1
  BY TopFrame DEF CloseSubmessage
<1>8. /\ Len(t) = Len(stack) - 1
      /\ \A i \in 1..(Len(stack) - 2) : t[i] = stack[i]
      /\ t[Len(stack) - 1] = f
  <2>1. t = [SubSeq(stack, 1, Len(stack) - 1)
               EXCEPT ![Len(SubSeq(stack, 1, Len(stack) - 1))] = f]
    BY <1>2, <1>6
  <2> QED BY <1>1, <1>7, <2>1, UpdateBelow
<1>9. p = stack[Len(stack) - 1]
  <2>1. /\ Len(below) = Len(stack) - 1
        /\ \A i \in 1..(Len(stack) - 1) : below[i] = stack[i]
    BY <1>1, <1>2, <1>7, BelowFrames
  <2>2. Len(stack) - 1 \in 1..(Len(stack) - 1)
    BY <1>7
  <2> QED BY <1>3, <2>1, <2>2
<1>10. Len(stack) - 1 \in 1..Len(stack)
  BY <1>7
<1>11. f.iter = p.iter
  <2>1. IsFrame(p)
    BY <1>9, <1>10, TopFrame DEF Chain
  <2> QED BY <1>5, <2>1 DEF IsFrame
<1>12. ASSUME NEW i \in 1..Len(t) PROVE Here(m, t[i].iter.descriptor)
  <2>1. CASE i = Len(stack) - 1
    <3>1. t[i].iter = stack[i].iter
      BY <1>8, <1>9, <1>11, <2>1
    <3>2. i \in 1..Len(stack)
      BY <1>10, <2>1
    <3> QED BY <3>1, <3>2 DEF OpenHere
  <2>2. CASE i # Len(stack) - 1
    <3>1. i \in 1..(Len(stack) - 2) /\ i \in 1..Len(stack)
      BY <1>7, <1>8, <2>2
    <3> QED BY <1>8, <3>1 DEF OpenHere
  <2> QED BY <2>1, <2>2
<1>13. stack' = t
  BY <1>2, <1>3, <1>4, <1>5, <1>6 DEF CloseSubmessage, Below, Resume
<1> QED BY <1>12, <1>13 DEF OpenHere

(***************************************************************************)
(* Steps.                                                                  *)
(***************************************************************************)

\* The bytes are not PbEncode's: a field holds one of Values.
FromElsewhere == input = Elsewhere

Implements ==
    /\ [Message!Next]_<<SeenValue(mem), SeenPresent(mem),
                        IF pc \in Running THEN "decoding" ELSE pc>>
    /\ SeenInv'

\* The message is given up.
LEMMA GivesUp == pc \in Running /\ pc' = "failed" => Implements
BY DEF Implements, SeenInv, Message!Next, Running

\* The struct is as it was.
LEMMA ReadsOn ==
    ASSUME SeenInv, pc \in Running, pc' \in Running, UNCHANGED mem,
           OpenHere(stack, mem) => OpenHere(stack', mem)
    PROVE  Implements
BY DEF Implements, SeenInv, OpenHere

LEMMA ReadTagImplements == FieldInv /\ FromElsewhere /\ SeenInv /\ ReadTag => Implements
<1> SUFFICES ASSUME FieldInv, FromElsewhere, SeenInv, ReadTag PROVE Implements
  OBVIOUS
<1>1. UNCHANGED mem /\ input = Elsewhere /\ Readable(input) /\ pc \in Running
  BY DEF ReadTag, FieldInv, DecInv, FromElsewhere, Running
<1>2. CASE Stops("failed")
  BY <1>1, <1>2, GivesUp DEF Stops
<1>3. ASSUME NEW i \in Offered("tag", TagItems), i.tag # 0, NEW search,
             search = pb_field_iter_find(Top.iter, i.tag), NEW iter,
             iter = (IF search.found THEN search.iter
                     ELSE pb_field_iter_find_extension(search.iter)),
             Reads(i, [pb_read(Top, i.n) EXCEPT !.iter = iter]),
             pc' = IF search.found THEN "field" ELSE "unknown"
      PROVE  Implements
  <2>1. i.tag \in Nat \ {0}
    BY <1>1, <1>3, OfferedTypes
  <2>2. pc' \in Running
    BY <1>3 DEF Running
  <2>3. PICK f : f = [pb_read(Top, i.n) EXCEPT !.iter = iter]
    OBVIOUS
  <2>4. f.iter = iter
    <3>1. i.n \in Nat /\ i.n <= Top.left
      BY <1>1, <1>3, OfferedSizes DEF Reads, Enough
    <3>2. PICK r : r = pb_read(Top, i.n)
      OBVIOUS
    <3>3. IsFrame(r)
      BY <3>1, <3>2, TopFrame, ReadFrame DEF FieldInv
    <3> QED BY <2>3, <3>2, <3>3 DEF IsFrame
  <2>5. f.iter.descriptor = Top.iter.descriptor
    BY <1>3, <2>1, <2>4, SearchKeepsField
  <2>6. OpenHere(stack, mem) => OpenHere(stack', mem)
    BY <1>3, <2>3, <2>5, ReadKeepsHere DEF FieldInv, Reads
  <2> QED BY <1>1, <2>2, <2>6, ReadsOn
<1>4. \/ Stops("failed")
      \/ \E i \in Offered("tag", TagItems) : \E search : \E iter :
            /\ i.tag # 0
            /\ search = pb_field_iter_find(Top.iter, i.tag)
            /\ iter = (IF search.found THEN search.iter
                       ELSE pb_field_iter_find_extension(search.iter))
            /\ Reads(i, [pb_read(Top, i.n) EXCEPT !.iter = iter])
            /\ pc' = IF search.found THEN "field" ELSE "unknown"
  BY <1>1, Zenon DEF ReadTag, Misread
<1> QED BY <1>2, <1>3, <1>4

LEMMA SkipFieldImplements == FieldInv /\ FromElsewhere /\ SeenInv /\ SkipField => Implements
<1> SUFFICES ASSUME FieldInv, FromElsewhere, SeenInv, SkipField PROVE Implements
  OBVIOUS
<1>1. UNCHANGED mem /\ input = Elsewhere /\ pc \in Running
  BY DEF SkipField, FromElsewhere, Running
<1>2. CASE Stops("failed")
  BY <1>1, <1>2, GivesUp DEF Stops
<1>3. CASE pc' = "tag" /\ \E i : Reads(i, pb_read(Top, SkipSize(i)))
  <2>1. PICK i : Reads(i, pb_read(Top, SkipSize(i)))
    BY <1>3
  <2>2. PICK f : f = pb_read(Top, SkipSize(i))
    OBVIOUS
  <2>3. f.iter = Top.iter
    BY <2>2, TopFrame, ReadKeepsIter DEF FieldInv
  <2>4. OpenHere(stack, mem) => OpenHere(stack', mem)
    BY <2>1, <2>2, <2>3, ReadKeepsHere DEF FieldInv, Reads
  <2> QED BY <1>1, <1>3, <2>4, ReadsOn DEF Running
<1>4. \/ Stops("failed")
      \/ pc' = "tag" /\ \E i : Reads(i, pb_read(Top, SkipSize(i)))
  BY <1>1, Zenon DEF SkipField
<1> QED BY <1>2, <1>3, <1>4

LEMMA DecodeValueImplements == FieldInv /\ FromElsewhere /\ SeenInv /\ DecodeValue => Implements
<1> SUFFICES ASSUME FieldInv, FromElsewhere, SeenInv, DecodeValue PROVE Implements
  OBVIOUS
<1>1. /\ input = Elsewhere /\ pc = "field" /\ ~PB_LTYPE_IS_SUBMSG(Top.iter.type)
      /\ pc \in Running
  BY DEF DecodeValue, FromElsewhere, Running
<1>2. CASE Stops("failed")
  BY <1>1, <1>2, GivesUp DEF Stops
<1> DEFINE Stored(v) == Put(decode_static_field(mem, Top.iter),
                            Span(Top.iter.pData, Top.iter.data_size), v)
<1>3. ASSUME NEW i \in Offered("val", ValItems(wire)), Reads(i, pb_read(Top, i.n)),
             mem' = Stored(i.v), pc' = "tag"
      PROVE  Implements
  <2>1. i.v \in Values
    BY <1>1 DEF Offered, ValItems, ValItem
  <2>2. Message!Next /\ StartsFromZeros(mem') /\ OpenHere(stack, mem')
    BY <1>1, <1>3, <2>1, ValueStep
  <2>3. PICK f : f = pb_read(Top, i.n)
    OBVIOUS
  <2>4. f.iter = Top.iter
    BY <2>3, TopFrame, ReadKeepsIter DEF FieldInv
  <2>5. OpenHere(stack', mem')
    BY <1>3, <2>2, <2>3, <2>4, ReadKeepsHere DEF FieldInv, Reads
  <2>6. SeenInv'
    BY <2>2, <2>5 DEF SeenInv, OpenHere
  <2> QED BY <2>2, <2>6 DEF Implements
<1>4. \/ Stops("failed")
      \/ \E i \in Offered("val", ValItems(wire)) :
            /\ Reads(i, pb_read(Top, i.n)) /\ mem' = Stored(i.v) /\ pc' = "tag"
  <2> HIDE DEF Stored
  <2> QED BY <1>1, Zenon DEF DecodeValue, Stored, Misread
<1> QED BY <1>2, <1>3, <1>4

\* The iterator a submessage is opened with is in that submessage.
LEMMA SubmessageDescriptor ==
    ASSUME FieldInv, PB_LTYPE_IS_SUBMSG(Top.iter.type)
    PROVE  pb_field_iter_begin(Top.iter.submsg_desc, Top.iter.pData).descriptor
             = Top.iter.submsg_desc
<1>1. PICK desc, n, f :
              /\ desc \in Messages /\ n \in DOMAIN FieldList[desc]
              /\ f = FieldList[desc][n] /\ IsField(f)
              /\ Top.iter.type = Type(f) /\ Top.iter.submsg_desc = f.sub
              /\ Top.iter.pData = Place[desc] + f.offset
  BY TopField
<1>2. PICK sub : sub = f.sub
  OBVIOUS
<1>3. sub # NULL
  BY <1>1, <1>2, TypeParts DEF IsField
<1>4. /\ sub \in Messages
      /\ Place[sub] = Place[desc] + f.offset
  BY <1>1, <1>2, <1>3, PlaceOfSubmessage
<1>5. PICK message \in Int : message = Place[sub]
  BY <1>4, PlaceInStruct
<1>6. PICK it : it = pb_field_iter_begin(sub, message)
  OBVIOUS
<1>7. it = IterAt(sub, message, 1)
  BY <1>4, <1>6, BeginTrue
<1>8. 1 \in DOMAIN FieldList[sub]
  BY <1>4, CountOf
<1>9. it.descriptor = sub
  BY <1>4, <1>7, <1>8, IterMembers
<1>10. Top.iter.submsg_desc = sub /\ Top.iter.pData = message
  BY <1>1, <1>2, <1>4, <1>5
<1> QED BY <1>6, <1>9, <1>10, Zenon

LEMMA OpenSubmessageImplements == FieldInv /\ FromElsewhere /\ SeenInv /\ OpenSubmessage => Implements
<1> SUFFICES ASSUME FieldInv, FromElsewhere, SeenInv, OpenSubmessage PROVE Implements
  OBVIOUS
<1>1. /\ input = Elsewhere /\ pc = "field" /\ PB_LTYPE_IS_SUBMSG(Top.iter.type)
      /\ pc \in Running /\ mem' = decode_static_field(mem, Top.iter)
  BY DEF OpenSubmessage, FromElsewhere, Running
<1>2. CASE Stops("failed")
  BY <1>1, <1>2, GivesUp DEF Stops
<1> DEFINE iter == pb_field_iter_begin(Top.iter.submsg_desc, Top.iter.pData)
           streams(i) == pb_make_string_substream(pb_read(Top, i.n), i.size, iter)
<1>3. ASSUME NEW i, streams(i) # <<>>, stack' = Below \o streams(i), pc' = "tag"
      PROVE  Implements
  <2> DEFINE fr == pb_read(Top, i.n)
  <2>1. PICK parent, sub : /\ parent = [fr EXCEPT !.left = @ - i.size]
                           /\ sub = Frame(iter, fr.pos, i.size)
    OBVIOUS
  <2>2. stack' = SubSeq(stack, 1, Len(stack) - 1) \o <<parent, sub>>
    BY <1>3, <2>1 DEF pb_make_string_substream, Below
  <2>3. sub.iter = iter
    <3> HIDE DEF iter, fr
    <3> QED BY <2>1 DEF Frame
  <2>4. sub.iter.descriptor = Top.iter.submsg_desc
    <3> HIDE DEF iter
    <3> QED BY <1>1, <2>3, SubmessageDescriptor DEF iter
  <2>5. parent.iter = Top.iter
    <3> DEFINE pos == Top.pos + i.n
               left == Top.left - i.n
               rest == fr.left - i.size
    <3>1. fr = [Top EXCEPT !.pos = pos, !.left = left]
      BY DEF pb_read
    <3>2. parent = [fr EXCEPT !.left = rest]
      BY <2>1
    <3> HIDE DEF fr, pos, left, rest
    <3>3. Top = [iter |-> Top.iter, pos |-> Top.pos, left |-> Top.left, end |-> Top.end]
      BY TopFrame DEF FieldInv, IsFrame
    <3>4. PICK t : t = Top
      OBVIOUS
    <3>5. t = [iter |-> t.iter, pos |-> t.pos, left |-> t.left, end |-> t.end]
      BY <3>3, <3>4
    <3>6. fr = [iter |-> t.iter, pos |-> pos, left |-> left, end |-> t.end]
      BY <3>1, <3>4, <3>5
    <3> QED BY <3>2, <3>4, <3>6
  <2> HIDE DEF iter, fr
  <2>6. /\ Message!Next \/ UNCHANGED <<SeenValue(mem), SeenPresent(mem)>>
        /\ StartsFromZeros(mem') /\ OpenHere(stack, mem')
        /\ Here(mem', Top.iter.submsg_desc)
    BY <1>1, <1>3, SubmessageStep
  <2>7. OpenHere(stack', mem')
    BY <2>2, <2>4, <2>5, <2>6, OpenKeepsHere DEF FieldInv
  <2>8. SeenInv'
    BY <2>6, <2>7 DEF SeenInv, OpenHere
  <2>9. pc' \in Running
    BY <1>3 DEF Running
  <2> QED BY <1>1, <2>6, <2>8, <2>9 DEF Implements
<1>4. \/ Stops("failed")
      \/ \E i : streams(i) # <<>> /\ stack' = Below \o streams(i) /\ pc' = "tag"
  <2> HIDE DEF iter
  <2> QED BY <1>1, Zenon DEF OpenSubmessage, iter, Misread
<1> QED BY <1>2, <1>3, <1>4

LEMMA OthersImplement ==
    FieldInv /\ SeenInv /\ (WrongWire \/ CloseSubmessage \/ Return \/ UNCHANGED vars)
        => Implements
<1> SUFFICES ASSUME FieldInv, SeenInv,
                    WrongWire \/ CloseSubmessage \/ Return \/ UNCHANGED vars
             PROVE  Implements
  OBVIOUS
<1>1. CASE WrongWire
  BY <1>1, GivesUp DEF WrongWire, Stops, Running
<1>2. CASE CloseSubmessage
  <2>1. OpenHere(stack, mem) => OpenHere(stack', mem)
    BY <1>2, CloseKeepsHere DEF FieldInv
  <2> QED BY <1>2, <2>1, ReadsOn DEF CloseSubmessage, Running
<1>3. CASE Return
  <2>1. UNCHANGED <<SeenValue(mem), SeenPresent(mem)>> /\ pc = "tag" /\ pc' = "ok"
    BY <1>3 DEF Return
  <2>2. Message!Next /\ SeenInv'
    BY <2>1 DEF Message!Next, SeenInv, Running
  <2> QED BY <2>2 DEF Implements
<1>4. CASE UNCHANGED vars
  BY <1>4 DEF Implements, SeenInv, OpenHere, vars
<1> QED BY <1>1, <1>2, <1>3, <1>4

\* A struct of zeros has no message in it and no value but 0.
LEMMA NothingSeen ==
    ASSUME NEW m, \A c \in Cells : m[c] = 0
    PROVE  /\ StartsFromZeros(m) /\ Here(m, "MQTTMessage")
           /\ SeenValue(m) = [l \in Leaves |-> 0] /\ SeenPresent(m) = {}
<1>1. m[4] = 0 /\ m[8] = 0 /\ m[16] = 0 /\ m[24] = 0 /\ m[56] = 0 /\ m[64] = 0
  BY CellsAre
<1>2. StartsFromZeros(m) /\ Here(m, "MQTTMessage")
  BY <1>1 DEF StartsFromZeros, Here
<1>3. SeenValue(m) = [l \in Leaves |-> 0]
  <2>1. PICK f : f = [l \in Leaves |-> 0]
    OBVIOUS
  <2>2. f = [l \in Leaves |-> f[l]]
    BY <2>1
  <2>3. ASSUME NEW e, NEW k, NEW b, NEW size, IsLeaf(e, k, b, size)
        PROVE  f[<<e, k>>] = IF Here(m, e) THEN m[b] ELSE 0
    <3>1. b \in Cells
      BY <2>3, LeafTable, CellsAre
    <3>2. <<e, k>> \in Leaves
      BY <2>3, LeafIn
    <3> QED BY <2>1, <3>1, <3>2
  <2> QED BY <2>1, <2>2, <2>3, SeenAll
<1>4. SeenPresent(m) = {}
  <2>1. ASSUME NEW s \in Subs PROVE ~InReach(m, s)
    <3>1. PICK d \in Messages \ {"MQTTMessage"} : s = <<d, 0>>
      BY DEF Subs
    <3>2. s[1] = d
      BY <3>1
    <3>3. ~Here(m, d)
      BY <1>1, <3>1, MessageNames DEF Here
    <3> QED BY <3>2, <3>3, ReachIsHere
  <2> QED BY <2>1 DEF SeenPresent
<1> QED BY <1>2, <1>3, <1>4

LEMMA InitImplements == Init => Message!Init /\ SeenInv
<1> SUFFICES ASSUME Init PROVE Message!Init /\ SeenInv
  OBVIOUS
<1>1. ASSUME NEW c \in Cells PROVE mem[c] = 0
  BY PutCell DEF Init, FreshStruct, pb_message_set_to_defaults, MQTTMessage_init_default
<1>2. /\ StartsFromZeros(mem) /\ Here(mem, "MQTTMessage")
      /\ SeenValue(mem) = [l \in Leaves |-> 0] /\ SeenPresent(mem) = {}
  BY <1>1, NothingSeen
<1>3. PICK iter : iter = pb_field_iter_begin("MQTTMessage", 0)
  OBVIOUS
<1>4. iter.descriptor = "MQTTMessage"
  <2>1. "MQTTMessage" \in Messages /\ 0 \in Int
    BY MessageNames
  <2>2. iter = IterAt("MQTTMessage", 0, 1)
    BY <1>3, <2>1, BeginTrue
  <2>3. 1 \in DOMAIN FieldList["MQTTMessage"]
    BY <2>1, CountOf
  <2> QED BY <2>1, <2>2, <2>3, IterMembers
<1>5. PICK f : f = Frame(iter, 0, len)
  OBVIOUS
<1>6. stack = <<f>> /\ f.iter = iter
  BY <1>3, <1>5 DEF Init, FirstStack, Frame
<1>7. OpenHere(stack, mem)
  BY <1>2, <1>4, <1>6 DEF OpenHere
<1>8. pc \in Running
  BY DEF Init, Running
<1> QED BY <1>2, <1>7, <1>8 DEF SeenInv, Message!Init

\* Whatever the bytes are, what the decoder does to the struct is what the protocol
\* buffers rules do to the message, though two of its members share one place and
\* nothing is cleared but by the code itself: a field is written only in a member
\* that is selected, and a member that is selected starts from zeros
\* (pb_decode.c:508-573, 895-1115, 1622-1672).
THEOREM DecoderImplementsProtoMessage == Spec => ImplementsProtoMessage
<1>1. FieldInv /\ FromElsewhere /\ SeenInv /\ [Next]_vars
        => [Message!Next]_<<SeenValue(mem), SeenPresent(mem),
                            IF pc \in Running THEN "decoding" ELSE pc>>
  BY ReadTagImplements, SkipFieldImplements, DecodeValueImplements,
     OpenSubmessageImplements, OthersImplement DEF Next, Implements
<1>2. FieldInv /\ FromElsewhere /\ SeenInv /\ [Next]_vars => SeenInv'
  BY ReadTagImplements, SkipFieldImplements, DecodeValueImplements,
     OpenSubmessageImplements, OthersImplement DEF Next, Implements
<1>3. Init => FromElsewhere
  BY DEF Init, FromElsewhere
<1>4. FromElsewhere /\ [Next]_vars => FromElsewhere'
  BY DEF FromElsewhere, Next, vars, ReadTag, SkipField, WrongWire, DecodeValue,
         OpenSubmessage, CloseSubmessage, Return
<1>5. Spec => [](FromElsewhere /\ SeenInv)
  BY <1>2, <1>3, <1>4, InitImplements, FieldInvariant, PTL DEF Spec
<1> QED BY <1>1, <1>5, InitImplements, FieldInvariant, PTL
           DEF Spec, ImplementsProtoMessage, Message!Spec
=============================================================================
