-------------------------- MODULE RootForwardProofs -------------------------
(***************************************************************************)
(* Proofs about RootForward, for every size of the buffer, of a packet and *)
(* of the messages: what strlen finds lies in the buffer, and the replies  *)
(* are published exactly as long as no message on /track is longer; and    *)
(* for all addresses, no two karts share a topic.                          *)
(***************************************************************************)
EXTENDS RootForward, SequenceTheorems, TLAPS

\* The part of the buffer that no packet has reached: all of it behind the
\* longest packet, and behind a reply too if no echo is longer.
Untouched ==
    /\ rx_buf[RX_SIZE] = "NUL"
    /\ EchoSize <= ReplySize => \A i \in (ReplySize + 1)..RX_SIZE : rx_buf[i] = "NUL"

BufferInv ==
    /\ rx_buf \in [1..RX_SIZE -> Byte]
    /\ Untouched
    /\ EchoSize <= ReplySize => PublishesTheReply

\* A packet shorter than the buffer keeps the bytes behind it.
LEMMA OverwrittenProperties ==
    ASSUME rx_buf \in [1..RX_SIZE -> Byte],
           NEW n \in 0..MPS, NEW p \in [1..n -> Byte]
    PROVE  /\ Overwritten(p) \in [1..RX_SIZE -> Byte]
           /\ \A i \in 1..RX_SIZE : Overwritten(p)[i] = IF i <= n THEN p[i] ELSE rx_buf[i]
<1>1. p \in Seq(Byte) /\ Len(p) = n
  BY ForwardAssumption, IsASeq, LenProperties
<1>2. \A i \in 1..RX_SIZE : i <= n => p[i] \in Byte
  BY ForwardAssumption
<1> QED BY <1>1, <1>2 DEF Overwritten

\* strlen stops at the first NUL.
LEMMA StrlenFindsFirst ==
    ASSUME NEW buf \in [1..RX_SIZE -> Byte],
           NEW n \in 0..(RX_SIZE - 1),
           buf[n + 1] = "NUL",
           \A i \in 1..n : buf[i] # "NUL"
    PROVE  Strlen(buf) = n
<1>1. Len(buf) = RX_SIZE
  BY ForwardAssumption, IsASeq, LenProperties
<1>2. \A m \in 0..(RX_SIZE - 1) :
        buf[m + 1] = "NUL" /\ (\A i \in 1..m : buf[i] # "NUL") => m = n
  <2> SUFFICES ASSUME NEW m \in 0..(RX_SIZE - 1), buf[m + 1] = "NUL",
                      \A i \in 1..m : buf[i] # "NUL"
               PROVE  ~(m < n) /\ ~(n < m)
    BY ForwardAssumption
  <2>1. ~(m < n)
    <3>1. m < n => m + 1 \in 1..n
      BY ForwardAssumption
    <3> QED BY <3>1
  <2>2. ~(n < m)
    <3>1. n < m => n + 1 \in 1..m
      BY ForwardAssumption
    <3> QED BY <3>1
  <2> QED BY <2>1, <2>2
<1> QED BY <1>1, <1>2 DEF Strlen

\* A reply is a packet.
LEMMA ReplyIsPacket ==
    /\ ReplySize \in 0..MPS /\ ReplySize \in 0..(RX_SIZE - 1)
    /\ Reply \in [1..ReplySize -> Byte]
BY ForwardAssumption DEF Reply, Byte

\* The static buffer is zero at first.
LEMMA InitBuffer == Init => BufferInv
BY ForwardAssumption DEF Init, BufferInv, Untouched, Blank, Byte, PublishesTheReply

\* Every step keeps the untouched part untouched.
LEMMA BufferStep == BufferInv /\ [Next]_vars => BufferInv'
<1> SUFFICES ASSUME BufferInv, [Next]_vars PROVE BufferInv'
  OBVIOUS
<1>1. ASSUME NEW mac \in Macs, ForwardReply(mac) PROVE BufferInv'
  <2>1. /\ rx_buf' \in [1..RX_SIZE -> Byte]
        /\ \A i \in 1..RX_SIZE :
              rx_buf'[i] = IF i <= ReplySize THEN Reply[i] ELSE rx_buf[i]
    BY <1>1, ReplyIsPacket, OverwrittenProperties DEF BufferInv, ForwardReply
  <2>2. Untouched'
    BY <2>1, ForwardAssumption DEF BufferInv, Untouched
  <2>3. ASSUME EchoSize <= ReplySize PROVE payload' = Reply
    <3>1. rx_buf'[ReplySize + 1] = "NUL"
      BY <2>2, <2>3, ForwardAssumption DEF Untouched
    <3>2. \A i \in 1..ReplySize : rx_buf'[i] = "reply"
      BY <2>1, ForwardAssumption DEF Reply
    <3>3. Strlen(rx_buf') = ReplySize
      BY <2>1, <3>1, <3>2, ReplyIsPacket, StrlenFindsFirst
    <3>4. payload' = SubSeq(rx_buf', 1, ReplySize)
      BY <1>1, <3>3 DEF ForwardReply
    <3>5. SubSeq(rx_buf', 1, ReplySize) = Reply
      BY <3>2, ForwardAssumption DEF Reply
    <3> QED BY <3>4, <3>5
  <2> QED BY <2>1, <2>2, <2>3 DEF BufferInv, PublishesTheReply, Reply
<1>2. ASSUME NEW n \in 1..EchoSize, NEW p \in [1..n -> {"NUL", "other"}],
             IgnoreEcho(p)
      PROVE  BufferInv'
  <2>1. n \in 0..MPS /\ p \in [1..n -> Byte]
    BY ForwardAssumption DEF Byte
  <2>2. /\ rx_buf' \in [1..RX_SIZE -> Byte]
        /\ \A i \in 1..RX_SIZE : rx_buf'[i] = IF i <= n THEN p[i] ELSE rx_buf[i]
    BY <1>2, <2>1, OverwrittenProperties DEF BufferInv, IgnoreEcho
  <2>3. Untouched'
    BY <2>1, <2>2, ForwardAssumption DEF BufferInv, Untouched
  <2> QED BY <1>2, <2>2, <2>3 DEF BufferInv, PublishesTheReply, Reply, IgnoreEcho
<1>3. CASE Restart
  BY <1>3, ForwardAssumption
     DEF BufferInv, Untouched, Restart, Blank, Byte, PublishesTheReply, Reply
<1>4. CASE UNCHANGED vars
  BY <1>4 DEF BufferInv, Untouched, PublishesTheReply, Reply, vars
<1> QED BY <1>1, <1>2, <1>3, <1>4 DEF Next

\* The end of what is published always lies in the buffer.
THEOREM AlwaysTerminated == Spec => []Terminated
<1>1. BufferInv => Terminated
  BY DEF BufferInv, Untouched, Terminated
<1> QED BY <1>1, InitBuffer, BufferStep, PTL DEF Spec

\* As long as no message on /track is longer than a reply, every publication
\* is the reply of a leaf and nothing else.
THEOREM RepliesPublishedExactly ==
    ASSUME EchoSize <= ReplySize
    PROVE  Spec => []PublishesTheReply
<1>1. BufferInv => PublishesTheReply
  BY DEF BufferInv
<1> QED BY <1>1, InitBuffer, BufferStep, PTL DEF Spec
-----------------------------------------------------------------------------
(***************************************************************************)
(* Topics.  Each octet has the separator in front, which is no digit, so   *)
(* the last separator shows where the last octet begins, and the topic can *)
(* be read back octet by octet from its end.                               *)
(***************************************************************************)

Part(octet) == Separated(Hex(octet))
Symbol == 0..16
Octet == 0..255

\* An octet of one digit, and one of two.
Short(o) == Part(o)[1] = 16 /\ Len(Part(o)) = 2 /\ Part(o)[2] = o
Long(o) ==
    /\ Part(o)[1] = 16 /\ Len(Part(o)) = 3
    /\ Part(o)[2] \in 1..15
    /\ o = 16 * Part(o)[2] + Part(o)[3]

LEMMA TwoDigits ==
    ASSUME NEW S, NEW x \in S, NEW y \in S, NEW z \in S
    PROVE  /\ <<x>> \o <<y, z>> \in Seq(S)
           /\ Len(<<x>> \o <<y, z>>) = 3
           /\ (<<x>> \o <<y, z>>)[1] = x
           /\ (<<x>> \o <<y, z>>)[2] = y
           /\ (<<x>> \o <<y, z>>)[3] = z
<1> DEFINE s == <<x>>
           t == <<y, z>>
<1>1. s \in Seq(S) /\ Len(s) = 1 /\ s[1] = x
  OBVIOUS
<1>2. t \in Seq(S) /\ Len(t) = 2 /\ t[1] = y /\ t[2] = z
  OBVIOUS
<1> HIDE DEF s, t
<1>3. s \o t \in Seq(S) /\ Len(s \o t) = 3
  BY <1>1, <1>2, ConcatProperties
<1>4. (s \o t)[1] = x /\ (s \o t)[2] = y /\ (s \o t)[3] = z
  BY <1>1, <1>2, <1>3, ConcatProperties
<1> QED BY <1>3, <1>4 DEF s, t

LEMMA PartShape ==
    ASSUME NEW o \in Octet
    PROVE  /\ Part(o) \in Seq(Symbol)
           /\ IF o < 16 THEN Short(o) ELSE Long(o)
<1> USE DEF Octet
<1>1. <<16>> \in Seq(Symbol) /\ Len(<<16>>) = 1 /\ <<16>>[1] = 16
  BY DEF Symbol
<1>2. CASE o < 16
  <2>1. Hex(o) = <<o>> /\ Hex(o) \in Seq(Symbol) /\ Len(Hex(o)) = 1 /\ Hex(o)[1] = o
    BY <1>2 DEF Hex, Symbol
  <2>2. Part(o) \in Seq(Symbol) /\ Short(o)
    BY <1>1, <2>1, ConcatProperties DEF Part, Separated, Short
  <2> QED BY <1>2, <2>2
<1>3. CASE o >= 16
  <2> DEFINE x == o \div 16
             y == o % 16
  <2>1. x \in 1..15 /\ y \in 0..15 /\ o = 16 * x + y
    BY <1>3
  <2>2. Hex(o) = <<x, y>>
    BY <1>3 DEF Hex
  <2> HIDE DEF x, y
  <2>3. x \in Symbol /\ y \in Symbol /\ 16 \in Symbol
    BY <2>1 DEF Symbol
  <2>4. /\ Part(o) \in Seq(Symbol) /\ Len(Part(o)) = 3
        /\ Part(o)[1] = 16 /\ Part(o)[2] = x /\ Part(o)[3] = y
    BY <2>2, <2>3, TwoDigits DEF Part, Separated
  <2>5. Long(o)
    BY <2>1, <2>4 DEF Long
  <2> QED BY <1>3, <2>4, <2>5
<1> QED BY <1>2, <1>3

\* u is s followed by p.
Joins(u, s, p) ==
    /\ Len(u) = Len(s) + Len(p)
    /\ \A i \in 1..Len(s) : u[i] = s[i]
    /\ \A k \in 1..Len(p) : u[Len(s) + k] = p[k]

LEMMA ConcatJoins ==
    ASSUME NEW S, NEW s \in Seq(S), NEW p \in Seq(S)
    PROVE  Joins(s \o p, s, p)
<1>1. \A i \in 1..Len(s) : (s \o p)[i] = s[i]
  BY ConcatProperties
<1>2. \A k \in 1..Len(p) : (s \o p)[Len(s) + k] = p[k]
  BY ConcatProperties
<1> QED BY <1>1, <1>2, ConcatProperties DEF Joins

\* What ends in the digits of an octet ends in no other octet.
LEMMA LastOctet ==
    ASSUME NEW u, NEW s \in Seq(Symbol), NEW t \in Seq(Symbol),
           NEW a \in Octet, NEW b \in Octet,
           Joins(u, s, Part(a)), Joins(u, t, Part(b))
    PROVE  s = t /\ a = b
<1>1. ASSUME NEW v \in Seq(Symbol), NEW w \in Seq(Symbol), NEW c, NEW d,
             Joins(u, v, Part(c)), Joins(u, w, Part(d)), Short(c), Long(d)
      PROVE  FALSE
  <2>1. Len(v) \in Nat /\ Len(w) \in Nat /\ Len(v) = Len(w) + 1
    BY <1>1 DEF Joins, Short, Long
  <2>2. u[Len(v) + 1] = 16
    BY <1>1 DEF Joins, Short
  <2>3. u[Len(w) + 2] \in 1..15
    BY <1>1 DEF Joins, Long
  <2>4. Len(v) + 1 = Len(w) + 2
    BY <2>1
  <2>5. u[Len(v) + 1] \in 1..15
    BY <2>3, <2>4, Zenon
  <2> QED BY <2>2, <2>5
<1>2. (Short(a) /\ Short(b)) \/ (Long(a) /\ Long(b))
  BY <1>1, PartShape
<1>3. Len(Part(a)) = Len(Part(b))
  BY <1>2 DEF Short, Long
<1>4. Len(s) \in Nat /\ Len(t) \in Nat /\ Len(s) = Len(t)
  BY <1>2, <1>3 DEF Joins, Short, Long
<1>5. s = t
  BY <1>4, SeqEqual DEF Joins
<1>6. \A k \in 1..Len(Part(a)) : Part(a)[k] = Part(b)[k]
  BY <1>3, <1>4 DEF Joins
<1>7. a = b
  <2>1. CASE Short(a) /\ Short(b)
    BY <1>6, <2>1 DEF Short
  <2>2. CASE Long(a) /\ Long(b)
    <3>1. Part(a)[2] = Part(b)[2] /\ Part(a)[3] = Part(b)[3]
      BY <1>6, <2>2 DEF Long
    <3> QED BY <2>2, <3>1 DEF Long
  <2> QED BY <1>2, <2>1, <2>2
<1> QED BY <1>5, <1>7

\* The topic of an address up to its k-th octet.
To1(m) == Part(m[1])
To2(m) == To1(m) \o Part(m[2])
To3(m) == To2(m) \o Part(m[3])
To4(m) == To3(m) \o Part(m[4])
To5(m) == To4(m) \o Part(m[5])
To6(m) == To5(m) \o Part(m[6])

LEMMA TopicParts ==
    ASSUME NEW m \in [1..6 -> Octet]
    PROVE  /\ To1(m) \in Seq(Symbol) /\ Joins(To1(m), <<>>, Part(m[1]))
           /\ To2(m) \in Seq(Symbol) /\ Joins(To2(m), To1(m), Part(m[2]))
           /\ To3(m) \in Seq(Symbol) /\ Joins(To3(m), To2(m), Part(m[3]))
           /\ To4(m) \in Seq(Symbol) /\ Joins(To4(m), To3(m), Part(m[4]))
           /\ To5(m) \in Seq(Symbol) /\ Joins(To5(m), To4(m), Part(m[5]))
           /\ To6(m) \in Seq(Symbol) /\ Joins(To6(m), To5(m), Part(m[6]))
           /\ KartTopic(m) = To6(m)
<1>1. \A i \in 1..6 : Part(m[i]) \in Seq(Symbol)
  BY PartShape
<1>2. To1(m) \in Seq(Symbol) /\ Joins(To1(m), <<>>, Part(m[1]))
  BY <1>1 DEF To1, Joins
<1>3. To2(m) \in Seq(Symbol) /\ Joins(To2(m), To1(m), Part(m[2]))
  BY <1>1, <1>2, ConcatProperties, ConcatJoins DEF To2
<1>4. To3(m) \in Seq(Symbol) /\ Joins(To3(m), To2(m), Part(m[3]))
  BY <1>1, <1>3, ConcatProperties, ConcatJoins DEF To3
<1>5. To4(m) \in Seq(Symbol) /\ Joins(To4(m), To3(m), Part(m[4]))
  BY <1>1, <1>4, ConcatProperties, ConcatJoins DEF To4
<1>6. To5(m) \in Seq(Symbol) /\ Joins(To5(m), To4(m), Part(m[5]))
  BY <1>1, <1>5, ConcatProperties, ConcatJoins DEF To5
<1>7. To6(m) \in Seq(Symbol) /\ Joins(To6(m), To5(m), Part(m[6]))
  BY <1>1, <1>6, ConcatProperties, ConcatJoins DEF To6
<1>8. KartTopic(m) = To6(m)
  BY DEF KartTopic, Part, To1, To2, To3, To4, To5, To6
<1> QED BY <1>2, <1>3, <1>4, <1>5, <1>6, <1>7, <1>8

LEMMA TopicOctets ==
    ASSUME NEW a \in [1..6 -> Octet], NEW b \in [1..6 -> Octet],
           KartTopic(a) = KartTopic(b)
    PROVE  a = b
<1>1. \A i \in 1..6 : a[i] \in Octet /\ b[i] \in Octet
  OBVIOUS
<1>2. To6(a) = To6(b)
  BY TopicParts
<1>3. To5(a) = To5(b) /\ a[6] = b[6]
  BY <1>1, <1>2, TopicParts, LastOctet
<1>4. To4(a) = To4(b) /\ a[5] = b[5]
  BY <1>1, <1>3, TopicParts, LastOctet
<1>5. To3(a) = To3(b) /\ a[4] = b[4]
  BY <1>1, <1>4, TopicParts, LastOctet
<1>6. To2(a) = To2(b) /\ a[3] = b[3]
  BY <1>1, <1>5, TopicParts, LastOctet
<1>7. To1(a) = To1(b) /\ a[2] = b[2]
  BY <1>1, <1>6, TopicParts, LastOctet
<1>8. a[1] = b[1]
  <2>1. Part(a[1]) = Part(b[1])
    BY <1>7 DEF To1
  <2>2. (Short(a[1]) \/ Long(a[1])) /\ (Short(b[1]) \/ Long(b[1]))
    BY <1>1, PartShape
  <2> QED BY <2>1, <2>2 DEF Short, Long
<1> QED BY <1>3, <1>4, <1>5, <1>6, <1>7, <1>8

\* Every publication went to the topic of its sender.
TopicsInv == topics \subseteq {<<mac, KartTopic(mac)>> : mac \in Macs}

\* For all addresses, whatever is published and however often a node restarts:
\* no two karts share a topic, although an octet may have one digit or two
\* (mesh.cpp:98-99).
THEOREM KartsHaveTheirTopics == Spec => []TopicsTellKartsApart
<1>1. Init => TopicsInv
  BY DEF Init, TopicsInv
<1>2. TopicsInv /\ [Next]_vars => TopicsInv'
  BY DEF TopicsInv, Next, vars, ForwardReply, IgnoreEcho, Restart
<1>3. TopicsInv => TopicsTellKartsApart
  <2> SUFFICES ASSUME TopicsInv, NEW s \in topics, NEW t \in topics, s[2] = t[2]
               PROVE  s[1] = t[1]
    BY DEF TopicsTellKartsApart
  <2>1. PICK a \in Macs : s = <<a, KartTopic(a)>>
    BY DEF TopicsInv
  <2>2. PICK b \in Macs : t = <<b, KartTopic(b)>>
    BY DEF TopicsInv
  <2>3. a = b
    BY <2>1, <2>2, TopicOctets, ForwardAssumption DEF Octet
  <2> QED BY <2>1, <2>2, <2>3
<1> QED BY <1>1, <1>2, <1>3, PTL DEF Spec
=============================================================================
