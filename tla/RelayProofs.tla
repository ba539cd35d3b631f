---------------------------- MODULE RelayProofs -----------------------------
(***************************************************************************)
(* Proofs about Relay, for every set of leaves, queue capacity and number  *)
(* of messages: type correctness, the pipeline invariant, and that the     *)
(* relay implements TrackReply.                                            *)
(***************************************************************************)
EXTENDS Relay, SequenceTheorems, TLAPS

(***************************************************************************)
(* Lemmas on sequences and on the mesh stack's send.                       *)
(***************************************************************************)

\* Removing an element shifts the later ones down by one.
LEMMA RemoveAtProperties ==
    ASSUME NEW S, NEW s \in Seq(S), NEW i \in 1..Len(s)
    PROVE  /\ RemoveAt(s, i) \in Seq(S)
           /\ Len(RemoveAt(s, i)) = Len(s) - 1
           /\ \A k \in 1..(Len(s) - 1) :
                 RemoveAt(s, i)[k] = IF k < i THEN s[k] ELSE s[k + 1]
<1> DEFINE a == SubSeq(s, 1, i - 1)
           b == SubSeq(s, i + 1, Len(s))
<1>1. \A k \in 1..Len(s) : s[k] \in S
  BY ElementOfSeq
<1>2. /\ a \in Seq(S)
      /\ Len(a) = i - 1
      /\ \A k \in 1..(i - 1) : a[k] = s[k]
  <2>1. \A k \in 1..(i - 1) : s[k] \in S
    BY <1>1, LenProperties
  <2>2. /\ a \in Seq(S)
        /\ Len(a) = IF 1 <= i - 1 THEN (i - 1) - 1 + 1 ELSE 0
        /\ \A k \in 1..((i - 1) - 1 + 1) : a[k] = s[1 + k - 1]
    BY <2>1, SubSeqProperties
  <2> QED BY <2>2, LenProperties
<1>3. /\ b \in Seq(S)
      /\ Len(b) = Len(s) - i
      /\ \A k \in 1..(Len(s) - i) : b[k] = s[k + i]
  <2>1. \A k \in (i + 1)..Len(s) : s[k] \in S
    BY <1>1, LenProperties
  <2>2. /\ b \in Seq(S)
        /\ Len(b) = IF i + 1 <= Len(s) THEN Len(s) - (i + 1) + 1 ELSE 0
        /\ \A k \in 1..(Len(s) - (i + 1) + 1) : b[k] = s[i + 1 + k - 1]
    BY <2>1, SubSeqProperties, LenProperties
  <2> QED BY <2>2, LenProperties
<1>4. RemoveAt(s, i) = a \o b
  BY DEF RemoveAt
<1>5. /\ a \o b \in Seq(S)
      /\ Len(a \o b) = Len(a) + Len(b)
      /\ \A k \in 1..(Len(a) + Len(b)) :
            (a \o b)[k] = IF k <= Len(a) THEN a[k] ELSE b[k - Len(a)]
  BY <1>2, <1>3, ConcatProperties
<1> HIDE DEF a, b
<1> QED BY <1>2, <1>3, <1>4, <1>5, LenProperties

\* The queue of a node that has just started.
LEMMA EmptyQueue ==
    /\ << >> \in Seq(PacketType) /\ Len(<< >>) <= QSize
    /\ << >> \in Seq(Topic) /\ Len(<< >>) <= MaxTrack
    /\ << >> \in Seq([mac : Node, id : 1..MaxTrack])
BY EmptySeq, RelayAssumption

\* A send appends the packet to the destination's queue, or does nothing.
LEMMA SendEffect ==
    ASSUME TypeOK, NEW src \in Node, NEW dst \in Node, NEW p \in PacketType,
           esp_mesh_send(src, dst, p)
    PROVE  /\ \/ rxq' = [rxq EXCEPT ![dst] = Append(@, p)]
              \/ rxq' = rxq
           /\ rxq' \in [Node -> Seq(PacketType)]
           /\ \A n \in Node : Len(rxq'[n]) <= QSize
<1>1. Append(rxq[dst], p) \in Seq(PacketType)
      /\ Len(Append(rxq[dst], p)) = Len(rxq[dst]) + 1
  BY AppendProperties DEF TypeOK
<1>2. CASE rxq' = rxq
  BY <1>2 DEF TypeOK
<1>3. CASE /\ HasRoom(dst)
           /\ rxq' = [rxq EXCEPT ![dst] = Append(@, p)]
  <2>1. Len(rxq[dst]) + 1 <= QSize
    BY <1>3, RelayAssumption, LenProperties DEF HasRoom, TypeOK
  <2> QED BY <1>1, <1>3, <2>1 DEF TypeOK
<1> QED BY <1>2, <1>3 DEF esp_mesh_send

\* A leaf that does not know the root's address sends nothing.
LEMMA NoAddrSend ==
    ASSUME NEW l \in Leaves, NEW p, esp_mesh_send(l, NoAddr, p)
    PROVE  rxq' = rxq
BY RelayAssumption DEF esp_mesh_send, Reachable

-----------------------------------------------------------------------------
\* Type correctness, including that no receive queue exceeds its capacity.
THEOREM TypeCorrect == Spec => []TypeOK
<1>1. Init => TypeOK
  BY EmptyQueue DEF Init, TypeOK
<1>2. TypeOK /\ [Next]_vars => TypeOK'
  <2> SUFFICES ASSUME TypeOK, [Next]_vars PROVE TypeOK'
    OBVIOUS
  <2>1. CASE mqtt_app_start
    BY <2>1 DEF mqtt_app_start, TypeOK
  <2>2. ASSUME NEW t \in Topic, MqttData(t) PROVE TypeOK'
    <3>1. /\ Append(received, t) \in Seq(Topic)
          /\ Len(Append(received, t)) = Len(received) + 1
      BY AppendProperties DEF TypeOK
    <3>2. Len(received) + 1 \in 1..MaxTrack
      BY <2>2, RelayAssumption, LenProperties DEF MqttData, TypeOK
    <3>3. bcast' \in PacketType
      BY <2>2, <3>2 DEF MqttData, Packet, PacketType, Node
    <3>4. route_table' \subseteq Node
      BY <2>2 DEF MqttData, RoutingTable, Node, TypeOK
    <3>5. received' \in Seq(Topic) /\ Len(received') <= MaxTrack
      BY <2>2, <3>1, <3>2 DEF MqttData
    <3> QED BY <2>2, <3>3, <3>4, <3>5 DEF MqttData, TypeOK
  <2>3. ASSUME NEW n \in Node, BroadcastTo(n) PROVE TypeOK'
    <3>1. bcast \in PacketType /\ Root \in Node
      BY <2>3 DEF BroadcastTo, TypeOK, Node
    <3>2. rxq' \in [Node -> Seq(PacketType)]
          /\ \A m \in Node : Len(rxq'[m]) <= QSize
      BY <2>3, <3>1, SendEffect DEF BroadcastTo
    <3> QED BY <2>3, <3>2 DEF BroadcastTo, NextEntries, TypeOK
  <2>4. CASE BroadcastEnd
    BY <2>4 DEF BroadcastEnd, TypeOK
  <2>5. ASSUME NEW n \in Node, RxRecv(n) PROVE TypeOK'
    <3>1. /\ Head(rxq[n]) \in PacketType
          /\ Tail(rxq[n]) \in Seq(PacketType)
          /\ Len(Tail(rxq[n])) <= QSize
      BY <2>5, HeadTailProperties, LenProperties, RelayAssumption DEF RxRecv, TypeOK
    <3> QED BY <2>5, <3>1 DEF RxRecv, TypeOK
  <2>6. CASE RootPublish
    <3>1. rxMsg[Root] \in PacketType
      BY <2>6 DEF RootPublish, TypeOK, Node
    <3>2. [mac |-> rxMsg[Root].from, id |-> rxMsg[Root].id]
            \in [mac : Node, id : 1..MaxTrack]
      BY <3>1 DEF PacketType
    <3>3. published' \in Seq([mac : Node, id : 1..MaxTrack])
      BY <2>6, <3>2, AppendProperties DEF RootPublish, TypeOK
    <3> QED BY <2>6, <3>3 DEF RootPublish, AfterPublish, TypeOK, Node
  <2>7. ASSUME NEW l \in Leaves, LeafReply(l) PROVE TypeOK'
    <3> DEFINE p == Packet(l, "KART", rxMsg[l].id)
    <3>1. p \in PacketType
      <4>1. rxMsg[l] \in PacketType
        BY <2>7 DEF LeafReply, TypeOK, Node
      <4> QED BY <4>1 DEF Packet, PacketType, Node, Topic
    <3> HIDE DEF p
    <3>2. rxq' \in [Node -> Seq(PacketType)]
          /\ \A m \in Node : Len(rxq'[m]) <= QSize
      <4>1. mesh_root_addr[l] \in {Root, NoAddr}
        BY DEF TypeOK
      <4>2. esp_mesh_send(l, mesh_root_addr[l], p)
        BY <2>7 DEF LeafReply, p
      <4>3. CASE mesh_root_addr[l] = Root
        BY <3>1, <4>2, <4>3, SendEffect DEF Node
      <4>4. CASE mesh_root_addr[l] = NoAddr
        BY <4>2, <4>4, NoAddrSend DEF TypeOK
      <4> QED BY <4>1, <4>3, <4>4
    <3> QED BY <2>7, <3>2 DEF LeafReply, TypeOK
  <2>8. ASSUME NEW l \in Leaves, RootAddress(l) PROVE TypeOK'
    BY <2>8 DEF RootAddress, TypeOK
  <2>9. ASSUME NEW l \in Leaves, Join(l) PROVE TypeOK'
    BY <2>9 DEF Join, TypeOK
  <2>10. ASSUME NEW l \in Leaves, LinkLost(l) PROVE TypeOK'
    BY <2>10 DEF LinkLost, TypeOK
  <2>11. ASSUME NEW l \in Leaves, LeafRestart(l) PROVE TypeOK'
    BY <2>11, EmptyQueue DEF LeafRestart, TypeOK
  <2>12. CASE RootRestart
    BY <2>12, EmptyQueue DEF RootRestart, TypeOK, Node
  <2>13. ASSUME NEW n \in Node, Lose(n) PROVE TypeOK'
    <3>1. PICK i \in DOMAIN rxq[n] : rxq' = [rxq EXCEPT ![n] = RemoveAt(@, i)]
      BY <2>13 DEF Lose
    <3>2. rxq[n] \in Seq(PacketType) /\ i \in 1..Len(rxq[n])
      BY <3>1, LenProperties DEF TypeOK
    <3>3. /\ RemoveAt(rxq[n], i) \in Seq(PacketType)
          /\ Len(RemoveAt(rxq[n], i)) <= QSize
      <4>1. Len(rxq[n]) <= QSize /\ Len(rxq[n]) \in Nat
        BY <3>2, LenProperties DEF TypeOK
      <4> QED BY <3>2, <4>1, RemoveAtProperties, RelayAssumption
    <3> QED BY <2>13, <3>1, <3>3 DEF Lose, TypeOK
  <2>14. CASE UNCHANGED vars
    BY <2>14 DEF vars, TypeOK
  <2> QED
    BY <2>1, <2>2, <2>3, <2>4, <2>5, <2>6, <2>7, <2>8, <2>9, <2>10, <2>11,
       <2>12, <2>13, <2>14 DEF Next
<1> QED BY <1>1, <1>2, PTL DEF Spec

-----------------------------------------------------------------------------
(***************************************************************************)
(* The pipeline invariant.  First that packets are what they seem, then    *)
(* that the stages stay ordered; a step moves at most one message of a     *)
(* leaf, from the front of one stage to the back of the next.              *)
(***************************************************************************)

\* A leaf is not the root.
LEMMA LeafNotRoot == \A l \in Leaves : l # Root
BY RelayAssumption

\* What was handed over stays handed over.
LEMMA ReceivedGrows ==
    ASSUME TypeOK, [Next]_vars
    PROVE  /\ \A p : Carries(p) => Carries(p)'
           /\ Asked \subseteq Asked'
<1>1. CASE received' = received
  BY <1>1 DEF Carries, Asked
<1>2. ASSUME NEW t \in Topic, received' = Append(received, t)
      PROVE  /\ \A p : Carries(p) => Carries(p)'
             /\ Asked \subseteq Asked'
  <2>1. /\ DOMAIN received \subseteq DOMAIN received'
        /\ \A i \in DOMAIN received : received'[i] = received[i]
    BY <1>2, AppendProperties, LenProperties DEF TypeOK
  <2> QED BY <2>1 DEF Carries, Asked
<1> QED
  BY <1>1, <1>2 DEF Next, vars, mqtt_app_start, MqttData, BroadcastTo,
     BroadcastEnd, RxRecv, RootPublish, LeafReply, RootAddress, Join, LinkLost,
     LeafRestart, RootRestart, Lose

\* The packets of a queue after a send: those that were there and perhaps p.
LEMMA SendContents ==
    ASSUME TypeOK, NEW src \in Node, NEW dst \in Node, NEW p \in PacketType,
           esp_mesh_send(src, dst, p),
           NEW n \in Node, NEW k \in DOMAIN rxq'[n]
    PROVE  \/ k \in DOMAIN rxq[n] /\ rxq'[n][k] = rxq[n][k]
           \/ n = dst /\ k = Len(rxq[n]) + 1 /\ rxq'[n][k] = p
<1>1. rxq \in [Node -> Seq(PacketType)]
  BY DEF TypeOK
<1>2. CASE rxq' = rxq \/ n # dst
  BY <1>1, <1>2, SendEffect
<1>3. CASE n = dst /\ rxq' = [rxq EXCEPT ![dst] = Append(@, p)]
  <2>1. rxq'[n] = Append(rxq[n], p)
    BY <1>1, <1>3
  <2> QED BY <1>1, <1>3, <2>1, AppendProperties, LenProperties
<1> QED BY <1>2, <1>3, SendEffect

\* Every packet is what its place in the pipeline says it is.
LEMMA TagsStep ==
    ASSUME TypeOK, TagsOK, [Next]_vars
    PROVE  TagsOK'
<1> DEFINE QueueTags ==
              /\ \A l \in Leaves : \A k \in DOMAIN rxq[l] : Carries(rxq[l][k])
              /\ \A k \in DOMAIN rxq[Root] :
                    rxq[Root][k].from # Root => rxq[Root][k].id \in Asked
           RxTags ==
              /\ \A l \in Leaves : rxMsg[l] # NoMsg => rxMsg[l].id \in Asked
              /\ rxMsg[Root] # NoMsg
                 => rxMsg[Root].from # Root /\ rxMsg[Root].id \in Asked
           PubTags ==
              \A k \in DOMAIN published :
                 published[k].mac \in Leaves /\ published[k].id \in Asked
           BcastTags == bcast # NoMsg => Carries(bcast)
<1>1. QueueTags /\ RxTags /\ PubTags /\ BcastTags
  BY DEF TagsOK
<1>2. /\ \A q : Carries(q) => Carries(q)'
      /\ Asked \subseteq Asked'
  BY ReceivedGrows
<1>3. rxq \in [Node -> Seq(PacketType)] /\ rxMsg \in [Node -> PacketType \cup {NoMsg}]
  BY DEF TypeOK
<1>4. published' = published => PubTags'
  BY <1>1, <1>2
<1>5. bcast' \in {bcast, NoMsg} => BcastTags'
  BY <1>1, <1>2
<1>6. (\A n \in Node : rxMsg'[n] \in {rxMsg[n], NoMsg}) => RxTags'
  BY <1>1, <1>2 DEF Node
<1>7. (\A n \in Node : \A k \in DOMAIN rxq'[n] :
          \E j \in DOMAIN rxq[n] : rxq'[n][k] = rxq[n][j]) => QueueTags'
  BY <1>1, <1>2 DEF Node
<1>8. rxq' = rxq => QueueTags'
  BY <1>1, <1>2
<1>9. QueueTags' /\ RxTags' /\ PubTags' /\ BcastTags' => TagsOK'
  BY DEF TagsOK
<1> HIDE DEF QueueTags, RxTags, PubTags, BcastTags
<1>10. CASE mqtt_app_start
  BY <1>4, <1>5, <1>6, <1>8, <1>9, <1>10 DEF mqtt_app_start
<1>11. ASSUME NEW t \in Topic, MqttData(t) PROVE TagsOK'
  <2>1. /\ Len(received) + 1 \in DOMAIN received'
        /\ received'[Len(received) + 1] = t
    BY <1>11, AppendProperties, LenProperties DEF MqttData, TypeOK
  <2>2. BcastTags'
    BY <1>11, <2>1 DEF MqttData, Packet, Carries, BcastTags
  <2> QED BY <1>4, <1>6, <1>8, <1>9, <1>11, <2>2 DEF MqttData
<1>12. ASSUME NEW n \in Node, BroadcastTo(n) PROVE TagsOK'
  <2>1. bcast \in PacketType /\ Root \in Node /\ Carries(bcast)
    BY <1>1, <1>12 DEF BroadcastTo, TypeOK, Node, BcastTags
  <2>2. esp_mesh_send(Root, n, bcast)
    BY <1>12 DEF BroadcastTo
  <2>3. \A m \in Node : \A k \in DOMAIN rxq'[m] :
           \/ k \in DOMAIN rxq[m] /\ rxq'[m][k] = rxq[m][k]
           \/ rxq'[m][k] = bcast
    BY <2>1, <2>2, SendContents
  <2>4. QueueTags'
    BY <1>1, <1>2, <2>1, <2>3 DEF QueueTags, Carries, Node
  <2> QED BY <1>4, <1>5, <1>6, <1>9, <1>12, <2>4 DEF BroadcastTo
<1>13. CASE BroadcastEnd
  BY <1>4, <1>5, <1>6, <1>8, <1>9, <1>13 DEF BroadcastEnd
<1>14. ASSUME NEW n \in Node, RxRecv(n) PROVE TagsOK'
  <2>1. /\ rxq[n] \in Seq(PacketType) /\ rxq[n] # << >>
        /\ rxq' = [rxq EXCEPT ![n] = Tail(@)]
        /\ 1 \in DOMAIN rxq[n] /\ Head(rxq[n]) = rxq[n][1]
    BY <1>3, <1>14, EmptySeq, LenProperties DEF RxRecv
  <2>2. QueueTags'
    <3>1. \A m \in Node : \A k \in DOMAIN rxq'[m] :
             \E j \in DOMAIN rxq[m] : rxq'[m][k] = rxq[m][j]
      <4>1. \A k \in DOMAIN Tail(rxq[n]) :
               k + 1 \in DOMAIN rxq[n] /\ Tail(rxq[n])[k] = rxq[n][k + 1]
        BY <2>1, HeadTailProperties, LenProperties
      <4> QED BY <1>3, <2>1, <4>1
    <3> QED BY <1>7, <3>1
  <2>3. RxTags'
    <3>1. rxMsg' = [rxMsg EXCEPT ![n] = IF ~FromSelf(n, rxq[n][1])
                                           /\ Handled(n, rxq[n][1])
                                        THEN rxq[n][1] ELSE NoMsg]
      BY <1>14, <2>1 DEF RxRecv
    <3>2. CASE n = Root
      BY <1>1, <1>2, <1>3, <2>1, <3>1, <3>2, LeafNotRoot
         DEF RxTags, QueueTags, FromSelf, Node
    <3>3. CASE n \in Leaves
      <4>1. Handled(n, rxq[n][1]) => rxq[n][1].id \in Asked
        BY <1>1, <2>1, <3>3, LeafNotRoot DEF QueueTags, Carries, Asked, Handled
      <4> QED BY <1>1, <1>2, <1>3, <3>1, <3>3, <4>1, LeafNotRoot DEF RxTags, Node
    <3> QED BY <3>2, <3>3 DEF Node
  <2> QED BY <1>4, <1>5, <1>9, <1>14, <2>2, <2>3 DEF RxRecv
<1>15. CASE RootPublish
  <2>1. rxMsg[Root] # NoMsg /\ Root \in Node
    BY <1>15 DEF RootPublish, Node
  <2>2. rxMsg[Root].from \in Leaves /\ rxMsg[Root].id \in Asked
        /\ rxMsg[Root] \in PacketType
    BY <1>1, <1>3, <2>1 DEF RxTags, PacketType, Node
  <2> DEFINE r == [mac |-> rxMsg[Root].from, id |-> rxMsg[Root].id]
  <2>3. published' \in {published, Append(published, r)}
    BY <1>15 DEF RootPublish
  <2>4. r \in [mac : Node, id : 1..MaxTrack]
    BY <2>2 DEF PacketType
  <2>5. \A k \in DOMAIN published' :
           \/ k \in DOMAIN published /\ published'[k] = published[k]
           \/ published'[k] = r
    <3> HIDE DEF r
    <3>1. published \in Seq([mac : Node, id : 1..MaxTrack])
      BY DEF TypeOK
    <3>2. CASE published' = published
      BY <3>2
    <3>3. CASE published' = Append(published, r)
      <4>1. /\ Append(published, r) \in Seq([mac : Node, id : 1..MaxTrack])
            /\ Len(Append(published, r)) = Len(published) + 1
            /\ \A k \in 1..Len(published) : Append(published, r)[k] = published[k]
            /\ Append(published, r)[Len(published) + 1] = r
        BY <2>4, <3>1, AppendProperties
      <4> QED BY <3>1, <3>3, <4>1, LenProperties
    <3> QED BY <2>3, <3>2, <3>3
  <2>6. PubTags'
    BY <1>1, <1>2, <2>2, <2>5 DEF PubTags
  <2>7. \A n \in Node : rxMsg'[n] \in {rxMsg[n], NoMsg}
    BY <1>3, <1>15 DEF RootPublish, AfterPublish
  <2> QED BY <1>5, <1>6, <1>8, <1>9, <1>15, <2>6, <2>7 DEF RootPublish
<1>16. ASSUME NEW l \in Leaves, LeafReply(l) PROVE TagsOK'
  <2> DEFINE p == Packet(l, "KART", rxMsg[l].id)
  <2>1. /\ esp_mesh_send(l, mesh_root_addr[l], p)
        /\ rxMsg[l] # NoMsg /\ rxMsg[l] \in PacketType
        /\ mesh_root_addr[l] \in {Root, NoAddr}
    BY <1>3, <1>16 DEF LeafReply, TypeOK, Node
  <2>2. p.from = l /\ p.id \in Asked /\ p \in PacketType
    BY <1>1, <2>1 DEF Packet, RxTags, PacketType, Node, Topic
  <2> HIDE DEF p
  <2>3. QueueTags'
    <3>1. CASE mesh_root_addr[l] = NoAddr
      BY <1>8, <2>1, <3>1, NoAddrSend
    <3>2. CASE mesh_root_addr[l] = Root
      <4>1. \A m \in Node : \A k \in DOMAIN rxq'[m] :
               \/ k \in DOMAIN rxq[m] /\ rxq'[m][k] = rxq[m][k]
               \/ m = Root /\ rxq'[m][k] = p
        <5>1. esp_mesh_send(l, Root, p) /\ l \in Node /\ Root \in Node
          BY <2>1, <3>2 DEF Node
        <5> QED BY <2>2, <5>1, SendContents
      <4> QED BY <1>1, <1>2, <2>2, <4>1, LeafNotRoot DEF QueueTags, Node
    <3> QED BY <2>1, <3>1, <3>2
  <2>4. \A n \in Node : rxMsg'[n] \in {rxMsg[n], NoMsg}
    BY <1>3, <1>16 DEF LeafReply
  <2> QED BY <1>4, <1>5, <1>6, <1>9, <1>16, <2>3, <2>4 DEF LeafReply
<1>17. ASSUME NEW l \in Leaves, RootAddress(l) \/ Join(l) \/ LinkLost(l) PROVE TagsOK'
  BY <1>4, <1>5, <1>6, <1>8, <1>9, <1>17 DEF RootAddress, Join, LinkLost
<1>18. ASSUME NEW l \in Leaves, LeafRestart(l) PROVE TagsOK'
  BY <1>3, <1>4, <1>5, <1>6, <1>7, <1>9, <1>18 DEF LeafRestart
<1>19. CASE RootRestart
  BY <1>3, <1>4, <1>5, <1>6, <1>7, <1>9, <1>19 DEF RootRestart
<1>20. ASSUME NEW n \in Node, Lose(n) PROVE TagsOK'
  <2>1. PICK i \in DOMAIN rxq[n] : rxq' = [rxq EXCEPT ![n] = RemoveAt(@, i)]
    BY <1>20 DEF Lose
  <2>2. rxq[n] \in Seq(PacketType) /\ i \in 1..Len(rxq[n])
    BY <1>3, <2>1, LenProperties
  <2>3. \A k \in DOMAIN RemoveAt(rxq[n], i) :
           \E j \in DOMAIN rxq[n] : RemoveAt(rxq[n], i)[k] = rxq[n][j]
    <3>1. /\ RemoveAt(rxq[n], i) \in Seq(PacketType)
          /\ Len(RemoveAt(rxq[n], i)) = Len(rxq[n]) - 1
          /\ \A k \in 1..(Len(rxq[n]) - 1) :
                RemoveAt(rxq[n], i)[k] = IF k < i THEN rxq[n][k] ELSE rxq[n][k + 1]
      BY <2>2, RemoveAtProperties
    <3> TAKE k \in DOMAIN RemoveAt(rxq[n], i)
    <3>2. k \in 1..(Len(rxq[n]) - 1) /\ Len(rxq[n]) \in Nat
          /\ DOMAIN rxq[n] = 1..Len(rxq[n])
      BY <2>2, <3>1, LenProperties
    <3>3. CASE k < i
      BY <3>1, <3>2, <3>3
    <3>4. CASE ~(k < i)
      <4>1. RemoveAt(rxq[n], i)[k] = rxq[n][k + 1]
        BY <3>1, <3>2, <3>4
      <4>2. k + 1 \in DOMAIN rxq[n]
        BY <3>2
      <4> QED BY <4>1, <4>2
    <3> QED BY <3>3, <3>4
  <2>4. QueueTags'
    BY <1>3, <1>7, <2>1, <2>3
  <2> QED BY <1>4, <1>5, <1>6, <1>9, <1>20, <2>4 DEF Lose
<1>21. CASE UNCHANGED vars
  BY <1>4, <1>5, <1>6, <1>8, <1>9, <1>21 DEF vars
<1> QED
  BY <1>10, <1>11, <1>12, <1>13, <1>14, <1>15, <1>16, <1>17, <1>18, <1>19,
     <1>20, <1>21 DEF Next

\* The queue of n loses packets, if anything; the others keep their order.
Thinned(n) ==
    \E f \in [DOMAIN rxq'[n] -> DOMAIN rxq[n]] :
        /\ \A k \in DOMAIN rxq'[n] : rxq'[n][k] = rxq[n][f[k]]
        /\ \A j, k \in DOMAIN rxq'[n] : j < k => f[j] < f[k]

\* What becomes of the queues' stages when queues are only thinned.
LEMMA ThinnedStages ==
    ASSUME NEW l \in Leaves, Thinned(l), Thinned(Root)
    PROVE  /\ ToLeaf(l)' \subseteq ToLeaf(l)
           /\ ToRoot(l)' \subseteq ToRoot(l)
           /\ LeafQueueSorted(l) => LeafQueueSorted(l)'
           /\ RootQueueSorted(l) => RootQueueSorted(l)'
<1>1. PICK f \in [DOMAIN rxq'[l] -> DOMAIN rxq[l]] :
          /\ \A k \in DOMAIN rxq'[l] : rxq'[l][k] = rxq[l][f[k]]
          /\ \A j, k \in DOMAIN rxq'[l] : j < k => f[j] < f[k]
  BY DEF Thinned
<1>2. PICK g \in [DOMAIN rxq'[Root] -> DOMAIN rxq[Root]] :
          /\ \A k \in DOMAIN rxq'[Root] : rxq'[Root][k] = rxq[Root][g[k]]
          /\ \A j, k \in DOMAIN rxq'[Root] : j < k => g[j] < g[k]
  BY DEF Thinned
<1>3. /\ ToLeaf(l)' \subseteq ToLeaf(l)
      /\ LeafQueueSorted(l) => LeafQueueSorted(l)'
  BY <1>1 DEF ToLeaf, LeafQueueSorted
<1>4. ToRoot(l)' \subseteq ToRoot(l)
  BY <1>2 DEF ToRoot
<1>5. RootQueueSorted(l) => RootQueueSorted(l)'
  BY <1>2 DEF RootQueueSorted
<1> QED BY <1>3, <1>4, <1>5

\* A queue that does not change, and one that is emptied, are thinned.
LEMMA ThinnedTrivially ==
    ASSUME TypeOK, NEW n \in Node, rxq'[n] = rxq[n] \/ rxq'[n] = << >>
    PROVE  Thinned(n)
<1>1. CASE rxq'[n] = rxq[n]
  <2>1. [k \in DOMAIN rxq'[n] |-> k] \in [DOMAIN rxq'[n] -> DOMAIN rxq[n]]
    BY <1>1
  <2> QED BY <1>1, <2>1 DEF Thinned
<1>2. CASE rxq'[n] = << >>
  <2>1. DOMAIN rxq'[n] = {}
    BY <1>2
  <2>2. [k \in DOMAIN rxq'[n] |-> k] \in [DOMAIN rxq'[n] -> DOMAIN rxq[n]]
    BY <2>1
  <2> QED BY <2>1, <2>2 DEF Thinned
<1> QED BY <1>1, <1>2

\* A packet leaves the head of a queue.
LEMMA ThinnedByTail ==
    ASSUME TypeOK, NEW n \in Node, rxq[n] # << >>, rxq'[n] = Tail(rxq[n])
    PROVE  Thinned(n)
<1> DEFINE f == [k \in DOMAIN rxq'[n] |-> k + 1]
<1>1. \A k \in DOMAIN rxq'[n] :
         k \in Nat /\ k + 1 \in DOMAIN rxq[n] /\ rxq'[n][k] = rxq[n][k + 1]
  BY HeadTailProperties, LenProperties DEF TypeOK
<1>2. f \in [DOMAIN rxq'[n] -> DOMAIN rxq[n]]
  BY <1>1
<1>3. \A k \in DOMAIN rxq'[n] : rxq'[n][k] = rxq[n][f[k]]
  BY <1>1
<1>4. \A j, k \in DOMAIN rxq'[n] : j < k => f[j] < f[k]
  BY <1>1
<1> QED BY <1>2, <1>3, <1>4 DEF Thinned

\* A packet is lost from the middle of a queue.
LEMMA ThinnedByRemoveAt ==
    ASSUME TypeOK, NEW n \in Node, NEW i \in DOMAIN rxq[n],
           rxq'[n] = RemoveAt(rxq[n], i)
    PROVE  Thinned(n)
<1> DEFINE f == [k \in DOMAIN rxq'[n] |-> IF k < i THEN k ELSE k + 1]
<1>1. rxq[n] \in Seq(PacketType) /\ i \in 1..Len(rxq[n])
      /\ Len(rxq[n]) \in Nat /\ DOMAIN rxq[n] = 1..Len(rxq[n])
  BY LenProperties DEF TypeOK
<1>2. /\ rxq'[n] \in Seq(PacketType)
      /\ Len(rxq'[n]) = Len(rxq[n]) - 1
      /\ \A k \in 1..(Len(rxq[n]) - 1) :
            rxq'[n][k] = IF k < i THEN rxq[n][k] ELSE rxq[n][k + 1]
  BY <1>1, RemoveAtProperties
<1>3. DOMAIN rxq'[n] = 1..(Len(rxq[n]) - 1)
  BY <1>2, LenProperties
<1>4. f \in [DOMAIN rxq'[n] -> DOMAIN rxq[n]]
  BY <1>1, <1>3
<1>5. \A k \in DOMAIN rxq'[n] : rxq'[n][k] = rxq[n][f[k]]
  BY <1>2, <1>3
<1>6. \A j, k \in DOMAIN rxq'[n] : j < k => f[j] < f[k]
  BY <1>1, <1>3
<1> QED BY <1>4, <1>5, <1>6 DEF Thinned

\* What becomes of the queues' stages when a packet is sent.
LEMMA SendStages ==
    ASSUME TypeOK, NEW src \in Node, NEW dst \in Node, NEW p \in PacketType,
           esp_mesh_send(src, dst, p), NEW l \in Leaves
    PROVE  /\ ToLeaf(l)' \subseteq ToLeaf(l) \cup (IF dst = l THEN {p.id} ELSE {})
           /\ ToRoot(l)' \subseteq
                 ToRoot(l) \cup (IF dst = Root /\ p.from = l THEN {p.id} ELSE {})
           /\ LeafQueueSorted(l) /\ (dst = l => Below(ToLeaf(l), {p.id}))
              => LeafQueueSorted(l)'
           /\ RootQueueSorted(l)
              /\ (dst = Root /\ p.from = l => Below(ToRoot(l), {p.id}))
              => RootQueueSorted(l)'
<1>1. \A n \in Node : \A k \in DOMAIN rxq'[n] :
         \/ k \in DOMAIN rxq[n] /\ rxq'[n][k] = rxq[n][k]
         \/ n = dst /\ k = Len(rxq[n]) + 1 /\ rxq'[n][k] = p
  BY SendContents
<1>2. l \in Node /\ Root \in Node
  BY DEF Node
<1>3. \A n \in Node : /\ Len(rxq[n]) \in Nat /\ DOMAIN rxq[n] = 1..Len(rxq[n])
                      /\ DOMAIN rxq'[n] \subseteq Nat
  <2>1. rxq \in [Node -> Seq(PacketType)] /\ rxq' \in [Node -> Seq(PacketType)]
    BY SendEffect DEF TypeOK
  <2> QED BY <2>1, LenProperties
<1>4. ToLeaf(l)' \subseteq ToLeaf(l) \cup (IF dst = l THEN {p.id} ELSE {})
  BY <1>1, <1>2 DEF ToLeaf
<1>5. ToRoot(l)' \subseteq
         ToRoot(l) \cup (IF dst = Root /\ p.from = l THEN {p.id} ELSE {})
  BY <1>1, <1>2 DEF ToRoot
<1>6. ASSUME LeafQueueSorted(l), dst = l => Below(ToLeaf(l), {p.id})
      PROVE  LeafQueueSorted(l)'
  <2> SUFFICES ASSUME NEW j \in DOMAIN rxq'[l], NEW k \in DOMAIN rxq'[l], j < k
               PROVE  rxq'[l][j].id < rxq'[l][k].id
    BY DEF LeafQueueSorted
  <2>1. CASE k \in DOMAIN rxq[l] /\ rxq'[l][k] = rxq[l][k]
    BY <1>1, <1>2, <1>3, <1>6, <2>1 DEF LeafQueueSorted
  <2>2. CASE l = dst /\ k = Len(rxq[l]) + 1 /\ rxq'[l][k] = p
    <3>1. j \in DOMAIN rxq[l] /\ rxq'[l][j] = rxq[l][j]
      BY <1>1, <1>2, <1>3, <2>2
    <3> QED BY <1>6, <2>2, <3>1 DEF Below, ToLeaf
  <2> QED BY <1>1, <1>2, <2>1, <2>2
<1>7. ASSUME RootQueueSorted(l),
             dst = Root /\ p.from = l => Below(ToRoot(l), {p.id})
      PROVE  RootQueueSorted(l)'
  <2> SUFFICES ASSUME NEW j \in DOMAIN rxq'[Root], NEW k \in DOMAIN rxq'[Root],
                      j < k, rxq'[Root][j].from = l, rxq'[Root][k].from = l
               PROVE  rxq'[Root][j].id < rxq'[Root][k].id
    BY DEF RootQueueSorted
  <2>1. CASE k \in DOMAIN rxq[Root] /\ rxq'[Root][k] = rxq[Root][k]
    <3>1. j \in DOMAIN rxq[Root] /\ rxq'[Root][j] = rxq[Root][j]
      BY <1>1, <1>2, <1>3, <2>1
    <3> QED BY <1>7, <2>1, <3>1 DEF RootQueueSorted
  <2>2. CASE Root = dst /\ k = Len(rxq[Root]) + 1 /\ rxq'[Root][k] = p
    <3>1. j \in DOMAIN rxq[Root] /\ rxq'[Root][j] = rxq[Root][j]
      BY <1>1, <1>2, <1>3, <2>2
    <3>2. rxq[Root][j].id \in ToRoot(l)
      BY <3>1 DEF ToRoot
    <3> QED BY <1>7, <2>2, <3>1, <3>2 DEF Below
  <2> QED BY <1>1, <1>2, <2>1, <2>2
<1> QED BY <1>4, <1>5, <1>6, <1>7

-----------------------------------------------------------------------------
\* Every stage holds identities of messages the broker has handed over.
LEMMA StagesInReceived ==
    ASSUME TypeOK, TagsOK, NEW l \in Leaves
    PROVE  /\ Len(received) \in Nat
           /\ Published(l) \subseteq 1..Len(received)
           /\ AtRoot(l) \subseteq 1..Len(received)
           /\ ToRoot(l) \subseteq 1..Len(received)
           /\ AtLeaf(l) \subseteq 1..Len(received)
           /\ ToLeaf(l) \subseteq 1..Len(received)
           /\ Sending(l) \subseteq 1..Len(received)
<1>1. Len(received) \in Nat /\ DOMAIN received = 1..Len(received)
  BY LenProperties DEF TypeOK
<1>2. Asked \subseteq 1..Len(received)
  BY <1>1 DEF Asked
<1>3. /\ Published(l) \subseteq Asked /\ AtRoot(l) \subseteq Asked
      /\ ToRoot(l) \subseteq Asked /\ AtLeaf(l) \subseteq Asked
  BY LeafNotRoot DEF TagsOK, Published, AtRoot, ToRoot, AtLeaf
<1>4. ToLeaf(l) \subseteq 1..Len(received) /\ Sending(l) \subseteq 1..Len(received)
  BY <1>1 DEF TagsOK, ToLeaf, Sending, Carries
<1> QED BY <1>1, <1>2, <1>3, <1>4

\* The order of the stages alone.
Chain(P, R, Q, L, T, S) ==
    /\ Below(P, R)
    /\ Below(P \cup R, Q)
    /\ Below(P \cup R \cup Q, L)
    /\ Below(P \cup R \cup Q \cup L, T)
    /\ Below(P \cup R \cup Q \cup L \cup T, S)

ChainOf(l) == Chain(Published(l), AtRoot(l), ToRoot(l), AtLeaf(l), ToLeaf(l), Sending(l))

LEMMA PipelineIsChain ==
    ASSUME NEW l \in Leaves
    PROVE  /\ Pipeline(l) <=> /\ ChainOf(l)
                              /\ LeafQueueSorted(l)
                              /\ RootQueueSorted(l)
           /\ Pipeline(l)' <=> /\ ChainOf(l)'
                               /\ LeafQueueSorted(l)'
                               /\ RootQueueSorted(l)'
BY DEF Pipeline, ChainOf, Chain

\* Messages that are lost leave the others in order.
LEMMA ChainShrinks ==
    ASSUME NEW P, NEW R, NEW Q, NEW L, NEW T, NEW S, Chain(P, R, Q, L, T, S),
           NEW P1 \in SUBSET P, NEW R1 \in SUBSET R, NEW Q1 \in SUBSET Q,
           NEW L1 \in SUBSET L, NEW T1 \in SUBSET T, NEW S1 \in SUBSET S
    PROVE  Chain(P1, R1, Q1, L1, T1, S1)
BY DEF Chain, Below

\* The message that a stage of one or the head of a queue gives up goes to
\* the next stage, in front of all that follow.
LEMMA ChainMoves ==
    ASSUME NEW P, NEW R, NEW Q, NEW L, NEW T, NEW S, Chain(P, R, Q, L, T, S),
           NEW x
    PROVE  /\ S \subseteq {x} => Chain(P, R, Q, L, T \cup S, {})
           /\ L = {} /\ x \in T
              => \A T1 \in SUBSET T :
                    Below({x}, T1) => Chain(P, R, Q, {x}, T1, S)
           /\ L \subseteq {x} => Chain(P, R, Q \cup L, {}, T, S)
           /\ R = {} /\ x \in Q
              => \A Q1 \in SUBSET Q :
                    Below({x}, Q1) => Chain(P, {x}, Q1, L, T, S)
           /\ R \subseteq {x} => Chain(P \cup R, {}, Q, L, T, S)
BY DEF Chain, Below

\* A step that only loses messages of leaf l keeps its pipeline.
LEMMA LossKeepsPipeline ==
    ASSUME NEW l \in Leaves, Pipeline(l), Thinned(l), Thinned(Root),
           Published(l)' \subseteq Published(l), AtRoot(l)' \subseteq AtRoot(l),
           AtLeaf(l)' \subseteq AtLeaf(l), Sending(l)' \subseteq Sending(l)
    PROVE  Pipeline(l)'
<1>1. /\ ToLeaf(l)' \subseteq ToLeaf(l)
      /\ ToRoot(l)' \subseteq ToRoot(l)
      /\ LeafQueueSorted(l)'
      /\ RootQueueSorted(l)'
  BY ThinnedStages DEF Pipeline
<1>2. ChainOf(l)'
  <2>1. Chain(Published(l), AtRoot(l), ToRoot(l), AtLeaf(l), ToLeaf(l), Sending(l))
    BY PipelineIsChain DEF ChainOf
  <2>2. Chain(Published(l)', AtRoot(l)', ToRoot(l)', AtLeaf(l)', ToLeaf(l)', Sending(l)')
    BY <1>1, <2>1, ChainShrinks
  <2> QED BY <2>2 DEF ChainOf, Chain
<1> QED BY <1>1, <1>2, PipelineIsChain

\* MqttData enters a message at the back of the pipeline.
LEMMA MqttDataKeepsPipeline ==
    ASSUME TypeOK, TagsOK, NEW l \in Leaves, Pipeline(l), NEW t \in Topic, MqttData(t)
    PROVE  Pipeline(l)'
<1>1. /\ Published(l)' = Published(l) /\ AtRoot(l)' = AtRoot(l)
      /\ ToRoot(l)' = ToRoot(l) /\ AtLeaf(l)' = AtLeaf(l) /\ ToLeaf(l)' = ToLeaf(l)
      /\ LeafQueueSorted(l)' = LeafQueueSorted(l)
      /\ RootQueueSorted(l)' = RootQueueSorted(l)
  BY DEF MqttData, Published, AtRoot, ToRoot, AtLeaf, ToLeaf, LeafQueueSorted,
         RootQueueSorted
<1>2. Sending(l)' \subseteq {Len(received) + 1}
  BY DEF MqttData, Sending, Packet
<1>3. \A x \in Published(l) \cup AtRoot(l) \cup ToRoot(l) \cup AtLeaf(l) \cup ToLeaf(l) :
         x < Len(received) + 1
  BY StagesInReceived
<1>4. Below(Published(l) \cup AtRoot(l) \cup ToRoot(l) \cup AtLeaf(l) \cup ToLeaf(l),
            Sending(l)')
  BY <1>2, <1>3 DEF Below
<1> QED BY <1>1, <1>4 DEF Pipeline, Below

\* One iteration of the broadcast loop moves the message to a leaf's queue.
LEMMA BroadcastKeepsPipeline ==
    ASSUME TypeOK, TagsOK, NEW l \in Leaves, Pipeline(l), NEW n \in Node, BroadcastTo(n)
    PROVE  Pipeline(l)'
<1>1. /\ bcast # NoMsg /\ bcast \in PacketType /\ Root \in Node
      /\ esp_mesh_send(Root, n, bcast) /\ bcast.from # l /\ n \in route_table
  BY RelayAssumption DEF BroadcastTo, TypeOK, TagsOK, Carries, Node
<1>2. /\ Published(l)' = Published(l) /\ AtRoot(l)' = AtRoot(l)
      /\ AtLeaf(l)' = AtLeaf(l)
  BY DEF BroadcastTo, Published, AtRoot, AtLeaf
<1>3. Sending(l)' = IF n = l THEN {} ELSE Sending(l)
  BY DEF BroadcastTo, NextEntries, Sending
<1>4. n = l => Sending(l) = {bcast.id}
  BY <1>1 DEF Sending
<1>5. n = l => Below(ToLeaf(l), {bcast.id})
  BY <1>4 DEF Pipeline, Below
<1>6. /\ ToLeaf(l)' \subseteq ToLeaf(l) \cup (IF n = l THEN {bcast.id} ELSE {})
      /\ ToRoot(l)' \subseteq ToRoot(l)
      /\ LeafQueueSorted(l)'
      /\ RootQueueSorted(l)'
  BY <1>1, <1>5, SendStages DEF Pipeline
<1>7. Chain(Published(l), AtRoot(l), ToRoot(l), AtLeaf(l), ToLeaf(l), Sending(l))
  BY PipelineIsChain DEF ChainOf
<1>8. Chain(Published(l)', AtRoot(l)', ToRoot(l)', AtLeaf(l)', ToLeaf(l)', Sending(l)')
  <2>1. CASE n = l
    <3>1. Chain(Published(l), AtRoot(l), ToRoot(l), AtLeaf(l),
                ToLeaf(l) \cup Sending(l), {})
      BY <1>4, <1>7, <2>1, ChainMoves
    <3> QED BY <1>2, <1>3, <1>4, <1>6, <2>1, <3>1, ChainShrinks
  <2>2. CASE n # l
    BY <1>2, <1>3, <1>6, <1>7, <2>2, ChainShrinks
  <2> QED BY <2>1, <2>2
<1> QED BY <1>6, <1>8, PipelineIsChain DEF ChainOf, Chain

\* A receive task takes the head of its queue.
LEMMA RxRecvKeepsPipeline ==
    ASSUME TypeOK, TagsOK, NEW l \in Leaves, Pipeline(l), NEW n \in Node, RxRecv(n)
    PROVE  Pipeline(l)'
<1> DEFINE h == rxq[n][1]
<1>1. /\ rxMsg[n] = NoMsg /\ rxq[n] # << >>
      /\ rxq' = [rxq EXCEPT ![n] = Tail(@)]
      /\ rxMsg' = [rxMsg EXCEPT ![n] =
                      IF ~FromSelf(n, h) /\ Handled(n, h) THEN h ELSE NoMsg]
  BY HeadTailProperties DEF RxRecv, TypeOK
<1>2. /\ rxq \in [Node -> Seq(PacketType)] /\ l \in Node /\ Root \in Node /\ l # Root
      /\ rxMsg \in [Node -> PacketType \cup {NoMsg}]
  BY RelayAssumption DEF TypeOK, Node
<1>3. \A m \in Node : Thinned(m)
  BY <1>1, <1>2, ThinnedTrivially, ThinnedByTail
<1>4. /\ Published(l)' = Published(l) /\ Sending(l)' = Sending(l)
  BY DEF RxRecv, Published, Sending
<1>5. CASE n # l /\ (n # Root \/ rxMsg'[Root] = NoMsg \/ rxMsg'[Root].from # l)
  <2>1. AtLeaf(l)' = AtLeaf(l) /\ AtRoot(l)' \subseteq AtRoot(l)
    BY <1>1, <1>2, <1>5 DEF AtLeaf, AtRoot
  <2> QED BY <1>2, <1>3, <1>4, <2>1, LossKeepsPipeline
<1>6. CASE n = l /\ rxMsg'[l] = NoMsg
  <2>1. AtLeaf(l)' \subseteq AtLeaf(l) /\ AtRoot(l)' \subseteq AtRoot(l)
    BY <1>1, <1>2, <1>6 DEF AtLeaf, AtRoot
  <2> QED BY <1>2, <1>3, <1>4, <2>1, LossKeepsPipeline
<1>7. /\ 1 \in DOMAIN rxq[n] /\ Len(rxq[n]) \in Nat /\ DOMAIN rxq[n] = 1..Len(rxq[n])
      /\ rxq'[n] = Tail(rxq[n])
      /\ \A k \in DOMAIN rxq'[n] :
            k \in 1..Len(rxq[n]) /\ k + 1 \in DOMAIN rxq[n] /\ 1 < k + 1
            /\ rxq'[n][k] = rxq[n][k + 1]
  BY <1>1, <1>2, HeadTailProperties, LenProperties, EmptySeq
<1>8. /\ ToLeaf(l)' \subseteq ToLeaf(l)
      /\ ToRoot(l)' \subseteq ToRoot(l)
      /\ LeafQueueSorted(l)'
      /\ RootQueueSorted(l)'
  BY <1>2, <1>3, ThinnedStages DEF Pipeline
<1>9. Chain(Published(l), AtRoot(l), ToRoot(l), AtLeaf(l), ToLeaf(l), Sending(l))
  BY PipelineIsChain DEF ChainOf
<1>10. CASE n = l /\ rxMsg'[l] # NoMsg
  <2>1. AtLeaf(l) = {} /\ AtLeaf(l)' = {h.id} /\ h.id \in ToLeaf(l)
    BY <1>1, <1>2, <1>7, <1>10 DEF AtLeaf, ToLeaf
  <2>2. Below({h.id}, ToLeaf(l)')
    <3>1. \A k \in DOMAIN rxq'[l] : h.id < rxq'[l][k].id
      BY <1>7, <1>10 DEF Pipeline, LeafQueueSorted
    <3> QED BY <3>1 DEF Below, ToLeaf
  <2>3. AtRoot(l)' = AtRoot(l)
    BY <1>1, <1>2, <1>10 DEF AtRoot
  <2>4. Chain(Published(l), AtRoot(l), ToRoot(l), {h.id}, ToLeaf(l)', Sending(l))
    BY <1>8, <1>9, <2>1, <2>2, ChainMoves
  <2>5. Chain(Published(l)', AtRoot(l)', ToRoot(l)', AtLeaf(l)', ToLeaf(l)', Sending(l)')
    BY <1>4, <1>8, <2>1, <2>3, <2>4, ChainShrinks
  <2> QED BY <1>8, <2>5, PipelineIsChain DEF ChainOf, Chain
<1>11. CASE n = Root /\ rxMsg'[Root] # NoMsg /\ rxMsg'[Root].from = l
  <2>1. AtRoot(l) = {} /\ AtRoot(l)' = {h.id} /\ h.id \in ToRoot(l) /\ h.from = l
    BY <1>1, <1>2, <1>7, <1>11 DEF AtRoot, ToRoot
  <2>2. Below({h.id}, ToRoot(l)')
    <3>1. \A k \in DOMAIN rxq'[Root] :
             rxq'[Root][k].from = l => h.id < rxq'[Root][k].id
      BY <1>7, <1>11, <2>1 DEF Pipeline, RootQueueSorted
    <3> QED BY <3>1 DEF Below, ToRoot
  <2>3. AtLeaf(l)' = AtLeaf(l)
    BY <1>1, <1>2, <1>11 DEF AtLeaf
  <2>4. Chain(Published(l), {h.id}, ToRoot(l)', AtLeaf(l), ToLeaf(l), Sending(l))
    BY <1>8, <1>9, <2>1, <2>2, ChainMoves
  <2>5. Chain(Published(l)', AtRoot(l)', ToRoot(l)', AtLeaf(l)', ToLeaf(l)', Sending(l)')
    BY <1>4, <1>8, <2>1, <2>3, <2>4, ChainShrinks
  <2> QED BY <1>8, <2>5, PipelineIsChain DEF ChainOf, Chain
<1> QED BY <1>5, <1>6, <1>10, <1>11

\* RootPublish moves a reply from the root's receive task to the broker.
LEMMA RootPublishKeepsPipeline ==
    ASSUME TypeOK, TagsOK, NEW l \in Leaves, Pipeline(l), RootPublish
    PROVE  Pipeline(l)'
<1>1. /\ rxMsg \in [Node -> PacketType \cup {NoMsg}] /\ l \in Node /\ Root \in Node
      /\ l # Root /\ rxMsg[Root] # NoMsg /\ rxMsg[Root] \in PacketType
      /\ published \in Seq([mac : Node, id : 1..MaxTrack])
  BY RelayAssumption DEF TypeOK, Node, RootPublish
<1>2. /\ ToLeaf(l)' = ToLeaf(l) /\ ToRoot(l)' = ToRoot(l) /\ Sending(l)' = Sending(l)
      /\ LeafQueueSorted(l)' = LeafQueueSorted(l)
      /\ RootQueueSorted(l)' = RootQueueSorted(l)
  BY DEF RootPublish, ToLeaf, ToRoot, Sending, LeafQueueSorted, RootQueueSorted
<1>3. AtLeaf(l)' = AtLeaf(l) /\ AtRoot(l)' = {}
  BY <1>1 DEF RootPublish, AfterPublish, AtLeaf, AtRoot
<1>4. Published(l)' \subseteq Published(l) \cup AtRoot(l)
  <2> DEFINE r == [mac |-> rxMsg[Root].from, id |-> rxMsg[Root].id]
  <2>1. r \in [mac : Node, id : 1..MaxTrack]
    BY <1>1 DEF PacketType
  <2>2. published' = published \/ published' = Append(published, r)
    BY DEF RootPublish
  <2>3. r.mac = l => r.id \in AtRoot(l)
    BY <1>1 DEF AtRoot
  <2> HIDE DEF r
  <2>4. CASE published' = Append(published, r)
    <3>1. \A k \in DOMAIN published' :
             \/ k \in DOMAIN published /\ published'[k] = published[k]
             \/ published'[k] = r
      <4>1. /\ Len(Append(published, r)) = Len(published) + 1
            /\ Append(published, r) \in Seq([mac : Node, id : 1..MaxTrack])
            /\ \A k \in 1..Len(published) : Append(published, r)[k] = published[k]
            /\ Append(published, r)[Len(published) + 1] = r
        BY <1>1, <2>1, AppendProperties
      <4> QED BY <1>1, <2>4, <4>1, LenProperties
    <3> QED BY <2>3, <3>1 DEF Published
  <2> QED BY <2>2, <2>4 DEF Published
<1>5. Chain(Published(l), AtRoot(l), ToRoot(l), AtLeaf(l), ToLeaf(l), Sending(l))
  BY PipelineIsChain DEF ChainOf
<1>6. Chain(Published(l) \cup AtRoot(l), {}, ToRoot(l), AtLeaf(l), ToLeaf(l), Sending(l))
  <2>1. AtRoot(l) \subseteq {rxMsg[Root].id}
    BY DEF AtRoot
  <2> QED BY <1>5, <2>1, ChainMoves
<1>7. Chain(Published(l)', AtRoot(l)', ToRoot(l)', AtLeaf(l)', ToLeaf(l)', Sending(l)')
  BY <1>2, <1>3, <1>4, <1>6, ChainShrinks
<1> QED BY <1>2, <1>7, PipelineIsChain DEF ChainOf, Chain, Pipeline

\* LeafReply moves a message from a leaf's receive task to the root's queue.
LEMMA LeafReplyKeepsPipeline ==
    ASSUME TypeOK, TagsOK, NEW l \in Leaves, Pipeline(l), NEW m \in Leaves, LeafReply(m)
    PROVE  Pipeline(l)'
<1> DEFINE p == Packet(m, "KART", rxMsg[m].id)
<1>1. /\ rxMsg \in [Node -> PacketType \cup {NoMsg}] /\ l \in Node /\ m \in Node
      /\ Root \in Node /\ l # Root /\ m # Root
      /\ rxMsg[m] # NoMsg /\ rxMsg[m] \in PacketType
      /\ rxMsg' = [rxMsg EXCEPT ![m] = NoMsg]
      /\ esp_mesh_send(m, mesh_root_addr[m], p)
      /\ mesh_root_addr[m] \in {Root, NoAddr}
  BY RelayAssumption DEF TypeOK, Node, LeafReply
<1>2. p \in PacketType /\ p.from = m /\ p.id = rxMsg[m].id
  BY <1>1 DEF Packet, PacketType, Topic
<1> HIDE DEF p
<1>3. /\ Published(l)' = Published(l) /\ AtRoot(l)' = AtRoot(l)
      /\ Sending(l)' = Sending(l)
  BY <1>1 DEF LeafReply, Published, AtRoot, Sending
<1>4. AtLeaf(l)' = IF m = l THEN {} ELSE AtLeaf(l)
  BY <1>1 DEF AtLeaf
<1>5. CASE mesh_root_addr[m] = NoAddr
  <2>1. rxq' = rxq
    BY <1>1, <1>5, NoAddrSend
  <2>2. Thinned(l) /\ Thinned(Root)
    BY <1>1, <2>1, ThinnedTrivially
  <2> QED BY <1>3, <1>4, <2>2, LossKeepsPipeline
<1>6. CASE mesh_root_addr[m] = Root
  <2>1. esp_mesh_send(m, Root, p)
    BY <1>1, <1>6
  <2>2. m = l => AtLeaf(l) = {p.id}
    BY <1>1, <1>2 DEF AtLeaf
  <2>3. m = l => Below(ToRoot(l), {p.id})
    BY <2>2 DEF Pipeline, Below
  <2>4. /\ ToLeaf(l)' \subseteq ToLeaf(l)
        /\ ToRoot(l)' \subseteq ToRoot(l) \cup (IF m = l THEN {p.id} ELSE {})
        /\ LeafQueueSorted(l)'
        /\ RootQueueSorted(l)'
    BY <1>1, <1>2, <2>1, <2>3, SendStages DEF Pipeline
  <2>5. Chain(Published(l), AtRoot(l), ToRoot(l), AtLeaf(l), ToLeaf(l), Sending(l))
    BY PipelineIsChain DEF ChainOf
  <2>6. Chain(Published(l)', AtRoot(l)', ToRoot(l)', AtLeaf(l)', ToLeaf(l)', Sending(l)')
    <3>1. CASE m = l
      <4>1. Chain(Published(l), AtRoot(l), ToRoot(l) \cup AtLeaf(l), {},
                  ToLeaf(l), Sending(l))
        BY <2>2, <2>5, <3>1, ChainMoves
      <4> QED BY <1>3, <1>4, <2>2, <2>4, <3>1, <4>1, ChainShrinks
    <3>2. CASE m # l
      BY <1>3, <1>4, <2>4, <2>5, <3>2, ChainShrinks
    <3> QED BY <3>1, <3>2
  <2> QED BY <2>4, <2>6, PipelineIsChain DEF ChainOf, Chain
<1> QED BY <1>1, <1>5, <1>6

\* Every step keeps every leaf's pipeline in order.
LEMMA PipelineStep ==
    ASSUME TypeOK, TagsOK, [Next]_vars, NEW l \in Leaves, Pipeline(l)
    PROVE  Pipeline(l)'
<1>1. l \in Node /\ Root \in Node /\ l # Root
      /\ rxq \in [Node -> Seq(PacketType)]
      /\ rxMsg \in [Node -> PacketType \cup {NoMsg}]
  BY RelayAssumption DEF Node, TypeOK
<1>2. ASSUME published' = published, Thinned(l), Thinned(Root),
             \A n \in {l, Root} : rxMsg'[n] \in {rxMsg[n], NoMsg},
             bcast' = NoMsg \/ (bcast' = bcast /\ route_table' = route_table)
      PROVE  Pipeline(l)'
  <2>1. /\ Published(l)' \subseteq Published(l)
        /\ AtRoot(l)' \subseteq AtRoot(l)
        /\ AtLeaf(l)' \subseteq AtLeaf(l)
        /\ Sending(l)' \subseteq Sending(l)
    BY <1>2 DEF Published, AtRoot, AtLeaf, Sending
  <2> QED BY <1>2, <2>1, LossKeepsPipeline
<1>3. rxq' = rxq => Thinned(l) /\ Thinned(Root)
  BY <1>1, ThinnedTrivially
<1>4. CASE \/ mqtt_app_start
           \/ BroadcastEnd
           \/ \E m \in Leaves : RootAddress(m) \/ Join(m) \/ LinkLost(m)
           \/ UNCHANGED vars
  BY <1>2, <1>3, <1>4
     DEF mqtt_app_start, BroadcastEnd, RootAddress, Join, LinkLost, vars
<1>5. ASSUME NEW m \in Leaves, LeafRestart(m) PROVE Pipeline(l)'
  <2>1. Thinned(l) /\ Thinned(Root)
    BY <1>1, <1>5, ThinnedTrivially DEF LeafRestart
  <2>2. \A n \in {l, Root} : rxMsg'[n] \in {rxMsg[n], NoMsg}
    BY <1>1, <1>5 DEF LeafRestart
  <2> QED BY <1>2, <1>5, <2>1, <2>2 DEF LeafRestart
<1>6. CASE RootRestart
  <2>1. Thinned(l) /\ Thinned(Root)
    BY <1>1, <1>6, ThinnedTrivially DEF RootRestart
  <2>2. \A n \in {l, Root} : rxMsg'[n] \in {rxMsg[n], NoMsg}
    BY <1>1, <1>6 DEF RootRestart
  <2>3. published' = published /\ bcast' = NoMsg
    BY <1>6 DEF RootRestart
  <2> QED BY <1>2, <2>1, <2>2, <2>3
<1>7. ASSUME NEW n \in Node, Lose(n) PROVE Pipeline(l)'
  <2>1. PICK i \in DOMAIN rxq[n] : rxq' = [rxq EXCEPT ![n] = RemoveAt(@, i)]
    BY <1>7 DEF Lose
  <2>2. \A m \in Node : rxq'[m] = IF m = n THEN RemoveAt(rxq[n], i) ELSE rxq[m]
    BY <1>1, <2>1
  <2>3. \A m \in Node : Thinned(m)
    BY <2>2, ThinnedTrivially, ThinnedByRemoveAt
  <2> QED BY <1>1, <1>2, <1>7, <2>3 DEF Lose
<1> QED
  BY <1>4, <1>5, <1>6, <1>7, MqttDataKeepsPipeline, BroadcastKeepsPipeline,
     RxRecvKeepsPipeline, RootPublishKeepsPipeline, LeafReplyKeepsPipeline DEF Next

\* The pipeline of every leaf stays in order, whatever is lost or restarted.
THEOREM PipelineCorrect == Spec => []PipelineInv
<1>1. Init => PipelineInv
  <2>1. ASSUME Init, NEW l \in Leaves PROVE Pipeline(l)
    BY <2>1 DEF Init, Pipeline, Published, AtRoot, ToRoot, AtLeaf, ToLeaf, Sending,
       Below, LeafQueueSorted, RootQueueSorted, Node
  <2>2. Init => TagsOK
    BY DEF Init, TagsOK, Node
  <2> QED BY <2>1, <2>2 DEF PipelineInv
<1>2. TypeOK /\ PipelineInv /\ [Next]_vars => PipelineInv'
  BY TagsStep, PipelineStep DEF PipelineInv
<1> QED BY <1>1, <1>2, TypeCorrect, PTL DEF Spec

-----------------------------------------------------------------------------
(***************************************************************************)
(* Refinement.  MqttData of a TRACK message is an Ask, RootPublish with a  *)
(* client is an Answer, every other step leaves asked and replies alone.   *)
(***************************************************************************)

\* A message the broker hands over gets a new, larger identity.
LEMMA MqttDataAsks ==
    ASSUME TypeOK, NEW t \in Topic, MqttData(t)
    PROVE  Promise!Next \/ UNCHANGED <<Asked, published>>
<1> DEFINE id == Len(received) + 1
<1>1. /\ received \in Seq(Topic) /\ Len(received) \in Nat
      /\ DOMAIN received = 1..Len(received)
  BY LenProperties DEF TypeOK
<1>2. /\ received' \in Seq(Topic) /\ DOMAIN received' = 1..id
      /\ received'[id] = t
      /\ \A i \in 1..Len(received) : received'[i] = received[i]
  <2>1. /\ Append(received, t) \in Seq(Topic)
        /\ Len(Append(received, t)) = Len(received) + 1
        /\ \A i \in 1..Len(received) : Append(received, t)[i] = received[i]
        /\ Append(received, t)[Len(received) + 1] = t
    BY <1>1, AppendProperties
  <2> QED BY <2>1, LenProperties DEF MqttData
<1>3. id \in 1..MaxTrack
  BY <1>1, RelayAssumption DEF MqttData
<1>4. UNCHANGED published
  BY DEF MqttData
<1>5. CASE t = "TRACK"
  <2>1. Asked' = Asked \cup {id}
    BY <1>1, <1>2, <1>5 DEF Asked
  <2>2. \A old \in Asked : old < id
    BY <1>1 DEF Asked
  <2>3. Promise!Ask(id)
    BY <1>4, <2>1, <2>2 DEF Promise!Ask
  <2> QED BY <1>3, <2>3 DEF Promise!Next
<1>6. CASE t # "TRACK"
  <2>1. Asked' = Asked
    BY <1>1, <1>2, <1>6 DEF Asked
  <2> QED BY <1>4, <2>1
<1> QED BY <1>5, <1>6

\* A reply the root publishes is the leaf's next answer.
LEMMA RootPublishAnswers ==
    ASSUME TypeOK, PipelineInv, RootPublish
    PROVE  Promise!Next \/ UNCHANGED <<Asked, published>>
<1> DEFINE l == rxMsg[Root].from
           id == rxMsg[Root].id
<1>1. Asked' = Asked
  BY DEF RootPublish, Asked
<1>2. CASE ~mqtt_handle
  BY <1>1, <1>2 DEF RootPublish
<1>3. CASE mqtt_handle
  <2>1. rxMsg[Root] # NoMsg /\ rxMsg[Root] \in PacketType
    BY DEF RootPublish, TypeOK, Node
  <2>2. l \in Leaves /\ id \in 1..MaxTrack /\ id \in Asked
    BY <2>1 DEF PipelineInv, TagsOK, PacketType, Node
  <2>3. id \in AtRoot(l)
    BY <2>1 DEF AtRoot
  <2>4. \A i \in DOMAIN published : published[i].mac = l => published[i].id \in Published(l)
    BY DEF Published
  <2>5. Below(Published(l), AtRoot(l))
    BY <2>2 DEF PipelineInv, Pipeline
  <2>6. \A i \in DOMAIN published : published[i].mac = l => published[i].id < id
    BY <2>3, <2>4, <2>5 DEF Below
  <2>7. published' = Append(published, [mac |-> l, id |-> id])
    BY <1>3 DEF RootPublish
  <2>8. Promise!Answer(l, id)
    BY <1>1, <2>2, <2>6, <2>7 DEF Promise!Answer
  <2> QED BY <2>2, <2>8 DEF Promise!Next
<1> QED BY <1>2, <1>3

\* Karts answer TRACK messages only, at most once each and in order: the
\* relay implements TrackReply.
THEOREM RelayImplementsTrackReply == Spec => ImplementsTrackReply
<1>1. Init => Promise!Init
  BY DEF Init, Promise!Init, Asked
<1>2. TypeOK /\ PipelineInv /\ [Next]_vars => [Promise!Next]_<<Asked, published>>
  <2> SUFFICES ASSUME TypeOK, PipelineInv, [Next]_vars
               PROVE  Promise!Next \/ UNCHANGED <<Asked, published>>
    OBVIOUS
  <2>1. CASE received' = received /\ published' = published
    BY <2>1 DEF Asked
  <2>2. CASE \E t \in Topic : MqttData(t)
    BY <2>2, MqttDataAsks
  <2>3. CASE RootPublish
    BY <2>3, RootPublishAnswers
  <2> QED
    BY <2>1, <2>2, <2>3 DEF Next, vars, mqtt_app_start, BroadcastTo, BroadcastEnd,
       RxRecv, LeafReply, RootAddress, Join, LinkLost, LeafRestart, RootRestart, Lose
<1> QED
  BY <1>1, <1>2, TypeCorrect, PipelineCorrect, PTL
     DEF Spec, ImplementsTrackReply, Promise!Spec
=============================================================================
