------------------------------- MODULE Relay -------------------------------
(***************************************************************************)
(* The data plane of the race-control network: one root node bridges an    *)
(* MQTT broker and an ESP-MESH network of leaf nodes (one per kart).       *)
(*                                                                         *)
(*   broker --/track--> MQTT client task of the root --broadcast--> leaves *)
(*   leaves --reply--> receive task of the root --/kart/<mac>--> broker    *)
(*                                                                         *)
(* Three kinds of tasks interleave: the MQTT client's task on the root,    *)
(* which runs MQTT_EventProcess (main/mqtt_app.cpp) with the client's API  *)
(* lock held, and the receive task esp_mesh_rx_main (main/mesh.cpp) of     *)
(* each node.  The ESP-MESH stack is external: it is modelled by the       *)
(* receive queue of each node and the set of leaves linked to the root.    *)
(***************************************************************************)
EXTENDS Naturals, Sequences, FiniteSets, SequencesExt

CONSTANTS
    Leaves,           \* nodes built without CONFIG_ROOT_NODE
    Root,             \* the node built with CONFIG_ROOT_NODE
    NoAddr,           \* the all-zero address of a static mesh_addr_t
    NoMsg,            \* a task that is handling no message
    MAX_CONNECTIONS,  \* mesh.hpp: stations the root's access point accepts
    QSize,            \* capacity of a receive queue (128 in start_mesh)
    Unstable,         \* nodes that may restart or lose their link
    MaxTrack          \* bound: messages the broker hands over

ASSUME RelayAssumption ==
    /\ IsFiniteSet(Leaves)
    /\ Root \notin Leaves
    /\ NoAddr \notin Leaves \cup {Root}
    /\ MAX_CONNECTIONS \in Nat
    /\ QSize \in Nat \ {0}
    /\ Unstable \subseteq Leaves \cup {Root}
    /\ MaxTrack \in Nat

Node == Leaves \cup {Root}

\* MQTTMessage.topic as the receive task sees it; "BAD" is a payload that
\* pb_decode rejects, "UNDEFINED" any topic outside the two it knows.
Topic == {"TRACK", "KART", "UNDEFINED", "BAD"}

\* A mesh packet.  id is the position of the /track message it carries or
\* answers in the broker's stream: a history tag, the bytes do not hold it.
PacketType == [from : Node, topic : Topic, id : 1..MaxTrack,
               tos : {"P2P", "DEF"}]

ASSUME NoMsgAssumption == NoMsg \notin PacketType

VARIABLES
    received,        \* topics of the /track messages handed over by the broker
    mqtt_handle,     \* the root's MQTT client exists and is started
    bcast,           \* packet the MQTT task is broadcasting, or NoMsg
    route_table,     \* entries of mesh_send's route_table still to be sent to
    linked,          \* leaves associated with the root
    mesh_root_addr,  \* per leaf: where it sends its replies
    rxq,             \* per node: packets waiting for esp_mesh_recv
    rxMsg,           \* per node: packet its receive task acts on, or NoMsg
    published        \* what MQTT_AppPublish handed to the client, in order

vars == <<received, mqtt_handle, bcast, route_table, linked, mesh_root_addr,
          rxq, rxMsg, published>>

TypeOK ==
    /\ received \in Seq(Topic) /\ Len(received) <= MaxTrack
    /\ mqtt_handle \in BOOLEAN
    /\ bcast \in PacketType \cup {NoMsg}
    /\ route_table \subseteq Node
    /\ linked \subseteq Leaves
    /\ mesh_root_addr \in [Leaves -> {Root, NoAddr}]
    /\ rxq \in [Node -> Seq(PacketType)]
    /\ \A n \in Node : Len(rxq[n]) <= QSize
    /\ rxMsg \in [Node -> PacketType \cup {NoMsg}]
    /\ published \in Seq([mac : Node, id : 1..MaxTrack])

Init ==
    /\ received = << >>
    /\ mqtt_handle = FALSE
    /\ bcast = NoMsg
    /\ route_table = {}
    /\ linked = {}
    /\ mesh_root_addr = [l \in Leaves |-> NoAddr]
    /\ rxq = [n \in Node |-> << >>]
    /\ rxMsg = [n \in Node |-> NoMsg]
    /\ published = << >>

-----------------------------------------------------------------------------
(***************************************************************************)
(* The mesh stack, as the code uses it.  Every node other than the root is *)
(* a MESH_LEAF, which accepts no children, so a linked leaf is one hop     *)
(* away and the root's routing table is the root and its linked leaves.    *)
(***************************************************************************)

\* Mutant: the type of service is left as the stack memory has it.
Packet_unsetTos(n, t, i) == [from |-> n, topic |-> t, id |-> i, tos |-> "UNSET"]

\* The packet is handed to the mesh with tos = MESH_TOS_P2P, by both senders.
Packet(n, t, i) == [from |-> n, topic |-> t, id |-> i, tos |-> "P2P"]

RoutingTable == {Root} \cup linked

Reachable(src, dst) ==
    \/ dst = src
    \/ src = Root /\ dst \in linked
    \/ dst = Root /\ src \in linked

HasRoom(dst) == Len(rxq[dst]) < QSize

\* esp_mesh_send(dst, p): the packet is queued at dst, or an error is returned
\* because there is no way to dst.  A send to a full queue waits: the code
\* passes no MESH_DATA_NONBLOCK and sets no blocking time.
esp_mesh_send(src, dst, p) ==
    \/ /\ Reachable(src, dst)
       /\ HasRoom(dst)
       /\ rxq' = [rxq EXCEPT ![dst] = Append(@, p)]
    \/ /\ ~Reachable(src, dst)
       /\ UNCHANGED rxq

-----------------------------------------------------------------------------
(***************************************************************************)
(* The root's MQTT client task.  MQTT_EVENT_DATA calls mesh_broadcast; the *)
(* client's API lock is held until the handler returns, that is as long as *)
(* bcast # NoMsg.                                                          *)
(***************************************************************************)

\* mqtt_app_start: from here on the handle is not NULL.
mqtt_app_start ==
    /\ ~mqtt_handle
    /\ mqtt_handle' = TRUE
    /\ UNCHANGED <<received, bcast, route_table, linked, mesh_root_addr, rxq,
                   rxMsg, published>>

\* MQTT_EVENT_DATA: the payload is wrapped in a packet as it is, whatever its
\* topic field says, and the routing table is read once.
MqttData(t) ==
    /\ mqtt_handle
    /\ bcast = NoMsg
    /\ Len(received) < MaxTrack
    /\ received' = Append(received, t)
    /\ bcast' = Packet(Root, t, Len(received) + 1)
    /\ route_table' = RoutingTable
    /\ UNCHANGED <<mqtt_handle, linked, mesh_root_addr, rxq, rxMsg, published>>

\* Mutant: a send that fails ends the broadcast, as in the P2P branch.
NextEntries_stop(n) == IF Reachable(Root, n) THEN route_table \ {n} ELSE {}

\* Mutant: an entry that cannot be sent to is tried again.
NextEntries_retry(n) ==
    IF Reachable(Root, n) /\ HasRoom(n) THEN route_table \ {n} ELSE route_table

\* An error is logged and the loop goes on with the other entries.
NextEntries(n) == route_table \ {n}

\* One iteration of mesh_send's broadcast loop; the order of the entries in
\* the table is the mesh stack's.  While a send waits, others may go first: they
\* make no room, so a loop that waits for ever in the table's order does so here.
BroadcastTo(n) ==
    /\ bcast # NoMsg
    /\ n \in route_table
    /\ esp_mesh_send(Root, n, bcast)
    /\ route_table' = NextEntries(n)
    /\ UNCHANGED <<received, mqtt_handle, bcast, linked, mesh_root_addr,
                   rxMsg, published>>

\* The loop is over: the handler returns and the API lock is released.
BroadcastEnd ==
    /\ bcast # NoMsg
    /\ route_table = {}
    /\ bcast' = NoMsg
    /\ UNCHANGED <<received, mqtt_handle, route_table, linked, mesh_root_addr,
                   rxq, rxMsg, published>>

-----------------------------------------------------------------------------
(***************************************************************************)
(* The receive task esp_mesh_rx_main.                                      *)
(***************************************************************************)

\* Mutant: the comparison with the node's own address is missing.
FromSelf_never(n, p) == FALSE

\* Broadcasts to the whole routing table come back to the root itself.
FromSelf(n, p) == p.from = n

\* Mutant: a leaf answers whatever it can decode.
Handled_any(n, p) ==
    IF n = Root THEN p.topic = "KART" ELSE p.topic # "BAD"

\* What follows a successful decode: the root forwards KART messages, a leaf
\* answers TRACK messages, everything else is only logged.
Handled(n, p) ==
    IF n = Root THEN p.topic = "KART" ELSE p.topic = "TRACK"

\* esp_mesh_recv up to the point where the message is published or answered,
\* or ignored by one of the loop's continue statements.
RxRecv(n) ==
    LET p == Head(rxq[n])
    IN  /\ rxMsg[n] = NoMsg
        /\ rxq[n] # << >>
        /\ rxq' = [rxq EXCEPT ![n] = Tail(@)]
        /\ rxMsg' = [rxMsg EXCEPT ![n] =
                        IF ~FromSelf(n, p) /\ Handled(n, p) THEN p ELSE NoMsg]
        /\ UNCHANGED <<received, mqtt_handle, bcast, route_table, linked,
                       mesh_root_addr, published>>

\* Mutant: the packet stays with the receive task after it was published.
AfterPublish_again == rxMsg

AfterPublish == [rxMsg EXCEPT ![Root] = NoMsg]

\* MQTT_AppPublish on the root: it needs the client's API lock, and drops the
\* message while there is no client.
RootPublish ==
    /\ rxMsg[Root] # NoMsg
    /\ bcast = NoMsg
    /\ published' = IF mqtt_handle
                    THEN Append(published, [mac |-> rxMsg[Root].from,
                                            id |-> rxMsg[Root].id])
                    ELSE published
    /\ rxMsg' = AfterPublish
    /\ UNCHANGED <<received, mqtt_handle, bcast, route_table, linked,
                   mesh_root_addr, rxq>>

\* mesh_send_root on a leaf: the reply goes to the address the last
\* MESH_EVENT_ROOT_ADDRESS stored; the result is not looked at.
LeafReply(l) ==
    /\ rxMsg[l] # NoMsg
    /\ esp_mesh_send(l, mesh_root_addr[l], Packet(l, "KART", rxMsg[l].id))
    /\ rxMsg' = [rxMsg EXCEPT ![l] = NoMsg]
    /\ UNCHANGED <<received, mqtt_handle, bcast, route_table, linked,
                   mesh_root_addr, published>>

\* MESH_EVENT_ROOT_ADDRESS on a leaf that is linked.
RootAddress(l) ==
    /\ l \in linked
    /\ mesh_root_addr[l] # Root
    /\ mesh_root_addr' = [mesh_root_addr EXCEPT ![l] = Root]
    /\ UNCHANGED <<received, mqtt_handle, bcast, route_table, linked, rxq,
                   rxMsg, published>>

-----------------------------------------------------------------------------
(***************************************************************************)
(* The environment: leaves come and go, nodes restart, the radio loses     *)
(* packets of unstable nodes.  All static variables are in RAM, a restart  *)
(* clears them.                                                            *)
(***************************************************************************)

Join(l) ==
    /\ l \notin linked
    /\ Cardinality(linked) < MAX_CONNECTIONS
    /\ linked' = linked \cup {l}
    /\ UNCHANGED <<received, mqtt_handle, bcast, route_table, mesh_root_addr,
                   rxq, rxMsg, published>>

LinkLost(l) ==
    /\ l \in Unstable
    /\ l \in linked
    /\ linked' = linked \ {l}
    /\ UNCHANGED <<received, mqtt_handle, bcast, route_table, mesh_root_addr,
                   rxq, rxMsg, published>>

LeafRestart(l) ==
    /\ l \in Unstable
    /\ linked' = linked \ {l}
    /\ mesh_root_addr' = [mesh_root_addr EXCEPT ![l] = NoAddr]
    /\ rxq' = [rxq EXCEPT ![l] = << >>]
    /\ rxMsg' = [rxMsg EXCEPT ![l] = NoMsg]
    /\ UNCHANGED <<received, mqtt_handle, bcast, route_table, published>>

RootRestart ==
    /\ Root \in Unstable
    /\ linked' = {}
    /\ mqtt_handle' = FALSE
    /\ bcast' = NoMsg
    /\ route_table' = {}
    /\ rxq' = [rxq EXCEPT ![Root] = << >>]
    /\ rxMsg' = [rxMsg EXCEPT ![Root] = NoMsg]
    /\ UNCHANGED <<received, mesh_root_addr, published>>

\* A packet to or from an unstable leaf is lost on the way.
Lose(n) ==
    \E i \in DOMAIN rxq[n] :
        /\ rxq[n][i].from # n
        /\ {n, rxq[n][i].from} \cap Leaves \cap Unstable # {}
        /\ rxq' = [rxq EXCEPT ![n] = RemoveAt(@, i)]
        /\ UNCHANGED <<received, mqtt_handle, bcast, route_table, linked,
                       mesh_root_addr, rxMsg, published>>

-----------------------------------------------------------------------------
Next ==
    \/ mqtt_app_start
    \/ \E t \in Topic : MqttData(t)
    \/ \E n \in Node : BroadcastTo(n)
    \/ BroadcastEnd
    \/ \E n \in Node : RxRecv(n)
    \/ RootPublish
    \/ \E l \in Leaves : LeafReply(l)
    \/ \E l \in Leaves : RootAddress(l)
    \/ \E l \in Leaves : Join(l)
    \/ \E l \in Leaves : LinkLost(l)
    \/ \E l \in Leaves : LeafRestart(l)
    \/ RootRestart
    \/ \E n \in Node : Lose(n)

Spec == Init /\ [][Next]_vars

\* The tasks run whenever they can: the scheduler is preemptive, the tasks
\* of the data plane share one priority and are time-sliced.
Fairness ==
    /\ WF_vars(\E n \in Node : BroadcastTo(n))
    /\ WF_vars(BroadcastEnd)
    /\ \A n \in Node : WF_vars(RxRecv(n))
    /\ WF_vars(RootPublish)
    /\ \A l \in Leaves : WF_vars(LeafReply(l))

FairSpec == Spec /\ Fairness

-----------------------------------------------------------------------------
(***************************************************************************)
(* Properties.                                                             *)
(***************************************************************************)

\* Identities of the TRACK messages the broker handed over.
Asked == {i \in DOMAIN received : received[i] = "TRACK"}

Promise == INSTANCE TrackReply WITH asked <- Asked, replies <- published

\* The relay implements TrackReply: what appears under /kart/<mac> are
\* answers of leaves to TRACK messages, never an echo of what the root itself
\* broadcast (mesh.cpp:76-81), never twice and never out of order, whatever is
\* lost, restarted or interleaved.
ImplementsTrackReply == Promise!Spec

\* A leaf that stays linked answers every TRACK message broadcast while it is
\* in the routing table and knows the root's address, and the answer is
\* published, whatever happens to the other leaves (mesh.cpp:13-19 goes on
\* after a send error) and however often queues are full, unless the root's own
\* queue stays full.
StableLeafAnswers ==
    []<>HasRoom(Root) =>
    \A l \in Leaves \ Unstable, i \in 1..MaxTrack :
        (/\ bcast = Packet(Root, "TRACK", i)
         /\ route_table = RoutingTable
         /\ l \in route_table
         /\ mesh_root_addr[l] = Root)
        ~> (\E k \in DOMAIN published : published[k] = [mac |-> l, id |-> i])

\* A full queue of a leaf only delays a broadcast, which waits for it with the
\* API lock held (mesh.cpp:15): unless the root's own queue stays full, the
\* leaf gets its reply out, takes the next packet, and the loop comes to its
\* end, whatever leaves are lost or restarted meanwhile.
BroadcastEndsUnlessRootFull ==
    []<>HasRoom(Root) => (bcast # NoMsg ~> bcast = NoMsg)

\* What the broker hands over is sent to every leaf of the routing table
\* (main.cpp:96-97, "Listen for MQTT messages from broker / Forward to internal
\* mesh").
ForwardedToLeaves == \A l \in Leaves : l \in route_table ~> l \notin route_table

-----------------------------------------------------------------------------
(***************************************************************************)
(* The inductive invariant behind ImplementsTrackReply.  The message with  *)
(* identity i travels, for each leaf l, through six stages; Published is   *)
(* the last of them.                                                       *)
(***************************************************************************)

Sending(l)   == IF bcast # NoMsg /\ l \in route_table THEN {bcast.id} ELSE {}
ToLeaf(l)    == {rxq[l][k].id : k \in DOMAIN rxq[l]}
AtLeaf(l)    == IF rxMsg[l] # NoMsg THEN {rxMsg[l].id} ELSE {}
ToRoot(l)    == {rxq[Root][k].id : k \in {m \in DOMAIN rxq[Root] :
                                                rxq[Root][m].from = l}}
AtRoot(l)    == IF rxMsg[Root] # NoMsg /\ rxMsg[Root].from = l
                THEN {rxMsg[Root].id} ELSE {}
Published(l) == {published[k].id : k \in {m \in DOMAIN published :
                                                published[m].mac = l}}

Below(A, B) == \A i \in A, j \in B : i < j

LeafQueueSorted(l) ==
    \A j, k \in DOMAIN rxq[l] : j < k => rxq[l][j].id < rxq[l][k].id

RootQueueSorted(l) ==
    \A j, k \in DOMAIN rxq[Root] :
        j < k /\ rxq[Root][j].from = l /\ rxq[Root][k].from = l
        => rxq[Root][j].id < rxq[Root][k].id

\* Earlier messages are further along than later ones, in every queue too.
Pipeline(l) ==
    /\ Below(Published(l), AtRoot(l))
    /\ Below(Published(l) \cup AtRoot(l), ToRoot(l))
    /\ Below(Published(l) \cup AtRoot(l) \cup ToRoot(l), AtLeaf(l))
    /\ Below(Published(l) \cup AtRoot(l) \cup ToRoot(l) \cup AtLeaf(l), ToLeaf(l))
    /\ Below(Published(l) \cup AtRoot(l) \cup ToRoot(l) \cup AtLeaf(l)
             \cup ToLeaf(l), Sending(l))
    /\ LeafQueueSorted(l)
    /\ RootQueueSorted(l)

\* A packet of the root's carries a message the broker did hand over.
Carries(p) ==
    p.from = Root /\ p.id \in DOMAIN received /\ received[p.id] = p.topic

\* Every packet is what its place in the pipeline says it is.
TagsOK ==
    /\ bcast # NoMsg => Carries(bcast)
    /\ \A l \in Leaves :
          /\ \A k \in DOMAIN rxq[l] : Carries(rxq[l][k])
          /\ rxMsg[l] # NoMsg => rxMsg[l].id \in Asked
    /\ \A k \in DOMAIN rxq[Root] :
          rxq[Root][k].from # Root => rxq[Root][k].id \in Asked
    /\ rxMsg[Root] # NoMsg => rxMsg[Root].from # Root /\ rxMsg[Root].id \in Asked
    /\ \A k \in DOMAIN published :
          published[k].mac \in Leaves /\ published[k].id \in Asked

\* For every leaf the messages in transit form one strictly ordered pipeline
\* from the broadcast loop to the published replies, and every packet in it
\* belongs to a message the broker handed over.
PipelineInv == TagsOK /\ \A l \in Leaves : Pipeline(l)
=============================================================================
