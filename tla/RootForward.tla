---------------------------- MODULE RootForward ----------------------------
(***************************************************************************)
(* How the root turns a packet in rx_buf into a message for the broker:    *)
(* esp_mesh_rx_main receives every packet into the same static buffer,     *)
(* never clears it, and hands MQTT_AppPublish the buffer without a length, *)
(* so what is published ends at the first NUL byte in it.                  *)
(*                                                                         *)
(* Bytes are abstract: "NUL", a byte of a leaf's "reply" (which holds no   *)
(* NUL, and is the same constant message on every leaf), or any "other".   *)
(***************************************************************************)
EXTENDS Naturals, Sequences

CONSTANTS
    RX_SIZE,   \* length of rx_buf (1500)
    MPS,       \* longest packet of the mesh stack (1472)
    ReplySize, \* length of a leaf's encoded reply (40)
    EchoSize,  \* length of the longest message on /track
    Macs       \* addresses of the leaves, of six octets

ASSUME ForwardAssumption ==
    /\ RX_SIZE \in Nat /\ MPS \in Nat
    /\ MPS < RX_SIZE
    /\ ReplySize \in 1..MPS
    /\ EchoSize \in 0..MPS
    /\ Macs \subseteq [1..6 -> 0..255]

Byte == {"NUL", "reply", "other"}

VARIABLES
    rx_buf,    \* the static receive buffer
    payload,   \* what the latest publication handed to the client
    topics     \* <<address, topic>> of every publication so far

vars == <<rx_buf, payload, topics>>

\* Mutant: the buffer comes from the heap and is not cleared.
Blank_heap == [i \in 1..RX_SIZE |-> "other"]

\* A static array is zero when the program starts.
Blank == [i \in 1..RX_SIZE |-> "NUL"]

Init ==
    /\ rx_buf = Blank
    /\ payload = << >>
    /\ topics = {}

-----------------------------------------------------------------------------
\* Mutant: the octets follow one another without a separator.
Separated_never(o) == o

\* The separator is no hexadecimal digit.
Separated(o) == <<16>> \o o

\* An octet in hexadecimal, with no more digits than it needs.
Hex(octet) == IF octet < 16 THEN <<octet>> ELSE <<octet \div 16, octet % 16>>

\* std::format("/kart/{:x}:{:x}:{:x}:{:x}:{:x}:{:x}", MAC2STR(from.addr))
KartTopic(mac) ==
    LET Part(i) == Separated(Hex(mac[i]))
    IN  Part(1) \o Part(2) \o Part(3) \o Part(4) \o Part(5) \o Part(6)

\* Mutant: the terminating NUL is counted.
Strlen_withNul(buf) ==
    CHOOSE n \in 1..Len(buf) : buf[n] = "NUL" /\ \A i \in 1..(n - 1) : buf[i] # "NUL"

\* The length esp_mqtt_client_publish takes when it is given 0.
Strlen(buf) ==
    CHOOSE n \in 0..(Len(buf) - 1) :
        buf[n + 1] = "NUL" /\ \A i \in 1..n : buf[i] # "NUL"

\* esp_mesh_recv: the packet p overwrites the beginning of the buffer.
Overwritten(p) == [i \in 1..RX_SIZE |-> IF i <= Len(p) THEN p[i] ELSE rx_buf[i]]

\* The constant message of every leaf, encoded.
Reply == [i \in 1..ReplySize |-> "reply"]

\* The reply of a leaf: decoded, of topic KART, published.
ForwardReply(mac) ==
    /\ rx_buf' = Overwritten(Reply)
    /\ payload' = SubSeq(rx_buf', 1, Strlen(rx_buf'))
    /\ topics' = topics \cup {<<mac, KartTopic(mac)>>}

\* The root's own broadcast of a message from /track comes back and is
\* ignored: it stays in the buffer.
IgnoreEcho(p) ==
    /\ rx_buf' = Overwritten(p)
    /\ UNCHANGED <<payload, topics>>

\* The buffer is in RAM.
Restart ==
    /\ rx_buf' = Blank
    /\ UNCHANGED <<payload, topics>>

Next ==
    \/ \E mac \in Macs : ForwardReply(mac)
    \/ \E n \in 1..EchoSize : \E p \in [1..n -> {"NUL", "other"}] : IgnoreEcho(p)
    \/ Restart

Spec == Init /\ [][Next]_vars

-----------------------------------------------------------------------------
(***************************************************************************)
(* Properties.                                                             *)
(***************************************************************************)

\* The end of what is published lies in the buffer: no packet reaches its
\* last byte, and nothing else writes there (mesh.hpp:26, mesh.cpp:64-66).
Terminated == rx_buf[RX_SIZE] = "NUL"

\* What is published is the reply, all of it and nothing else ("Listen for
\* packets from internal mesh -> Forward to MQTT broker", main.cpp:94-95),
\* whatever packets the buffer held before.
PublishesTheReply == topics # {} => payload = Reply

\* Publications of two karts are told apart by their topics (mesh.cpp:98-99).
TopicsTellKartsApart ==
    \A s, t \in topics : s[2] = t[2] => s[1] = t[1]
=============================================================================
