----------------------------- MODULE TrackReply -----------------------------
(***************************************************************************)
(* What the race-control network promises to whoever publishes on /track   *)
(* and listens on /kart/<mac>: a kart answers TRACK messages only, each at *)
(* most once, and in the order in which the broker handed them over.       *)
(* Nothing is promised about every message being answered: the network may *)
(* lose messages and nodes may restart.                                    *)
(***************************************************************************)
EXTENDS Naturals, Sequences

CONSTANTS Leaves,   \* the nodes that answer
          MaxTrack  \* bound: messages handed over by the broker

VARIABLES asked,    \* identities of the TRACK messages handed over so far
          replies   \* what has been published on /kart/<mac>, in order

Reply == [mac : Leaves, id : 1..MaxTrack]

Init == asked = {} /\ replies = << >>

\* The broker hands over a TRACK message, later than all the earlier ones.
Ask(id) ==
    /\ \A old \in asked : old < id
    /\ asked' = asked \cup {id}
    /\ UNCHANGED replies

\* Leaf l's answer to message id reaches the broker.
Answer(l, id) ==
    /\ id \in asked
    /\ \A i \in DOMAIN replies : replies[i].mac = l => replies[i].id < id
    /\ replies' = Append(replies, [mac |-> l, id |-> id])
    /\ UNCHANGED asked

Next ==
    \/ \E id \in 1..MaxTrack : Ask(id)
    \/ \E l \in Leaves, id \in 1..MaxTrack : Answer(l, id)

Spec == Init /\ [][Next]_<<asked, replies>>
=============================================================================
