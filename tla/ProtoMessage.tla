---------------------------- MODULE ProtoMessage ----------------------------
(***************************************************************************)
(* What decoding promises: the message is built up field by field as the   *)
(* protocol buffers rules say.  The last value of a field counts, parts of *)
(* the same submessage are merged, and of the members of a oneof the last  *)
(* one started is present, alone, with nothing of an earlier one in it.    *)
(***************************************************************************)
EXTENDS Naturals

CONSTANTS
    Leaf,       \* the fields that hold a value
    Sub,        \* the submessages
    Member,     \* those that are members of the oneof
    Within(_),  \* the member a leaf or submessage is part of, or itself
    Value

VARIABLES value, present, result

Init ==
    /\ value = [l \in Leaf |-> 0]
    /\ present = {}
    /\ result = "decoding"

\* Part of no member, or of the one that is present.
Reachable(x) == Within(x) \in Member => Within(x) \in present

SetLeaf(l) ==
    /\ Reachable(l)
    /\ \E v \in Value : value' = [value EXCEPT ![l] = v]
    /\ UNCHANGED present

StartOptional(s) ==
    /\ s \notin Member /\ Reachable(s)
    /\ present' = present \cup {s}
    /\ UNCHANGED value

StartMember(m) ==
    /\ m \notin present
    /\ present' = {s \in present : Within(s) \notin Member} \cup {m}
    /\ value' = [l \in Leaf |-> IF Within(l) \in Member THEN 0 ELSE value[l]]

Next ==
    /\ result = "decoding"
    /\ \/ \E l \in Leaf : SetLeaf(l) /\ UNCHANGED result
       \/ \E s \in Sub \ Member : StartOptional(s) /\ UNCHANGED result
       \/ \E m \in Member : StartMember(m) /\ UNCHANGED result
       \/ result' = "ok" /\ UNCHANGED <<value, present>>
       \/ result' = "failed"  \* the message is given up, whatever it holds

Spec == Init /\ [][Next]_<<value, present, result>>
=============================================================================
