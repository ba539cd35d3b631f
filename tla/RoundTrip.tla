------------------------------ MODULE RoundTrip ------------------------------
(***************************************************************************)
(* A leaf encodes its reply, sends what bytes_written counts whether       *)
(* pb_encode succeeded or not, and the root decodes it.                    *)
(***************************************************************************)
EXTENDS PbEncode, PbDecode

RoundTripInit ==
    /\ EncodeInit
    /\ pc = "idle"
    /\ input = <<>> /\ at = 0 /\ len = 0 /\ stack = <<>> /\ wire = 0
    /\ mem = MQTTMessage_init_default

Encode == EncodeNext /\ UNCHANGED vars

\* What the leaf tests after pb_encode.
SendGuard == enc \in {"ok", "failed"} /\ frames[1].bytes_written # 0

Send ==
    /\ pc = "idle" /\ SendGuard
    /\ len' = frames[1].bytes_written
    /\ input' = out /\ at' = 0
    /\ stack' = FirstStack(frames[1].bytes_written)
    /\ pc' = "tag" /\ wire' = 0
    /\ mem' = FreshStruct
    /\ UNCHANGED encVars

Decode == pc # "idle" /\ Next /\ UNCHANGED encVars

RoundTripNext == Encode \/ Send \/ Decode

RoundTripSpec == RoundTripInit /\ [][RoundTripNext]_<<encVars, vars>>

-----------------------------------------------------------------------------

\* The parts of the message s belongs to: at the top, one of three.
TopPart(x) == IF x[1] = "LatLng" THEN "Kart" ELSE x[1]

\* A message encoded as a whole is decoded as it was, field by field.
ComesBack ==
    enc = "ok" /\ pc \in {"ok", "failed", "misread"}
    => /\ pc = "ok"
       /\ SeenPresent(mem) = SeenPresent(src)
       /\ SeenValue(mem) = SeenValue(src)

\* Of a message the buffer had no room for, the root sees each submessage as
\* a whole or not at all: it is refused, or ends between two of them.
NeverInPart ==
    /\ pc # "misread"
    /\ pc = "ok"
       => \A s \in SeenPresent(mem) :
            /\ s \in SeenPresent(src)
            /\ \A l \in Leaves :
                 TopPart(l) = TopPart(s) => SeenValue(mem)[l] = SeenValue(src)[l]
            /\ \A r \in SeenPresent(src) :
                 TopPart(r) = TopPart(s) => r \in SeenPresent(mem)
=============================================================================
