----------------------------- MODULE MCRoundTrip -----------------------------
(* Messages for RoundTrip: every kart status, with and without a position,  *)
(* every timestamp, every track status, and the message with no payload.    *)
EXTENDS RoundTrip, TLC

Struct(cells) == [c \in Cells |-> IF c \in DOMAIN cells THEN cells[c] ELSE 0]

\* topic, has_timestamp, timestamp.seconds, timestamp.nanos
Header(topic, has, s, ns) ==
    [c \in {0, 4, 8, 12, 16} |->
        CASE c = 0 -> topic [] c = 4 -> has [] c \in {8, 12} -> s [] OTHER -> ns]

\* which_payload, the values of the kart, has_position and the position
KartCells(values, has, lat, lng) ==
    [c \in {24} \cup DOMAIN values \cup {52, 56, 60, 64, 68} |->
        CASE c = 24 -> 3 [] c = 52 -> has [] c \in {56, 60} -> lat
          [] c \in {64, 68} -> lng [] OTHER -> values[c]]

\* is_kart_connected, kart_id, control, speed, steering_angle
KartValues ==
    {v \in [{32, 36, 40, 44, 48} -> 0..2] :
        v[32] < 2 /\ v[40] < 2 /\ v[44] < 2 /\ v[48] = v[44]}

Positions == {<<0, 0, 0>>, <<1, 0, 0>>, <<1, 1, 0>>, <<1, 1, 1>>}
Headers == {Header(1, 0, 0, 0), Header(0, 1, 2, 2), Header(1, 1, 0, 1), Header(1, 1, 2, 2)}

SomeSources ==
    {Struct(h) : h \in Headers}
    \cup {Struct(Header(2, 0, 0, 0) @@ KartCells(v, p[1], p[2], p[3])) :
             v \in KartValues, p \in Positions}
    \cup {Struct(h @@ KartCells([c \in {32, 36, 40, 44, 48} |-> n], 1, 1, 1)) :
             h \in Headers, n \in {0, 1}}
    \cup {Struct(h @@ KartCells([c \in {32, 36, 40, 44, 48} |-> IF c = 36 THEN 2 ELSE 1],
                                1, 1, 1)) : h \in Headers}
    \cup {Struct(h @@ [c \in {24, 32, 36} |-> CASE c = 24 -> 4 [] c = 32 -> a [] OTHER -> f]) :
             h \in Headers, a \in {0, 1}, f \in {0, 1}}
=============================================================================
