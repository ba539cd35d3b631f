------------------------------ MODULE MCPbVarint -----------------------------
(* Bytes and field contents that tell the cases of PbVarint apart. *)
EXTENDS PbVarint

Final == {{}, 0..6}          \* 0x00 and 0x7F
More  == {{7}, 0..7}         \* 0x80 and 0xFF

\* The fifth byte holds bits 28..34, the tenth bit 63.
Fifth == {{3}, {3, 7}, 0..3, 3..6, 3..7, 4..7} \cup Final \cup More
Tenth == {{0}, {0, 7}} \cup Final \cup More

SomeBytes ==
    <<Final \cup More, Final \cup More, More, More, Fifth,
      Final \cup More, More, More, More, Tenth, {{}, {7}}, {{}}>>

\* 0, 1, 127, 128, 2^28 - 1, 2^28, 2^31 - 1, and negative: -1, -2^31, -128.
Contents4 == {{}, {0}, 0..6, {7}, 0..27, {28}, 0..30, 0..31, {31}, 7..31}

\* Seconds: before and after 1970, and with a bit at each edge.
Contents8 == Contents4 \cup {0..32, {34}, {35}, 35..41, {62}, {63}, 0..63, 31..63}

SomeFields ==
    {[ltype |-> t, size |-> 4, content |-> c] : t \in {"VARINT", "UVARINT"}, c \in Contents4}
    \cup {[ltype |-> "VARINT", size |-> 8, content |-> c] : c \in Contents8}
=============================================================================
