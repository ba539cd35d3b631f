--------------------------- MODULE MCRootForward ----------------------------
(* Instances of RootForward for TLC. *)
EXTENDS RootForward

\* Octets of one and of two hexadecimal digits, next to one another.
SomeMacs ==
    {<<0, 0, 0, 0, 1, 17>>, <<0, 0, 0, 0, 17, 1>>, <<1, 17, 0, 0, 0, 0>>,
     <<17, 1, 0, 0, 0, 0>>}
=============================================================================
