---------------------------- MODULE MCSubrInit -----------------------------
(* SubrInit with long / ulong_t scaled to 16 bits and int to 8, and the    *)
(* boundary values of each input: negative, zero, small, the type's top.   *)
EXTENDS SubrInit

MCTunables == {-1, 0, 2, 2^15 - 1}
MCNcSizes  == {-(2^7), -1, 0, 3, 2^7 - 1}
MCMaxAvails == {0, 64, 2^16 - 1}
=============================================================================
