------------------------------ MODULE MC_Hash -------------------------------
(* Strings of 0 to 6 bytes over bytes below and above 128, so that there   *)
(* are 0, 1 and 2 words and tails of 0 to 3 bytes; the seed of the bloom  *)
(* filter policy (0xbc9f1d34) and 0.                                       *)
EXTENDS Hash

MC_Bytes == {0, 127, 128, 255}
MC_Inputs == UNION {[1 .. n -> MC_Bytes] : n \in 0 .. 6}
MC_Seeds == {U32(0), <<52, 29, 159, 188>>}
=============================================================================
