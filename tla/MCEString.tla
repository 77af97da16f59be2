----------------------------- MODULE MCEString -----------------------------
(* Instances of EString for TLC: bytes of three bits, of which the null and *)
(* three on both sides of the sign are used, types whose repr() has four    *)
(* and eight bytes, and strings from one too short to one too long.         *)
EXTENDS EString

MCBytes == {0, 1, 4, 7}
MCMaxLens == {2, 4}
MCInputs == UNION {[1 .. n -> MCBytes] : n \in 0 .. 4}
=============================================================================
