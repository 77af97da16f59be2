----------------------------- MODULE MCSockets -----------------------------
(* Instances of Sockets for TLC.  Descriptor 0 is among those handed out,   *)
(* as when the program runs with its standard input closed.                 *)
EXTENDS Sockets, TLC

MCFds == 0 .. 1
MCNoFd == -1

Symmetry == Permutations(Objects) \cup Permutations(Rings)
=============================================================================
