------------------------------- MODULE MCRing -------------------------------
(* Instances of Ring for TLC; the constants are given in the .cfg files.    *)
EXTENDS Ring
=============================================================================
