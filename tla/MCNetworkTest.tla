--------------------------- MODULE MCNetworkTest ---------------------------
(* Instances of NetworkTest for TLC.                                        *)
EXTENDS NetworkTest
=============================================================================
