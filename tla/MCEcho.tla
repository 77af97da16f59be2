------------------------------- MODULE MCEcho -------------------------------
(* Instances of EchoServer for TLC; the constants are given in the .cfg     *)
(* files.                                                                   *)
EXTENDS EchoServer
=============================================================================
