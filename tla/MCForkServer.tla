---------------------------- MODULE MCForkServer ----------------------------
(* Small instances of ForkServer for TLC. *)
EXTENDS ForkServer
=============================================================================
