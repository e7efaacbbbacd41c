---------------------------- MODULE MCSeedQueue -----------------------------
(* Small instances of SeedQueue for TLC. *)
EXTENDS SeedQueue
=============================================================================
