--------------------------- MODULE MCMysqlClient ----------------------------
(* Small instances of MysqlClient for TLC. *)
EXTENDS MysqlClient
=============================================================================
