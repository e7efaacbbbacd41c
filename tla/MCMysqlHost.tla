----------------------------- MODULE MCMysqlHost ------------------------------
(* Small instances of MysqlHost for TLC. *)
EXTENDS MysqlHost
=============================================================================
