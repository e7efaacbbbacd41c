----------------------------- MODULE MysqlServer -----------------------------
(***************************************************************************)
(* A MySQL server under test, as its fuzzer may rely on it: it may go down *)
(* at any time, crashed by an input or shut down by mysql_rebooter.py, and *)
(* comes back with a fresh copy of its data, in which the database         *)
(* test_sqlright1 exists and is empty.  MysqlClient is written against     *)
(* this module, MysqlHost is shown to provide it for every instance.       *)
(***************************************************************************)

VARIABLES
  up,  \* is the server listening
  db   \* test_sqlright1: "empty", "used" or "absent"; "empty" while it is down

svars == <<up, db>>

Databases == {"empty", "used", "absent"}

Init == up \in BOOLEAN /\ db = "empty"

GoDown == up /\ up' = FALSE /\ db' = "empty"

ComeUp == ~up /\ up' = TRUE /\ UNCHANGED db

(* Whatever the inputs, or the fuzzer between two of them, do.              *)
Use == up /\ db' \in Databases /\ UNCHANGED up

Next == GoDown \/ ComeUp \/ Use

(* It is never down for good.                                               *)
Spec == Init /\ [][Next]_svars /\ []<>up
=============================================================================
