----------------------------- MODULE OracleText -----------------------------
(***************************************************************************)
(* What sqlite3 prints for an input, as the oracles of the fuzzer and of   *)
(* the bisecting tool see it: lines, some of which are marks around the    *)
(* result of a validation statement.  A result is the sequence of lines    *)
(* between two marks; its text begins and ends with a newline.             *)
(***************************************************************************)
EXTENDS Integers, Sequences, FiniteSets

Begin(v)   == [kind |-> "BEGIN VERI", n |-> v]
End(v)     == [kind |-> "END VERI", n |-> v]
Row(x)     == [kind |-> "row", n |-> x]      \* an integer
Real(x)    == [kind |-> "real", n |-> x]     \* x.0, as TOTAL and AVG print it
Word(x)    == [kind |-> "word", n |-> x]     \* text that starts with no number
Blank      == [kind |-> "blank", n |-> 0]    \* a row whose only column is NULL
Bars       == [kind |-> "bars", n |-> 0]     \* a row of several NULL columns: "|"
Error      == [kind |-> "Error", n |-> 0]    \* the error message of a statement
Constraint == [kind |-> "Error", n |-> 1]    \* one of NOT NULL or datatype mismatch

Text == [kind : {"BEGIN VERI", "END VERI", "row", "real", "word", "blank", "bars", "Error"},
         n : Int]

(* What a select is, as the oracles classify it; VALUES has no result       *)
(* columns at all.                                                          *)
Aggregate  == {"MIN", "MAX", "SUM", "COUNT", "AVG"}
SelectType == {"NORMAL", "DISTINCT", "GROUP_BY", "VALUES"} \cup Aggregate

Oracles == {"NOREC", "TLP", "LIKELY", "INDEX", "ROWID", "OPT"}

(* get_mul_run_num: how often an oracle runs an input.                      *)
MulRunNum(oracle) ==
  CASE oracle = "OPT"                  -> 3
    [] oracle \in {"INDEX", "ROWID"}   -> 2
    [] OTHER                           -> 1

HasError(res) == \E k \in DOMAIN res : res[k].kind = "Error"
Filled(res)   == {k \in DOMAIN res : res[k].kind # "blank"}
RowsAt(res, ks) == {res[k] : k \in ks}
=============================================================================
