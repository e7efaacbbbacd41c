---------------------------- MODULE BisectOracles ----------------------------
(***************************************************************************)
(* How the bisecting tool compares the results of one select when it runs  *)
(* a bug report again on some commit (bisecting/ORACLE).  It is a second   *)
(* implementation of the comparison the report came from, in another       *)
(* language: a disagreement the fuzzer reported is worth bisecting only if *)
(* this one sees it too.                                                   *)
(***************************************************************************)
EXTENDS OracleText

Unreadable(rs) == \E v \in DOMAIN rs : HasError(rs[v])

(* Rows of nothing but spaces and column separators do not count.           *)
Visible(res) == {k \in DOMAIN res : res[k].kind \notin {"blank", "bars"}}

\* What each form amounts to is the same for all.
Agree(amounts) ==
  IF \A v \in DOMAIN amounts : amounts[v] = amounts[1] THEN "PASS" ELSE "FAIL"

(* _check_result_norm and _check_result_uniq.                               *)
SameCount(rs) ==
  IF Unreadable(rs) THEN "ALL_ERROR"
  ELSE Agree([v \in DOMAIN rs |-> Cardinality(Visible(rs[v]))])

SameUnique(rs) ==
  IF Unreadable(rs) THEN "ALL_ERROR"
  ELSE Agree([v \in DOMAIN rs |-> Cardinality(RowsAt(rs[v], Visible(rs[v])))])

(* _check_result_minmax_count_sum goes through the lines: the accumulator   *)
(* of MIN starts at maxsize, the others at 0, and the one of AVG stays there.*)
MaxSize == 2147483647

\* mutant: every accumulator starts at 0
StartZero(type) == 0

StartOf(type) == IF type = "MIN" THEN MaxSize ELSE 0

WithRow(type, acc, row) ==
  CASE type \in {"COUNT", "SUM"}  -> acc + row.n
    [] type = "MAX" /\ row.n > acc -> row.n
    [] type = "MIN" /\ row.n < acc -> row.n
    [] OTHER                       -> acc

Accumulated(type, res) ==
  LET acc[n \in 0..Len(res)] ==
        IF n = 0 THEN StartOf(type)
        ELSE IF n \in Filled(res) THEN WithRow(type, acc[n - 1], res[n]) ELSE acc[n - 1]
  IN  acc[Len(res)]

AllIntegers(res) == \A k \in Filled(res) : res[k].kind = "row"

SameAggregate(type, rs) ==
  IF Unreadable(rs) \/ \E v \in DOMAIN rs : ~AllIntegers(rs[v]) THEN "ALL_ERROR"
  ELSE Agree([v \in DOMAIN rs |-> Accumulated(type, rs[v])])

(* Oracle_NOREC: the whole text must be one number, an integer on the left; *)
(* -1 stands for anything else.                                             *)
TheNumber(res, kinds) ==
  IF Cardinality(Filled(res)) = 1 /\ \A k \in Filled(res) : res[k].kind \in kinds
  THEN res[CHOOSE k \in Filled(res) : TRUE].n ELSE -1

SameNumber(a, b) ==
  LET x == TheNumber(a, {"row"})
      y == TheNumber(b, {"row", "real"})
  IN  IF -1 \in {x, y} THEN "ALL_ERROR" ELSE IF x = y THEN "PASS" ELSE "FAIL"

(* comp_query_res, rs being the results of the statements of one run, or of  *)
(* the one statement of several runs.  The tool takes an oracle that it does *)
(* not know for OPT, and a report of fewer than three runs is no use to OPT. *)
ToolVerdict(oracle, type, rs) ==
  CASE oracle = "NOREC" -> SameNumber(rs[1], rs[2])
    [] oracle = "TLP"   -> IF type \in Aggregate THEN SameAggregate(type, rs)
                           ELSE IF type \in {"DISTINCT", "GROUP_BY"} THEN SameUnique(rs)
                           ELSE SameCount(rs)
    [] oracle = "OPT"   -> Agree(rs)
    [] oracle \in {"LIKELY", "INDEX", "ROWID"} -> "ALL_ERROR"
=============================================================================
