---------------------------- MODULE FuzzerOracles ----------------------------
(***************************************************************************)
(* How the six oracles of the SQLite fuzzer compare the results of their   *)
(* selects (SQL_*::compare_results).  What the code leaves undefined - a   *)
(* verdict it never writes, a type it reads past the end of a vector - is  *)
(* a choice, so the verdicts of an input are a set.                        *)
(***************************************************************************)
EXTENDS OracleText

CONSTANT PieceLimit   \* a result whose text splits into more pieces is not compared

ASSUME PieceLimitAssumption == PieceLimit \in Nat

(* string_splitter: the newline after the mark, one per row.                *)
Pieces(res)  == Len(res) + 2
TooLong(res) == Pieces(res) > PieceLimit

(* stoi skips white space, blank rows included, and reads a leading number. *)
Leading(res) == CHOOSE k \in Filled(res) : \A j \in Filled(res) : k <= j
HasNumber(res) == Filled(res) # {} /\ res[Leading(res)].kind \in {"row", "real"}
Number(res) == res[Leading(res)].n

Judge(agree) == IF agree THEN "Pass" ELSE "Fail"

Unusable(rs) == \E r \in rs : HasError(r) \/ TooLong(r)

Numbers(rs) ==
  IF \E r \in rs : HasError(r) \/ ~HasNumber(r) THEN "Error"
  ELSE Judge(\A r, s \in rs : Number(r) = Number(s))

(* SQL_TLP::compare_norm.  The rows of the second result are gone when they *)
(* are looked at for "all 0", so one row in the first always passes.        *)
TlpRows(a, b) ==
  IF Unusable({a, b}) THEN "Error"
  ELSE Judge(Cardinality(Filled(a)) \in {1, Cardinality(Filled(b))})

(* SQL_TLP::compare_uniq.                                                   *)
TlpUnique(a, b) ==
  IF Unusable({a, b}) THEN "Error"
  ELSE Judge(Cardinality(RowsAt(a, Filled(a))) = Cardinality(RowsAt(b, Filled(b))))

TlpOutcome(type, a, b) ==
  CASE type = "NORMAL"                   -> TlpRows(a, b)
    [] type \in {"DISTINCT", "GROUP_BY"} -> TlpUnique(a, b)
    [] type \in Aggregate                -> Numbers({a, b})
    [] type = "VALUES"                   -> "Error"

(* SQL_LIKELY::compare_norm counts no newlines: it compares a character to  *)
(* the address of a string.  What is left is the number of blank rows.      *)
LikelyRows(rs) ==
  IF \E k \in DOMAIN rs : HasError(rs[k]) \/ TooLong(rs[k]) THEN "Error"
  ELSE Judge(\A k \in DOMAIN rs : Len(rs[k]) - Cardinality(Filled(rs[k]))
                                = Len(rs[1]) - Cardinality(Filled(rs[1])))

(* The aggregate function is looked for in a field the parser never fills,  *)
(* so no select is ever taken for an aggregate.                             *)
PlainType(type) == IF type = "VALUES" THEN "UNKNOWN" ELSE "NORMAL"

LikelyOutcome(type, rs) ==
  CASE type = "NORMAL"  -> LikelyRows(rs)
    [] type = "AGGR"    -> Numbers({rs[k] : k \in DOMAIN rs})
    [] type = "UNKNOWN" -> "Error"

(* SQL_INDEX and SQL_ROWID::compare_norm.                                   *)
CountedRows(rs) ==
  IF Unusable(rs) THEN "Error"
  ELSE Judge(\A r, s \in rs : Cardinality(Filled(r)) = Cardinality(Filled(s)))

(* SQL_OPT; of the third result only the number of pieces is looked at.     *)
OptOutcome(a, b, c) ==
  IF Unusable({a, b}) \/ HasError(c) THEN "Error"
  ELSE Judge(Pieces(a) = Pieces(b) /\ Pieces(b) = Pieces(c))

-----------------------------------------------------------------------------
\* mutant: the outcome of one select is left as the verdict on them all
VerdictError(outcome, uncounted) ==
  IF \E k \in DOMAIN outcome : outcome[k] = "Fail" THEN "Fail"
  ELSE IF \E k \in DOMAIN outcome \ uncounted : outcome[k] = "Pass" THEN "Pass"
  ELSE IF \E k \in DOMAIN outcome : outcome[k] = "Error" THEN "Error" ELSE "ALL_Error"

(* The verdict on an input: one failure is enough, and something must have  *)
(* been compared; what is uncounted never shows that anything was.          *)
Verdict(outcome, uncounted) ==
  IF \E k \in DOMAIN outcome : outcome[k] = "Fail" THEN "Fail"
  ELSE IF \E k \in DOMAIN outcome \ uncounted : outcome[k] = "Pass" THEN "Pass"
  ELSE "ALL_Error"

(* compare_query_result: a statement that lacks the k-th result has "Error".*)
Paired(stmts, k) ==
  [v \in DOMAIN stmts |-> IF k \in DOMAIN stmts[v] THEN stmts[v][k] ELSE <<Error>>]

Compared(stmts) == 1..Len(CHOOSE s \in {stmts[v] : v \in DOMAIN stmts} :
                            \A v \in DOMAIN stmts : Len(stmts[v]) <= Len(s))

NorecVerdicts(stmts) ==
  {Verdict([k \in Compared(stmts) |-> Numbers({Paired(stmts, k)[1], Paired(stmts, k)[2]})], {})}

(* Types and results of different number are not compared; agreeing         *)
(* DISTINCT and GROUP BY results do not count.                              *)
TlpVerdicts(types, stmts) ==
  IF Compared(stmts) # DOMAIN types THEN {"ALL_Error"}
  ELSE {Verdict([k \in DOMAIN types |->
                   TlpOutcome(types[k], Paired(stmts, k)[1], Paired(stmts, k)[2])],
                {k \in DOMAIN types : types[k] \in {"DISTINCT", "GROUP_BY"}})}

(* More results than types: the types are read past the end of the vector.  *)
LikelyVerdicts(types, stmts) ==
  {Verdict([k \in Compared(stmts) |->
              LikelyOutcome(IF k \in DOMAIN types THEN PlainType(types[k]) ELSE stray[k],
                            Paired(stmts, k))], {}) :
     stray \in [Compared(stmts) \ DOMAIN types -> {"NORMAL", "AGGR", "UNKNOWN"}]}

-----------------------------------------------------------------------------
(* compare_query_results_cross_run: the k-th results of the runs that have  *)
(* one, for every k the first run has one.                                  *)
Across(runs, k) == {runs[r][k] : r \in {q \in DOMAIN runs : k \in DOMAIN runs[q]}}

InAll(runs, k) == \A r \in DOMAIN runs : k \in DOMAIN runs[r]

(* SQL_INDEX and SQL_ROWID stop where the types end, and leave the outcome  *)
(* of a select of unknown type as it happens to be in memory.               *)
CountedVerdicts(types, runs) ==
  LET judged  == DOMAIN runs[1] \cap DOMAIN types
      unset   == {k \in judged : PlainType(types[k]) = "UNKNOWN" /\ InAll(runs, k)}
      Outcome(k) ==
        IF InAll(runs, k) /\ PlainType(types[k]) = "NORMAL"
        THEN CountedRows(Across(runs, k)) ELSE "Error"
  IN  {Verdict([k \in judged |-> IF k \in failing THEN "Fail" ELSE Outcome(k)], {}) :
         failing \in SUBSET unset}

OptVerdicts(runs) ==
  {Verdict([k \in DOMAIN runs[1] |->
              IF InAll(runs, k) THEN OptOutcome(runs[1][k], runs[2][k], runs[3][k])
              ELSE "Error"], {})}
=============================================================================
