---------------------------- MODULE MCSqliteExec ----------------------------
(* Small instances of SqliteExec for TLC. *)
EXTENDS SqliteExec

None  == <<>>
Zero  == <<Row(0)>>
One   == <<Row(1)>>
Two   == <<Row(1), Row(2)>>
Twice == <<Row(1), Row(1)>>
Many  == <<Row(1), Row(1), Row(1), Row(1)>>
Null  == <<Blank>>
Bad   == <<Error>>

\* A select and its transformed form, or its two transformed forms, in one run
Pair(a, b)      == Marked(0, a) \o Marked(1, b)
Triple(a, b, c) == Pair(a, b) \o Marked(2, c)

OneRun(tys, run)   == [runs |-> <<run>>, types |-> tys]
Runs(type, forms)  == [runs |-> [r \in DOMAIN forms |-> Marked(0, forms[r])], types |-> <<type>>]

\* A select that agrees with its transformed form, and two that do
Agreeing ==
  { OneRun(<<"NORMAL">>, Pair(Zero, <<Real(0)>>)),
    OneRun(<<"NORMAL", "NORMAL">>, Pair(Zero, <<Real(0)>>) \o Pair(One, One)) }

\* One that does not, one whose transformed form fails, one that is no number
Norec ==
  Agreeing \cup { OneRun(<<"NORMAL">>, Pair(Zero, <<Real(1)>>)),
                  OneRun(<<"NORMAL">>, Pair(One, Bad)),
                  OneRun(<<"NORMAL">>, Pair(<<Word(0)>>, One)) }

\* Rows lost, one row where the other form has none (it passes), unique rows
\* that agree, aggregates that do not, a row of NULLs, too many rows to compare
Tlp ==
  { OneRun(<<"NORMAL">>, Pair(Two, One)),
    OneRun(<<"NORMAL">>, Pair(One, None)),
    OneRun(<<"DISTINCT">>, Pair(Twice, One)),
    OneRun(<<"DISTINCT">>, Pair(Two, Twice)),
    OneRun(<<"MIN">>, Pair(One, <<Row(2)>>)),
    OneRun(<<"MIN", "NORMAL">>, Pair(One, Bad) \o Pair(Two, Two)),
    OneRun(<<"COUNT">>, Pair(One, <<Row(2)>>)),
    OneRun(<<"SUM">>, Pair(<<Row(0 - 1)>>, Null)),
    OneRun(<<"MAX">>, Pair(<<Row(0 - 1)>>, Zero)),
    OneRun(<<"AVG">>, Pair(<<Real(1)>>, <<Real(2)>>)),
    OneRun(<<"NORMAL">>, Pair(<<Bars, Row(1)>>, One)),
    OneRun(<<"NORMAL">>, Pair(Many, Two)) }

\* A row lost (it passes), a NULL row lost, two selects of which the oracle
\* found one type (twice, once with the same rows in another order), a select
\* without result columns, an error
Likely ==
  { OneRun(<<"NORMAL">>, Triple(One, One, None)),
    OneRun(<<"NORMAL">>, Triple(Null, None, Null)),
    OneRun(<<"NORMAL">>, Triple(One, One, One) \o Triple(Zero, Zero, One)),
    OneRun(<<"NORMAL">>, Triple(One, One, One) \o Triple(Two, <<Row(2), Row(1)>>, Two)),
    OneRun(<<"VALUES">>, Triple(One, One, One)),
    OneRun(<<"NORMAL">>, Triple(One, Bad, One)) }

\* The same rows twice, a row lost in the second run, an error in one, a
\* select without result columns, a count that differs (it passes)
Index ==
  { Runs("NORMAL", <<One, One>>), Runs("NORMAL", <<Two, One>>),
    Runs("NORMAL", <<One, Bad>>), Runs("VALUES", <<One, One>>),
    Runs("COUNT", <<One, Zero>>) }

\* A row lost, NULL rows, and a constraint that only one of the runs has,
\* before the select or after it
Rowid ==
  { Runs("NORMAL", <<Two, One>>), Runs("NORMAL", <<Null, None>>),
    [runs |-> << <<Constraint>> \o Marked(0, Two), Marked(0, One) >>, types |-> <<"NORMAL">>],
    [runs |-> << Marked(0, Two) \o <<Constraint>>, Marked(0, One) >>, types |-> <<"NORMAL">>] }

\* Rows lost in the second or the third run, and too many in the third
Opt ==
  { Runs("NORMAL", <<One, None, One>>), Runs("NORMAL", <<None, None, Many>>) }

AnyOracle ==
  [o \in Oracles |-> CASE o = "NOREC"  -> Norec   [] o = "TLP"   -> Tlp
                       [] o = "LIKELY" -> Likely  [] o = "INDEX" -> Index
                       [] o = "ROWID"  -> Rowid   [] o = "OPT"   -> Opt]

AgreeingOnly == [o \in Oracles |-> IF o = "NOREC" THEN Agreeing ELSE {}]

LikelyOnly == [o \in Oracles |-> IF o = "LIKELY" THEN Likely ELSE {}]
=============================================================================
