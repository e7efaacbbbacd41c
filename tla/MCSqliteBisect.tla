--------------------------- MODULE MCSqliteBisect ---------------------------
(* Small instances of SqliteBisect for TLC. *)
EXTENDS SqliteBisect

CONSTANTS
  q1, q2,       \* the queries of the bug reports
  Behaviours    \* the behaviours a history of q1 is made of, under OPT

TagSet    == {1, 2, NumCommits}
TagEnds   == {1, NumCommits}
AtMostOne == {b \in SUBSET Commits : Cardinality(b) <= 1}

Reports(first, second) == {[x \in Queries |-> IF x = q1 THEN f ELSE s] : f \in first, s \in second}

\* Every history, correct throughout, correct up to a commit and buggy from
\* there, and the same with one commit that behaves in another way.
Any        == [Commits -> Behaviours]
Flat       == {[c \in Commits |-> "agree"]}
Turns      == {[c \in Commits |-> IF c < k THEN "agree" ELSE "differ"] : k \in 1..(NumCommits + 1)}
Odd(other) == {[h EXCEPT ![c] = b] : h \in Turns, c \in Commits, b \in other}

\* One report under OPT with every history; under TLP two reports, which may
\* accuse the same commit, and a kill; the others differ in what they make of
\* errors and of missing results.
AllOracles ==
  [o \in Oracles |->
     CASE o = "OPT"                -> Reports(Any, Flat)
       [] o = "TLP"                -> Reports(Turns \cup Odd({"silent"}), Turns)
       [] o = "NOREC"              -> Reports(Odd({"late", "error"}), Flat)
       [] o \in TooFewRuns         -> Reports(Turns \cup Odd({"crash"}), Flat)]

KillOnTlp == [o \in Oracles |-> IF o = "TLP" THEN 1 ELSE 0]

OnlyNorec == [o \in Oracles |-> IF o = "NOREC" THEN Reports(Any, Flat) ELSE {}]
NoKill    == [o \in Oracles |-> 0]
=============================================================================
