--------------------------- MODULE CommitBracket ---------------------------
(***************************************************************************)
(* What both bisecting tools of the repository promise, stripped of how    *)
(* they do it: a search over a linear history keeps two bounds, a commit   *)
(* that behaved correctly and a later one that did not, and may only       *)
(* report the pair once the two are neighbours.  Bound 0 stands for "no    *)
(* correct commit known", NumCommits + 1 for "no buggy commit known".      *)
(***************************************************************************)
EXTENDS Integers

CONSTANT NumCommits

Commits == 1..NumCommits

VARIABLES
  good,     \* commits whose examination may count as correct
  bad,      \* commits whose examination may count as buggy
  lo, hi,   \* the bounds of the search
  outcome   \* "open" while searching, then "found" or "failed"

bvars == <<good, bad, lo, hi, outcome>>

Fresh(g, b) ==
  /\ g \in SUBSET Commits
  /\ b \in SUBSET Commits

Init ==
  /\ Fresh(good, bad)
  /\ lo = 0 /\ hi = NumCommits + 1
  /\ outcome = "open"

\* A bound that moves, moves inwards and to a commit seen on its own side.
\* The search ends with neighbouring bounds, or gives up because one of the
\* two sides was never seen.
Narrow ==
  /\ outcome = "open"
  /\ lo <= lo' /\ lo' < hi' /\ hi' <= hi
  /\ lo' = lo \/ lo' \in good
  /\ hi' = hi \/ hi' \in bad
  /\ \/ outcome' = "open"
     \/ outcome' = "found"  /\ lo' # 0 /\ hi' # NumCommits + 1 /\ hi' = lo' + 1
     \/ outcome' = "failed" /\ (lo' = 0 \/ hi' = NumCommits + 1)
  /\ UNCHANGED <<good, bad>>

\* The next report, or the same one after the tool was restarted; one for
\* which there is nothing to examine is given up at once.
NextReport ==
  /\ Fresh(good', bad')
  /\ lo' = 0 /\ hi' = NumCommits + 1
  /\ outcome' \in {"open", "failed"}

Next == Narrow \/ NextReport

Spec == Init /\ [][Next]_bvars
=============================================================================
