---------------------------- MODULE SqliteBisect ----------------------------
(***************************************************************************)
(* The SQLite bisecting tool (SQLite/docker/bisecting): for one bug report *)
(* after another it looks for the commit that introduced the bug, first    *)
(* over the release tags from the newest to the oldest, then by halving    *)
(* between two of them.  Commits are numbered from the oldest, as          *)
(* all_commits_hexsha is; 0 is the empty string of the code.  Builds are   *)
(* cached in one directory per commit, commits that do not compile are     *)
(* remembered in a file that outlives the process, and the operator may    *)
(* kill and restart the tool at any step, a build included.                *)
(***************************************************************************)
EXTENDS Integers, FiniteSets

CONSTANTS
  NumCommits,   \* length of all_commits_hexsha
  Tags,         \* the commits that carry a release tag
  Queries,      \* the selects of the bug reports to bisect
  NoQuery,
  Histories,    \* for each oracle, how the queries may behave on each commit
  BrokenSets,   \* which commits may fail to compile
  MaxRestarts   \* bound: kills of the tool in one behaviour, for each oracle

Commits  == 1..NumCommits
NoCommit == 0

(* What the runs of one query do on one commit: all results agree, they    *)
(* disagree, they are SQL errors, one of several runs yields no result (a   *)
(* timeout, or no marker in the output), none yields one, sqlite3 crashes.  *)
Behaviour == {"agree", "differ", "error", "late", "silent", "crash"}
Result == {"PASS", "FAIL", "ALL_ERROR", "SEG_FAULT", "FAIL_TO_COMPILE"}

(* TypeError: a missing result, None, is subscripted.                       *)
Exception == "exception"

(* NOREC and TLP run a query once and subscript its result; OPT runs it      *)
(* three times and compares what came back, None and error text included.   *)
(* main knows no other oracle and takes the rest for OPT, which finds too   *)
(* few runs in their reports.                                               *)
SingleRun == {"NOREC", "TLP"}
TooFewRuns == {"LIKELY", "INDEX", "ROWID"}
Oracles == SingleRun \cup TooFewRuns \cup {"OPT"}

OfSingleRun == [agree |-> "PASS", differ |-> "FAIL", error |-> "ALL_ERROR",
                late |-> Exception, silent |-> Exception]
OfThreeRuns == [agree |-> "PASS", differ |-> "FAIL", error |-> "PASS",
                late |-> "FAIL", silent |-> "PASS"]

ASSUME BisectAssumption ==
  /\ NumCommits \in Nat
  /\ Tags \subseteq Commits
  /\ NoQuery \notin Queries
  /\ Histories \in [Oracles -> SUBSET [Queries -> [Commits -> Behaviour]]]
  /\ BrokenSets \subseteq SUBSET Commits
  /\ MaxRestarts \in [Oracles -> Nat]

VARIABLES
  oracle,      \* the oracle the reports came from, the same for all of them
  history,     \* the environment: what each query does on each commit
  broken,      \* the environment: the commits whose build ends in an error
  build,       \* bld/<hexsha>: no directory, directory only, or sqlite3 in it
  failFile,    \* fail_compiled_commits.txt
  failed,      \* all_previous_compile_failure, read from the file per query
  todo,        \* queries not yet bisected by this process
  q,           \* the query being bisected
  pc,          \* "idle", "scan", "search", "found", "failed", "died"
  step,        \* "probe", "build" or "decide": where the examination stands
  cur,         \* the commit under examination
  rn,          \* rn_correctness
  newer,       \* newer_commit
  older,       \* older_commit
  lastBuggy,   \* the commit last_buggy_res_l comes from
  report,      \* what run_bisecting concluded about each query
  uniqId,      \* all_unique_results_dict: commit -> [id, count]
  nextId,      \* uniq_bug_id_int
  restarts

search  == <<q, pc, step, cur, rn, newer, older, lastBuggy>>
disk    == <<build, failFile>>
ledger  == <<todo, report, uniqId, nextId>>
vars    == <<oracle, history, broken, disk, failed, search, ledger, restarts>>

Classify(b) ==
  IF b = "crash" THEN "SEG_FAULT"
  ELSE IF oracle \in TooFewRuns THEN "ALL_ERROR"
  ELSE IF oracle \in SingleRun THEN OfSingleRun[b] ELSE OfThreeRuns[b]

NoReport   == [kind |-> "none", buggy |-> NoCommit, corr |-> NoCommit,
               evidence |-> NoCommit, id |-> -1]
Unassigned == [id |-> -1, count |-> 0]

TypeOK ==
  /\ oracle \in Oracles
  /\ history \in [Queries -> [Commits -> Behaviour]]
  /\ broken \in SUBSET Commits
  /\ build \in [Commits -> {"absent", "partial", "binary"}]
  /\ failFile \in SUBSET Commits
  /\ failed \in SUBSET Commits
  /\ todo \in SUBSET Queries
  /\ q \in Queries \cup {NoQuery}
  /\ pc \in {"idle", "scan", "search", "found", "failed", "died"}
  /\ step \in {"probe", "build", "decide"}
  /\ cur \in Commits \cup {NoCommit}
  /\ rn \in Result
  /\ newer \in Commits \cup {NoCommit}
  /\ older \in Commits \cup {NoCommit}
  /\ lastBuggy \in Commits \cup {NoCommit}
  /\ report \in [Queries -> [kind : {"none", "found", "failed"},
                             buggy : Commits \cup {NoCommit},
                             corr : Commits \cup {NoCommit},
                             evidence : Commits \cup {NoCommit},
                             id : Nat \cup {-1}]]
  /\ uniqId \in [Commits -> [id : Nat \cup {-1}, count : Nat]]
  /\ nextId \in Nat
  /\ restarts \in Nat

----------------------------------------------------------------------------
(* The newest tag older than commit c; none is NoCommit.                    *)
TagBelow(c) ==
  IF \E t \in Tags : t < c
  THEN CHOOSE t \in Tags : t < c /\ \A u \in Tags : u < c => u <= t
  ELSE NoCommit

Init ==
  /\ oracle \in Oracles
  /\ history \in Histories[oracle]
  /\ broken \in BrokenSets
  /\ build = [c \in Commits |-> "absent"]
  /\ failFile = {}
  /\ failed = {}
  /\ todo = Queries
  /\ q = NoQuery /\ pc = "idle" /\ step = "probe"
  /\ cur = NoCommit /\ rn = "PASS"
  /\ newer = NoCommit /\ older = NoCommit /\ lastBuggy = NoCommit
  /\ report = [x \in Queries |-> NoReport]
  /\ uniqId = [c \in Commits |-> Unassigned]
  /\ nextId = 0
  /\ restarts = 0

\* mutant: the copy in memory is taken for the file
PreviousFailuresCached == failed

\* setup_previous_compile_fail.
PreviousFailures == failFile

(* bi_secting_commits begins with the tag at the head of the reversed list, *)
(* after setup_previous_compile_fail re-read the file.                      *)
Start(x) ==
  /\ pc = "idle" /\ x \in todo
  /\ q' = x
  /\ failed' = PreviousFailures
  /\ newer' = NoCommit /\ older' = NoCommit /\ lastBuggy' = NoCommit
  /\ rn' = "PASS"
  /\ cur' = TagBelow(NumCommits + 1)
  /\ pc' = IF Tags = {} THEN "failed" ELSE "scan"
  /\ step' = "probe"
  /\ UNCHANGED <<oracle, history, broken, disk, ledger, restarts>>

----------------------------------------------------------------------------
(* Examining one commit.                                                    *)

Examining == pc \in {"scan", "search"}

Decide(result) ==
  /\ rn' = result
  /\ step' = "decide"
  /\ UNCHANGED <<q, pc, cur, newer, older, lastBuggy>>

\* The runs of the query and the comparison of their results; an exception
\* ends the tool.
Execute ==
  LET verdict == Classify(history[q][cur])
  IN IF verdict = Exception
     THEN pc' = "died" /\ UNCHANGED <<q, step, cur, rn, newer, older, lastBuggy>>
     ELSE Decide(verdict)

\* A commit in the list is not touched again.
SkipKnownFailure ==
  /\ Examining /\ step = "probe" /\ cur \in failed
  /\ Decide("FAIL_TO_COMPILE")
  /\ UNCHANGED <<oracle, history, broken, disk, failed, ledger, restarts>>

\* The cached sqlite3 is run on the query.
RunCached ==
  /\ Examining /\ step = "probe" /\ cur \notin failed
  /\ build[cur] = "binary"
  /\ Execute
  /\ UNCHANGED <<oracle, history, broken, disk, failed, ledger, restarts>>

\* No binary: the directory is removed and made anew, and make starts.
BeginBuild ==
  /\ Examining /\ step = "probe" /\ cur \notin failed
  /\ build[cur] # "binary"
  /\ build' = [build EXCEPT ![cur] = "partial"]
  /\ step' = "build"
  /\ UNCHANGED <<q, pc, cur, rn, newer, older, lastBuggy>>
  /\ UNCHANGED <<oracle, history, broken, failFile, failed, ledger, restarts>>

EndBuild ==
  /\ Examining /\ step = "build" /\ cur \notin broken
  /\ build' = [build EXCEPT ![cur] = "binary"]
  /\ Execute
  /\ UNCHANGED <<oracle, history, broken, failFile, failed, ledger, restarts>>

\* make reports an error; sqlite3 may have been linked before it did.
FailBuild ==
  /\ Examining /\ step = "build" /\ cur \in broken
  /\ \E b \in {"partial", "binary"} : build' = [build EXCEPT ![cur] = b]
  /\ Decide("FAIL_TO_COMPILE")
  /\ UNCHANGED <<oracle, history, broken, failFile, failed, ledger, restarts>>

----------------------------------------------------------------------------
(* Acting on the result.                                                    *)

Clean == {"PASS", "ALL_ERROR"}

\* A commit that failed to compile joins the list and the file, once.
RememberFailure ==
  IF rn = "FAIL_TO_COMPILE"
  THEN /\ failed' = failed \cup {cur}
       /\ failFile' = IF cur \in failed THEN failFile ELSE failFile \cup {cur}
  ELSE UNCHANGED <<failed, failFile>>

\* mutant: in the halving, too, a crash counts as buggy
MoveBoundsAlias ==
  /\ newer' = IF rn \in {"FAIL", "FAIL_TO_COMPILE", "SEG_FAULT"} THEN cur ELSE newer
  /\ older' = IF rn \in {"FAIL", "FAIL_TO_COMPILE", "SEG_FAULT"} THEN older ELSE cur
  /\ lastBuggy' = IF rn = "FAIL" THEN cur ELSE lastBuggy

\* mutant: last_buggy_res_l keeps the first result seen
MoveBoundsFirst ==
  /\ newer' = IF rn \in {"FAIL", "FAIL_TO_COMPILE"} THEN cur ELSE newer
  /\ older' = IF rn \in {"FAIL", "FAIL_TO_COMPILE"} THEN older ELSE cur
  /\ lastBuggy' = IF rn = "FAIL" /\ lastBuggy = NoCommit THEN cur ELSE lastBuggy

MoveBounds ==
  /\ newer' = IF rn \in {"FAIL", "FAIL_TO_COMPILE"} THEN cur ELSE newer
  /\ older' = IF rn \in {"FAIL", "FAIL_TO_COMPILE"} THEN older ELSE cur
  /\ lastBuggy' = IF rn = "FAIL" THEN cur ELSE lastBuggy

\* mutant: the loop ends with a commit left between the bounds
HalveEarly(n, o) ==
  IF n - o <= 2
  THEN pc' = "found" /\ cur' = cur
  ELSE pc' = "search" /\ cur' = (n + o) \div 2

\* mutant: the loop goes on when the bounds are neighbours
HalveLate(n, o) ==
  IF n - o <= 0
  THEN pc' = "found" /\ cur' = cur
  ELSE pc' = "search" /\ cur' = (n + o) \div 2

\* mutant: the sum is not halved
HalveSum(n, o) ==
  IF n - o <= 1
  THEN pc' = "found" /\ cur' = cur
  ELSE pc' = "search" /\ cur' = n + o

\* The next commit of the binary search, or the end of it.
Halve(n, o) ==
  IF n - o <= 1
  THEN pc' = "found" /\ cur' = cur
  ELSE pc' = "search" /\ cur' = (n + o) \div 2

\* The scan over the tags stops at the first clean one and otherwise at the
\* oldest; it fails unless it saw both a buggy and another commit.
DecideTag ==
  /\ pc = "scan" /\ step = "decide"
  /\ RememberFailure
  /\ MoveBounds
  /\ step' = "probe"
  /\ IF rn \notin Clean /\ TagBelow(cur) # NoCommit
     THEN pc' = "scan" /\ cur' = TagBelow(cur)
     ELSE IF newer' = NoCommit \/ older' = NoCommit
          THEN pc' = "failed" /\ cur' = cur
          ELSE Halve(newer', older')
  /\ UNCHANGED <<q, rn>>
  /\ UNCHANGED <<oracle, history, broken, build, ledger, restarts>>

DecideCommit ==
  /\ pc = "search" /\ step = "decide"
  /\ RememberFailure
  /\ MoveBounds
  /\ step' = "probe"
  /\ Halve(newer', older')
  /\ UNCHANGED <<q, rn>>
  /\ UNCHANGED <<oracle, history, broken, build, ledger, restarts>>

----------------------------------------------------------------------------
(* run_bisecting: the result is compared with those of earlier queries.     *)

EndQuery ==
  /\ todo' = todo \ {q}
  /\ q' = NoQuery /\ pc' = "idle"
  /\ UNCHANGED <<step, cur, rn, newer, older, lastBuggy>>
  /\ UNCHANGED <<oracle, history, broken, disk, failed, restarts>>

\* cross_compare gives a commit an id at its first report and counts the rest.
Duplicate == uniqId[newer] # Unassigned

\* mutant: a duplicate gets an id of its own
ReportIdNext == nextId
ReportId     == IF Duplicate THEN uniqId[newer].id ELSE nextId

CrossCompare ==
  /\ pc = "found"
  /\ uniqId' = [uniqId EXCEPT ![newer] = [id |-> ReportId, count |-> @.count + 1]]
  /\ nextId' = IF Duplicate THEN nextId ELSE nextId + 1
  /\ report' = [report EXCEPT ![q] =
       [kind |-> "found", buggy |-> newer, corr |-> older,
        evidence |-> lastBuggy, id |-> ReportId]]
  /\ EndQuery

\* A bisecting error: nothing is written, the bug stays unsorted.
GiveUp ==
  /\ pc = "failed"
  /\ report' = [report EXCEPT ![q] =
       [kind |-> "failed", buggy |-> NoCommit,
        corr |-> IF newer = NoCommit THEN cur ELSE NoCommit,
        evidence |-> lastBuggy, id |-> -1]]
  /\ UNCHANGED <<uniqId, nextId>>
  /\ EndQuery

\* The tool is killed and started again: only the disk survives, and a build
\* under way leaves its directory, with or without a linked sqlite3.
Restart ==
  /\ restarts < MaxRestarts[oracle]
  /\ restarts' = restarts + 1
  /\ IF Examining /\ step = "build"
     THEN \E b \in {"partial", "binary"} : build' = [build EXCEPT ![cur] = b]
     ELSE build' = build
  /\ failed' = {}
  /\ todo' = Queries
  /\ q' = NoQuery /\ pc' = "idle" /\ step' = "probe"
  /\ cur' = NoCommit /\ rn' = "PASS"
  /\ newer' = NoCommit /\ older' = NoCommit /\ lastBuggy' = NoCommit
  /\ report' = [x \in Queries |-> NoReport]
  /\ uniqId' = [c \in Commits |-> Unassigned]
  /\ nextId' = 0
  /\ UNCHANGED <<oracle, history, broken, failFile>>

Examine == SkipKnownFailure \/ RunCached \/ BeginBuild \/ EndBuild \/ FailBuild

Work ==
  \/ \E x \in Queries : Start(x)
  \/ Examine
  \/ DecideTag
  \/ DecideCommit
  \/ CrossCompare
  \/ GiveUp

Next == Work \/ Restart

Spec == Init /\ [][Next]_vars

----------------------------------------------------------------------------
(* Correctness.                                                             *)

GoodFor(x) == {c \in Commits : Classify(history[x][c]) \in Clean \cup {"SEG_FAULT"}}
BadFor(x)  == {c \in Commits : Classify(history[x][c]) = "FAIL"} \cup broken

\* A tag on which sqlite3 crashes is taken for correct although the scan goes
\* on below it: it bounds the search only if the oldest tag is not buggy.
CrashAnchored(x) ==
  \A t \in Tags : Classify(history[x][t]) = "SEG_FAULT" =>
    \E u \in Tags : TagBelow(u) = NoCommit /\ u \notin BadFor(x)

\* While halving, the examined commit lies strictly between the bounds, and
\* the bounds it ends with are neighbours or crossed: bi_secting_commits
\* neither examines a commit twice nor leaves the release it narrowed to.
SearchBounds ==
  /\ pc = "search" => older < cur /\ cur < newer
  /\ pc = "found" => newer - older <= 1

\* Each bound was seen on its own side, and the pair that is reported is a
\* buggy commit right after a correct one, whenever crashing tags are anchored.
BracketSound ==
  (pc \in {"search", "found"} /\ CrashAnchored(q)) =>
    /\ older \in GoodFor(q) /\ newer \in BadFor(q)
    /\ older < newer
    /\ pc = "found" => newer = older + 1

\* On a history that turns from correct to buggy once, at commit k, with every
\* commit compiling, the report names k and k - 1, and the search does not give
\* up if there is a tag on both sides.
ExactOnMonotone ==
  \A x \in Queries, k \in Commits :
    (/\ broken = {}
     /\ \A c \in Commits : Classify(history[x][c]) \in
                            IF c < k THEN Clean ELSE {"FAIL"})
    => /\ report[x].kind = "found" => report[x].buggy = k /\ report[x].corr = k - 1
       /\ report[x].kind = "failed" =>
            ~(\E t, u \in Tags : t < k /\ k <= u)

\* The result strings in a report were produced by the commit it accuses,
\* unless that commit is one that does not compile.
EvidenceMatches ==
  \A x \in Queries :
    (report[x].kind = "found" /\ report[x].buggy \notin broken) =>
      report[x].evidence = report[x].buggy

\* cross_compare: two reports share an id exactly if they share the commit, ids
\* are handed out without gaps, and the count is the number of reports.
LedgerConsistent ==
  LET found == {x \in Queries : report[x].kind = "found"}
  IN /\ \A x, y \in found :
          (report[x].id = report[y].id) <=> (report[x].buggy = report[y].buggy)
     /\ {report[x].id : x \in found} = 0..(nextId - 1)
     /\ \A c \in Commits :
          uniqId[c].count = Cardinality({x \in found : report[x].buggy = c})

\* A commit recorded as not compiling is never built again, not even by a
\* later process: setup_previous_compile_fail reads the file for every query.
NeverRebuilt == [][\A c \in failFile : build'[c] = build[c]]_vars

\* Every report is settled, or the tool died of an exception.
Settled == <>(todo = {} \/ pc = "died")

\* The search, seen as two bounds that close in on each other.
Bracket == INSTANCE CommitBracket WITH
  good    <- IF q = NoQuery THEN {} ELSE GoodFor(q),
  bad     <- IF q = NoQuery THEN {} ELSE BadFor(q),
  lo      <- IF pc \in {"search", "found"} THEN older ELSE 0,
  hi      <- IF pc \in {"idle", "died"} \/ newer = NoCommit
             THEN NumCommits + 1 ELSE newer,
  outcome <- IF pc \in {"found", "failed"} THEN pc ELSE "open"

BracketSpec == Bracket!Spec

\* Histories whose crashing tags cannot invert the bounds.  The tool is one
\* sequential process whose sub-processes end: sqlite3 has a timeout of three
\* seconds, and a build ends.
AnchoredInit == Init /\ (\A x \in Queries : CrashAnchored(x))
AnchoredSpec == AnchoredInit /\ [][Next]_vars /\ WF_vars(Work)

----------------------------------------------------------------------------
(* What the comments of the code say and the code does not do.             *)

\* "The latest correct commit" (bisecting.py:64) lies before "the oldest buggy
\* commit" (:62) in every report.
CorrectPrecedesBuggy ==
  \A x \in Queries : report[x].kind = "found" => report[x].corr < report[x].buggy
=============================================================================
