---------------------------- MODULE MysqlBisect ----------------------------
(***************************************************************************)
(* The MySQL bisecting tool (MySQL/bisecting/bisecting): one process that  *)
(* takes the samples of the fuzzer in turn, splits each into its buggy     *)
(* selects, and halves a fixed list of commits for every select.  Commits  *)
(* are numbered as in sorted_commits.json, 0 the newest.  The two ends of  *)
(* the list are taken for buggy and correct without being examined.  To    *)
(* examine a commit the tool tells every mysqld to stop, restores the data *)
(* directory of the commit, starts its mysqld, waits two seconds and sends *)
(* the statements to the one socket all commits share, without asking      *)
(* which server answers.                                                   *)
(***************************************************************************)
EXTENDS Integers, FiniteSets

CONSTANTS
  NumCommits,   \* length of sorted_commits.json
  Samples,      \* the files of the fuzzer's bug reports
  NoSample,
  Queries,      \* the buggy selects in them
  NoQuery,
  SelectsOf,    \* the selects of each sample
  PatternsOf,   \* which bug patterns, numbered in the order tried, a select matches
  Worlds        \* the circumstances of one run of the tool, see World

Positions == 0..(NumCommits - 1)
Newest    == 0
Oldest    == NumCommits - 1
NoCommit  == -1

(* What a select and its rewriting do on a commit: their rows agree, they  *)
(* differ, one of the two has no rows at all, both are errors, or mysqld   *)
(* crashes.  Pairs with an empty side are dropped, and of no pairs all are *)
(* errors; the output of a crash is one without complete pairs.            *)
Behaviour == {"agree", "differ", "oneSided", "error", "crash"}
Result    == {"PASS", "FAIL", "ALL_ERROR"}
Verdict   == [agree |-> "PASS", differ |-> "FAIL", oneSided |-> "ALL_ERROR",
              error |-> "ALL_ERROR", crash |-> "ALL_ERROR"]

(* Whether each commit has its directory with binaries and data in it, an   *)
(* empty directory, or none; whether every mysqld is gone before the data   *)
(* of the next is restored, and that one up two seconds after its start;    *)
(* whether the tool runs with --non-deter.                                  *)
World == [history  : [Queries -> [Positions -> Behaviour]],
          install  : [Positions -> {"complete", "empty", "absent"}],
          timely   : BOOLEAN,
          nonDeter : BOOLEAN]

ASSUME MysqlBisectAssumption ==
  /\ NumCommits \in Nat /\ NumCommits >= 2
  /\ NoSample \notin Samples /\ NoQuery \notin Queries
  /\ SelectsOf \in [Samples -> SUBSET Queries]
  /\ \A s, t \in Samples : s # t => SelectsOf[s] \cap SelectsOf[t] = {}
  /\ PatternsOf \in [Queries -> SUBSET Nat]
  /\ Worlds \subseteq World

VARIABLES
  world,      \* the circumstances, the same for the whole run
  listener,   \* the commit whose mysqld accepts on the socket
  starting,   \* the commit whose mysqld is coming up
  closing,    \* commits whose mysqld was told to stop and is still there
  todo,       \* samples not yet taken
  sample,     \* the sample in hand
  rest,       \* its selects not yet bisected
  allUnique,  \* is_unique_commit of enter_bisecting_mode
  timed,      \* samples in time.txt
  q,          \* the select being bisected
  pc,         \* "idle", "pick", "stop", "restore", "launch", "ask", "found", "died"
  cur,        \* tmp_commit_index
  newer,      \* newer_commit_index
  older,      \* older_commit_index
  lastBuggy,  \* the commit whose mysqld produced last_buggy_res_l
  uniqueId,   \* all_unique_results_dict, -1 for a commit not in it
  checked,    \* the patterns whose is_bug_<n>_checked is set
  report      \* what start_bisect concluded about each select

servers == <<listener, starting, closing>>
samples == <<todo, sample, rest, allUnique, timed>>
search  == <<q, pc, cur, newer, older, lastBuggy>>
ledger  == <<uniqueId, checked, report>>
vars    == <<world, servers, samples, search, ledger>>

NoReport == [kind |-> "none", buggy |-> NoCommit, corr |-> NoCommit,
             evidence |-> NoCommit, id |-> -1, written |-> FALSE]

TypeOK ==
  /\ world \in World
  /\ listener \in Positions \cup {NoCommit}
  /\ starting \in Positions \cup {NoCommit}
  /\ closing \in SUBSET Positions
  /\ todo \in SUBSET Samples
  /\ sample \in Samples \cup {NoSample}
  /\ rest \in SUBSET Queries
  /\ allUnique \in BOOLEAN
  /\ timed \in SUBSET Samples
  /\ q \in Queries \cup {NoQuery}
  /\ pc \in {"idle", "pick", "stop", "restore", "launch", "ask", "found", "died"}
  /\ cur \in Positions
  /\ newer \in Positions
  /\ older \in Positions
  /\ lastBuggy \in Positions \cup {NoCommit}
  /\ uniqueId \in [Positions -> Nat \cup {-1}]
  /\ checked \in SUBSET Nat
  /\ report \in [Queries -> [kind : {"none", "found"}, buggy : Positions \cup {NoCommit},
                             corr : Positions \cup {NoCommit},
                             evidence : Positions \cup {NoCommit},
                             id : Nat \cup {-1}, written : BOOLEAN]]

\* A new process: setup_env has emptied the output directory.
Init ==
  /\ world \in Worlds
  /\ listener = NoCommit /\ starting = NoCommit /\ closing = {}
  /\ todo = Samples /\ sample = NoSample /\ rest = {}
  /\ allUnique = TRUE /\ timed = {}
  /\ q = NoQuery /\ pc = "idle" /\ cur = Newest
  /\ newer = Newest /\ older = Oldest /\ lastBuggy = NoCommit
  /\ uniqueId = [c \in Positions |-> -1]
  /\ checked = {}
  /\ report = [x \in Queries |-> NoReport]

----------------------------------------------------------------------------
(* enter_bisecting_mode: the samples, and the selects of each.              *)

BeginSample(s) ==
  /\ pc = "idle" /\ sample = NoSample /\ s \in todo
  /\ sample' = s
  /\ rest' = SelectsOf[s]
  /\ allUnique' = TRUE
  /\ UNCHANGED <<todo, timed, world, servers, search, ledger>>

\* The time of a sample is logged if every select of it was a new bug.
EndSample ==
  /\ pc = "idle" /\ sample # NoSample /\ rest = {}
  /\ timed' = IF allUnique THEN timed \cup {sample} ELSE timed
  /\ todo' = todo \ {sample}
  /\ sample' = NoSample
  /\ UNCHANGED <<rest, allUnique, world, servers, search, ledger>>

BeginSelect(x) ==
  /\ pc = "idle" /\ x \in rest
  /\ q' = x /\ pc' = "pick"
  /\ newer' = Newest /\ older' = Oldest /\ lastBuggy' = NoCommit
  /\ UNCHANGED <<cur, world, servers, samples, ledger>>

----------------------------------------------------------------------------
(* bi_secting_commits.                                                      *)

\* mutant: the loop ends with a commit left between the bounds
NeighboursEarly == older - newer <= 2
\* mutant: the loop goes on when the bounds are neighbours
NeighboursLate  == older - newer <= 0
Neighbours      == older - newer <= 1

PickCommit ==
  /\ pc = "pick"
  /\ IF Neighbours
     THEN pc' = "found" /\ cur' = cur
     ELSE pc' = "stop" /\ cur' = (newer + older) \div 2
  /\ UNCHANGED <<q, newer, older, lastBuggy, world, servers, samples, ledger>>

Goto(label) == pc' = label /\ UNCHANGED <<q, cur, newer, older, lastBuggy>>

(* start_mysqld_server: pkill returns at once.                              *)
StopServers ==
  /\ pc = "stop"
  /\ closing' = closing \cup ({listener, starting} \ {NoCommit})
  /\ starting' = NoCommit
  /\ Goto("restore")
  /\ UNCHANGED <<listener, world, samples, ledger>>

\* If files reappear in the directory because the last mysqld of this commit
\* is still running, rmtree fails, and may fail again after a second pkill.
RestoreData ==
  /\ pc = "restore"
  /\ world.timely => closing = {}
  /\ \/ Goto("launch")
     \/ cur \in closing /\ Goto("died")
  /\ UNCHANGED <<world, servers, samples, ledger>>

\* Popen raises an exception if the directory of the commit is missing.
LaunchServer ==
  /\ pc = "launch"
  /\ starting' = IF world.install[cur] = "complete" THEN cur ELSE NoCommit
  /\ Goto(IF world.install[cur] = "absent" THEN "died" ELSE "ask")
  /\ UNCHANGED <<listener, closing, world, samples, ledger>>

\* Without a server every statement fails and there is no output.
Answer == IF listener = NoCommit THEN "error" ELSE world.history[q][listener]

\* mutant: last_buggy_res_l keeps the first result seen
MoveBoundsFirst(result) ==
  /\ newer' = IF result = "FAIL" THEN cur ELSE newer
  /\ older' = IF result = "FAIL" THEN older ELSE cur
  /\ lastBuggy' = IF result = "FAIL" /\ lastBuggy = NoCommit THEN listener ELSE lastBuggy

MoveBounds(result) ==
  /\ newer' = IF result = "FAIL" THEN cur ELSE newer
  /\ older' = IF result = "FAIL" THEN older ELSE cur
  /\ lastBuggy' = IF result = "FAIL" THEN listener ELSE lastBuggy

\* The two seconds are over: whichever server answers, its results decide.
AskServer ==
  /\ pc = "ask"
  /\ world.timely => starting = NoCommit
  /\ MoveBounds(Verdict[Answer])
  /\ IF Answer = "crash"
     THEN listener' = NoCommit /\ closing' = closing \ {listener}
     ELSE UNCHANGED <<listener, closing>>
  /\ pc' = "pick"
  /\ UNCHANGED <<q, cur, starting, world, samples, ledger>>

----------------------------------------------------------------------------
(* start_bisect: the commit is registered, then the bug file is written.    *)

Registered == {c \in Positions : uniqueId[c] # -1}

\* mutant: the largest id in use is handed out again
ValidUniqIdSame == IF Registered = {} THEN 0
                   ELSE CHOOSE v \in {uniqueId[c] : c \in Registered} :
                          \A c \in Registered : uniqueId[c] <= v

ValidUniqId == IF Registered = {} THEN 0
               ELSE 1 + CHOOSE v \in {uniqueId[c] : c \in Registered} :
                          \A c \in Registered : uniqueId[c] <= v

\* Patterns are looked for in the select that misbehaved, as reported; a
\* report without evidence does not show it.
Matching == IF lastBuggy = NoCommit THEN {} ELSE PatternsOf[q] \ checked

CrossCompare ==
  /\ pc = "found"
  /\ LET isUnique == newer \notin Registered
         id       == IF isUnique THEN ValidUniqId ELSE uniqueId[newer]
         first    == {p \in Matching : \A r \in Matching : p <= r}
         written  == isUnique /\ (first # {} \/ world.nonDeter)
     IN /\ uniqueId' = [uniqueId EXCEPT ![newer] = id]
        /\ checked' = IF isUnique THEN checked \cup first ELSE checked
        /\ report' = [report EXCEPT ![q] =
             [kind |-> "found", buggy |-> newer, corr |-> older,
              evidence |-> lastBuggy, id |-> id, written |-> written]]
        /\ allUnique' = (allUnique /\ written)
  /\ rest' = rest \ {q}
  /\ q' = NoQuery /\ pc' = "idle"
  /\ UNCHANGED <<cur, newer, older, lastBuggy, todo, sample, timed, world, servers>>

----------------------------------------------------------------------------
(* The mysqld processes.                                                    *)

\* One that was told to stop stops listening some time before it is gone.
StopsListening ==
  /\ listener \in closing
  /\ listener' = NoCommit
  /\ UNCHANGED <<starting, closing>>

Exits(c) ==
  /\ c \in closing
  /\ closing' = closing \ {c}
  /\ listener' = IF listener = c THEN NoCommit ELSE listener
  /\ UNCHANGED starting

\* A new one aborts if another still has the socket.
ComesUp ==
  /\ starting # NoCommit /\ starting \notin closing
  /\ listener' = IF listener = NoCommit THEN starting ELSE listener
  /\ starting' = NoCommit
  /\ UNCHANGED closing

ServerStep ==
  /\ StopsListening \/ ComesUp \/ \E c \in Positions : Exits(c)
  /\ UNCHANGED <<world, samples, search, ledger>>

Work ==
  \/ \E s \in Samples : BeginSample(s)
  \/ EndSample
  \/ \E x \in Queries : BeginSelect(x)
  \/ PickCommit
  \/ StopServers \/ RestoreData \/ LaunchServer \/ AskServer
  \/ CrossCompare

Next == Work \/ ServerStep

\* The tool is sequential and everything it calls has a timeout or returns; a
\* mysqld ends after SIGTERM and comes up, or aborts, after its start.
Spec == Init /\ [][Next]_vars /\ WF_vars(Work) /\ WF_vars(ServerStep)

----------------------------------------------------------------------------
(* Correctness.                                                             *)

\* Buggy, and with a server to show it.
Buggy(x, c) == world.history[x][c] = "differ" /\ world.install[c] = "complete"

\* If every mysqld comes and goes in time, a report names two neighbours and
\* its result strings are those of the accused commit, or there are none and
\* the accused commit is the newest, which is never run; and on a history that
\* turns from correct to buggy once the accused commit is the oldest buggy one,
\* within the range the two assumed ends leave.
ReportsAreRight ==
  \A x \in Queries : LET r == report[x] IN
    (world.timely /\ r.kind = "found") =>
      /\ r.corr = r.buggy + 1
      /\ r.evidence = r.buggy \/ (r.evidence = NoCommit /\ r.buggy = Newest)
      /\ \A k \in 0..NumCommits :
           (\A c \in Positions : Buggy(x, c) <=> c < k) =>
             r.buggy = IF k = 0 THEN Newest
                       ELSE IF k = NumCommits THEN Oldest - 1 ELSE k - 1

\* all_unique_results_dict and what is written from it: the ids are 0, 1, ...
\* without gaps, one per accused commit; a bug file is written for the first
\* report of a commit or never; with --non-deter every accused commit has one,
\* without it each file accounts for one pattern; and time.txt names the
\* finished samples all of whose selects have a file.
LedgerConsistent ==
  LET found   == {x \in Queries : report[x].kind = "found"}
      written == {x \in found : report[x].written}
  IN /\ \A x, y \in found :
          (report[x].id = report[y].id) <=> (report[x].buggy = report[y].buggy)
     /\ {report[x].id : x \in found} = 0..(Cardinality(Registered) - 1)
     /\ \A x, y \in written : report[x].id = report[y].id => x = y
     /\ world.nonDeter => {report[x].id : x \in written} = {report[x].id : x \in found}
     /\ ~world.nonDeter => Cardinality(written) = Cardinality(checked)
     /\ timed = {s \in Samples \ todo : SelectsOf[s] \subseteq written}

\* All samples are dealt with; only a mysqld that lingers or a commit without a
\* directory can end the tool before.
Settled ==
  <>(\/ todo = {}
     \/ /\ pc = "died"
        /\ ~world.timely \/ \E c \in Positions : world.install[c] = "absent")

\* The search, seen as two bounds that close in on each other.  Position 0 is
\* the last commit there.  An end of the list is a bound not yet known until
\* the search stops, when it counts as seen; and without servers that come and
\* go in time every commit may be taken for correct or for buggy.
Pos(c) == NumCommits - c

GoodFor(x) == IF world.timely
              THEN {Pos(c) : c \in {d \in Positions : ~Buggy(x, d)} \cup {Oldest}}
              ELSE 1..NumCommits
BadFor(x)  == IF world.timely
              THEN {Pos(c) : c \in {d \in Positions : Buggy(x, d)} \cup {Newest}}
              ELSE 1..NumCommits

Bracket == INSTANCE CommitBracket WITH
  good    <- IF q = NoQuery THEN {} ELSE GoodFor(q),
  bad     <- IF q = NoQuery THEN {} ELSE BadFor(q),
  lo      <- IF pc = "idle" \/ (pc # "found" /\ older = Oldest) THEN 0 ELSE Pos(older),
  hi      <- IF pc = "idle" \/ (pc # "found" /\ newer = Newest)
             THEN NumCommits + 1 ELSE Pos(newer),
  outcome <- IF pc = "found" THEN "found" ELSE "open"

BracketSpec == Bracket!Spec
=============================================================================
