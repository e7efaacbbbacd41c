------------------------- MODULE SqliteBisectProofs -------------------------
(***************************************************************************)
(* Theorems about SqliteBisect, for every history, every set of tags, any  *)
(* number of queries and of restarts.                                      *)
(***************************************************************************)
EXTENDS SqliteBisect, FiniteSetTheorems, WellFoundedInduction, TLAPS

(* Every non-empty set of numbers has a smallest element.                   *)
LEMMA SmallestOf ==
  ASSUME NEW S, S \subseteq Nat, S # {}
  PROVE  \E m \in S : \A n \in S : m <= n
<1>1. PICK m \in S : \A n \in S : <<n, m>> \notin OpToRel(<, Nat)
  BY WFMin, NatLessThanWellFounded, Zenon
<1>2. \A n \in S : ~ (n < m)
  BY <1>1, Zenon DEF OpToRel
<1> QED
  BY <1>2

(* There is a newest tag below c whenever there is a tag below c.           *)
LEMMA TagBelowType ==
  ASSUME NEW c \in 1..(NumCommits + 1)
  PROVE  /\ TagBelow(c) \in Tags \cup {NoCommit}
         /\ TagBelow(c) = NoCommit <=> ~ \E t \in Tags : t < c
         /\ TagBelow(c) # NoCommit =>
              /\ TagBelow(c) < c
              /\ \A u \in Tags : u < c => u <= TagBelow(c)
<1>1. CASE ~ \E t \in Tags : t < c
  BY <1>1, BisectAssumption DEF TagBelow, NoCommit
<1>2. CASE \E t \in Tags : t < c
  <2> DEFINE below == {t \in Tags : t < c}
             gap   == {NumCommits - t : t \in below}
  <2>1. gap \in SUBSET Nat /\ gap # {}
    BY <1>2, BisectAssumption DEF Commits
  <2>2. PICK g \in gap : \A h \in gap : g <= h
    <3> HIDE DEF gap
    <3> QED BY <2>1, SmallestOf
  <2>3. PICK t \in below : g = NumCommits - t
    BY <2>2
  <2>4. \A u \in below : u <= t
    <3>1. SUFFICES ASSUME NEW u \in below
                   PROVE  u <= t
      OBVIOUS
    <3>2. g <= NumCommits - u
      BY <2>2
    <3> QED
      BY <3>2, <2>3, BisectAssumption DEF Commits
  <2>5. \E s \in Tags : s < c /\ \A u \in Tags : u < c => u <= s
    BY <2>4
  <2>6. TagBelow(c) = CHOOSE s \in Tags : s < c /\ \A u \in Tags : u < c => u <= s
    BY <1>2, Zenon DEF TagBelow
  <2>7. /\ TagBelow(c) \in Tags /\ TagBelow(c) < c
        /\ \A u \in Tags : u < c => u <= TagBelow(c)
    BY <2>5, <2>6, Zenon
  <2>8. TagBelow(c) # NoCommit
    BY <2>7, BisectAssumption DEF NoCommit, Commits
  <2> QED
    BY <1>2, <2>7, <2>8
<1> QED
  BY <1>1, <1>2

----------------------------------------------------------------------------
(* The inductive invariant: types, what is under examination in which       *)
(* phase, and the bounds of the binary search.                              *)
Attention ==
  /\ pc \in {"scan", "search", "found", "failed"} => q \in Queries
  /\ Examining => cur \in Commits
  /\ pc \in {"search", "found"} => newer \in Commits /\ older \in Commits

BoundsInv == TypeOK /\ Attention /\ SearchBounds

(* What a commit does becomes one of the results, or ends the tool; never a failed build. *)
LEMMA ClassifyType ==
  ASSUME NEW b \in Behaviour
  PROVE  /\ Classify(b) \in Result \/ Classify(b) = Exception
         /\ Classify(b) # "FAIL_TO_COMPILE"
BY DEF Behaviour, Classify, OfSingleRun, OfThreeRuns, Result, Exception

(* Halving between two commits examines a third one strictly between them.  *)
LEMMA HalveBounds ==
  ASSUME NEW n \in Commits, NEW o \in Commits, Halve(n, o),
         cur \in Commits \cup {NoCommit}
  PROVE  \/ pc' = "found" /\ cur' = cur /\ n - o <= 1
         \/ pc' = "search" /\ cur' \in Commits /\ o < cur' /\ cur' < n
BY BisectAssumption DEF Halve, Commits

(* The types and bounds hold when the tool starts. *)
LEMMA BoundsInit == Init => BoundsInv
BY BisectAssumption
   DEF Init, BoundsInv, TypeOK, Attention, SearchBounds, Examining, NoReport,
       Unassigned, NoCommit, Result, Commits

(* Every step keeps the invariant.                                          *)
LEMMA BoundsStep == BoundsInv /\ [Next]_vars => BoundsInv'
<1> SUFFICES ASSUME BoundsInv, [Next]_vars
             PROVE  BoundsInv'
  OBVIOUS
<1> USE BisectAssumption DEF BoundsInv, NoCommit
<1>1. ASSUME NEW x \in Queries, Start(x)
      PROVE  BoundsInv'
  <2>1. TagBelow(NumCommits + 1) \in Tags \cup {NoCommit}
    BY TagBelowType
  <2>2. Tags # {} => TagBelow(NumCommits + 1) # NoCommit
    <3>1. NumCommits + 1 \in 1..(NumCommits + 1) /\ \A t \in Tags : t < NumCommits + 1
      BY DEF Commits
    <3> QED
      BY <3>1, TagBelowType
  <2>3. TypeOK'
    BY <1>1, <2>1 DEF Start, TypeOK, disk, ledger, PreviousFailures, Result
  <2>4. Attention' /\ SearchBounds'
    BY <1>1, <2>1, <2>2 DEF Start, Attention, SearchBounds, Examining, TypeOK
  <2> QED
    BY <2>3, <2>4
<1>2. ASSUME SkipKnownFailure \/ RunCached \/ EndBuild \/ FailBuild
      PROVE  BoundsInv'
  <2>1. q \in Queries /\ cur \in Commits
    BY <1>2 DEF Attention, SkipKnownFailure, RunCached, EndBuild, FailBuild, Examining
  <2>2. history[q][cur] \in Behaviour
    BY <2>1 DEF TypeOK
  <2>3. Classify(history[q][cur]) \in Result \/ Classify(history[q][cur]) = Exception
    BY <2>2, ClassifyType
  <2>4. \/ rn' \in Result /\ step' = "decide" /\ pc' = pc
        \/ rn' = rn /\ step' = step /\ pc' = "died"
    BY <1>2, <2>3 DEF SkipKnownFailure, RunCached, EndBuild, FailBuild, Execute,
                      Decide, Result
  <2>5. UNCHANGED <<q, cur, newer, older, lastBuggy, failFile, failed, ledger,
                    oracle, history, broken, restarts>>
    BY <1>2 DEF SkipKnownFailure, RunCached, EndBuild, FailBuild, Execute, Decide, disk
  <2>6. build' \in [Commits -> {"absent", "partial", "binary"}]
    BY <1>2 DEF SkipKnownFailure, RunCached, EndBuild, FailBuild, disk, TypeOK
  <2>7. TypeOK'
    BY <2>4, <2>5, <2>6 DEF TypeOK, ledger
  <2>8. Attention' /\ SearchBounds'
    BY <2>4, <2>5 DEF Attention, SearchBounds, Examining
  <2> QED
    BY <2>7, <2>8
<1>3. ASSUME BeginBuild
      PROVE  BoundsInv'
  <2>1. TypeOK'
    BY <1>3 DEF BeginBuild, TypeOK, ledger
  <2>2. Attention' /\ SearchBounds'
    BY <1>3 DEF BeginBuild, Attention, SearchBounds, Examining
  <2> QED
    BY <2>1, <2>2
<1>4. ASSUME DecideTag \/ DecideCommit
      PROVE  BoundsInv'
  <2>1. q \in Queries /\ cur \in Commits
    BY <1>4 DEF Attention, DecideTag, DecideCommit, Examining
  <2>2. /\ newer' \in Commits \cup {NoCommit} /\ older' \in Commits \cup {NoCommit}
        /\ lastBuggy' \in Commits \cup {NoCommit}
        /\ (newer \in Commits => newer' \in Commits)
        /\ (older \in Commits => older' \in Commits)
    BY <1>4, <2>1 DEF DecideTag, DecideCommit, MoveBounds, TypeOK
  <2>3. failed' \in SUBSET Commits /\ failFile' \in SUBSET Commits
    BY <1>4, <2>1 DEF DecideTag, DecideCommit, RememberFailure, TypeOK
  <2>4. /\ step' = "probe"
        /\ UNCHANGED <<q, rn, oracle, history, broken, build, ledger, restarts>>
    BY <1>4 DEF DecideTag, DecideCommit
  <2>5. TagBelow(cur) \in Commits \cup {NoCommit}
    <3>1. cur \in 1..(NumCommits + 1) /\ Tags \subseteq Commits
      BY <2>1 DEF Commits
    <3> QED
      BY <3>1, TagBelowType
  <2>6. \/ pc' = "scan" /\ cur' \in Commits
        \/ pc' = "failed" /\ cur' \in Commits
        \/ newer' \in Commits /\ older' \in Commits /\ Halve(newer', older')
    <3>1. CASE DecideTag
      BY <3>1, <2>1, <2>2, <2>5 DEF DecideTag
    <3>2. CASE DecideCommit
      BY <3>2, <2>2 DEF DecideCommit, Attention
    <3> QED
      BY <1>4, <3>1, <3>2
  <2>7. \/ pc' \in {"scan", "failed"} /\ cur' \in Commits
        \/ /\ newer' \in Commits /\ older' \in Commits
           /\ \/ pc' = "found" /\ cur' = cur /\ newer' - older' <= 1
              \/ pc' = "search" /\ cur' \in Commits /\ older' < cur' /\ cur' < newer'
    BY <2>1, <2>6, HalveBounds
  <2>8. TypeOK'
    BY <2>1, <2>2, <2>3, <2>4, <2>7 DEF TypeOK, ledger
  <2>9. Attention' /\ SearchBounds'
    BY <2>1, <2>4, <2>7 DEF Attention, SearchBounds, Examining
  <2> QED
    BY <2>8, <2>9
<1>5. ASSUME CrossCompare \/ GiveUp
      PROVE  BoundsInv'
  <2>1. q \in Queries
    BY <1>5 DEF CrossCompare, GiveUp, Attention
  <2>2. /\ pc' = "idle" /\ q' = NoQuery /\ todo' \in SUBSET Queries
        /\ UNCHANGED <<step, cur, rn, newer, older, lastBuggy, oracle, history, broken,
                       disk, failed, restarts>>
    BY <1>5 DEF CrossCompare, GiveUp, EndQuery, TypeOK
  <2>3. /\ report' \in [Queries -> [kind : {"none", "found", "failed"},
                                  buggy : Commits \cup {NoCommit},
                                  corr : Commits \cup {NoCommit},
                                  evidence : Commits \cup {NoCommit},
                                  id : Nat \cup {-1}]]
        /\ uniqId' \in [Commits -> [id : Nat \cup {-1}, count : Nat]]
        /\ nextId' \in Nat
    <3>1. CASE CrossCompare
      <4>1. newer \in Commits
        BY <3>1 DEF CrossCompare, Attention
      <4>2. ReportId \in Nat \cup {-1}
        BY <4>1 DEF ReportId, TypeOK
      <4> QED
        BY <3>1, <4>1, <4>2, <2>1 DEF CrossCompare, TypeOK
    <3>2. CASE GiveUp
      BY <3>2, <2>1 DEF GiveUp, TypeOK
    <3> QED
      BY <1>5, <3>1, <3>2
  <2>4. TypeOK'
    BY <2>2, <2>3 DEF TypeOK, disk
  <2>5. Attention' /\ SearchBounds'
    BY <2>2 DEF Attention, SearchBounds, Examining
  <2> QED
    BY <2>4, <2>5
<1>6. ASSUME Restart
      PROVE  BoundsInv'
  <2>1. build' \in [Commits -> {"absent", "partial", "binary"}]
    BY <1>6 DEF Restart, TypeOK
  <2>2. TypeOK'
    BY <1>6, <2>1 DEF Restart, TypeOK, NoReport, Unassigned, Result
  <2>3. Attention' /\ SearchBounds'
    BY <1>6 DEF Restart, Attention, SearchBounds, Examining
  <2> QED
    BY <2>2, <2>3
<1>7. CASE UNCHANGED vars
  <2>1. TypeOK'
    BY <1>7 DEF vars, search, disk, ledger, TypeOK
  <2>2. Attention' /\ SearchBounds'
    BY <1>7 DEF vars, search, Attention, SearchBounds, Examining
  <2> QED
    BY <2>1, <2>2
<1> QED
  BY <1>1, <1>2, <1>3, <1>4, <1>5, <1>6, <1>7 DEF Next, Work, Examine

(* The variables keep their types, and the binary search examines commits   *)
(* strictly between its bounds until they are neighbours (bi_secting_commits *)
(* never leaves the release the tags narrowed it to).                       *)
THEOREM BoundsCorrect == Spec => [](TypeOK /\ SearchBounds)
<1>1. Spec => []BoundsInv
  BY BoundsInit, BoundsStep, PTL DEF Spec
<1>2. BoundsInv => TypeOK /\ SearchBounds
  BY DEF BoundsInv
<1> QED
  BY <1>1, <1>2, PTL

----------------------------------------------------------------------------
(* What the search knows.  The parts below use BoundsInv and are preserved  *)
(* together.                                                                *)

(* The copy of the list of failures in memory is the file while a commit is *)
(* examined, and it holds commits that do not compile; a build is under way *)
(* only for a commit that is not in it.                                     *)
FailuresInv ==
  /\ failFile \subseteq broken
  /\ Examining => failed = failFile
  /\ step = "build" => pc \in {"scan", "search", "died"} /\ cur \notin failFile

(* The result waiting to be acted on is that of the commit examined.        *)
ResultInv ==
  (Examining /\ step = "decide") =>
    IF rn = "FAIL_TO_COMPILE" THEN cur \in broken
    ELSE rn = Classify(history[q][cur])

(* The scan over the tags: every tag above the current one was examined, the *)
(* buggy bound is one of them and so is the correct bound, if it crashed.   *)
ScanInv ==
  pc = "scan" =>
    /\ cur \in Tags
    /\ newer # NoCommit => cur < newer /\ newer \in BadFor(q)
    /\ newer = NoCommit =>
         \A t \in Tags : t > cur => Classify(history[q][t]) # "FAIL"
    /\ older # NoCommit => older \in Tags /\ Classify(history[q][older]) = "SEG_FAULT"
    /\ older = NoCommit => \A t \in Tags : t > cur => t \in BadFor(q)

(* The search gave up: no tag from some tag on is known to be buggy, or all *)
(* tags count as buggy.                                                     *)
OneSided(x) ==
  \/ \E c \in Tags : \A t \in Tags : t >= c => Classify(history[x][t]) # "FAIL"
  \/ Tags \subseteq BadFor(x)

BracketInv ==
  /\ pc \in {"search", "found"} =>
       /\ older \in GoodFor(q) /\ newer \in BadFor(q)
       /\ CrashAnchored(q) => older < newer
  /\ pc = "failed" => OneSided(q)

(* The result strings kept are those of the buggy bound.                    *)
EvidenceInv ==
  (pc \in {"scan", "search", "found"} /\ newer # NoCommit /\ newer \notin broken) =>
    lastBuggy = newer

(* A report says what the search had found when it ended.                   *)
ReportInv ==
  \A x \in Queries :
    /\ report[x].kind = "found" =>
         /\ report[x].corr \in GoodFor(x) /\ report[x].buggy \in BadFor(x)
         /\ CrashAnchored(x) => report[x].buggy = report[x].corr + 1
         /\ report[x].buggy \notin broken => report[x].evidence = report[x].buggy
    /\ report[x].kind = "failed" => OneSided(x)

ReportedFound == {x \in Queries : report[x].kind = "found"}

(* cross_compare: an id belongs to one commit, all ids below uniq_bug_id_int *)
(* are taken, and a query that is still to be bisected has no report.       *)
LedgerInv ==
  /\ IsFiniteSet(ReportedFound)
  /\ \A x \in todo : report[x].kind = "none"
  /\ pc \in {"scan", "search", "found", "failed"} => q \in todo
  /\ \A c \in Commits :
       \/ uniqId[c] = Unassigned
       \/ uniqId[c].id \in 0..(nextId - 1) /\ uniqId[c].count > 0
  /\ \A c, d \in Commits :
       uniqId[c].id = uniqId[d].id => c = d \/ uniqId[c] = Unassigned
  /\ \A x \in ReportedFound :
       /\ report[x].buggy \in Commits
       /\ uniqId[report[x].buggy] # Unassigned
       /\ report[x].id = uniqId[report[x].buggy].id
  /\ \A i \in 0..(nextId - 1) : \E x \in ReportedFound : report[x].id = i
  /\ \A c \in Commits :
       uniqId[c].count = Cardinality({x \in ReportedFound : report[x].buggy = c})

SearchInv ==
  /\ BoundsInv /\ FailuresInv /\ ResultInv /\ ScanInv /\ BracketInv
  /\ EvidenceInv /\ ReportInv /\ LedgerInv

(* The environment does not change, and with it what a query makes of a     *)
(* commit.                                                                  *)
LEMMA Rigid ==
  ASSUME [Next]_vars
  PROVE  /\ UNCHANGED <<oracle, history, broken>>
         /\ \A b : Classify(b)' = Classify(b)
         /\ \A x : GoodFor(x)' = GoodFor(x)
         /\ \A x : BadFor(x)' = BadFor(x)
         /\ \A x : CrashAnchored(x)' = CrashAnchored(x)
         /\ \A x : OneSided(x)' = OneSided(x)
<1>1. UNCHANGED <<oracle, history, broken>>
  BY DEF Next, Work, Examine, vars, Start, SkipKnownFailure, RunCached, BeginBuild,
         EndBuild, FailBuild, DecideTag, DecideCommit, CrossCompare, GiveUp, EndQuery,
         Restart
<1>2. \A b : Classify(b)' = Classify(b)
  BY <1>1 DEF Classify
<1>3. \A x : GoodFor(x)' = GoodFor(x)
  BY <1>1, <1>2 DEF GoodFor
<1>4. \A x : BadFor(x)' = BadFor(x)
  BY <1>1, <1>2 DEF BadFor
<1>5. \A x : CrashAnchored(x)' = CrashAnchored(x)
  BY <1>1, <1>2, <1>4 DEF CrashAnchored
<1>6. \A x : OneSided(x)' = OneSided(x)
  BY <1>1, <1>2, <1>4 DEF OneSided
<1> QED
  BY <1>1, <1>2, <1>3, <1>4, <1>5, <1>6

(* What an examined commit says of itself.                                  *)
LEMMA ResultSays ==
  ASSUME BoundsInv, ResultInv, Examining, step = "decide"
  PROVE  /\ rn \in {"FAIL", "FAIL_TO_COMPILE"} => cur \in BadFor(q)
         /\ rn \notin {"FAIL", "FAIL_TO_COMPILE"} => cur \in GoodFor(q)
         /\ rn = "FAIL_TO_COMPILE" => cur \in broken
         /\ rn # "FAIL_TO_COMPILE" => rn = Classify(history[q][cur])
         /\ rn \notin Clean \cup {"FAIL", "FAIL_TO_COMPILE"} => rn = "SEG_FAULT"
<1>1. cur \in Commits /\ rn \in Result
  BY DEF BoundsInv, Attention, TypeOK
<1> QED
  BY <1>1 DEF ResultInv, BadFor, GoodFor, Clean, Result

(* An examination that ends leaves a result, or an exception ends the tool. *)
Decides == SkipKnownFailure \/ RunCached \/ EndBuild \/ FailBuild

(* Checking out, building or running a commit leaves search, files and ledger alone. *)
LEMMA DecidesEffect ==
  ASSUME BoundsInv, Decides
  PROVE  /\ Examining
         /\ UNCHANGED <<q, cur, newer, older, lastBuggy, failFile, failed, ledger, restarts>>
         /\ \/ pc' = pc /\ step' = "decide"
            \/ pc' = "died" /\ step' = step
BY DEF Decides, SkipKnownFailure, RunCached, EndBuild, FailBuild, Execute, Decide, disk

(* fail_compiled_commits.txt and its copy in memory hold commits that do not build only. *)
LEMMA FailuresStep ==
  ASSUME BoundsInv, BoundsInv', FailuresInv, ResultInv, [Next]_vars
  PROVE  FailuresInv'
<1> USE DEF FailuresInv
<1>0. UNCHANGED broken
  BY Rigid
<1>1. ASSUME NEW x \in Queries, Start(x)
      PROVE  FailuresInv'
  BY <1>0, <1>1 DEF Start, PreviousFailures, Examining, disk
<1>2. CASE Decides
  BY <1>0, <1>2, DecidesEffect DEF Examining
<1>3. CASE BeginBuild
  BY <1>0, <1>3 DEF BeginBuild, Examining
<1>4. CASE DecideTag \/ DecideCommit
  <2>1. Examining /\ step = "decide"
    BY <1>4 DEF DecideTag, DecideCommit, Examining
  <2>2. rn = "FAIL_TO_COMPILE" => cur \in broken
    BY <2>1, ResultSays
  <2>3. step' = "probe"
    BY <1>4 DEF DecideTag, DecideCommit
  <2>4. failed' = failFile' /\ failFile' \subseteq failFile \cup broken
    BY <1>4, <2>1, <2>2 DEF DecideTag, DecideCommit, RememberFailure
  <2> QED
    BY <1>0, <2>3, <2>4
<1>5. CASE CrossCompare \/ GiveUp
  BY <1>0, <1>5 DEF CrossCompare, GiveUp, EndQuery, Examining, disk
<1>6. CASE Restart
  BY <1>0, <1>6 DEF Restart, Examining
<1>7. CASE UNCHANGED vars
  BY <1>0, <1>7 DEF vars, search, disk, Examining
<1> QED
  BY <1>1, <1>2, <1>3, <1>4, <1>5, <1>6, <1>7 DEF Next, Work, Examine, Decides

(* The result at hand is that of the commit under examination. *)
LEMMA ResultStep ==
  ASSUME BoundsInv, FailuresInv, ResultInv, [Next]_vars
  PROVE  ResultInv'
<1> USE DEF ResultInv
<1>0. UNCHANGED <<history, broken>> /\ \A b : Classify(b)' = Classify(b)
  BY Rigid
<1>1. CASE Decides
  <2>1. Examining /\ q' = q /\ cur' = cur /\ cur \in Commits /\ q \in Queries
    BY <1>1, DecidesEffect DEF BoundsInv, Attention, Examining
  <2>2. history[q][cur] \in Behaviour
    BY <2>1 DEF BoundsInv, TypeOK
  <2>3. Classify(history[q][cur]) # "FAIL_TO_COMPILE"
    BY <2>2, ClassifyType
  <2>4. CASE SkipKnownFailure \/ FailBuild
    BY <1>0, <2>1, <2>4 DEF SkipKnownFailure, FailBuild, Decide, FailuresInv
  <2>5. CASE RunCached \/ EndBuild
    BY <1>0, <2>1, <2>3, <2>5 DEF RunCached, EndBuild, Execute, Decide, Examining
  <2> QED
    BY <1>1, <2>4, <2>5 DEF Decides
<1>2. CASE UNCHANGED vars
  BY <1>0, <1>2 DEF vars, search, Examining
<1>3. CASE BeginBuild \/ DecideTag \/ DecideCommit \/ (\E x \in Queries : Start(x))
           \/ CrossCompare \/ GiveUp \/ Restart
  <2>1. step' # "decide" \/ pc' = "idle"
    BY <1>3 DEF BeginBuild, DecideTag, DecideCommit, Start, CrossCompare, GiveUp,
                EndQuery, Restart
  <2> QED
    BY <2>1 DEF Examining
<1> QED
  BY <1>1, <1>2, <1>3 DEF Next, Work, Examine, Decides

(* What a decision does to the bounds.                                      *)
LEMMA MoveBoundsEffect ==
  ASSUME DecideTag \/ DecideCommit
  PROVE  /\ Examining /\ step = "decide"
         /\ q' = q /\ step' = "probe"
         /\ \/ rn \in {"FAIL", "FAIL_TO_COMPILE"} /\ newer' = cur /\ older' = older
            \/ rn \notin {"FAIL", "FAIL_TO_COMPILE"} /\ newer' = newer /\ older' = cur
         /\ lastBuggy' = IF rn = "FAIL" THEN cur ELSE lastBuggy
BY DEF DecideTag, DecideCommit, MoveBounds, Examining

(* The scan of the release tags: what was seen of the tags passed. *)
LEMMA ScanStep ==
  ASSUME BoundsInv, ResultInv, ScanInv, [Next]_vars
  PROVE  ScanInv'
<1> USE BisectAssumption DEF NoCommit
<1>0. /\ UNCHANGED history /\ \A b : Classify(b)' = Classify(b)
      /\ \A x : BadFor(x)' = BadFor(x)
  BY Rigid
<1>1. ASSUME NEW x \in Queries, Start(x)
      PROVE  ScanInv'
  <2>1. NumCommits + 1 \in 1..(NumCommits + 1) /\ \A t \in Tags : t < NumCommits + 1
    BY DEF Commits
  <2>2. Tags # {} => /\ TagBelow(NumCommits + 1) \in Tags
                     /\ \A t \in Tags : t <= TagBelow(NumCommits + 1)
    BY <2>1, TagBelowType
  <2>3. cur' = TagBelow(NumCommits + 1) /\ newer' = NoCommit /\ older' = NoCommit
        /\ (pc' = "scan" => Tags # {})
    BY <1>1 DEF Start
  <2>4. pc' = "scan" => cur' \in Tags /\ \A t \in Tags : ~ (t > cur')
    <3>1. \A t \in Tags : t \in Int
      BY DEF Commits
    <3>2. SUFFICES ASSUME pc' = "scan"
                   PROVE  cur' \in Tags /\ \A t \in Tags : ~ (t > cur')
      OBVIOUS
    <3>3. cur' \in Tags /\ \A t \in Tags : t <= cur'
      BY <2>2, <2>3, <3>2
    <3> QED
      BY <3>1, <3>3
  <2> QED
    BY <2>3, <2>4 DEF ScanInv
<1>2. ASSUME UNCHANGED <<q, cur, newer, older>>, pc' \in {pc, "idle", "died"}
      PROVE  ScanInv'
  BY <1>0, <1>2 DEF ScanInv
<1>3. CASE Decides
  BY <1>2, <1>3, DecidesEffect
<1>4. CASE BeginBuild
  BY <1>2, <1>4 DEF BeginBuild
<1>5. CASE DecideTag
  <2>0. SUFFICES ASSUME pc' = "scan"
                 PROVE  ScanInv'
    BY DEF ScanInv
  <2>1. pc = "scan" /\ cur \in Tags /\ cur \in Commits
    BY <1>5 DEF DecideTag, ScanInv
  <2>2. TagBelow(cur) # NoCommit /\ cur' = TagBelow(cur) /\ rn \notin Clean
    BY <1>5, <2>0 DEF DecideTag, Halve
  <2>3. /\ cur' \in Tags /\ cur' < cur
        /\ \A t \in Tags : t > cur' => t >= cur
    <3>1. cur \in 1..(NumCommits + 1)
      BY <2>1 DEF Commits
    <3>2. /\ cur' \in Tags /\ cur' < cur
          /\ \A t \in Tags : t < cur => t <= cur'
      BY <3>1, <2>2, TagBelowType
    <3> QED
      BY <3>2, <2>1 DEF Commits
  <2>4. /\ q' = q
        /\ rn \in {"FAIL", "FAIL_TO_COMPILE"} => cur \in BadFor(q)
        /\ rn # "FAIL_TO_COMPILE" => rn = Classify(history[q][cur])
        /\ rn \notin {"FAIL", "FAIL_TO_COMPILE"} => rn = "SEG_FAULT"
    BY <1>5, <2>2, MoveBoundsEffect, ResultSays
  <2>5. newer \in Commits \cup {NoCommit} /\ older \in Commits \cup {NoCommit}
    BY DEF BoundsInv, TypeOK
  <2>6. CASE rn \in {"FAIL", "FAIL_TO_COMPILE"} /\ newer' = cur /\ older' = older
    <3>1. newer' # NoCommit /\ cur' < newer' /\ newer' \in BadFor(q)
      BY <2>1, <2>3, <2>4, <2>6 DEF Commits
    <3>2. older' = NoCommit => \A t \in Tags : t > cur' => t \in BadFor(q)
      BY <2>1, <2>3, <2>4, <2>6 DEF ScanInv, Commits
    <3>3. older' # NoCommit =>
            older' \in Tags /\ Classify(history[q][older']) = "SEG_FAULT"
      BY <2>1, <2>6 DEF ScanInv
    <3> QED
      BY <1>0, <2>3, <2>4, <3>1, <3>2, <3>3 DEF ScanInv
  <2>7. CASE rn \notin {"FAIL", "FAIL_TO_COMPILE"} /\ newer' = newer /\ older' = cur
    <3>1. older' # NoCommit /\ older' \in Tags
          /\ Classify(history[q][older']) = "SEG_FAULT"
      BY <2>1, <2>4, <2>7 DEF Commits
    <3>2. newer' # NoCommit => cur' < newer' /\ newer' \in BadFor(q)
      <4>1. newer' # NoCommit => cur < newer /\ newer \in BadFor(q)
        BY <2>1, <2>7 DEF ScanInv
      <4> QED
        BY <4>1, <2>1, <2>3, <2>5, <2>7 DEF Commits
    <3>3. newer' = NoCommit =>
            \A t \in Tags : t > cur' => Classify(history[q][t]) # "FAIL"
      BY <2>1, <2>3, <2>4, <2>7 DEF ScanInv, Commits
    <3> QED
      BY <1>0, <2>3, <2>4, <3>1, <3>2, <3>3 DEF ScanInv
  <2> QED
    BY <1>5, <2>6, <2>7, MoveBoundsEffect
<1>6. CASE DecideCommit
  BY <1>6 DEF DecideCommit, Halve, ScanInv
<1>7. CASE CrossCompare \/ GiveUp \/ Restart
  BY <1>7 DEF CrossCompare, GiveUp, EndQuery, Restart, ScanInv
<1>8. CASE UNCHANGED vars
  BY <1>2, <1>8 DEF vars, search
<1> QED
  BY <1>1, <1>3, <1>4, <1>5, <1>6, <1>7, <1>8 DEF Next, Work, Examine, Decides

(* Only one tag has no tag below it.                                        *)
LEMMA OldestTag ==
  ASSUME NEW t \in Tags, NEW u \in Tags, TagBelow(t) = NoCommit, TagBelow(u) = NoCommit
  PROVE  t = u
<1>1. /\ t \in 1..(NumCommits + 1) /\ u \in 1..(NumCommits + 1)
      /\ t \in Int /\ u \in Int
  BY BisectAssumption DEF Commits
<1>2. ~ (u < t) /\ ~ (t < u)
  BY <1>1, TagBelowType
<1> QED
  BY <1>1, <1>2

(* The end of the scan, or a step of the halving.                           *)
LEMMA DecideBracket ==
  ASSUME BoundsInv, BoundsInv', ResultInv, ScanInv, BracketInv, DecideTag \/ DecideCommit,
         pc' \in {"search", "found"}
  PROVE  /\ older' \in GoodFor(q) /\ newer' \in BadFor(q)
         /\ CrashAnchored(q) => older' < newer'
         /\ pc = "search" => newer' <= newer /\ older <= older'
         /\ pc = "scan" => newer = NoCommit \/ newer' <= newer
<1> USE BisectAssumption DEF NoCommit
<1>1. /\ cur \in Commits /\ newer' \in Commits /\ older' \in Commits
      /\ newer \in Commits \cup {NoCommit} /\ older \in Commits \cup {NoCommit}
  BY MoveBoundsEffect DEF BoundsInv, Attention, TypeOK
<1>2. /\ rn \in {"FAIL", "FAIL_TO_COMPILE"} => cur \in BadFor(q)
      /\ rn \notin {"FAIL", "FAIL_TO_COMPILE"} => cur \in GoodFor(q)
  BY MoveBoundsEffect, ResultSays
<1>3. CASE DecideCommit
  <2>1. /\ older \in GoodFor(q) /\ newer \in BadFor(q)
        /\ pc = "search" /\ older < cur /\ cur < newer
        /\ newer \in Commits /\ older \in Commits
    BY <1>3 DEF DecideCommit, BracketInv, BoundsInv, SearchBounds, Attention
  <2>2. CASE newer' = cur /\ older' = older /\ rn \in {"FAIL", "FAIL_TO_COMPILE"}
    BY <1>1, <1>2, <2>1, <2>2 DEF Commits
  <2>3. CASE newer' = newer /\ older' = cur /\ rn \notin {"FAIL", "FAIL_TO_COMPILE"}
    BY <1>1, <1>2, <2>1, <2>3 DEF Commits
  <2> QED
    BY <1>3, <2>2, <2>3, MoveBoundsEffect
<1>4. CASE DecideTag
  <2>1. pc = "scan" /\ cur \in Tags /\ newer' # NoCommit /\ older' # NoCommit
    BY <1>4, <1>1 DEF DecideTag, ScanInv, Commits
  <2>2. CASE newer' = cur /\ older' = older /\ rn \in {"FAIL", "FAIL_TO_COMPILE"}
    <3>1. older \in Tags /\ Classify(history[q][older]) = "SEG_FAULT"
      BY <2>1, <2>2 DEF ScanInv
    <3>2. older' \in GoodFor(q) /\ newer' \in BadFor(q)
      BY <1>1, <1>2, <2>2, <3>1 DEF GoodFor
    <3>3. TagBelow(cur) = NoCommit
      BY <1>4, <2>2 DEF DecideTag, Clean
    <3>4. ~ CrashAnchored(q)
      <4>1. SUFFICES ASSUME CrashAnchored(q)
                     PROVE  FALSE
        OBVIOUS
      <4>2. PICK u \in Tags : TagBelow(u) = NoCommit /\ u \notin BadFor(q)
        BY <3>1, <4>1 DEF CrashAnchored
      <4>3. u = cur
        BY <2>1, <3>3, <4>2, OldestTag
      <4> QED
        BY <1>2, <2>2, <4>2, <4>3
    <3>5. newer = NoCommit \/ newer' <= newer
      BY <1>1, <2>1, <2>2 DEF ScanInv, Commits
    <3> QED
      BY <2>1, <3>2, <3>4, <3>5
  <2>3. CASE newer' = newer /\ older' = cur /\ rn \notin {"FAIL", "FAIL_TO_COMPILE"}
    <3>1. newer \in BadFor(q) /\ cur < newer
      BY <2>1, <2>3 DEF ScanInv
    <3> QED
      BY <1>1, <1>2, <2>1, <2>3, <3>1 DEF Commits
  <2> QED
    BY <1>4, <2>2, <2>3, MoveBoundsEffect
<1> QED
  BY <1>3, <1>4

(* A scan that fails saw one side only.                                     *)
LEMMA ScanFails ==
  ASSUME BoundsInv, ResultInv, ScanInv, DecideTag, pc' = "failed"
  PROVE  OneSided(q)
<1> USE BisectAssumption DEF NoCommit
<1>1. /\ pc = "scan" /\ cur \in Tags /\ cur \in Commits
      /\ newer \in Commits \cup {NoCommit} /\ older \in Commits \cup {NoCommit}
  BY DEF DecideTag, ScanInv, BoundsInv, TypeOK
<1>2. /\ rn \in {"FAIL", "FAIL_TO_COMPILE"} => cur \in BadFor(q)
      /\ rn # "FAIL_TO_COMPILE" => rn = Classify(history[q][cur])
  BY MoveBoundsEffect, ResultSays
<1>3. \A t \in Tags : t \in Int
  BY DEF Commits
<1>4. newer' = NoCommit \/ older' = NoCommit
  BY DEF DecideTag, Halve
<1>5. CASE newer' = cur /\ older' = older /\ rn \in {"FAIL", "FAIL_TO_COMPILE"}
  <2>1. older = NoCommit
    BY <1>1, <1>4, <1>5 DEF Commits
  <2>2. TagBelow(cur) = NoCommit
    BY <1>5 DEF DecideTag, Clean
  <2>3. \A t \in Tags : ~ (t < cur)
    <3>1. cur \in 1..(NumCommits + 1)
      BY <1>1 DEF Commits
    <3> QED
      BY <2>2, <3>1, TagBelowType
  <2>4. \A t \in Tags : t \in BadFor(q)
    BY <1>1, <1>2, <1>3, <1>5, <2>1, <2>3 DEF ScanInv
  <2> QED
    BY <2>4 DEF OneSided
<1>6. CASE newer' = newer /\ older' = cur /\ rn \notin {"FAIL", "FAIL_TO_COMPILE"}
  <2>1. newer = NoCommit
    BY <1>1, <1>4, <1>6 DEF Commits
  <2>2. \A t \in Tags : t >= cur => Classify(history[q][t]) # "FAIL"
    BY <1>1, <1>2, <1>3, <1>6, <2>1 DEF ScanInv
  <2> QED
    BY <1>1, <2>2 DEF OneSided
<1> QED
  BY <1>5, <1>6, MoveBoundsEffect

(* What was seen of the two bounds stays true of them. *)
LEMMA BracketInvStep ==
  ASSUME BoundsInv, BoundsInv', ResultInv, ScanInv, BracketInv, [Next]_vars
  PROVE  BracketInv'
<1>0. /\ \A x : GoodFor(x)' = GoodFor(x)
      /\ \A x : BadFor(x)' = BadFor(x)
      /\ \A x : CrashAnchored(x)' = CrashAnchored(x)
      /\ \A x : OneSided(x)' = OneSided(x)
  BY Rigid
<1>1. ASSUME NEW x \in Queries, Start(x)
      PROVE  BracketInv'
  <2>1. pc' = "scan" \/ (pc' = "failed" /\ Tags = {})
    BY <1>1 DEF Start
  <2>2. Tags = {} => OneSided(q')
    BY DEF OneSided
  <2> QED
    BY <1>0, <2>1, <2>2 DEF BracketInv
<1>2. ASSUME UNCHANGED <<q, newer, older>>, pc' \in {pc, "idle", "died"}
      PROVE  BracketInv'
  BY <1>0, <1>2 DEF BracketInv
<1>3. CASE Decides
  BY <1>2, <1>3, DecidesEffect
<1>4. CASE BeginBuild
  BY <1>2, <1>4 DEF BeginBuild
<1>5. CASE DecideTag \/ DecideCommit
  <2>1. q' = q
    BY <1>5, MoveBoundsEffect
  <2>2. pc' \in {"search", "found"} =>
          /\ older' \in GoodFor(q) /\ newer' \in BadFor(q)
          /\ CrashAnchored(q) => older' < newer'
    BY <1>5, DecideBracket
  <2>3. pc' = "failed" => OneSided(q)
    BY <1>5, ScanFails DEF DecideCommit, Halve
  <2> QED
    BY <1>0, <2>1, <2>2, <2>3 DEF BracketInv
<1>6. CASE CrossCompare \/ GiveUp \/ Restart
  BY <1>6 DEF CrossCompare, GiveUp, EndQuery, Restart, BracketInv
<1>7. CASE UNCHANGED vars
  BY <1>2, <1>7 DEF vars, search
<1> QED
  BY <1>1, <1>3, <1>4, <1>5, <1>6, <1>7 DEF Next, Work, Examine, Decides

(* The last buggy result is that of the newer bound. *)
LEMMA EvidenceStep ==
  ASSUME BoundsInv, ResultInv, EvidenceInv, [Next]_vars
  PROVE  EvidenceInv'
<1> USE DEF EvidenceInv
<1>0. UNCHANGED broken
  BY Rigid
<1>1. ASSUME NEW x \in Queries, Start(x)
      PROVE  EvidenceInv'
  BY <1>1 DEF Start
<1>2. ASSUME UNCHANGED <<newer, lastBuggy>>, pc' \in {pc, "idle", "died"}
      PROVE  EvidenceInv'
  BY <1>0, <1>2
<1>3. CASE Decides
  BY <1>2, <1>3, DecidesEffect
<1>4. CASE BeginBuild
  BY <1>2, <1>4 DEF BeginBuild
<1>5. CASE DecideTag \/ DecideCommit
  <2>1. rn = "FAIL_TO_COMPILE" => cur \in broken
    BY <1>5, MoveBoundsEffect, ResultSays
  <2>2. pc \in {"scan", "search"}
    BY <1>5 DEF DecideTag, DecideCommit
  <2> QED
    BY <1>0, <1>5, <2>1, <2>2, MoveBoundsEffect
<1>6. CASE CrossCompare \/ GiveUp \/ Restart
  BY <1>6 DEF CrossCompare, GiveUp, EndQuery, Restart
<1>7. CASE UNCHANGED vars
  BY <1>2, <1>7 DEF vars, search
<1> QED
  BY <1>1, <1>3, <1>4, <1>5, <1>6, <1>7 DEF Next, Work, Examine, Decides

(* A settled report names a pair of commits of which the search saw what it claims. *)
LEMMA ReportStep ==
  ASSUME BoundsInv, BracketInv, EvidenceInv, ReportInv, [Next]_vars
  PROVE  ReportInv'
<1>0. /\ UNCHANGED broken
      /\ \A x : GoodFor(x)' = GoodFor(x)
      /\ \A x : BadFor(x)' = BadFor(x)
      /\ \A x : CrashAnchored(x)' = CrashAnchored(x)
      /\ \A x : OneSided(x)' = OneSided(x)
  BY Rigid
<1>1. ASSUME UNCHANGED report
      PROVE  ReportInv'
  BY <1>0, <1>1 DEF ReportInv
<1>2. CASE Decides \/ BeginBuild \/ DecideTag \/ DecideCommit \/ \E x \in Queries : Start(x)
  <2>1. UNCHANGED report
    BY <1>2, DecidesEffect DEF BeginBuild, DecideTag, DecideCommit, Start, ledger
  <2> QED
    BY <1>1, <2>1
<1>3. CASE UNCHANGED vars
  BY <1>1, <1>3 DEF vars, ledger
<1>4. ASSUME NEW r, report' = [report EXCEPT ![q] = r],
             r.kind = "found" =>
               /\ r.corr \in GoodFor(q) /\ r.buggy \in BadFor(q)
               /\ CrashAnchored(q) => r.buggy = r.corr + 1
               /\ r.buggy \notin broken => r.evidence = r.buggy,
             r.kind = "failed" => OneSided(q)
      PROVE  ReportInv'
  <2>1. ASSUME NEW x \in Queries
        PROVE  report'[x] = IF x = q THEN r ELSE report[x]
    BY <1>4 DEF BoundsInv, TypeOK
  <2>2. ASSUME NEW x \in Queries, report'[x].kind = "found"
        PROVE  /\ report'[x].corr \in GoodFor(x) /\ report'[x].buggy \in BadFor(x)
               /\ CrashAnchored(x) => report'[x].buggy = report'[x].corr + 1
               /\ report'[x].buggy \notin broken => report'[x].evidence = report'[x].buggy
    BY <1>4, <2>1, <2>2 DEF ReportInv
  <2>3. ASSUME NEW x \in Queries, report'[x].kind = "failed"
        PROVE  OneSided(x)
    BY <1>4, <2>1, <2>3 DEF ReportInv
  <2> QED
    BY <1>0, <2>2, <2>3 DEF ReportInv
<1>5. CASE CrossCompare
  <2>1. pc = "found" /\ newer \in Commits /\ older \in Commits /\ newer - older <= 1
    BY <1>5 DEF CrossCompare, BoundsInv, Attention, SearchBounds
  <2>2. CrashAnchored(q) => newer = older + 1
    BY <2>1, BisectAssumption DEF BracketInv, Commits
  <2>3. newer # NoCommit
    BY <2>1 DEF Commits, NoCommit
  <2> DEFINE r == [kind |-> "found", buggy |-> newer, corr |-> older,
                   evidence |-> lastBuggy, id |-> ReportId]
  <2>4. report' = [report EXCEPT ![q] = r]
    BY <1>5 DEF CrossCompare
  <2>5. /\ r.corr \in GoodFor(q) /\ r.buggy \in BadFor(q)
        /\ CrashAnchored(q) => r.buggy = r.corr + 1
        /\ r.buggy \notin broken => r.evidence = r.buggy
        /\ r.kind = "found"
    BY <2>1, <2>2, <2>3 DEF BracketInv, EvidenceInv
  <2> HIDE DEF r
  <2> QED
    BY <1>4, <2>4, <2>5
<1>6. CASE GiveUp
  <2> DEFINE r == [kind |-> "failed", buggy |-> NoCommit,
                   corr |-> IF newer = NoCommit THEN cur ELSE NoCommit,
                   evidence |-> lastBuggy, id |-> -1]
  <2>1. report' = [report EXCEPT ![q] = r] /\ r.kind = "failed" /\ OneSided(q)
    BY <1>6 DEF GiveUp, BracketInv
  <2> HIDE DEF r
  <2> QED
    BY <1>4, <2>1
<1>7. CASE Restart
  BY <1>7 DEF Restart, NoReport, ReportInv
<1> QED
  BY <1>2, <1>3, <1>5, <1>6, <1>7 DEF Next, Work, Examine, Decides

(* The state of the ledger after a report is compared with earlier ones.    *)
LEMMA CrossCompareKeepsLedger ==
  ASSUME BoundsInv, LedgerInv, CrossCompare
  PROVE  LedgerInv'
<1>1. /\ pc = "found" /\ newer \in Commits /\ q \in todo /\ q \in Queries
      /\ nextId \in Nat /\ uniqId \in [Commits -> [id : Nat \cup {-1}, count : Nat]]
      /\ todo \subseteq Queries
  BY DEF CrossCompare, BoundsInv, Attention, TypeOK, LedgerInv
<1>2. \A x \in Queries : report'[x] =
        IF x = q THEN [kind |-> "found", buggy |-> newer, corr |-> older,
                       evidence |-> lastBuggy, id |-> ReportId]
                 ELSE report[x]
  BY <1>1 DEF CrossCompare, BoundsInv, TypeOK
<1>3. \A c \in Commits : uniqId'[c] =
        IF c = newer THEN [id |-> ReportId, count |-> uniqId[newer].count + 1]
                     ELSE uniqId[c]
  BY <1>1 DEF CrossCompare
<1>4. q \notin ReportedFound /\ ReportedFound' = ReportedFound \cup {q}
  BY <1>1, <1>2 DEF LedgerInv, ReportedFound
<1>5. /\ ReportId \in 0..(nextId' - 1) /\ nextId' \in Nat /\ nextId <= nextId'
      /\ uniqId[newer] # Unassigned =>
           ReportId = uniqId[newer].id /\ nextId' = nextId
      /\ uniqId[newer] = Unassigned => ReportId = nextId /\ nextId' = nextId + 1
  BY <1>1 DEF CrossCompare, ReportId, Duplicate, LedgerInv
<1>6. IsFiniteSet(ReportedFound')
  BY <1>4, FS_AddElement DEF LedgerInv
<1>7. \A x \in todo' : report'[x].kind = "none"
  BY <1>1, <1>2 DEF CrossCompare, EndQuery, LedgerInv
<1>8. pc' = "idle"
  BY DEF CrossCompare, EndQuery
<1>9. \A c \in Commits :
        \/ uniqId'[c] = Unassigned
        \/ uniqId'[c].id \in 0..(nextId' - 1) /\ uniqId'[c].count > 0
  <2>1. SUFFICES ASSUME NEW c \in Commits
                 PROVE  \/ uniqId'[c] = Unassigned
                        \/ uniqId'[c].id \in 0..(nextId' - 1) /\ uniqId'[c].count > 0
    OBVIOUS
  <2>2. CASE c = newer
    BY <1>1, <1>3, <1>5, <2>2
  <2>3. CASE c # newer
    <3>1. uniqId'[c] = uniqId[c]
      BY <1>3, <2>3
    <3>2. \/ uniqId[c] = Unassigned
          \/ uniqId[c].id \in 0..(nextId - 1) /\ uniqId[c].count > 0
      BY DEF LedgerInv
    <3> QED
      BY <1>1, <1>5, <3>1, <3>2
  <2> QED
    BY <2>2, <2>3
<1>10. \A c, d \in Commits :
         uniqId'[c].id = uniqId'[d].id => c = d \/ uniqId'[c] = Unassigned
  <2>1. \A c \in Commits : uniqId[c] # Unassigned => uniqId[c].id \in 0..(nextId - 1)
    BY DEF LedgerInv
  <2>2. \A c \in Commits \ {newer} : uniqId[c].id # ReportId \/ uniqId[c] = Unassigned
    BY <1>1, <1>5, <2>1 DEF LedgerInv
  <2>3. \A c \in Commits \ {newer} : uniqId[c].id # ReportId
    BY <1>1, <1>5, <2>2 DEF Unassigned
  <2> QED
    BY <1>1, <1>3, <2>3 DEF LedgerInv
<1>11. \A x \in ReportedFound' :
         /\ report'[x].buggy \in Commits
         /\ uniqId'[report'[x].buggy] # Unassigned
         /\ report'[x].id = uniqId'[report'[x].buggy].id
  <2>1. SUFFICES ASSUME NEW x \in ReportedFound'
                 PROVE  /\ report'[x].buggy \in Commits
                        /\ uniqId'[report'[x].buggy] # Unassigned
                        /\ report'[x].id = uniqId'[report'[x].buggy].id
    OBVIOUS
  <2>2. uniqId'[newer].id = ReportId /\ uniqId'[newer] # Unassigned
    BY <1>1, <1>3, <1>5 DEF Unassigned
  <2>3. CASE x = q
    BY <1>1, <1>2, <2>2, <2>3
  <2>4. CASE x # q
    <3>1. x \in ReportedFound /\ report'[x] = report[x]
      BY <1>2, <1>4, <2>4 DEF ReportedFound
    <3>2. /\ report[x].buggy \in Commits
          /\ uniqId[report[x].buggy] # Unassigned
          /\ report[x].id = uniqId[report[x].buggy].id
      BY <3>1 DEF LedgerInv
    <3>3. CASE report[x].buggy = newer
      BY <1>5, <2>2, <3>1, <3>2, <3>3
    <3>4. CASE report[x].buggy # newer
      BY <1>3, <3>1, <3>2, <3>4
    <3> QED
      BY <3>3, <3>4
  <2> QED
    BY <2>3, <2>4
<1>12. \A i \in 0..(nextId' - 1) : \E x \in ReportedFound' : report'[x].id = i
  <2>1. SUFFICES ASSUME NEW i \in 0..(nextId' - 1)
                 PROVE  \E x \in ReportedFound' : report'[x].id = i
    OBVIOUS
  <2>2. CASE i \in 0..(nextId - 1)
    <3>1. PICK x \in ReportedFound : report[x].id = i
      BY <2>2 DEF LedgerInv
    <3>2. x # q /\ x \in Queries /\ x \in ReportedFound'
      BY <1>4, <3>1 DEF ReportedFound
    <3> QED
      BY <1>2, <3>1, <3>2
  <2>3. CASE i \notin 0..(nextId - 1)
    <3>1. nextId' = nextId \/ (nextId' = nextId + 1 /\ ReportId = nextId)
      BY <1>5
    <3>2. i = ReportId
      BY <1>1, <2>3, <3>1
    <3> QED
      BY <1>1, <1>2, <1>4, <3>2
  <2> QED
    BY <2>2, <2>3
<1>13. \A c \in Commits :
         uniqId'[c].count = Cardinality({x \in ReportedFound' : report'[x].buggy = c})
  <2>1. SUFFICES ASSUME NEW c \in Commits
                 PROVE  uniqId'[c].count
                          = Cardinality({x \in ReportedFound' : report'[x].buggy = c})
    OBVIOUS
  <2> DEFINE before == {x \in ReportedFound : report[x].buggy = c}
             after  == {x \in ReportedFound' : report'[x].buggy = c}
  <2>2. uniqId[c].count = Cardinality(before)
    BY DEF LedgerInv
  <2>3. IsFiniteSet(before) /\ q \notin before
    BY <1>4, FS_Subset DEF LedgerInv
  <2>4. \A x \in ReportedFound : x # q /\ x \in Queries
    BY <1>4 DEF ReportedFound
  <2>5. CASE c = newer
    <3>1. after = before \cup {q}
      BY <1>1, <1>2, <1>4, <2>4, <2>5
    <3>2. Cardinality(before \cup {q}) = Cardinality(before) + 1
      BY <2>3, FS_AddElement
    <3>3. uniqId'[c].count = uniqId[c].count + 1
      BY <1>3, <2>5
    <3>4. uniqId'[c].count = Cardinality(after)
      <4> HIDE DEF before, after
      <4> QED
        BY <2>2, <3>1, <3>2, <3>3
    <3> QED
      BY <3>4
  <2>6. CASE c # newer
    <3>1. after = before
      BY <1>1, <1>2, <1>4, <2>4, <2>6
    <3> QED
      BY <1>3, <2>2, <2>6, <3>1
  <2> QED
    BY <2>5, <2>6
<1> QED
  BY <1>6, <1>7, <1>8, <1>9, <1>10, <1>11, <1>12, <1>13 DEF LedgerInv

(* The ledger of unique bugs has one number per accused commit. *)
LEMMA LedgerStep ==
  ASSUME BoundsInv, LedgerInv, [Next]_vars
  PROVE  LedgerInv'
<1>1. ASSUME UNCHANGED <<report, uniqId, nextId>>, todo' \subseteq todo,
             pc' \in {"scan", "search", "found", "failed"} => q' \in todo'
      PROVE  LedgerInv'
  <2>1. ReportedFound' = ReportedFound
    BY <1>1 DEF ReportedFound
  <2> QED
    BY <1>1, <2>1 DEF LedgerInv
<1>2. ASSUME NEW x \in Queries, Start(x)
      PROVE  LedgerInv'
  BY <1>1, <1>2 DEF Start, ledger
<1>3. CASE Decides
  BY <1>1, <1>3, DecidesEffect DEF Examining, ledger, LedgerInv
<1>4. CASE BeginBuild
  BY <1>1, <1>4 DEF BeginBuild, ledger, LedgerInv
<1>5. CASE DecideTag \/ DecideCommit
  BY <1>1, <1>5, MoveBoundsEffect DEF DecideTag, DecideCommit, ledger, LedgerInv
<1>6. CASE CrossCompare
  BY <1>6, CrossCompareKeepsLedger
<1>7. CASE GiveUp
  <2>1. /\ q \in todo /\ q \in Queries /\ todo' = todo \ {q} /\ pc' = "idle"
        /\ UNCHANGED <<uniqId, nextId>>
    BY <1>7 DEF GiveUp, EndQuery, LedgerInv, BoundsInv, Attention
  <2>2. /\ report'[q].kind = "failed"
        /\ \A x \in Queries : x # q => report'[x] = report[x]
    BY <1>7, <2>1 DEF GiveUp, BoundsInv, TypeOK
  <2>3. /\ ReportedFound' = ReportedFound
        /\ \A x \in ReportedFound : report'[x] = report[x]
    BY <2>1, <2>2 DEF ReportedFound, LedgerInv
  <2>4. \A x \in todo' : report'[x].kind = "none"
    BY <2>1, <2>2 DEF LedgerInv, BoundsInv, TypeOK
  <2>5. \A c \in Commits : {x \in ReportedFound' : report'[x].buggy = c}
                         = {x \in ReportedFound : report[x].buggy = c}
    BY <2>3
  <2>6. \A x \in ReportedFound' :
          /\ report'[x].buggy \in Commits
          /\ uniqId'[report'[x].buggy] # Unassigned
          /\ report'[x].id = uniqId'[report'[x].buggy].id
    BY <2>1, <2>3 DEF LedgerInv
  <2>7. \A i \in 0..(nextId' - 1) : \E x \in ReportedFound' : report'[x].id = i
    BY <2>1, <2>3 DEF LedgerInv
  <2> QED
    BY <2>1, <2>3, <2>4, <2>5, <2>6, <2>7 DEF LedgerInv
<1>8. CASE Restart
  <2>1. /\ report' = [x \in Queries |-> NoReport] /\ nextId' = 0 /\ pc' = "idle"
        /\ uniqId' = [c \in Commits |-> Unassigned] /\ todo' = Queries
    BY <1>8 DEF Restart
  <2>2. ReportedFound' = {}
    BY <2>1 DEF ReportedFound, NoReport
  <2>3. IsFiniteSet({}) /\ Cardinality({}) = 0
    BY FS_EmptySet
  <2>4. \A c \in Commits : uniqId'[c] = Unassigned /\ uniqId'[c].count = 0
    BY <2>1 DEF Unassigned
  <2>5. \A x \in todo' : report'[x].kind = "none"
    BY <2>1 DEF NoReport
  <2>6. \A c \in Commits : {x \in ReportedFound' : report'[x].buggy = c} = {}
    BY <2>2
  <2> QED
    BY <2>1, <2>2, <2>3, <2>4, <2>5, <2>6 DEF LedgerInv
<1>9. CASE UNCHANGED vars
  BY <1>1, <1>9 DEF vars, search, ledger, LedgerInv
<1> QED
  BY <1>2, <1>3, <1>4, <1>5, <1>6, <1>7, <1>8, <1>9 DEF Next, Work, Examine, Decides

(* All parts of the invariant hold when the tool starts. *)
LEMMA SearchInit == Init => SearchInv
<1> SUFFICES ASSUME Init PROVE SearchInv
  OBVIOUS
<1>1. BoundsInv
  BY BoundsInit
<1>2. /\ pc = "idle" /\ step = "probe" /\ failFile = {} /\ nextId = 0
      /\ report = [x \in Queries |-> NoReport] /\ todo = Queries
      /\ uniqId = [c \in Commits |-> Unassigned]
  BY DEF Init
<1>3. FailuresInv /\ ResultInv /\ ScanInv /\ BracketInv /\ EvidenceInv
  BY <1>2 DEF FailuresInv, ResultInv, ScanInv, BracketInv, EvidenceInv, Examining
<1>4. ReportInv
  BY <1>2 DEF ReportInv, NoReport
<1>5. LedgerInv
  <2>1. ReportedFound = {}
    BY <1>2 DEF ReportedFound, NoReport
  <2>2. IsFiniteSet({}) /\ Cardinality({}) = 0
    BY FS_EmptySet
  <2>3. \A c \in Commits : uniqId[c] = Unassigned /\ uniqId[c].count = 0
    BY <1>2 DEF Unassigned
  <2>4. \A x \in todo : report[x].kind = "none"
    BY <1>2 DEF NoReport
  <2>5. \A c \in Commits : {x \in ReportedFound : report[x].buggy = c} = {}
    BY <2>1
  <2> QED
    BY <1>2, <2>1, <2>2, <2>3, <2>4, <2>5 DEF LedgerInv
<1> QED
  BY <1>1, <1>3, <1>4, <1>5 DEF SearchInv

(* The invariant of the whole search.                                       *)
LEMMA SearchInvariance == Spec => []SearchInv
<1>1. SearchInv /\ [Next]_vars => SearchInv'
  <2> SUFFICES ASSUME SearchInv, [Next]_vars
               PROVE  SearchInv'
    OBVIOUS
  <2>1. /\ BoundsInv /\ FailuresInv /\ ResultInv /\ ScanInv /\ BracketInv
        /\ EvidenceInv /\ ReportInv /\ LedgerInv
    BY DEF SearchInv
  <2>2. BoundsInv'
    BY <2>1, BoundsStep
  <2>3. FailuresInv' /\ ResultInv' /\ ScanInv'
    BY <2>1, <2>2, FailuresStep, ResultStep, ScanStep
  <2>4. BracketInv' /\ EvidenceInv'
    BY <2>1, <2>2, BracketInvStep, EvidenceStep
  <2>5. ReportInv' /\ LedgerInv'
    BY <2>1, ReportStep, LedgerStep
  <2> QED
    BY <2>2, <2>3, <2>4, <2>5 DEF SearchInv
<1> QED
  BY <1>1, SearchInit, PTL DEF Spec

----------------------------------------------------------------------------
(* Each bound was seen on its own side, and the pair the search ends with   *)
(* is a buggy commit right after a correct one, whenever crashing tags are  *)
(* anchored (bi_secting_commits).                                           *)
THEOREM BracketIsSound == Spec => []BracketSound
<1>1. SearchInv => BracketSound
  <2> SUFFICES ASSUME SearchInv, pc \in {"search", "found"}, CrashAnchored(q)
               PROVE  /\ older \in GoodFor(q) /\ newer \in BadFor(q)
                      /\ older < newer
                      /\ pc = "found" => newer = older + 1
    BY DEF BracketSound
  <2>1. newer \in Int /\ older \in Int
    BY DEF SearchInv, BoundsInv, Attention, Commits
  <2> QED
    BY <2>1 DEF SearchInv, BoundsInv, SearchBounds, BracketInv
<1> QED
  BY <1>1, SearchInvariance, PTL

(* On a history that turns from correct to buggy once, the report names the *)
(* commit that turned it, and the search gives up only without a tag on     *)
(* each side (run_bisecting with bi_secting_commits).                       *)
THEOREM ExactOnMonotoneHistories == Spec => []ExactOnMonotone
<1>1. SearchInv => ExactOnMonotone
  <2> SUFFICES ASSUME SearchInv, NEW x \in Queries, NEW k \in Commits, broken = {},
                      \A c \in Commits : Classify(history[x][c]) \in
                                           IF c < k THEN Clean ELSE {"FAIL"}
               PROVE  /\ report[x].kind = "found" =>
                           report[x].buggy = k /\ report[x].corr = k - 1
                      /\ report[x].kind = "failed" =>
                           ~(\E t, u \in Tags : t < k /\ k <= u)
    BY DEF ExactOnMonotone
  <2>1. \A c \in Commits : c \in Int /\ Classify(history[x][c]) # "SEG_FAULT"
    BY DEF Clean, Commits
  <2>2. \A c \in GoodFor(x) : c \in Commits /\ c < k
    BY <2>1 DEF GoodFor, Clean
  <2>3. \A c \in BadFor(x) : c \in Commits /\ ~ (c < k)
    BY DEF BadFor, Clean
  <2>4. CrashAnchored(x)
    BY <2>1, BisectAssumption DEF CrashAnchored
  <2>5. ASSUME report[x].kind = "found"
        PROVE  report[x].buggy = k /\ report[x].corr = k - 1
    <3>1. /\ report[x].corr \in GoodFor(x) /\ report[x].buggy \in BadFor(x)
          /\ report[x].buggy = report[x].corr + 1
      BY <2>4, <2>5 DEF SearchInv, ReportInv
    <3> QED
      BY <2>1, <2>2, <2>3, <3>1
  <2>6. ASSUME report[x].kind = "failed"
        PROVE  ~(\E t, u \in Tags : t < k /\ k <= u)
    <3>1. SUFFICES ASSUME NEW t \in Tags, NEW u \in Tags, t < k, k <= u
                   PROVE  FALSE
      OBVIOUS
    <3>2. t \in Commits /\ u \in Commits /\ t \in Int /\ u \in Int /\ k \in Int
      BY <2>1, BisectAssumption
    <3>3. OneSided(x)
      BY <2>6 DEF SearchInv, ReportInv
    <3>4. CASE Tags \subseteq BadFor(x)
      BY <2>3, <3>1, <3>4
    <3>5. CASE \E c \in Tags : \A v \in Tags : v >= c => Classify(history[x][v]) # "FAIL"
      <4>1. PICK c \in Tags : \A v \in Tags : v >= c => Classify(history[x][v]) # "FAIL"
        BY <3>5
      <4>2. c \in Commits /\ c \in Int
        BY <2>1, BisectAssumption
      <4>3. c < k
        BY <4>1, <4>2, <3>2
      <4>4. u >= c /\ Classify(history[x][u]) = "FAIL"
        BY <3>1, <3>2, <4>2, <4>3
      <4> QED
        BY <4>1, <4>4
    <3> QED
      BY <3>3, <3>4, <3>5 DEF OneSided
  <2> QED
    BY <2>5, <2>6
<1> QED
  BY <1>1, SearchInvariance, PTL

(* The result strings of a report come from the commit it accuses, unless   *)
(* that one does not compile (last_buggy_res_l).                            *)
THEOREM EvidenceIsOfTheAccused == Spec => []EvidenceMatches
<1>1. SearchInv => EvidenceMatches
  BY DEF SearchInv, ReportInv, EvidenceMatches
<1> QED
  BY <1>1, SearchInvariance, PTL

(* cross_compare: reports share an id exactly if they share the commit, ids *)
(* are handed out without gaps and counts are the numbers of reports.       *)
THEOREM LedgerIsConsistent == Spec => []LedgerConsistent
<1>1. SearchInv => LedgerConsistent
  <2> SUFFICES ASSUME SearchInv
               PROVE  LedgerConsistent
    OBVIOUS
  <2>1. \A x \in ReportedFound : /\ report[x].buggy \in Commits
                                /\ uniqId[report[x].buggy] # Unassigned
                                /\ report[x].id = uniqId[report[x].buggy].id
    BY DEF SearchInv, LedgerInv
  <2>2. \A x, y \in ReportedFound :
          (report[x].id = report[y].id) <=> (report[x].buggy = report[y].buggy)
    BY <2>1 DEF SearchInv, LedgerInv
  <2>3. \A x \in ReportedFound : report[x].id \in 0..(nextId - 1)
    BY <2>1 DEF SearchInv, LedgerInv
  <2>4. {report[x].id : x \in ReportedFound} = 0..(nextId - 1)
    BY <2>3 DEF SearchInv, LedgerInv
  <2> QED
    BY <2>2, <2>4 DEF LedgerConsistent, ReportedFound, SearchInv, LedgerInv
<1> QED
  BY <1>1, SearchInvariance, PTL

(* A commit recorded as not compiling is never built again, not even by a   *)
(* later process (setup_previous_compile_fail).                             *)
THEOREM FailuresAreNotRebuilt == Spec => NeverRebuilt
<1>1. SearchInv /\ [Next]_vars => [\A c \in failFile : build'[c] = build[c]]_vars
  <2> SUFFICES ASSUME SearchInv, Next
               PROVE  \A c \in failFile : build'[c] = build[c]
    OBVIOUS
  <2>1. BoundsInv /\ FailuresInv /\ build \in [Commits -> {"absent", "partial", "binary"}]
        /\ failFile \subseteq Commits
    BY DEF SearchInv, BoundsInv, TypeOK
  <2>2. \/ UNCHANGED build
        \/ cur \notin failFile /\ \E b : build' = [build EXCEPT ![cur] = b]
    <3>1. CASE BeginBuild
      BY <2>1, <3>1 DEF BeginBuild, FailuresInv
    <3>2. CASE EndBuild \/ FailBuild
      BY <2>1, <3>2 DEF EndBuild, FailBuild, FailuresInv
    <3>3. CASE Restart
      BY <2>1, <3>3 DEF Restart, FailuresInv
    <3>4. CASE SkipKnownFailure \/ RunCached \/ DecideTag \/ DecideCommit \/ CrossCompare
               \/ GiveUp \/ \E x \in Queries : Start(x)
      BY <3>4 DEF SkipKnownFailure, RunCached, DecideTag, DecideCommit, CrossCompare,
                  GiveUp, EndQuery, Start, disk
    <3> QED
      BY <3>1, <3>2, <3>3, <3>4 DEF Next, Work, Examine
  <2> QED
    BY <2>1, <2>2
<1> QED
  BY <1>1, SearchInvariance, PTL DEF Spec, NeverRebuilt

----------------------------------------------------------------------------
(* The search as the abstract bracket: the expressions Bracket substitutes. *)
GoodNow == IF q = NoQuery THEN {} ELSE GoodFor(q)
BadNow  == IF q = NoQuery THEN {} ELSE BadFor(q)
Low     == IF pc \in {"search", "found"} THEN older ELSE 0
High    == IF pc \in {"idle", "died"} \/ newer = NoCommit THEN NumCommits + 1 ELSE newer
Outcome == IF pc \in {"found", "failed"} THEN pc ELSE "open"

Anchored == \A x \in Queries : CrashAnchored(x)

(* A step of CommitBracket, in these terms.                                 *)
Narrows ==
  /\ Outcome = "open"
  /\ Low <= Low' /\ Low' < High' /\ High' <= High
  /\ Low' = Low \/ Low' \in GoodNow
  /\ High' = High \/ High' \in BadNow
  /\ \/ Outcome' = "open"
     \/ Outcome' = "found" /\ Low' # 0 /\ High' # NumCommits + 1 /\ High' = Low' + 1
     \/ Outcome' = "failed" /\ (Low' = 0 \/ High' = NumCommits + 1)
  /\ UNCHANGED <<GoodNow, BadNow>>

Renews ==
  /\ GoodNow' \in SUBSET (1..NumCommits) /\ BadNow' \in SUBSET (1..NumCommits)
  /\ Low' = 0 /\ High' = NumCommits + 1 /\ Outcome' \in {"open", "failed"}

(* Bounds that lie next to each other.                                      *)
LEMMA NextTo ==
  \A n, o \in Int : o < n /\ n - o <= 1 => n = o + 1
OBVIOUS

(* A decision narrows the bracket: the bounds move inwards only.            *)
LEMMA DecisionNarrows ==
  ASSUME SearchInv, SearchInv', Anchored, DecideTag \/ DecideCommit, [Next]_vars
  PROVE  Narrows
<1> USE BisectAssumption DEF NoCommit
<1>1. /\ BoundsInv /\ BoundsInv' /\ ResultInv /\ ScanInv /\ BracketInv
      /\ ScanInv' /\ BracketInv' /\ pc \in {"scan", "search"}
      /\ pc' \in {"scan", "search", "found", "failed"}
  BY DEF SearchInv, DecideTag, DecideCommit, Halve
<1>2. /\ q \in Queries /\ q' = q /\ q # NoQuery /\ cur \in Commits
      /\ newer \in Commits \cup {NoCommit} /\ newer' \in Commits \cup {NoCommit}
      /\ older \in Commits \cup {NoCommit} /\ older' \in Commits \cup {NoCommit}
      /\ pc = "search" => newer \in Commits /\ older \in Commits
      /\ pc' \in {"search", "found"} => newer' \in Commits /\ older' \in Commits
  BY <1>1, MoveBoundsEffect DEF BoundsInv, Attention, TypeOK, Examining
<1>3. UNCHANGED <<GoodNow, BadNow>>
  BY <1>2, Rigid DEF GoodNow, BadNow
<1>4. GoodNow = GoodFor(q) /\ BadNow = BadFor(q)
  BY <1>2 DEF GoodNow, BadNow
<1>5. CASE pc' \in {"search", "found"}
  <2>1. /\ older' \in GoodFor(q) /\ newer' \in BadFor(q) /\ older' < newer'
        /\ pc = "search" => newer' <= newer /\ older <= older'
        /\ pc = "scan" => newer = NoCommit \/ newer' <= newer
    BY <1>1, <1>2, <1>5, DecideBracket DEF Anchored
  <2>2. Low' = older' /\ High' = newer' /\ newer' # NumCommits + 1 /\ older' # 0
    BY <1>2, <1>5 DEF Low, High, Commits
  <2>3. Low <= Low' /\ High' <= High
    <3>1. CASE pc = "search"
      BY <1>2, <2>1, <2>2, <3>1 DEF Low, High, Commits
    <3>2. CASE pc = "scan"
      BY <1>2, <1>5, <2>1, <2>2, <3>2 DEF Low, High, Commits
    <3> QED
      BY <1>1, <3>1, <3>2
  <2>4. pc' = "found" => newer' = older' + 1
    <3>1. newer' \in Int /\ older' \in Int
      BY <1>2, <1>5 DEF Commits
    <3>2. pc' = "found" => newer' - older' <= 1
      BY <1>1 DEF BoundsInv, SearchBounds
    <3>3. older' < newer'
      BY <2>1
    <3> QED
      BY <3>1, <3>2, <3>3, NextTo
  <2> QED
    BY <1>1, <1>3, <1>4, <1>5, <2>1, <2>2, <2>3, <2>4 DEF Narrows, Outcome
<1>6. CASE pc' \in {"scan", "failed"}
  <2>1. pc = "scan" /\ DecideTag
    BY <1>1, <1>6 DEF DecideTag, DecideCommit, Halve
  <2>2. Low = 0 /\ Low' = 0
    BY <1>6, <2>1 DEF Low
  <2>3. /\ High = IF newer = NoCommit THEN NumCommits + 1 ELSE newer
        /\ High' = IF newer' = NoCommit THEN NumCommits + 1 ELSE newer'
    BY <1>6, <2>1 DEF High
  <2>4. /\ newer' = newer \/ (newer' = cur /\ cur \in BadFor(q))
        /\ newer # NoCommit => cur < newer
    BY <1>1, <2>1, MoveBoundsEffect, ResultSays DEF ScanInv
  <2>5. Low' < High' /\ High' <= High /\ (High' = High \/ High' \in BadFor(q))
    BY <1>2, <2>2, <2>3, <2>4 DEF Commits
  <2> QED
    BY <1>3, <1>4, <1>6, <2>1, <2>2, <2>5 DEF Narrows, Outcome
<1> QED
  BY <1>1, <1>5, <1>6

(* Every step of the tool is a step of the bracket, or none.                *)
LEMMA BracketStep ==
  ASSUME SearchInv, SearchInv', Anchored, [Next]_vars
  PROVE  Narrows \/ Renews \/ UNCHANGED <<GoodNow, BadNow, Low, High, Outcome>>
<1>1. GoodNow' \in SUBSET (1..NumCommits) /\ BadNow' \in SUBSET (1..NumCommits)
  BY DEF GoodNow, BadNow, GoodFor, BadFor, SearchInv, BoundsInv, TypeOK, Commits
<1>2. ASSUME UNCHANGED <<q, pc, newer, older>>
      PROVE  UNCHANGED <<GoodNow, BadNow, Low, High, Outcome>>
  BY <1>2, Rigid DEF GoodNow, BadNow, Low, High, Outcome
<1>3. CASE UNCHANGED vars \/ BeginBuild
  BY <1>2, <1>3 DEF vars, search, BeginBuild
<1>4. CASE Decides
  <2>1. UNCHANGED <<q, newer, older>> /\ (pc' = pc \/ pc' = "died")
    BY <1>4, DecidesEffect DEF SearchInv
  <2>2. CASE pc' = "died"
    BY <1>1, <2>2 DEF Renews, Low, High, Outcome
  <2> QED
    BY <1>2, <2>1, <2>2
<1>5. CASE DecideTag \/ DecideCommit
  BY <1>5, DecisionNarrows
<1>6. CASE \E x \in Queries : Start(x)
  <2>1. newer' = NoCommit /\ pc' \in {"scan", "failed"}
    BY <1>6 DEF Start
  <2> QED
    BY <1>1, <2>1 DEF Renews, Low, High, Outcome
<1>7. CASE CrossCompare \/ GiveUp \/ Restart
  <2>1. pc' = "idle"
    BY <1>7 DEF CrossCompare, GiveUp, EndQuery, Restart
  <2> QED
    BY <1>1, <2>1 DEF Renews, Low, High, Outcome
<1> QED
  BY <1>3, <1>4, <1>5, <1>6, <1>7 DEF Next, Work, Examine, Decides

(* The search implements CommitBracket on histories whose crashing tags are *)
(* anchored: the bounds only move inwards, each to a commit seen on its own *)
(* side, and only neighbours are reported.                                  *)
THEOREM SqliteImplementsBracket == AnchoredSpec => BracketSpec
<1> USE DEF Low, High, Outcome, GoodNow, BadNow
<1>1. Init => Bracket!Init
  <2> SUFFICES ASSUME Init PROVE Bracket!Init
    OBVIOUS
  <2>1. q = NoQuery /\ pc = "idle"
    BY DEF Init
  <2> QED BY <2>1 DEF Bracket!Init, Bracket!Fresh, Bracket!Commits
<1>2. Anchored /\ [Next]_vars => Anchored'
  BY Rigid DEF Anchored
<1>3. SearchInv /\ SearchInv' /\ Anchored /\ [Next]_vars => [Bracket!Next]_(Bracket!bvars)
  <2> SUFFICES ASSUME SearchInv, SearchInv', Anchored, [Next]_vars
               PROVE  [Bracket!Next]_(Bracket!bvars)
    OBVIOUS
  <2>1. CASE Narrows
    BY <2>1 DEF Narrows, Bracket!Next, Bracket!Narrow
  <2>2. CASE Renews
    BY <2>2 DEF Renews, Bracket!Next, Bracket!NextReport, Bracket!Fresh, Bracket!Commits
  <2>3. CASE UNCHANGED <<GoodNow, BadNow, Low, High, Outcome>>
    BY <2>3 DEF Bracket!bvars
  <2> QED BY <2>1, <2>2, <2>3, BracketStep
<1>4. AnchoredSpec => []SearchInv
  BY SearchInvariance, PTL DEF AnchoredSpec, AnchoredInit, Spec
<1>5. AnchoredInit => Init /\ Anchored
  BY DEF AnchoredInit, Anchored
<1> QED BY <1>1, <1>2, <1>3, <1>4, <1>5, PTL DEF AnchoredSpec, BracketSpec, Bracket!Spec
=============================================================================
