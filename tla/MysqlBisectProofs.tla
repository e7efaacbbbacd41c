------------------------- MODULE MysqlBisectProofs --------------------------
(***************************************************************************)
(* Theorems about MysqlBisect, for every list of commits, every set of     *)
(* samples and selects, every history, and servers in time or late.        *)
(***************************************************************************)
EXTENDS MysqlBisect, FiniteSetTheorems, TLAPS

Probing   == pc \in {"stop", "restore", "launch", "ask"}
Searching == Probing \/ pc \in {"pick", "found"}

(* Why the two bounds stand for a buggy and a correct commit.               *)
TakenBuggy(c)   == world.timely => Buggy(q, c) \/ c = Newest
TakenCorrect(c) == world.timely => ~Buggy(q, c) \/ c = Oldest

SearchInv ==
  /\ pc = "idle" => q = NoQuery
  /\ pc \in {"idle", "died"} \/ Searching
  /\ Searching => /\ q \in Queries
                  /\ newer < older
                  /\ TakenBuggy(newer) /\ TakenCorrect(older)
  /\ Probing => newer < cur /\ cur < older
  /\ pc = "found" => older = newer + 1

(* Servers in time: when the statements are sent, the mysqld of the commit  *)
(* under examination answers, or none does because it has none.             *)
ServerInv ==
  world.timely =>
    /\ pc # "restore" => closing = {}
    /\ pc # "ask" => starting = NoCommit
    /\ pc = "restore" => listener \in closing \cup {NoCommit}
    /\ pc = "launch" => listener = NoCommit
    /\ pc = "ask" =>
         IF world.install[cur] = "complete"
         THEN \/ listener = NoCommit /\ starting = cur
              \/ listener = cur /\ starting = NoCommit
         ELSE listener = NoCommit /\ starting = NoCommit

EvidenceInv ==
  (world.timely /\ Searching) =>
    lastBuggy = newer \/ (lastBuggy = NoCommit /\ newer = Newest)

(* The largest id is one of a registered commit.                            *)
IdInv ==
  Registered # {} =>
    \E c \in Registered : \A d \in Registered : uniqueId[d] <= uniqueId[c]

MysqlInv == TypeOK /\ SearchInv /\ ServerInv /\ EvidenceInv /\ IdInv

(* A new process: no server, no sample taken.                               *)
LEMMA MysqlInit == Init => MysqlInv
<1> SUFFICES ASSUME Init PROVE MysqlInv
  OBVIOUS
<1> USE MysqlBisectAssumption DEF Init, NoCommit, Newest, Oldest, Positions
<1>1. TypeOK BY DEF TypeOK, NoReport
<1>2. SearchInv BY DEF SearchInv, Searching, Probing
<1>3. ServerInv BY DEF ServerInv
<1>4. EvidenceInv BY DEF EvidenceInv, Searching, Probing
<1>5. IdInv BY DEF IdInv, Registered
<1> QED BY <1>1, <1>2, <1>3, <1>4, <1>5 DEF MysqlInv

(* get_valid_uniq_id: larger than every id handed out so far.               *)
LEMMA ValidUniqIdIsNew ==
  ASSUME TypeOK, IdInv
  PROVE  /\ ValidUniqId \in Nat
         /\ \A c \in Registered : uniqueId[c] < ValidUniqId
<1> DEFINE ids == {uniqueId[c] : c \in Registered}
<1>1. CASE Registered = {}
  BY <1>1 DEF ValidUniqId
<1>2. CASE Registered # {}
  <2>1. PICK c \in Registered : \A d \in Registered : uniqueId[d] <= uniqueId[c]
    BY <1>2 DEF IdInv
  <2>2. \E v \in ids : \A d \in Registered : uniqueId[d] <= v
    BY <2>1
  <2> DEFINE top == CHOOSE v \in ids : \A d \in Registered : uniqueId[d] <= v
  <2>3. top \in ids /\ \A d \in Registered : uniqueId[d] <= top
    BY <2>2, Zenon
  <2>4. ids \subseteq Nat
    BY DEF TypeOK, Registered
  <2>5. ValidUniqId = 1 + top
    BY <1>2 DEF ValidUniqId
  <2> HIDE DEF top, ids
  <2>6. \A d \in Registered : uniqueId[d] \in Nat
    BY DEF TypeOK, Registered
  <2> QED BY <2>3, <2>4, <2>5, <2>6
<1> QED BY <1>1, <1>2

----------------------------------------------------------------------------
(* Every action keeps the invariant.                                        *)

(* Taking a sample or a select, and ending a sample.                        *)
LEMMA SamplesKeep ==
  ASSUME MysqlInv,
         \/ \E s \in Samples : BeginSample(s)
         \/ EndSample
         \/ \E x \in Queries : BeginSelect(x)
  PROVE  MysqlInv'
<1> USE MysqlBisectAssumption DEF MysqlInv, NoCommit, Newest, Oldest, Positions
<1>1. CASE \E s \in Samples : BeginSample(s)
  <2>1. PICK s \in Samples : BeginSample(s) BY <1>1
  <2>2. UNCHANGED <<world, servers, search, ledger>> BY <2>1 DEF BeginSample
  <2>3. TypeOK' BY <2>1, <2>2 DEF BeginSample, TypeOK, servers, search, ledger
  <2> QED BY <2>2, <2>3 DEF SearchInv, ServerInv, EvidenceInv, IdInv, Searching, Probing,
            TakenBuggy, TakenCorrect, Buggy, Registered, servers, search, ledger
<1>2. CASE EndSample
  <2>1. UNCHANGED <<world, servers, search, ledger>> BY <1>2 DEF EndSample
  <2>2. TypeOK' BY <1>2, <2>1 DEF EndSample, TypeOK, servers, search, ledger
  <2> QED BY <2>1, <2>2 DEF SearchInv, ServerInv, EvidenceInv, IdInv, Searching, Probing,
            TakenBuggy, TakenCorrect, Buggy, Registered, servers, search, ledger
<1>3. CASE \E x \in Queries : BeginSelect(x)
  <2>1. PICK x \in Queries : BeginSelect(x) BY <1>3
  <2> USE <2>1 DEF BeginSelect
  <2>2. UNCHANGED <<world, servers, samples, ledger>> OBVIOUS
  <2>3. TypeOK' BY <2>2 DEF TypeOK, servers, samples, ledger
  <2>4. SearchInv' BY <2>2 DEF SearchInv, Searching, Probing, TakenBuggy, TakenCorrect
  <2>5. ServerInv' BY <2>2 DEF ServerInv, servers
  <2>6. EvidenceInv' BY DEF EvidenceInv
  <2>7. IdInv' BY <2>2 DEF IdInv, Registered, ledger
  <2> QED BY <2>3, <2>4, <2>5, <2>6, <2>7
<1> QED BY <1>1, <1>2, <1>3

(* Halving examines a commit strictly between the bounds.                   *)
LEMMA PickKeeps ==
  ASSUME MysqlInv, PickCommit
  PROVE  MysqlInv'
<1> USE MysqlBisectAssumption DEF MysqlInv, NoCommit, Newest, Oldest, Positions, PickCommit
<1>1. newer \in Positions /\ older \in Positions /\ newer < older
  BY DEF SearchInv, Searching, TypeOK
<1>2. UNCHANGED <<world, servers, samples, ledger, q, newer, older, lastBuggy>>
  OBVIOUS
<1>3. \/ pc' = "found" /\ cur' = cur /\ older = newer + 1
      \/ pc' = "stop" /\ newer < cur' /\ cur' < older /\ cur' \in Positions
  BY <1>1 DEF Neighbours
<1>4. TypeOK' BY <1>2, <1>3 DEF TypeOK, servers, samples, ledger
<1>5. SearchInv'
  BY <1>2, <1>3 DEF SearchInv, Searching, Probing, TakenBuggy, TakenCorrect, Buggy
<1>6. ServerInv' BY <1>2, <1>3 DEF ServerInv, servers
<1>7. EvidenceInv' BY <1>2, <1>3 DEF EvidenceInv, Searching, Probing
<1>8. IdInv' BY <1>2 DEF IdInv, Registered, ledger
<1> QED BY <1>4, <1>5, <1>6, <1>7, <1>8

(* Stopping, restoring and launching prepare the server that will be asked. *)
LEMMA ServerPreparedKeeps ==
  ASSUME MysqlInv, StopServers \/ RestoreData \/ LaunchServer
  PROVE  MysqlInv'
<1> USE MysqlBisectAssumption DEF MysqlInv, NoCommit, Newest, Oldest, Positions
<1>1. /\ UNCHANGED <<world, samples, ledger, q, cur, newer, older, lastBuggy>>
      /\ pc' \in {"restore", "launch", "ask", "died"}
      /\ Probing
  BY DEF StopServers, RestoreData, LaunchServer, Goto, Probing
<1>2. TypeOK'
  BY <1>1 DEF TypeOK, StopServers, RestoreData, LaunchServer, servers, samples, ledger
<1>3. SearchInv'
  BY <1>1 DEF SearchInv, Searching, Probing, TakenBuggy, TakenCorrect, Buggy
<1>4. ServerInv'
  <2>1. CASE StopServers
    BY <2>1 DEF StopServers, Goto, ServerInv, TypeOK
  <2>2. CASE RestoreData
    BY <2>2 DEF RestoreData, Goto, ServerInv, servers
  <2>3. CASE LaunchServer
    BY <2>3 DEF LaunchServer, Goto, ServerInv
  <2> QED BY <2>1, <2>2, <2>3
<1>5. EvidenceInv' BY <1>1 DEF EvidenceInv, Searching, Probing
<1>6. IdInv' BY <1>1 DEF IdInv, Registered, ledger
<1> QED BY <1>2, <1>3, <1>4, <1>5, <1>6

(* With servers in time the result is that of the commit under examination. *)
LEMMA AnswerIsOwn ==
  ASSUME MysqlInv, world.timely, AskServer
  PROVE  /\ Verdict[Answer] = "FAIL" <=> Buggy(q, cur)
         /\ Verdict[Answer] = "FAIL" => listener = cur
<1> USE MysqlBisectAssumption DEF MysqlInv, AskServer
<1>1. q \in Queries /\ cur \in Positions
  BY DEF SearchInv, Searching, Probing, TypeOK
<1>2. world.history[q][cur] \in Behaviour
  BY <1>1 DEF TypeOK, World
<1>3. CASE world.install[cur] = "complete"
  <2>1. listener = cur
    BY <1>1, <1>3 DEF ServerInv, Positions, NoCommit
  <2>2. Answer = world.history[q][cur]
    BY <2>1, <1>1 DEF Answer, Positions, NoCommit
  <2> QED BY <1>2, <1>3, <2>1, <2>2 DEF Verdict, Behaviour, Buggy
<1>4. CASE world.install[cur] # "complete"
  BY <1>4 DEF ServerInv, Answer, Verdict, Buggy
<1> QED BY <1>3, <1>4

(* What a server answers is a result, whoever it belongs to.                *)
LEMMA AnswerType ==
  ASSUME TypeOK, q \in Queries
  PROVE  Answer \in Behaviour /\ Verdict[Answer] \in Result
<1>1. Answer \in Behaviour
  BY DEF TypeOK, Answer, World, Behaviour
<1> QED BY <1>1 DEF Verdict, Behaviour, Result

(* Moving a bound to the commit examined.                                   *)
LEMMA AskKeeps ==
  ASSUME MysqlInv, AskServer
  PROVE  MysqlInv'
<1> USE MysqlBisectAssumption DEF MysqlInv, NoCommit, Newest, Oldest, Positions
<1>1. UNCHANGED <<world, samples, ledger, q, cur, starting>> /\ pc = "ask" /\ pc' = "pick"
  BY DEF AskServer
<1>2. cur \in Positions /\ newer < cur /\ cur < older /\ q \in Queries
  BY <1>1 DEF SearchInv, Searching, Probing, TypeOK
<1>3. \/ Verdict[Answer] = "FAIL" /\ newer' = cur /\ older' = older /\ lastBuggy' = listener
      \/ Verdict[Answer] # "FAIL" /\ newer' = newer /\ older' = cur /\ lastBuggy' = lastBuggy
  BY DEF AskServer, MoveBounds
<1>4. /\ listener' \in {listener, NoCommit}
      /\ closing' \subseteq closing
  BY DEF AskServer
<1>5. TypeOK' BY <1>1, <1>2, <1>3, <1>4 DEF TypeOK, samples, ledger
<1>6. SearchInv'
  <2>1. TakenBuggy(newer)' /\ TakenCorrect(older)'
    BY <1>1, <1>3, AnswerIsOwn
       DEF SearchInv, Searching, Probing, TakenBuggy, TakenCorrect, Buggy
  <2> QED BY <1>1, <1>2, <1>3, <2>1 DEF SearchInv, Searching, Probing, TypeOK
<1>7. ServerInv' BY <1>1, <1>4 DEF ServerInv, AskServer
<1>8. EvidenceInv' BY <1>1, <1>3, AnswerIsOwn DEF EvidenceInv, Searching, Probing
<1>9. IdInv' BY <1>1 DEF IdInv, Registered, ledger
<1> QED BY <1>5, <1>6, <1>7, <1>8, <1>9

(* Registering a commit.                                                    *)
LEMMA CrossCompareKeeps ==
  ASSUME MysqlInv, CrossCompare
  PROVE  MysqlInv'
<1> USE MysqlBisectAssumption DEF MysqlInv, NoCommit, Newest, Oldest, Positions
<1> DEFINE id == IF newer \notin Registered THEN ValidUniqId ELSE uniqueId[newer]
<1>1. /\ UNCHANGED <<world, servers, todo, sample, timed, cur, newer, older, lastBuggy>>
      /\ q' = NoQuery /\ pc' = "idle" /\ rest' = rest \ {q}
      /\ uniqueId' = [uniqueId EXCEPT ![newer] = id]
  BY DEF CrossCompare
<1>2. newer \in Positions /\ q \in Queries
  BY DEF CrossCompare, SearchInv, Searching, TypeOK
<1>3. ValidUniqId \in Nat /\ \A c \in Registered : uniqueId[c] < ValidUniqId
  BY ValidUniqIdIsNew
<1>4. id \in Nat
  BY <1>2, <1>3 DEF Registered, TypeOK
<1> DEFINE first == {p \in Matching : \A r \in Matching : p <= r}
           written == newer \notin Registered /\ (first # {} \/ world.nonDeter)
           entry == [kind |-> "found", buggy |-> newer, corr |-> older,
                     evidence |-> lastBuggy, id |-> id, written |-> written]
<1>5. /\ checked' \in {checked, checked \cup first}
      /\ report' = [report EXCEPT ![q] = entry]
      /\ allUnique' = (allUnique /\ written)
  BY DEF CrossCompare
<1>6. first \subseteq Nat
  BY <1>2 DEF Matching
<1>7. TypeOK'
  <2>1. /\ uniqueId' \in [Positions -> Nat \cup {-1}]
        /\ checked' \in SUBSET Nat
        /\ allUnique' \in BOOLEAN
    <3>1. checked' \in SUBSET Nat
      BY <1>5, <1>6 DEF TypeOK
    <3>2. allUnique' \in BOOLEAN
      BY <1>5, Zenon
    <3> HIDE DEF id
    <3>3. uniqueId' \in [Positions -> Nat \cup {-1}]
      BY <1>1, <1>2, <1>4 DEF TypeOK
    <3> QED BY <3>1, <3>2, <3>3
  <2>2. report' \in [Queries -> [kind : {"none", "found"}, buggy : Positions \cup {NoCommit},
                               corr : Positions \cup {NoCommit},
                               evidence : Positions \cup {NoCommit},
                               id : Nat \cup {-1}, written : BOOLEAN]]
    <3>1. written \in BOOLEAN
      BY Zenon
    <3> HIDE DEF id, written
    <3>2. entry \in [kind : {"none", "found"}, buggy : Positions \cup {NoCommit},
                    corr : Positions \cup {NoCommit},
                    evidence : Positions \cup {NoCommit},
                    id : Nat \cup {-1}, written : BOOLEAN]
      BY <3>1, <1>2, <1>4 DEF TypeOK
    <3> HIDE DEF entry
    <3> QED BY <3>2, <1>5 DEF TypeOK
  <2> QED BY <1>1, <2>1, <2>2 DEF TypeOK, servers
<1>8. SearchInv' /\ ServerInv' /\ EvidenceInv'
  BY <1>1 DEF SearchInv, ServerInv, EvidenceInv, Searching, Probing, servers, CrossCompare
<1>9. IdInv'
  <2>1. CASE newer \in Registered
    <3>1. uniqueId' = uniqueId
      BY <1>1, <2>1 DEF TypeOK
    <3> QED BY <3>1 DEF IdInv, Registered
  <2>2. CASE newer \notin Registered
    <3>1. /\ uniqueId'[newer] = ValidUniqId
          /\ \A c \in Positions \ {newer} : uniqueId'[c] = uniqueId[c]
      BY <1>1, <1>2, <2>2 DEF TypeOK
    <3>2. newer \in Registered' /\ \A d \in Registered' : d = newer \/ d \in Registered
      BY <1>2, <1>3, <3>1 DEF Registered
    <3>3. \A d \in Registered : uniqueId[d] \in Nat /\ uniqueId[d] < ValidUniqId
      BY <1>3 DEF Registered, TypeOK
    <3>4. \A d \in Registered : d # newer /\ uniqueId'[d] = uniqueId[d]
      BY <2>2, <3>1 DEF Registered
    <3>5. \A d \in Registered' : uniqueId'[d] <= uniqueId'[newer]
      BY <1>3, <3>1, <3>2, <3>3, <3>4
    <3> QED BY <3>2, <3>5 DEF IdInv
  <2> QED BY <2>1, <2>2
<1> QED BY <1>7, <1>8, <1>9

(* The mysqld processes.                                                    *)
LEMMA ServerStepKeeps ==
  ASSUME MysqlInv, ServerStep
  PROVE  MysqlInv'
<1> USE MysqlBisectAssumption DEF MysqlInv, NoCommit, Newest, Oldest, Positions
<1>1. UNCHANGED <<world, samples, search, ledger>>
  BY DEF ServerStep
<1>2. TypeOK' /\ ServerInv'
  <2>1. CASE StopsListening
    BY <1>1, <2>1 DEF StopsListening, TypeOK, ServerInv, samples, search, ledger
  <2>2. CASE ComesUp
    BY <1>1, <2>2 DEF ComesUp, TypeOK, ServerInv, samples, search, ledger
  <2>3. CASE \E c \in Positions : Exits(c)
    BY <1>1, <2>3 DEF Exits, TypeOK, ServerInv, samples, search, ledger
  <2> QED BY <2>1, <2>2, <2>3 DEF ServerStep
<1>3. SearchInv' /\ EvidenceInv' /\ IdInv'
  BY <1>1 DEF SearchInv, EvidenceInv, IdInv, Searching, Probing, TakenBuggy, TakenCorrect,
              Buggy, Registered, search, ledger
<1> QED BY <1>2, <1>3

(* Every step keeps the invariant.                                          *)
LEMMA MysqlStep == MysqlInv /\ [Next]_vars => MysqlInv'
<1> SUFFICES ASSUME MysqlInv, [Next]_vars PROVE MysqlInv'
  OBVIOUS
<1>1. CASE Work
  BY <1>1, SamplesKeep, PickKeeps, ServerPreparedKeeps, AskKeeps, CrossCompareKeeps DEF Work
<1>2. CASE ServerStep
  BY <1>2, ServerStepKeeps
<1>3. CASE UNCHANGED vars
  BY <1>3 DEF vars, servers, samples, search, ledger, MysqlInv, TypeOK, SearchInv,
              ServerInv, EvidenceInv, IdInv, Searching, Probing, TakenBuggy,
              TakenCorrect, Buggy, Registered
<1> QED BY <1>1, <1>2, <1>3 DEF Next

(* It holds throughout.                                                     *)
LEMMA MysqlInvariance == Spec => []MysqlInv
BY MysqlInit, MysqlStep, PTL DEF Spec

(* The state of the search, of the servers and of the ledger keeps its type: *)
(* in particular every commit examined, and both bounds, are commits.       *)
THEOREM MysqlBisectTypes == Spec => []TypeOK
BY MysqlInvariance, PTL DEF MysqlInv

----------------------------------------------------------------------------
(* ReportsAreRight: what CrossCompare writes down is right.                 *)

(* On a history that turns once, neighbouring bounds meet at the turn.      *)
LEMMA NeighboursAtTurn ==
  ASSUME MysqlInv, pc = "found", world.timely, NEW k \in 0..NumCommits,
         \A c \in Positions : Buggy(q, c) <=> c < k
  PROVE  newer = IF k = 0 THEN Newest ELSE IF k = NumCommits THEN Oldest - 1 ELSE k - 1
<1> USE MysqlBisectAssumption DEF MysqlInv, Newest, Oldest, Positions
<1>1. /\ newer \in Positions /\ older \in Positions /\ older = newer + 1
      /\ Buggy(q, newer) \/ newer = Newest
      /\ ~Buggy(q, older) \/ older = Oldest
  BY DEF TypeOK, SearchInv, Searching, TakenBuggy, TakenCorrect
<1>2. /\ newer < k \/ newer = Newest
      /\ ~(older < k) \/ older = Oldest
  BY <1>1, Zenon
<1> QED BY <1>1, <1>2

(* The report of one select, when it is made.                               *)
LEMMA ReportIsRight ==
  ASSUME MysqlInv, ReportsAreRight, CrossCompare
  PROVE  ReportsAreRight'
<1> USE DEF MysqlInv
<1> DEFINE r == report'[q]
<1>1. /\ world' = world /\ q \in Queries /\ pc = "found"
      /\ r.buggy = newer /\ r.corr = older /\ r.evidence = lastBuggy
      /\ \A x \in Queries \ {q} : report'[x] = report[x]
  BY DEF CrossCompare, SearchInv, Searching, TypeOK
<1>2. r.corr = r.buggy + 1
  BY <1>1 DEF SearchInv
<1>3. world.timely => r.evidence = r.buggy \/ (r.evidence = NoCommit /\ r.buggy = Newest)
  BY <1>1 DEF EvidenceInv, Searching
<1>4. ASSUME world.timely, NEW k \in 0..NumCommits,
             \A c \in Positions : Buggy(q, c) <=> c < k
      PROVE  r.buggy = IF k = 0 THEN Newest
                       ELSE IF k = NumCommits THEN Oldest - 1 ELSE k - 1
  BY <1>1, <1>4, NeighboursAtTurn
<1>5. \A x \in Queries, c \in Positions : Buggy(x, c)' <=> Buggy(x, c)
  BY <1>1 DEF Buggy
<1> HIDE DEF MysqlInv, r
<1> SUFFICES ASSUME NEW x \in Queries, world'.timely, report'[x].kind = "found"
             PROVE  LET e == report'[x] IN
                      /\ e.corr = e.buggy + 1
                      /\ e.evidence = e.buggy \/ (e.evidence = NoCommit /\ e.buggy = Newest)
                      /\ \A k \in 0..NumCommits :
                           (\A c \in Positions : Buggy(x, c)' <=> c < k) =>
                             e.buggy = IF k = 0 THEN Newest
                                       ELSE IF k = NumCommits THEN Oldest - 1 ELSE k - 1
  BY Zenon DEF ReportsAreRight
<1>6. CASE x = q
  BY <1>1, <1>2, <1>3, <1>4, <1>5, <1>6 DEF r
<1>7. CASE x # q
  BY <1>1, <1>5, <1>7 DEF ReportsAreRight
<1> QED BY <1>6, <1>7

(* With servers that come and go in time, what start_bisect concludes about *)
(* a select names the turn of its history, and shows that commit's results. *)
THEOREM MysqlReportsAreRight == Spec => []ReportsAreRight
<1>1. Init => ReportsAreRight
  BY DEF Init, ReportsAreRight, NoReport
<1>2. MysqlInv /\ ReportsAreRight /\ [Next]_vars => ReportsAreRight'
  <2> SUFFICES ASSUME MysqlInv, ReportsAreRight, [Next]_vars PROVE ReportsAreRight'
    OBVIOUS
  <2>1. CASE CrossCompare
    BY <2>1, ReportIsRight
  <2>2. CASE UNCHANGED <<world, report>>
    BY <2>2 DEF ReportsAreRight, Buggy
  <2>3. CrossCompare \/ UNCHANGED <<world, report>>
    BY DEF Next, Work, vars, ledger, BeginSample, EndSample, BeginSelect, PickCommit,
           StopServers, RestoreData, LaunchServer, AskServer, ServerStep
  <2> QED BY <2>1, <2>2, <2>3
<1> QED BY <1>1, <1>2, MysqlInvariance, PTL DEF Spec

----------------------------------------------------------------------------
(* LedgerConsistent: the ids, the bug files and time.txt.                   *)

Found         == {x \in Queries : report[x].kind = "found"}
Written       == {x \in Found : report[x].written}
SelectsInHand == IF sample = NoSample THEN {} ELSE SelectsOf[sample]

(* A registered commit is one that some report accuses.                     *)
AccusedInv ==
  /\ \A x \in Found : report[x].buggy \in Registered /\ report[x].id = uniqueId[report[x].buggy]
  /\ \A c \in Registered : \E x \in Found : report[x].buggy = c

(* The registered commits are numbered without gaps.                        *)
NumberInv ==
  /\ \A c, d \in Registered : uniqueId[c] = uniqueId[d] => c = d
  /\ {uniqueId[c] : c \in Registered} = 0..(Cardinality(Registered) - 1)

(* The files, the commits and the patterns they account for.                *)
FileInv ==
  /\ \A x, y \in Written : report[x].buggy = report[y].buggy => x = y
  /\ world.nonDeter => \A c \in Registered : \E x \in Written : report[x].buggy = c
  /\ IsFiniteSet(Written) /\ IsFiniteSet(checked)
  /\ ~world.nonDeter => Cardinality(Written) = Cardinality(checked)

(* How far the samples have been dealt with: a select still to bisect has   *)
(* no report, so that its report is its only one.                           *)
SampleInv ==
  /\ sample = NoSample \/ sample \in todo
  /\ rest \subseteq SelectsInHand
  /\ pc # "idle" => q \in rest
  /\ rest \cap Found = {}
  /\ SelectsInHand \ rest \subseteq Found
  /\ \A s \in todo \ {sample} : SelectsOf[s] \cap Found = {}
  /\ sample # NoSample => (allUnique <=> SelectsInHand \ rest \subseteq Written)
  /\ timed = {s \in Samples \ todo : SelectsOf[s] \subseteq Written}

LedgerInv == AccusedInv /\ NumberInv /\ FileInv /\ SampleInv

(* A new process has registered nothing.                                    *)
LEMMA LedgerInit == Init => LedgerInv
<1> SUFFICES ASSUME Init PROVE LedgerInv
  OBVIOUS
<1> USE DEF Init
<1>1. Registered = {} /\ Found = {} /\ Written = {}
  BY DEF Registered, Found, Written, NoReport
<1>2. Cardinality({}) = 0 /\ IsFiniteSet({})
  BY FS_EmptySet
<1>3. AccusedInv /\ FileInv
  BY <1>1, <1>2 DEF AccusedInv, FileInv
<1>4. NumberInv
  BY <1>1, <1>2 DEF NumberInv
<1>5. SampleInv
  BY <1>1, MysqlBisectAssumption DEF SampleInv, SelectsInHand
<1> QED BY <1>3, <1>4, <1>5 DEF LedgerInv

(* Nothing but CrossCompare touches the ledger.                             *)
LEMMA OthersKeepLedger ==
  ASSUME MysqlInv, LedgerInv, UNCHANGED <<world, ledger>>, SampleInv'
  PROVE  LedgerInv'
<1>1. Found' = Found /\ Written' = Written /\ Registered' = Registered
  BY DEF Found, Written, Registered, ledger
<1> QED BY <1>1 DEF LedgerInv, AccusedInv, NumberInv, FileInv, ledger

(* The step from sample to sample and from select to select.                *)
LEMMA SamplesKeepLedger ==
  ASSUME MysqlInv, LedgerInv,
         \/ \E s \in Samples : BeginSample(s)
         \/ EndSample
         \/ \E x \in Queries : BeginSelect(x)
  PROVE  LedgerInv'
<1> USE MysqlBisectAssumption
<1>0. UNCHANGED <<world, ledger>>
  BY DEF BeginSample, EndSample, BeginSelect
<1>1. Found' = Found /\ Written' = Written
  BY <1>0 DEF Found, Written, ledger
<1>2. TypeOK /\ SampleInv
  BY DEF MysqlInv, LedgerInv
<1>3. SampleInv'
  <2>1. ASSUME NEW s \in Samples, BeginSample(s) PROVE SampleInv'
    <3>1. /\ sample = NoSample /\ s \in todo /\ sample' = s /\ s # NoSample
          /\ rest' = SelectsOf[s] /\ allUnique' = TRUE /\ pc' = "idle"
          /\ UNCHANGED <<todo, timed>>
      BY <2>1 DEF BeginSample, search
    <3>2. SelectsInHand' = SelectsOf[s]
      BY <3>1 DEF SelectsInHand
    <3>3. SelectsOf[s] \cap Found = {} /\ \A t \in todo \ {s} : SelectsOf[t] \cap Found = {}
      BY <1>2, <3>1 DEF SampleInv, TypeOK
    <3>4. rest' \cap Found = {} /\ SelectsInHand' \ rest' = {}
      BY <3>1, <3>2, <3>3
    <3>5. timed' = {t \in Samples \ todo' : SelectsOf[t] \subseteq Written}
      BY <1>2, <3>1 DEF SampleInv
    <3> QED BY <1>1, <3>1, <3>2, <3>3, <3>4, <3>5 DEF SampleInv
  <2>2. CASE EndSample
    <3>1. /\ sample \in todo /\ sample \in Samples /\ rest = {} /\ rest' = {}
          /\ sample' = NoSample /\ todo' = todo \ {sample} /\ pc' = "idle"
          /\ timed' = IF allUnique THEN timed \cup {sample} ELSE timed
      BY <1>2, <2>2 DEF EndSample, SampleInv, search, TypeOK
    <3>2. SelectsInHand' = {} /\ SelectsInHand = SelectsOf[sample]
      BY <3>1 DEF SelectsInHand
    <3>3. /\ allUnique <=> SelectsOf[sample] \subseteq Written
          /\ timed = {s \in Samples \ todo : SelectsOf[s] \subseteq Written}
          /\ \A s \in todo \ {sample} : SelectsOf[s] \cap Found = {}
      BY <1>2, <3>1, <3>2 DEF SampleInv
    <3>4. timed' = {s \in Samples \ todo' : SelectsOf[s] \subseteq Written}
      BY <3>1, <3>3
    <3>5. \A s \in todo' \ {sample'} : SelectsOf[s] \cap Found = {}
      BY <3>1, <3>3
    <3> QED BY <1>1, <3>1, <3>2, <3>4, <3>5 DEF SampleInv
  <2>3. ASSUME NEW x \in Queries, BeginSelect(x) PROVE SampleInv'
    BY <1>1, <1>2, <2>3 DEF BeginSelect, SampleInv, SelectsInHand, samples
  <2> QED BY <2>1, <2>2, <2>3
<1> QED BY <1>0, <1>3, OthersKeepLedger

(* The search leaves the samples alone until it is over.                    *)
LEMMA SearchKeepsLedger ==
  ASSUME MysqlInv, LedgerInv, UNCHANGED <<world, samples, ledger, q>>,
         pc' = pc \/ pc # "idle"
  PROVE  LedgerInv'
<1>1. Found' = Found /\ Written' = Written /\ SelectsInHand' = SelectsInHand
  BY DEF Found, Written, SelectsInHand, samples, ledger
<1>2. SampleInv'
  BY <1>1 DEF SampleInv, LedgerInv, samples
<1> QED BY <1>2, OthersKeepLedger

(* What CrossCompare records: the commit is registered under its id, and    *)
(* the report is written if the commit is new and has a pattern to show.    *)
Fresh == newer \notin Registered

Recorded(id, first, written) ==
  /\ first = {p \in Matching : \A r \in Matching : p <= r}
  /\ written = (Fresh /\ (first # {} \/ world.nonDeter))
  /\ id = IF Fresh THEN ValidUniqId ELSE uniqueId[newer]
  /\ newer \in Positions /\ q \in Queries /\ q \in rest /\ q \notin Found
  /\ \A c \in Positions : uniqueId'[c] = IF c = newer THEN id ELSE uniqueId[c]
  /\ Registered' = Registered \cup {newer} /\ newer \in Registered'
  /\ checked' = IF Fresh THEN checked \cup first ELSE checked
  /\ report'[q].buggy = newer /\ report'[q].id = id /\ report'[q].written = written
  /\ \A x \in Queries \ {q} : report'[x] = report[x]
  /\ Found' = Found \cup {q}
  /\ Written' = IF written THEN Written \cup {q} ELSE Written
  /\ allUnique' = (allUnique /\ written)
  /\ q \notin Written /\ Written \subseteq Found
  /\ rest' = rest \ {q} /\ pc' = "idle" /\ UNCHANGED <<world, todo, sample, timed>>

(* start_bisect with dump_unique_bugs changes the ledger in no other way than Recorded says. *)
LEMMA CrossCompareRecords ==
  ASSUME MysqlInv, LedgerInv, CrossCompare
  PROVE  \E id \in Nat, first \in SUBSET Nat, written \in BOOLEAN : Recorded(id, first, written)
<1> USE DEF MysqlInv, NoCommit
<1> DEFINE id == IF newer \notin Registered THEN ValidUniqId ELSE uniqueId[newer]
           first == {p \in Matching : \A r \in Matching : p <= r}
           written == newer \notin Registered /\ (first # {} \/ world.nonDeter)
           entry == [kind |-> "found", buggy |-> newer, corr |-> older,
                     evidence |-> lastBuggy, id |-> id, written |-> written]
<1>1. /\ UNCHANGED <<world, todo, sample, timed>>
      /\ pc' = "idle" /\ rest' = rest \ {q} /\ pc = "found"
      /\ uniqueId' = [uniqueId EXCEPT ![newer] = id]
      /\ checked' = IF newer \notin Registered THEN checked \cup first ELSE checked
      /\ report' = [report EXCEPT ![q] = entry]
      /\ allUnique' = (allUnique /\ written)
  BY DEF CrossCompare
<1>2. newer \in Positions /\ q \in Queries /\ q \in rest /\ q \notin Found
  BY <1>1 DEF SearchInv, Searching, TypeOK, LedgerInv, SampleInv
<1>3. id \in Nat
  BY <1>2, ValidUniqIdIsNew DEF Registered, TypeOK
<1>4. first \in SUBSET Nat
  <2>1. Matching \in SUBSET Nat
    BY <1>2, MysqlBisectAssumption DEF Matching
  <2> QED BY <2>1
<1>5. written \in BOOLEAN
  BY Zenon
<1> HIDE DEF id, first, written
<1>6. /\ \A c \in Positions : uniqueId'[c] = IF c = newer THEN id ELSE uniqueId[c]
      /\ Registered' = Registered \cup {newer} /\ newer \in Registered'
  <2>1. \A c \in Positions : uniqueId'[c] = IF c = newer THEN id ELSE uniqueId[c]
    BY <1>1, <1>2 DEF TypeOK
  <2> QED BY <2>1, <1>2, <1>3 DEF Registered
<1>7. /\ report'[q] = entry
      /\ \A x \in Queries \ {q} : report'[x] = report[x]
  BY <1>1, <1>2 DEF TypeOK
<1>8. Found' = Found \cup {q}
  BY <1>2, <1>7 DEF Found
<1>9. report'[q].written = written
  BY <1>7
<1>10. Written' = IF written THEN Written \cup {q} ELSE Written
  <2>1. Written' = {x \in Found \cup {q} : report'[x].written}
    BY <1>8 DEF Written
  <2>2. \A x \in Found : report'[x] = report[x]
    BY <1>2, <1>7 DEF Found
  <2>3. CASE written
    BY <1>9, <2>1, <2>2, <2>3 DEF Written
  <2>4. CASE ~written
    BY <1>9, <2>1, <2>2, <2>4 DEF Written
  <2> QED BY <2>3, <2>4
<1>11. Recorded(id, first, written)
  <2>1. /\ first = {p \in Matching : \A r \in Matching : p <= r}
        /\ written = (Fresh /\ (first # {} \/ world.nonDeter))
        /\ id = IF Fresh THEN ValidUniqId ELSE uniqueId[newer]
        /\ Written \subseteq Found
    BY Zenon DEF first, written, id, Fresh, Written
  <2>2. report'[q].buggy = newer /\ report'[q].id = id
    BY <1>7
  <2> HIDE DEF MysqlInv
  <2> QED BY <1>1, <1>2, <1>6, <1>7, <1>8, <1>9, <1>10, <2>1, <2>2, Zenon DEF Recorded, Fresh
<1> QED BY <1>3, <1>4, <1>5, <1>11

(* The next id is the number of registered commits.                         *)
LEMMA NextIdCounts ==
  ASSUME TypeOK, IdInv, NumberInv
  PROVE  /\ IsFiniteSet(Registered) /\ Cardinality(Registered) \in Nat
         /\ ValidUniqId = Cardinality(Registered)
<1>1. IsFiniteSet(Positions)
  BY FS_Interval, MysqlBisectAssumption DEF Positions
<1>2. IsFiniteSet(Registered)
  BY <1>1, FS_Subset DEF Registered
<1>3. Cardinality(Registered) \in Nat
  BY <1>2, FS_CardinalityType
<1> DEFINE n == Cardinality(Registered)
           ids == {uniqueId[c] : c \in Registered}
<1>4. ids = 0..(n - 1)
  BY DEF NumberInv
<1>5. CASE Registered = {}
  BY <1>5, <1>2, <1>3, FS_EmptySet DEF ValidUniqId
<1>6. CASE Registered # {}
  <2>1. n # 0
    BY <1>2, <1>6, FS_EmptySet
  <2> DEFINE top == CHOOSE v \in ids : \A d \in Registered : uniqueId[d] <= v
  <2>2. ValidUniqId = 1 + top
    BY <1>6 DEF ValidUniqId
  <2>3. \E v \in ids : \A d \in Registered : uniqueId[d] <= v
    BY <1>6 DEF IdInv
  <2>4. top \in ids /\ \A d \in Registered : uniqueId[d] <= top
    BY <2>3, Zenon
  <2> HIDE DEF top
  <2>5. \A v \in ids : v <= top
    BY <2>4
  <2> HIDE DEF ids, n
  <2>6. n - 1 \in ids /\ top \in 0..(n - 1)
    BY <1>3, <1>4, <2>1, <2>4 DEF n
  <2> QED BY <1>2, <1>3, <2>2, <2>5, <2>6 DEF n
<1> QED BY <1>2, <1>3, <1>5, <1>6

(* A new commit continues the numbering; a known one leaves it alone.       *)
LEMMA NumberingContinues ==
  ASSUME MysqlInv, LedgerInv, NEW id \in Nat, NEW first, NEW written, Recorded(id, first, written)
  PROVE  AccusedInv' /\ NumberInv'
<1>1. /\ TypeOK /\ IdInv /\ AccusedInv /\ NumberInv
      /\ Registered \subseteq Positions /\ Found \subseteq Queries
  BY DEF MysqlInv, LedgerInv, Registered, Found
<1>2. AccusedInv'
  <2>1. \A c \in Registered : uniqueId'[c] = uniqueId[c]
    BY <1>1 DEF Recorded, Fresh
  <2>2. \A x \in Found' : report'[x].buggy \in Registered' /\ report'[x].id = uniqueId'[report'[x].buggy]
    BY <1>1, <2>1 DEF Recorded, AccusedInv
  <2>3. \A c \in Registered' : \E x \in Found' : report'[x].buggy = c
    BY <1>1 DEF Recorded, AccusedInv
  <2> QED BY <2>2, <2>3 DEF AccusedInv
<1>3. CASE ~Fresh
  <2>1. Registered' = Registered /\ \A c \in Registered : uniqueId'[c] = uniqueId[c]
    BY <1>1, <1>3 DEF Recorded, Fresh
  <2> QED BY <1>1, <1>2, <2>1 DEF NumberInv
<1>4. CASE Fresh
  <2> DEFINE n == Cardinality(Registered)
  <2>1. IsFiniteSet(Registered) /\ n \in Nat /\ id = n
    BY <1>1, <1>4, NextIdCounts DEF Recorded
  <2>2. Registered' = Registered \cup {newer} /\ newer \notin Registered
    BY <1>4 DEF Recorded, Fresh
  <2>3. Cardinality(Registered') = n + 1
    BY <2>1, <2>2, FS_AddElement
  <2>4. uniqueId'[newer] = n /\ \A c \in Registered : uniqueId'[c] = uniqueId[c]
    BY <1>1, <2>1, <2>2 DEF Recorded
  <2>5. {uniqueId[c] : c \in Registered} = 0..(n - 1)
    BY <1>1 DEF NumberInv
  <2> HIDE DEF n
  <2>6. \A c \in Registered : uniqueId[c] \in 0..(n - 1)
    BY <2>5
  <2>7. \A c, d \in Registered' : uniqueId'[c] = uniqueId'[d] => c = d
    BY <1>1, <2>1, <2>2, <2>4, <2>6 DEF NumberInv
  <2>8. {uniqueId'[c] : c \in Registered'} = {uniqueId[c] : c \in Registered} \cup {n}
    BY <2>2, <2>4
  <2>9. (0..(n - 1)) \cup {n} = 0..((n + 1) - 1)
    BY <2>1
  <2> QED BY <1>2, <2>3, <2>5, <2>7, <2>8, <2>9 DEF NumberInv
<1> QED BY <1>3, <1>4

(* A file is written for a new commit only, for one pattern not yet seen.   *)
LEMMA FilesAccount ==
  ASSUME MysqlInv, LedgerInv, NEW id \in Nat, NEW first \in SUBSET Nat, NEW written \in BOOLEAN,
         Recorded(id, first, written)
  PROVE  FileInv'
<1>1. TypeOK /\ AccusedInv /\ FileInv /\ world' = world
  BY DEF MysqlInv, LedgerInv, Recorded
<1>2. Matching \in SUBSET Nat /\ Matching \cap checked = {}
  BY MysqlBisectAssumption DEF Recorded, Matching
<1>3. /\ \A p, r \in first : p = r
      /\ first \cap checked = {}
  BY <1>2 DEF Recorded
<1>4. \A x \in Written : x \in Queries \ {q} /\ report'[x] = report[x] /\ report[x].buggy \in Registered
  BY <1>1 DEF Recorded, Written, Found, AccusedInv
<1>5. report'[q].buggy = newer
  BY DEF Recorded
<1>6. CASE ~Fresh
  <2>1. Written' = Written /\ checked' = checked /\ Registered' = Registered
    BY <1>6 DEF Recorded, Fresh
  <2> QED BY <1>1, <1>4, <2>1 DEF FileInv
<1>7. CASE Fresh
  <2>1. newer \notin Registered /\ Registered' = Registered \cup {newer} /\ q \notin Written
        /\ checked' = checked \cup first
    BY <1>7 DEF Recorded, Fresh
  <2>2. \A x, y \in Written' : report'[x].buggy = report'[y].buggy => x = y
    <3>1. Written' \subseteq Written \cup {q}
      BY DEF Recorded
    <3> QED BY <1>1, <1>4, <1>5, <2>1, <3>1 DEF FileInv
  <2>3. world.nonDeter => \A c \in Registered' : \E x \in Written' : report'[x].buggy = c
    <3>1. world.nonDeter => Written' = Written \cup {q}
      BY <1>7 DEF Recorded
    <3> QED BY <1>1, <1>4, <1>5, <2>1, <3>1 DEF FileInv
  <2>4. IsFiniteSet(Written) /\ IsFiniteSet(checked)
    BY <1>1 DEF FileInv
  <2>5. CASE first = {}
    <3>1. checked' = checked
      BY <2>1, <2>5
    <3>2. IsFiniteSet(Written')
      BY <2>4, FS_AddElement DEF Recorded
    <3>3. ~world.nonDeter => Written' = Written
      BY <1>7, <2>5 DEF Recorded
    <3> QED BY <1>1, <2>2, <2>3, <2>4, <3>1, <3>2, <3>3 DEF FileInv
  <2>6. CASE first # {}
    <3>1. PICK p \in first : first = {p}
      BY <1>3, <2>6
    <3>2. checked' = checked \cup {p} /\ p \notin checked
      BY <1>3, <2>1, <3>1
    <3>3. Written' = Written \cup {q}
      BY <1>7, <2>6 DEF Recorded
    <3>4. IsFiniteSet(checked') /\ Cardinality(checked') = Cardinality(checked) + 1
      BY <2>4, <3>2, FS_AddElement
    <3>5. IsFiniteSet(Written') /\ Cardinality(Written') = Cardinality(Written) + 1
      BY <2>1, <2>4, <3>3, FS_AddElement
    <3> QED BY <1>1, <2>2, <2>3, <3>4, <3>5 DEF FileInv
  <2> QED BY <2>5, <2>6
<1> QED BY <1>6, <1>7

(* The select is done with, and no other sample has it.                     *)
LEMMA SamplesAccount ==
  ASSUME MysqlInv, LedgerInv, NEW id, NEW first, NEW written \in BOOLEAN,
         Recorded(id, first, written)
  PROVE  SampleInv'
<1>1. TypeOK /\ SampleInv
  BY DEF MysqlInv, LedgerInv
<1>2. /\ UNCHANGED <<todo, sample, timed>> /\ pc' = "idle" /\ rest' = rest \ {q}
      /\ q \in rest /\ q \notin Found /\ q \notin Written /\ Found' = Found \cup {q}
      /\ Written' = IF written THEN Written \cup {q} ELSE Written
      /\ allUnique' = (allUnique /\ written)
  BY DEF Recorded
<1>3. sample # NoSample /\ sample \in todo /\ SelectsInHand = SelectsOf[sample]
  BY <1>1, <1>2 DEF SampleInv, SelectsInHand
<1>4. q \in SelectsOf[sample] /\ SelectsInHand' = SelectsInHand
  BY <1>1, <1>2, <1>3 DEF SampleInv, SelectsInHand
<1>5. \A s \in Samples \ {sample} : q \notin SelectsOf[s]
  BY <1>1, <1>3, <1>4, MysqlBisectAssumption DEF TypeOK
<1>6. \A s \in todo \ {sample} : SelectsOf[s] \cap Found' = {}
  BY <1>1, <1>2, <1>5 DEF SampleInv, TypeOK
<1>7. allUnique' <=> SelectsInHand \ rest' \subseteq Written'
  <2>1. SelectsInHand \ rest' = (SelectsInHand \ rest) \cup {q}
    BY <1>2, <1>3, <1>4
  <2>2. allUnique <=> SelectsInHand \ rest \subseteq Written
    BY <1>1, <1>3 DEF SampleInv
  <2>3. q \notin SelectsInHand \ rest
    BY <1>2
  <2>4. CASE written
    BY <1>2, <2>1, <2>2, <2>3, <2>4
  <2>5. CASE ~written
    BY <1>2, <2>1, <2>5
  <2> QED BY <2>4, <2>5
<1>8. timed' = {s \in Samples \ todo : SelectsOf[s] \subseteq Written'}
  <2>1. \A s \in Samples \ todo : SelectsOf[s] \subseteq Written' <=> SelectsOf[s] \subseteq Written
    BY <1>2, <1>3, <1>5
  <2> QED BY <1>1, <1>2, <2>1 DEF SampleInv
<1>9. rest' \subseteq SelectsInHand /\ rest' \cap Found' = {} /\ SelectsInHand \ rest' \subseteq Found'
  BY <1>1, <1>2 DEF SampleInv
<1> QED BY <1>2, <1>3, <1>4, <1>6, <1>7, <1>8, <1>9 DEF SampleInv

(* Every step keeps the ledger consistent with the reports.                 *)
LEMMA LedgerStep == MysqlInv /\ LedgerInv /\ [Next]_vars => LedgerInv'
<1> SUFFICES ASSUME MysqlInv, LedgerInv, [Next]_vars PROVE LedgerInv'
  OBVIOUS
<1>1. CASE \/ \E s \in Samples : BeginSample(s)
           \/ EndSample
           \/ \E x \in Queries : BeginSelect(x)
  BY <1>1, SamplesKeepLedger
<1>2. CASE CrossCompare
  <2>1. PICK id \in Nat, first \in SUBSET Nat, written \in BOOLEAN : Recorded(id, first, written)
    BY <1>2, CrossCompareRecords
  <2> QED BY <2>1, NumberingContinues, FilesAccount, SamplesAccount DEF LedgerInv
<1>3. CASE PickCommit \/ StopServers \/ RestoreData \/ LaunchServer \/ AskServer
  BY <1>3, SearchKeepsLedger DEF PickCommit, StopServers, RestoreData, LaunchServer, AskServer, Goto
<1>4. CASE ServerStep \/ UNCHANGED vars
  BY <1>4, SearchKeepsLedger DEF ServerStep, vars, search
<1> QED BY <1>1, <1>2, <1>3, <1>4 DEF Next, Work

(* What the invariant says in terms of the reports alone.                   *)
LEMMA LedgerInvImplies == MysqlInv /\ LedgerInv => LedgerConsistent
<1> SUFFICES ASSUME MysqlInv, LedgerInv PROVE LedgerConsistent
  OBVIOUS
<1> USE DEF LedgerInv
<1>1. \A x, y \in Found : (report[x].id = report[y].id) <=> (report[x].buggy = report[y].buggy)
  BY DEF AccusedInv, NumberInv
<1>2. {report[x].id : x \in Found} = {uniqueId[c] : c \in Registered}
  BY DEF AccusedInv
<1>3. {report[x].id : x \in Found} = 0..(Cardinality(Registered) - 1)
  BY <1>2 DEF NumberInv
<1>4. Written \subseteq Found
  BY DEF Written
<1>5. \A x, y \in Written : report[x].id = report[y].id => x = y
  BY <1>1, <1>4 DEF FileInv
<1>6. world.nonDeter => {report[x].id : x \in Written} = {report[x].id : x \in Found}
  BY <1>1, <1>4 DEF FileInv, AccusedInv
<1>7. ~world.nonDeter => Cardinality(Written) = Cardinality(checked)
  BY DEF FileInv
<1>8. timed = {s \in Samples \ todo : SelectsOf[s] \subseteq Written}
  BY DEF SampleInv
<1> QED BY <1>1, <1>3, <1>5, <1>6, <1>7, <1>8 DEF LedgerConsistent, Found, Written

(* The ids of the accused commits, the bug files, the patterns crossed off  *)
(* and time.txt agree, whatever is reported and in whatever order.          *)
THEOREM MysqlLedgerIsConsistent == Spec => []LedgerConsistent
BY LedgerInit, LedgerStep, LedgerInvImplies, MysqlInvariance, PTL DEF Spec

----------------------------------------------------------------------------
(* The search implements CommitBracket.                                     *)

(* The bounds as CommitBracket sees them.                                   *)
Low     == IF pc = "idle" \/ (pc # "found" /\ older = Oldest) THEN 0 ELSE Pos(older)
High    == IF pc = "idle" \/ (pc # "found" /\ newer = Newest)
           THEN NumCommits + 1 ELSE Pos(newer)
Settles == IF pc = "found" THEN "found" ELSE "open"
GoodNow == IF q = NoQuery THEN {} ELSE GoodFor(q)
BadNow  == IF q = NoQuery THEN {} ELSE BadFor(q)

(* What the verdict on a commit lets the bracket take it for.               *)
LEMMA TakenAreGoodAndBad ==
  ASSUME q \in Queries, NEW c \in Positions
  PROVE  /\ TakenBuggy(c) => Pos(c) \in BadNow
         /\ TakenCorrect(c) => Pos(c) \in GoodNow
<1> USE MysqlBisectAssumption DEF Newest, Oldest, Positions
<1>1. Pos(c) \in 1..NumCommits
  BY DEF Pos
<1>2. TakenBuggy(c) => Pos(c) \in BadFor(q)
  BY <1>1 DEF BadFor, TakenBuggy
<1>3. TakenCorrect(c) => Pos(c) \in GoodFor(q)
  BY <1>1 DEF GoodFor, TakenCorrect
<1> QED BY <1>2, <1>3 DEF GoodNow, BadNow

(* What a step of the search means for the bounds.                          *)
Narrows ==
  /\ Settles = "open"
  /\ Low <= Low' /\ Low' < High' /\ High' <= High
  /\ Low' = Low \/ Low' \in GoodNow
  /\ High' = High \/ High' \in BadNow
  /\ \/ Settles' = "open"
     \/ Settles' = "found" /\ Low' # 0 /\ High' # NumCommits + 1 /\ High' = Low' + 1
  /\ UNCHANGED <<GoodNow, BadNow>>

Renews ==
  /\ GoodNow' \in SUBSET (1..NumCommits) /\ BadNow' \in SUBSET (1..NumCommits)
  /\ Low' = 0 /\ High' = NumCommits + 1 /\ Settles' = "open"

(* Positions counted from the other end.                                    *)
LEMMA Mirror ==
  ASSUME NEW n \in Int, NEW a \in Int, NEW b \in Int, 0 <= a, a < b, b <= n - 1
  PROVE  n - b < n - a /\ n - b # 0 /\ n - a # n + 1
OBVIOUS

(* Each decision moves one bound inwards, to a commit of its side.          *)
LEMMA SearchNarrows ==
  ASSUME MysqlInv, MysqlInv', Searching, pc # "found", Searching',
         UNCHANGED <<world, q>>, newer <= newer', older' <= older
  PROVE  Narrows
<1> USE MysqlBisectAssumption DEF MysqlInv, Newest, Oldest, Positions
<1>1. /\ newer \in Positions /\ older \in Positions
      /\ newer' \in Positions /\ older' \in Positions
      /\ newer < older /\ newer' < older'
      /\ pc' = "found" => older' = newer' + 1
      /\ pc # "idle" /\ pc' # "idle"
  BY DEF TypeOK, SearchInv, Searching, Probing
<1>2. UNCHANGED <<GoodNow, BadNow>>
  BY DEF GoodNow, BadNow, GoodFor, BadFor, Buggy
<1>3. Pos(newer') \in BadNow /\ Pos(older') \in GoodNow
  <2>1. q \in Queries /\ TakenBuggy(newer') /\ TakenCorrect(older')
    BY DEF SearchInv, TakenBuggy, TakenCorrect, Buggy
  <2> QED BY <1>1, <2>1, TakenAreGoodAndBad
<1> HIDE DEF MysqlInv
<1>4. /\ NumCommits \in Int /\ newer \in Int /\ older \in Int /\ newer' \in Int /\ older' \in Int
      /\ 0 <= newer /\ newer <= newer' /\ newer' < older' /\ older' <= older
      /\ older <= NumCommits - 1
  BY <1>1
<1>5. /\ \/ older = NumCommits - 1 /\ Low = 0
         \/ older < NumCommits - 1 /\ Low = NumCommits - older
      /\ \/ newer = 0 /\ High = NumCommits + 1
         \/ 0 < newer /\ High = NumCommits - newer
  BY <1>1, <1>4 DEF Low, High, Pos
<1>6. CASE pc' = "found"
  <2>1. Low' = NumCommits - older' /\ High' = NumCommits - newer' /\ older' = newer' + 1
    BY <1>1, <1>6 DEF Low, High, Pos
  <2>2. /\ Low <= NumCommits - older'
        /\ NumCommits - newer' <= High
    BY <1>4, <1>5
  <2>3. NumCommits - newer' = (NumCommits - older') + 1
    BY <1>4, <2>1
  <2>4. 0 <= newer' /\ older' <= NumCommits - 1
    BY <1>4
  <2>5. /\ NumCommits - older' < NumCommits - newer'
        /\ NumCommits - older' # 0 /\ NumCommits - newer' # NumCommits + 1
    BY <1>4, <2>4, Mirror
  <2> QED BY <1>2, <1>3, <1>6, <2>1, <2>2, <2>3, <2>5 DEF Narrows, Settles, Pos
<1>7. CASE pc' # "found"
  <2>1. /\ \/ older' = NumCommits - 1 /\ Low' = 0
           \/ older' # NumCommits - 1 /\ Low' = NumCommits - older'
        /\ \/ newer' = 0 /\ High' = NumCommits + 1
           \/ newer' # 0 /\ High' = NumCommits - newer'
    BY <1>1, <1>4, <1>7 DEF Low, High, Pos
  <2>2. Low <= Low' /\ Low' < High' /\ High' <= High
    BY <1>4, <1>5, <2>1
  <2>3. /\ Low' = Low \/ Low' = NumCommits - older'
        /\ High' = High \/ High' = NumCommits - newer'
    BY <1>4, <1>5, <2>1
  <2> QED BY <1>2, <1>3, <1>7, <2>2, <2>3 DEF Narrows, Settles, Pos
<1> QED BY <1>6, <1>7

(* Every step of the tool is a step of the bracket, or none.                *)
LEMMA BracketStep ==
  ASSUME MysqlInv, MysqlInv', [Next]_vars
  PROVE  Narrows \/ Renews \/ UNCHANGED <<GoodNow, BadNow, Low, High, Settles>>
<1> USE MysqlBisectAssumption DEF Newest, Oldest, Positions
<1> DEFINE mapped == <<GoodNow, BadNow, Low, High, Settles>>
<1>1. GoodNow' \in SUBSET (1..NumCommits) /\ BadNow' \in SUBSET (1..NumCommits)
  <2>1. \A c \in Positions : Pos(c) \in 1..NumCommits
    BY DEF Pos
  <2>2. \A x \in Queries : /\ GoodFor(x)' \in SUBSET (1..NumCommits)
                          /\ BadFor(x)' \in SUBSET (1..NumCommits)
    BY <2>1 DEF GoodFor, BadFor
  <2> QED BY <2>2 DEF GoodNow, BadNow, MysqlInv, TypeOK
<1>2. ASSUME UNCHANGED <<world, q, newer, older>>, pc' = pc \/ {pc, pc'} \cap {"idle", "found"} = {}
      PROVE  UNCHANGED mapped
  BY <1>2 DEF GoodNow, BadNow, GoodFor, BadFor, Buggy, Low, High, Pos, Settles
<1>3. CASE UNCHANGED vars \/ ServerStep
  BY <1>2, <1>3 DEF vars, search, ServerStep
<1>4. CASE EndSample \/ \E s \in Samples : BeginSample(s)
  BY <1>2, <1>4 DEF EndSample, BeginSample, search
<1>5. CASE \E x \in Queries : BeginSelect(x)
  BY <1>1, <1>5 DEF BeginSelect, Renews, Low, High, Settles
<1>6. CASE PickCommit
  <2>1. /\ Searching /\ Searching' /\ pc # "found"
        /\ UNCHANGED <<world, q, newer, older>>
    BY <1>6 DEF PickCommit, Searching, Probing
  <2>2. newer <= newer' /\ older' <= older
    BY <2>1 DEF MysqlInv, TypeOK
  <2> QED BY <2>1, <2>2, SearchNarrows
<1>7. CASE StopServers \/ RestoreData \/ LaunchServer
  BY <1>2, <1>7 DEF StopServers, RestoreData, LaunchServer, Goto
<1>8. CASE AskServer
  <2>1. /\ Searching /\ Searching' /\ pc # "found"
        /\ UNCHANGED <<world, q>>
        /\ newer' \in {newer, cur} /\ older' \in {older, cur}
    BY <1>8 DEF AskServer, MoveBounds, Searching, Probing
  <2>2. newer < cur /\ cur < older
    BY <1>8 DEF AskServer, MysqlInv, SearchInv, Probing
  <2>3. newer <= newer' /\ older' <= older
    BY <2>1, <2>2 DEF MysqlInv, TypeOK
  <2> QED BY <2>1, <2>3, SearchNarrows
<1>9. CASE CrossCompare
  BY <1>1, <1>9 DEF CrossCompare, Renews, Low, High, Settles
<1> QED BY <1>3, <1>4, <1>5, <1>6, <1>7, <1>8, <1>9 DEF Next, Work

(* The search implements CommitBracket: its bounds only move inwards, to a  *)
(* commit taken for correct or for buggy, and only neighbours are reported. *)
THEOREM MysqlImplementsBracket == Spec => BracketSpec
<1> USE DEF Low, High, Settles, GoodNow, BadNow
<1>1. Init => Bracket!Init
  <2> SUFFICES ASSUME Init PROVE Bracket!Init
    OBVIOUS
  <2>1. q = NoQuery /\ pc = "idle"
    BY DEF Init
  <2> QED BY <2>1 DEF Bracket!Init, Bracket!Fresh, Bracket!Commits
<1>2. MysqlInv /\ MysqlInv' /\ [Next]_vars => [Bracket!Next]_(Bracket!bvars)
  <2> SUFFICES ASSUME MysqlInv, MysqlInv', [Next]_vars
               PROVE  [Bracket!Next]_(Bracket!bvars)
    OBVIOUS
  <2>1. CASE Narrows
    BY <2>1 DEF Narrows, Bracket!Next, Bracket!Narrow
  <2>2. CASE Renews
    BY <2>2 DEF Renews, Bracket!Next, Bracket!NextReport, Bracket!Fresh, Bracket!Commits
  <2>3. CASE UNCHANGED <<GoodNow, BadNow, Low, High, Settles>>
    BY <2>3 DEF Bracket!bvars
  <2> QED BY <2>1, <2>2, <2>3, BracketStep
<1> QED BY <1>1, <1>2, MysqlInvariance, PTL DEF Spec, BracketSpec, Bracket!Spec
=============================================================================
