------------------------- MODULE MysqlClientProofs --------------------------
(***************************************************************************)
(* Theorems about MysqlClient, for any number of executions and of times   *)
(* the server goes down: the threads of timeout_query of all the           *)
(* executions may be alive at once and run between any two steps.          *)
(***************************************************************************)
EXTENDS MysqlClient, FiniteSetTheorems, TLAPS

(* Where execute is.                                                        *)
Connecting == {"connect", "reconnect", "fix"}
Connected  == {"reset", "arm", "query", "check", "finish"}
Running    == {"query", "check", "finish"}

Timers == [state : {"none", "asleep", "expired", "kill", "hit", "done"},
           process_id : 0..MaxExecs, cur_timeout_id : 0..MaxExecs,
           life : 0..MaxUpsets, during : 0..MaxExecs]

Results == {"none", "kNormal", "kTimeout", "kServerCrash"}

(* The two halves of the types: the control, and the per-execution maps.    *)
ControlTypes ==
  /\ up \in BOOLEAN /\ db \in Server!Databases /\ alive \in BOOLEAN
  /\ pc \in {"idle"} \cup Connecting \cup Connected /\ kind \in Kinds \cup {"none"}
  /\ n \in 0..MaxExecs /\ downs \in 0..MaxUpsets /\ born \in 0..downs
  /\ last_id \in 0..n /\ m_ \in 0..n /\ timeout_id \in 0..n
  /\ is_timeout \in BOOLEAN

MapTypes ==
  /\ timer \in [Execs -> Timers]
  /\ result \in [Execs -> Results]
  /\ disturbed \subseteq Execs /\ unreset \subseteq Execs
  /\ trouble \subseteq Troubles /\ caused \in [Execs -> SUBSET Troubles]

(* An execution takes one session and one timeout_id, and it has neither    *)
(* while it connects.                                                       *)
CountInv ==
  /\ pc \in Connecting => last_id < n
  /\ pc # "idle" => n > 0 /\ timeout_id < n
  /\ pc \notin Connected => m_ = 0 /\ ~alive

(* born is the life of the server that handed out m_: while that is the     *)
(* present one, m_ is the last number it handed out.                        *)
SessionInv ==
  /\ alive => born = downs
  /\ pc \in Connected /\ born = downs => up /\ m_ = last_id

DisturbedInv == pc # "idle" /\ ~up => n \in disturbed

(* The executions before this one have a result, the later ones have none.  *)
ResultInv ==
  \A k \in Execs : result[k] = "none" <=> k > n \/ (k = n /\ pc # "idle")

(* A thread starts with its execution's queries.  The session number it was *)
(* given is older than the present session's, unless it is of an earlier    *)
(* life of the server.                                                      *)
StartedInv ==
  \A k \in Execs :
    /\ k > n \/ (k = n /\ pc \in Connecting \cup {"reset", "arm"}) => timer[k].state = "none"
    /\ timer[k].state \in {"none", "asleep"} => timer[k].during = 0

AgeInv ==
  \A k \in Execs : timer[k].state # "none" =>
    /\ timer[k].life <= downs
    /\ timer[k].life = downs => up /\ timer[k].process_id <= last_id
    /\ timer[k].life = downs /\ k < n /\ pc \in Connected /\ born = downs =>
         timer[k].process_id < m_

(* A thread whose timeout_id is still the present one is of this execution, *)
(* or only crashes lie between the two.                                     *)
ClockInv ==
  \A k \in Execs : timer[k].state # "none" =>
    /\ timer[k].cur_timeout_id <= timeout_id
    /\ timer[k].cur_timeout_id = timeout_id =>
         \A j \in k..n : result[j] \in {"none", "kServerCrash"}

(* is_timeout is up from when a thread said so until the execution returns. *)
FlagInv ==
  pc \in Running =>
    /\ timer[n].state \in {"expired", "kill", "hit"} => is_timeout
    /\ is_timeout => \E k \in Execs : timer[k].during = n /\ StillOn(k, n)

ClientInv ==
  /\ ControlTypes /\ MapTypes
  /\ CountInv /\ SessionInv /\ DisturbedInv
  /\ ResultInv /\ StartedInv /\ AgeInv /\ ClockInv /\ FlagInv
  /\ TimeoutIsRecent /\ KilledIsNotNormal

(* What a step leaves of the threads and the results when it is none of     *)
(* ArmTimer, ServerCrash, Finish and the threads' own steps.                *)
LEMMA ThreadsStay ==
  ASSUME ClientInv, UNCHANGED <<n, shared, timer, result>>,
         pc \in Connecting \cup {"reset", "arm"} <=> pc' \in Connecting \cup {"reset", "arm"},
         pc \in Running <=> pc' \in Running,
         pc = "idle" <=> pc' = "idle",
         downs' = downs \/ downs' = downs + 1
  PROVE  ResultInv' /\ StartedInv' /\ ClockInv' /\ FlagInv' /\ TimeoutIsRecent' /\ KilledIsNotNormal'
<1>1. ResultInv' /\ StartedInv' /\ ClockInv'
  BY DEF ClientInv, shared, past, ResultInv, StartedInv, ClockInv
<1>2. FlagInv' /\ TimeoutIsRecent'
  BY DEF ClientInv, shared, past, FlagInv, TimeoutIsRecent, StillOn
<1>3. KilledIsNotNormal'
  BY DEF ClientInv, KilledIsNotNormal, AgeInv, ControlTypes, MapTypes, Timers
<1> QED
  BY <1>1, <1>2, <1>3

(* The session number is new in this life of the server.                    *)
LEMMA ConnectKeeps == ASSUME ClientInv, Connect PROVE ClientInv'
<1>1. ControlTypes' /\ MapTypes'
  BY ClientAssumption DEF ClientInv, Connect, Admits, server, shared, past, ControlTypes, MapTypes, CountInv, Connecting, Connected, Server!Databases, Execs
<1>2. CountInv' /\ SessionInv'
  BY DEF ClientInv, Connect, Admits, server, shared, past, ControlTypes, CountInv, SessionInv, Connecting, Connected
<1>3. DisturbedInv'
  BY DEF ClientInv, Connect, Admits, server, shared, past, ControlTypes, DisturbedInv
<1>4. AgeInv'
  BY DEF ClientInv, Connect, Admits, server, shared, past, ControlTypes, MapTypes, CountInv, SessionInv, StartedInv, AgeInv, Execs, Timers, Connecting, Connected
<1>5. ResultInv' /\ StartedInv' /\ ClockInv' /\ FlagInv' /\ TimeoutIsRecent' /\ KilledIsNotNormal'
  BY ThreadsStay DEF Connect, server, shared, past, Connecting, Running
<1> QED
  BY <1>1, <1>2, <1>3, <1>4, <1>5 DEF ClientInv

(* There is no session.                                                     *)
LEMMA ConnectFailsKeeps == ASSUME ClientInv, ConnectFails PROVE ClientInv'
<1>1. ControlTypes' /\ MapTypes'
  BY ClientAssumption DEF ClientInv, ConnectFails, server, shared, past, ControlTypes, MapTypes, CountInv, Connecting, Connected, Server!Databases, Execs
<1>2. CountInv' /\ SessionInv'
  BY DEF ClientInv, ConnectFails, server, shared, past, ControlTypes, CountInv, SessionInv, Connecting, Connected
<1>3. DisturbedInv'
  BY DEF ClientInv, ConnectFails, server, shared, past, ControlTypes, DisturbedInv
<1>4. AgeInv'
  BY DEF ClientInv, ConnectFails, server, shared, past, ControlTypes, MapTypes, CountInv, SessionInv, StartedInv, AgeInv, Execs, Timers, Connecting, Connected
<1>5. ResultInv' /\ StartedInv' /\ ClockInv' /\ FlagInv' /\ TimeoutIsRecent' /\ KilledIsNotNormal'
  BY ThreadsStay DEF ConnectFails, server, shared, past, Connecting, Running
<1> QED
  BY <1>1, <1>2, <1>3, <1>4, <1>5 DEF ClientInv

(* fix_database works on a session of its own.                              *)
LEMMA FixDatabaseKeeps == ASSUME ClientInv, FixDatabase PROVE ClientInv'
<1>a. db' \in Server!Databases /\ trouble' \subseteq Troubles
  BY DEF ClientInv, FixDatabase, Repair, Refused, Emptied, ControlTypes, MapTypes, Server!Databases
<1>b. unreset' \subseteq Execs
  BY DEF ClientInv, FixDatabase, MapTypes, past
<1>1. ControlTypes' /\ MapTypes'
  BY <1>a, <1>b DEF ClientInv, FixDatabase, shared, past, ControlTypes, MapTypes, Connecting, Connected
<1>2. CountInv' /\ SessionInv'
  BY DEF ClientInv, FixDatabase, server, shared, past, ControlTypes, CountInv, SessionInv, Connecting, Connected
<1>3. DisturbedInv'
  BY DEF ClientInv, FixDatabase, server, shared, past, ControlTypes, DisturbedInv
<1>4. AgeInv'
  BY DEF ClientInv, FixDatabase, server, shared, past, ControlTypes, MapTypes, CountInv, SessionInv, StartedInv, AgeInv, Execs, Timers, Connecting, Connected
<1>5. ResultInv' /\ StartedInv' /\ ClockInv' /\ FlagInv' /\ TimeoutIsRecent' /\ KilledIsNotNormal'
  BY ThreadsStay DEF FixDatabase, server, shared, past, Connecting, Running
<1> QED
  BY <1>1, <1>2, <1>3, <1>4, <1>5 DEF ClientInv

(* A session that is still there had a server to empty the database on.     *)
LEMMA ResetDatabaseKeeps == ASSUME ClientInv, ResetDatabase PROVE ClientInv'
<1>a. db' \in Server!Databases /\ trouble' \subseteq Troubles
  BY DEF ClientInv, ResetDatabase, Repair, Refused, Emptied, ControlTypes, MapTypes, Server!Databases
<1>b. unreset' \subseteq Execs
  <2>1. n \in Execs
    BY DEF ClientInv, ResetDatabase, ControlTypes, CountInv, Execs
  <2>2. unreset' = unreset \/ unreset' = unreset \cup {n}
    BY DEF ResetDatabase
  <2> QED
    BY <2>1, <2>2 DEF ClientInv, MapTypes
<1>1. ControlTypes' /\ MapTypes'
  BY <1>a, <1>b DEF ClientInv, ResetDatabase, shared, past, ControlTypes, MapTypes, Connecting, Connected
<1>2. CountInv' /\ SessionInv'
  BY DEF ClientInv, ResetDatabase, server, shared, past, ControlTypes, CountInv, SessionInv, Connecting, Connected
<1>3. DisturbedInv'
  BY DEF ClientInv, ResetDatabase, server, shared, past, ControlTypes, DisturbedInv
<1>4. AgeInv'
  BY DEF ClientInv, ResetDatabase, server, shared, past, ControlTypes, MapTypes, CountInv, SessionInv, StartedInv, AgeInv, Execs, Timers, Connecting, Connected
<1>5. ResultInv' /\ StartedInv' /\ ClockInv' /\ FlagInv' /\ TimeoutIsRecent' /\ KilledIsNotNormal'
  BY ThreadsStay DEF ResetDatabase, server, shared, past, Connecting, Running
<1> QED
  BY <1>1, <1>2, <1>3, <1>4, <1>5 DEF ClientInv

(* The queries leave the session and the threads alone.                     *)
LEMMA RunQueriesKeeps == ASSUME ClientInv, RunQueries PROVE ClientInv'
<1>1. ControlTypes' /\ MapTypes'
  BY ClientAssumption DEF ClientInv, RunQueries, Leaves, Server!Databases, server, shared, past, ControlTypes, MapTypes, CountInv, Connecting, Connected, Server!Databases, Execs
<1>2. CountInv' /\ SessionInv'
  BY DEF ClientInv, RunQueries, Leaves, Server!Databases, server, shared, past, ControlTypes, CountInv, SessionInv, Connecting, Connected
<1>3. DisturbedInv'
  BY DEF ClientInv, RunQueries, Leaves, Server!Databases, server, shared, past, ControlTypes, DisturbedInv
<1>4. AgeInv'
  BY DEF ClientInv, RunQueries, Leaves, Server!Databases, server, shared, past, ControlTypes, MapTypes, CountInv, SessionInv, StartedInv, AgeInv, Execs, Timers, Connecting, Connected
<1>5. ResultInv' /\ StartedInv' /\ ClockInv' /\ FlagInv' /\ TimeoutIsRecent' /\ KilledIsNotNormal'
  BY ThreadsStay DEF RunQueries, server, shared, past, Connecting, Running
<1> QED
  BY <1>1, <1>2, <1>3, <1>4, <1>5 DEF ClientInv

(* Nothing but the program counter moves.                                   *)
LEMMA CheckAliveKeeps == ASSUME ClientInv, CheckAlive PROVE ClientInv'
<1>1. ControlTypes' /\ MapTypes'
  BY ClientAssumption DEF ClientInv, CheckAlive, server, shared, past, ControlTypes, MapTypes, CountInv, Connecting, Connected, Server!Databases, Execs
<1>2. CountInv' /\ SessionInv'
  BY DEF ClientInv, CheckAlive, server, shared, past, ControlTypes, CountInv, SessionInv, Connecting, Connected
<1>3. DisturbedInv'
  BY DEF ClientInv, CheckAlive, server, shared, past, ControlTypes, DisturbedInv
<1>4. AgeInv'
  BY DEF ClientInv, CheckAlive, server, shared, past, ControlTypes, MapTypes, CountInv, SessionInv, StartedInv, AgeInv, Execs, Timers, Connecting, Connected
<1>5. ResultInv' /\ StartedInv' /\ ClockInv' /\ FlagInv' /\ TimeoutIsRecent' /\ KilledIsNotNormal'
  BY ThreadsStay DEF CheckAlive, server, shared, past, Connecting, Running
<1> QED
  BY <1>1, <1>2, <1>3, <1>4, <1>5 DEF ClientInv

(* Every time the server went down is an upset.                             *)
LEMMA DownsAreBounded == ASSUME ClientInv PROVE Upsets \in Nat /\ downs <= Upsets
<1> DEFINE troubled == {k \in Execs : caused[k] # {}}
<1>1. IsFiniteSet(Execs)
  BY ClientAssumption, FS_Interval DEF Execs
<1>2. IsFiniteSet(troubled)
  BY <1>1, FS_Subset
<1>3. Cardinality(troubled) \in Nat
  BY <1>2, FS_CardinalityType
<1> QED
  BY <1>3 DEF Upsets, ClientInv, ControlTypes

(* An input spoils nothing the client keeps.                                *)
LEMMA DegradeKeeps == ASSUME ClientInv, Degrade PROVE ClientInv'
<1>a. PICK t \in Troubles : /\ trouble' = trouble \cup {t}
                            /\ caused' = [caused EXCEPT ![n] = @ \cup {t}]
  BY DEF Degrade
<1>b. /\ trouble' \subseteq Troubles /\ caused' \in [Execs -> SUBSET Troubles]
      /\ UNCHANGED <<up, db, last_id, alive, downs, pc, n, kind, m_, born, shared, timer, result>>
      /\ UNCHANGED <<disturbed, unreset>>
  BY <1>a DEF ClientInv, Degrade, MapTypes
<1>1. ControlTypes' /\ MapTypes'
  BY <1>b DEF ClientInv, shared, ControlTypes, MapTypes
<1>2. CountInv' /\ SessionInv' /\ DisturbedInv'
  BY <1>b DEF ClientInv, CountInv, SessionInv, DisturbedInv, shared
<1>3. AgeInv'
  BY <1>b DEF ClientInv, AgeInv
<1>4. ResultInv' /\ StartedInv' /\ ClockInv' /\ FlagInv' /\ TimeoutIsRecent' /\ KilledIsNotNormal'
  BY <1>b, ThreadsStay
<1> QED
  BY <1>1, <1>2, <1>3, <1>4 DEF ClientInv

(* Whatever session there was is of an earlier life now.                    *)
LEMMA GoDownKeeps == ASSUME ClientInv, GoDown PROVE ClientInv'
<1>a. downs' \in 0..MaxUpsets /\ born' \in 0..downs'
  BY ClientAssumption, DownsAreBounded DEF ClientInv, GoDown, ControlTypes
<1>b. disturbed' \subseteq Execs
  BY DEF ClientInv, GoDown, ControlTypes, MapTypes, CountInv, Execs
<1>c. trouble' \subseteq Troubles
  BY DEF GoDown
<1>1. ControlTypes' /\ MapTypes'
  BY <1>a, <1>b, <1>c DEF ClientInv, GoDown, Server!GoDown, shared, past, ControlTypes, MapTypes, Server!Databases
<1>2. CountInv' /\ SessionInv'
  BY DEF ClientInv, GoDown, Server!GoDown, server, shared, past, ControlTypes, CountInv, SessionInv, Connecting, Connected
<1>3. DisturbedInv'
  BY DEF ClientInv, GoDown, Server!GoDown, server, shared, past, ControlTypes, DisturbedInv
<1>4. AgeInv'
  BY DEF ClientInv, GoDown, Server!GoDown, server, shared, past, ControlTypes, MapTypes, CountInv, SessionInv, StartedInv, AgeInv, Execs, Timers, Connecting, Connected
<1>5. ResultInv' /\ StartedInv' /\ ClockInv' /\ FlagInv' /\ TimeoutIsRecent' /\ KilledIsNotNormal'
  BY ThreadsStay DEF GoDown, server, shared, past, Connecting, Running
<1> QED
  BY <1>1, <1>2, <1>3, <1>4, <1>5 DEF ClientInv

(* Numbers start over, in a life in which no thread was started yet.        *)
LEMMA ComeUpKeeps == ASSUME ClientInv, ComeUp PROVE ClientInv'
<1>1. ControlTypes' /\ MapTypes'
  BY ClientAssumption DEF ClientInv, ComeUp, Server!ComeUp, server, shared, past, ControlTypes, MapTypes, CountInv, Connecting, Connected, Server!Databases, Execs
<1>2. CountInv' /\ SessionInv'
  BY DEF ClientInv, ComeUp, Server!ComeUp, server, shared, past, ControlTypes, CountInv, SessionInv, Connecting, Connected
<1>3. DisturbedInv'
  BY DEF ClientInv, ComeUp, Server!ComeUp, server, shared, past, ControlTypes, DisturbedInv
<1>4. AgeInv'
  BY DEF ClientInv, ComeUp, Server!ComeUp, server, shared, past, ControlTypes, MapTypes, CountInv, SessionInv, StartedInv, AgeInv, Execs, Timers, Connecting, Connected
<1>5. ResultInv' /\ StartedInv' /\ ClockInv' /\ FlagInv' /\ TimeoutIsRecent' /\ KilledIsNotNormal'
  BY ThreadsStay DEF ComeUp, server, shared, past, Connecting, Running
<1> QED
  BY <1>1, <1>2, <1>3, <1>4, <1>5 DEF ClientInv

(* Verdicts and the words of the threads they rest on are final.            *)
LEMMA EvidenceStays ==
  ASSUME ClientInv,
         \A k \in Execs : timer[k].during # 0 => timer'[k].during = timer[k].during,
         \A k \in Execs : result[k] # "none" => result'[k] = result[k],
         NEW e \in Execs, NEW k \in Execs, timer[k].during = e, StillOn(k, e)
  PROVE  timer'[k].during = e /\ StillOn(k, e)'
<1>1. timer'[k].during = e
  BY DEF Execs
<1>2. ASSUME NEW j \in k..(e - 1) PROVE result'[j] = "kServerCrash"
  <2>1. j \in Execs /\ result[j] = "kServerCrash"
    BY ClientAssumption DEF StillOn, Execs
  <2> QED
    BY <2>1
<1> QED
  BY <1>1, <1>2 DEF StillOn

(* A step that records no new timeout and forgets no thread keeps every timeout recent. *)
LEMMA TimeoutsStay ==
  ASSUME ClientInv,
         \A k \in Execs : timer[k].during # 0 => timer'[k].during = timer[k].during,
         \A k \in Execs : result[k] # "none" => result'[k] = result[k],
         \A e \in Execs : result'[e] = "kTimeout" => result[e] = "kTimeout"
  PROVE  TimeoutIsRecent'
<1> SUFFICES ASSUME NEW e \in Execs, result'[e] = "kTimeout"
             PROVE  \E k \in Execs : timer'[k].during = e /\ StillOn(k, e)'
  BY DEF TimeoutIsRecent
<1>1. PICK k \in Execs : timer[k].during = e /\ StillOn(k, e)
  BY DEF ClientInv, TimeoutIsRecent
<1> QED
  BY <1>1, EvidenceStays

(* The execution before this one is over, whichever way.                    *)
LEMMA ExecuteKeeps == ASSUME ClientInv, Execute PROVE ClientInv'
<1>1. ControlTypes' /\ MapTypes'
  BY ClientAssumption DEF ClientInv, Execute, server, shared, past, ControlTypes, MapTypes, CountInv, Connecting, Connected, Execs
<1>2. CountInv' /\ SessionInv' /\ DisturbedInv'
  BY DEF ClientInv, Execute, server, shared, past, ControlTypes, CountInv, SessionInv, DisturbedInv, Connecting, Connected
<1>3. ResultInv' /\ StartedInv'
  BY DEF ClientInv, Execute, server, shared, past, ControlTypes, ResultInv, StartedInv, Connecting, Connected, Execs
<1>4. AgeInv' /\ FlagInv'
  BY DEF ClientInv, Execute, server, shared, past, ControlTypes, MapTypes, CountInv, StartedInv, AgeInv, FlagInv, Execs, Timers, Connecting, Connected, Running
<1>5. ClockInv'
  <2> SUFFICES ASSUME NEW k \in Execs, timer[k].state # "none", NEW j \in k..(n + 1),
                      timer[k].cur_timeout_id = timeout_id
               PROVE  result[j] \in {"none", "kServerCrash"}
    BY DEF Execute, shared, past, ClientInv, ClockInv
  <2>1. n + 1 \in Execs /\ result[n + 1] = "none"
    BY ClientAssumption DEF Execute, ClientInv, ControlTypes, ResultInv, Execs
  <2>2. j \in k..n \/ j = n + 1
    BY DEF ClientInv, ControlTypes, Execs
  <2> QED
    BY <2>1, <2>2 DEF ClientInv, ClockInv
<1>6. TimeoutIsRecent' /\ KilledIsNotNormal'
  BY DEF Execute, ClientInv, server, shared, past, TimeoutIsRecent, KilledIsNotNormal, StillOn
<1> QED
  BY <1>1, <1>2, <1>3, <1>4, <1>5, <1>6 DEF ClientInv

(* The new thread belongs to this execution, session and timeout_id.        *)
LEMMA ArmTimerKeeps == ASSUME ClientInv, ArmTimer PROVE ClientInv'
<1> DEFINE new == [state |-> "asleep", process_id |-> m_, cur_timeout_id |-> timeout_id,
                   life |-> born, during |-> 0]
<1>1. /\ n \in Execs /\ pc = "arm" /\ pc' = "query" /\ is_timeout' = FALSE
      /\ UNCHANGED <<up, db, last_id, alive, downs, trouble, n, m_, born, timeout_id, result, disturbed, caused, unreset>>
      /\ kind' \in Kinds
  BY DEF ArmTimer, server, past, ClientInv, ControlTypes, CountInv, Connecting, Connected, Execs
<1>2. new \in Timers
  BY <1>1, ClientAssumption DEF ClientInv, ControlTypes, Timers
<1>3. /\ timer' \in [Execs -> Timers]
      /\ timer'[n] = new
      /\ \A k \in Execs : k # n => timer'[k] = timer[k]
  BY <1>1, <1>2 DEF ArmTimer, ClientInv, MapTypes
<1>4. timer[n].state = "none" /\ timer[n].during = 0 /\ result[n] = "none"
  BY <1>1 DEF ClientInv, StartedInv, ResultInv, ControlTypes, Execs
<1>5. ControlTypes' /\ MapTypes'
  BY <1>1, <1>3 DEF ClientInv, ControlTypes, MapTypes, Connecting, Connected
<1>6. CountInv' /\ SessionInv' /\ DisturbedInv'
  BY <1>1 DEF ClientInv, CountInv, SessionInv, DisturbedInv, Connecting, Connected
<1>7. ResultInv' /\ StartedInv'
  <2>1. ResultInv'
    BY <1>1 DEF ClientInv, ResultInv
  <2>2. StartedInv'
    BY <1>1, <1>3 DEF ClientInv, ControlTypes, StartedInv, Connecting
  <2> QED
    BY <2>1, <2>2
<1>8. AgeInv'
  BY <1>1, <1>3 DEF ClientInv, SessionInv, AgeInv, ControlTypes, Connected
<1>9. ClockInv'
  <2>1. ASSUME NEW k \in Execs, k # n, timer'[k].state # "none"
        PROVE  /\ timer'[k].cur_timeout_id <= timeout_id'
               /\ timer'[k].cur_timeout_id = timeout_id' =>
                    \A j \in k..n' : result'[j] \in {"none", "kServerCrash"}
    BY <1>1, <1>3, <2>1 DEF ClientInv, ClockInv
  <2>2. /\ timer'[n].cur_timeout_id <= timeout_id'
        /\ \A j \in n..n' : result'[j] \in {"none", "kServerCrash"}
    BY <1>1, <1>3, <1>4 DEF ClientInv, ControlTypes
  <2> QED
    BY <1>1, <2>1, <2>2 DEF ClockInv
<1>10. FlagInv' /\ KilledIsNotNormal'
  BY <1>1, <1>3, <1>4 DEF ClientInv, FlagInv, KilledIsNotNormal
<1>11. TimeoutIsRecent'
  BY <1>1, <1>3, <1>4, TimeoutsStay
<1> QED
  BY <1>5, <1>6, <1>7, <1>8, <1>9, <1>10, <1>11 DEF ClientInv

(* No thread of this execution or of an earlier one can blame a later one    *)
(* that a crash did not lead to.                                            *)
LEMMA ServerCrashKeeps == ASSUME ClientInv, ServerCrash PROVE ClientInv'
<1>1. /\ n \in Execs /\ pc = "check" /\ pc' = "idle" /\ m_' = 0 /\ alive' = FALSE /\ born' = 0
      /\ UNCHANGED <<up, db, last_id, downs, trouble, n, kind, timeout_id, is_timeout, timer, disturbed, caused, unreset>>
  BY DEF ServerCrash, Disconnect, shared, past, ClientInv, ControlTypes, CountInv, Connecting, Connected, Execs
<1>2. /\ result' \in [Execs -> Results]
      /\ result[n] = "none" /\ result'[n] = "kServerCrash"
      /\ \A j \in Execs : j # n => result'[j] = result[j]
  BY <1>1 DEF ServerCrash, ClientInv, MapTypes, Results, ResultInv
<1>a. m_' \in 0..n' /\ born' \in 0..downs'
  BY <1>1 DEF ClientInv, ControlTypes
<1>3. ControlTypes' /\ MapTypes'
  BY <1>1, <1>2, <1>a DEF ClientInv, ControlTypes, MapTypes
<1>4. CountInv' /\ SessionInv' /\ DisturbedInv'
  BY <1>1 DEF ClientInv, CountInv, SessionInv, DisturbedInv, Connecting, Connected
<1>6. ResultInv'
  BY <1>1, <1>2 DEF ClientInv, ResultInv, ControlTypes
<1>7. StartedInv' /\ AgeInv' /\ FlagInv'
  BY <1>1 DEF ClientInv, StartedInv, AgeInv, FlagInv, Connecting, Connected, Running
<1>8. ClockInv'
  <2> SUFFICES ASSUME NEW k \in Execs, timer[k].state # "none", NEW j \in k..n,
                      timer[k].cur_timeout_id = timeout_id
               PROVE  result'[j] \in {"none", "kServerCrash"}
    BY <1>1 DEF ClientInv, ClockInv
  <2>1. j \in Execs /\ result[j] \in {"none", "kServerCrash"}
    BY ClientAssumption DEF ClientInv, ClockInv, ControlTypes, Execs
  <2> QED
    BY <2>1, <1>2
<1>9. TimeoutIsRecent' /\ KilledIsNotNormal'
  <2>1. TimeoutIsRecent'
    BY <1>1, <1>2, TimeoutsStay
  <2>2. KilledIsNotNormal'
    BY <1>1, <1>2 DEF ClientInv, KilledIsNotNormal
  <2> QED
    BY <2>1, <2>2
<1> QED
  BY <1>3, <1>4, <1>6, <1>7, <1>8, <1>9 DEF ClientInv

(* A regular end makes the timeout_id of every thread an old one.           *)
LEMMA FinishKeeps == ASSUME ClientInv, Finish PROVE ClientInv'
<1>1. /\ n \in Execs /\ pc = "finish" /\ pc' = "idle" /\ m_' = 0 /\ alive' = FALSE /\ born' = 0
      /\ timeout_id' = timeout_id + 1 /\ is_timeout' = FALSE
      /\ UNCHANGED <<up, db, last_id, downs, trouble, n, kind, timer, disturbed, caused, unreset>>
  BY DEF Finish, Disconnect, NextTimeoutId, past, ClientInv, ControlTypes, CountInv, Connecting, Connected, Execs
<1>2. /\ result' \in [Execs -> Results]
      /\ result[n] = "none" /\ result'[n] = IF is_timeout THEN "kTimeout" ELSE "kNormal"
      /\ \A j \in Execs : j # n => result'[j] = result[j]
  BY <1>1 DEF Finish, Verdict, ClientInv, MapTypes, Results, ResultInv
<1>3. timeout_id' \in 0..n' /\ m_' \in 0..n' /\ born' \in 0..downs'
  BY <1>1 DEF ClientInv, ControlTypes, CountInv
<1>4. ControlTypes' /\ MapTypes'
  BY <1>1, <1>2, <1>3 DEF ClientInv, ControlTypes, MapTypes
<1>5. CountInv' /\ SessionInv' /\ DisturbedInv'
  BY <1>1 DEF ClientInv, CountInv, SessionInv, DisturbedInv, Connecting, Connected
<1>7. ResultInv'
  BY <1>1, <1>2 DEF ClientInv, ResultInv, ControlTypes
<1>8. StartedInv' /\ AgeInv' /\ FlagInv'
  BY <1>1 DEF ClientInv, StartedInv, AgeInv, FlagInv, Connecting, Connected, Running
<1>9. ClockInv'
  <2> SUFFICES ASSUME NEW k \in Execs, timer[k].state # "none"
               PROVE  timer[k].cur_timeout_id < timeout_id + 1
    BY <1>1 DEF ClientInv, ClockInv, ControlTypes, MapTypes, Timers
  <2>1. timer[k].cur_timeout_id <= timeout_id /\ timer[k] \in Timers
    BY DEF ClientInv, ClockInv, MapTypes
  <2> QED
    BY <2>1 DEF ClientInv, ControlTypes, Timers
<1>10. TimeoutIsRecent'
  <2> SUFFICES ASSUME NEW e \in Execs, result'[e] = "kTimeout"
               PROVE  \E k \in Execs : timer'[k].during = e /\ StillOn(k, e)'
    BY DEF TimeoutIsRecent
  <2>1. PICK k \in Execs : timer[k].during = e /\ StillOn(k, e)
    BY <1>1, <1>2 DEF ClientInv, FlagInv, TimeoutIsRecent, Running
  <2> QED
    BY <1>1, <1>2, <2>1, EvidenceStays
<1>11. KilledIsNotNormal'
  BY <1>1, <1>2 DEF ClientInv, KilledIsNotNormal, FlagInv, Running
<1> QED
  BY <1>4, <1>5, <1>7, <1>8, <1>9, <1>10, <1>11 DEF ClientInv

(* One step of the thread of execution k, to state s, with d for during.    *)
ThreadMoves(k, s, d) ==
  /\ timer' \in [Execs -> Timers]
  /\ timer'[k] = [timer[k] EXCEPT !.state = s, !.during = d]
  /\ \A j \in Execs : j # k => timer'[j] = timer[j]

(* What such a step leaves alone, when no more than is_timeout and the       *)
(* session change with it.                                                  *)
LEMMA ThreadMovesKeeps ==
  ASSUME ClientInv, NEW k \in Execs, NEW s, NEW d, ThreadMoves(k, s, d),
         timer[k].state # "none", s \in {"expired", "kill", "hit", "done"},
         timer[k].during # 0 => d = timer[k].during,
         is_timeout' \in BOOLEAN, alive' \in BOOLEAN, alive' => alive,
         UNCHANGED <<up, db, last_id, downs, trouble, pc, n, kind, m_, born, timeout_id, result, disturbed, caused, unreset>>
  PROVE  /\ ControlTypes' /\ MapTypes' /\ CountInv' /\ SessionInv'
         /\ DisturbedInv' /\ ResultInv' /\ StartedInv' /\ AgeInv' /\ ClockInv'
         /\ TimeoutIsRecent'
<1>1. /\ timer'[k].state = s /\ timer'[k].during = d
      /\ timer'[k].process_id = timer[k].process_id
      /\ timer'[k].cur_timeout_id = timer[k].cur_timeout_id /\ timer'[k].life = timer[k].life
  BY DEF ThreadMoves, ClientInv, MapTypes, Timers
<1>2. ControlTypes' /\ MapTypes'
  BY DEF ThreadMoves, ClientInv, ControlTypes, MapTypes
<1>3. CountInv' /\ SessionInv' /\ DisturbedInv'
  BY DEF ClientInv, ControlTypes, CountInv, SessionInv, DisturbedInv
<1>4. ResultInv'
  BY DEF ClientInv, ResultInv
<1>5. StartedInv'
  BY <1>1 DEF ThreadMoves, ClientInv, StartedInv
<1>6. AgeInv'
  BY <1>1 DEF ThreadMoves, ClientInv, AgeInv
<1>7. ClockInv'
  <2> SUFFICES ASSUME NEW i \in Execs, timer'[i].state # "none"
               PROVE  /\ timer'[i].cur_timeout_id <= timeout_id
                      /\ timer'[i].cur_timeout_id = timeout_id =>
                           \A j \in i..n : result[j] \in {"none", "kServerCrash"}
    BY DEF ClockInv
  <2>1. timer[i].state # "none" /\ timer'[i].cur_timeout_id = timer[i].cur_timeout_id
    BY <1>1 DEF ThreadMoves
  <2> QED
    BY <2>1 DEF ClientInv, ClockInv
<1>8. TimeoutIsRecent'
  BY <1>1, TimeoutsStay DEF ThreadMoves
<1> QED
  BY <1>2, <1>3, <1>4, <1>5, <1>6, <1>7, <1>8

(* SetState is such a step.                                                 *)
LEMMA SetStateMoves ==
  ASSUME ClientInv, NEW k \in Execs, NEW s \in {"expired", "kill", "hit", "done"},
         SetState(k, s)
  PROVE  ThreadMoves(k, s, timer[k].during)
<1>1. timer \in [Execs -> Timers] /\ timer[k] \in Timers
  BY DEF ClientInv, MapTypes
<1>2. [timer[k] EXCEPT !.state = s] \in Timers
  BY <1>1 DEF Timers
<1>3. [timer[k] EXCEPT !.state = s] = [timer[k] EXCEPT !.state = s, !.during = timer[k].during]
  BY <1>1 DEF Timers
<1>4. timer' = [timer EXCEPT ![k] = [timer[k] EXCEPT !.state = s]]
  BY DEF SetState
<1> QED
  BY <1>1, <1>2, <1>3, <1>4 DEF ThreadMoves

(* A step that does not touch is_timeout keeps what is known of it.         *)
LEMMA FlagStays ==
  ASSUME ClientInv, NEW k \in Execs, NEW s, NEW d, ThreadMoves(k, s, d),
         timer[k].during # 0 => d = timer[k].during,
         UNCHANGED <<pc, n, is_timeout, result>>,
         s = "done" \/ is_timeout \/ (s = "hit" /\ timer[k].state = "kill")
  PROVE  FlagInv'
<1>1. timer'[k].state = s /\ timer'[k].during = d
  BY DEF ThreadMoves, ClientInv, MapTypes, Timers
<1> SUFFICES ASSUME pc \in Running
             PROVE  /\ timer'[n].state \in {"expired", "kill", "hit"} => is_timeout
                    /\ is_timeout => \E e \in Execs : timer'[e].during = n /\ StillOn(e, n)'
  BY DEF FlagInv
<1>2. n \in Execs
  BY DEF ClientInv, ControlTypes, CountInv, Running, Execs
<1>3. timer'[n].state \in {"expired", "kill", "hit"} => is_timeout
  BY <1>1, <1>2 DEF ThreadMoves, ClientInv, FlagInv
<1>4. ASSUME is_timeout PROVE \E e \in Execs : timer'[e].during = n /\ StillOn(e, n)'
  <2>1. PICK e \in Execs : timer[e].during = n /\ StillOn(e, n)
    BY <1>4 DEF ClientInv, FlagInv
  <2> QED
    BY <1>1, <1>2, <2>1, EvidenceStays DEF ThreadMoves
<1> QED
  BY <1>3, <1>4

(* A thread that finds its timeout_id unchanged speaks of this execution,   *)
(* after crashes only.                                                      *)
LEMMA TimerWakesKeeps == ASSUME ClientInv, NEW k \in Execs, TimerWakes(k) PROVE ClientInv'
<1>1. /\ timer[k].state = "asleep" /\ timer[k].during = 0 /\ k <= n
      /\ UNCHANGED <<up, db, alive, last_id, downs, trouble, pc, n, kind, m_, born, timeout_id, result, disturbed, caused, unreset>>
  BY DEF TimerWakes, server, past, ClientInv, StartedInv, ControlTypes, Execs
<1>2. CASE timeout_id = timer[k].cur_timeout_id
  <2>1. is_timeout' = TRUE /\ timer' = [timer EXCEPT ![k].state = "expired", ![k].during = n]
    BY <1>2 DEF TimerWakes
  <2>2. ThreadMoves(k, "expired", n)
    <3>1. timer[k] \in Timers /\ n \in 0..MaxExecs
      BY DEF ClientInv, ControlTypes, MapTypes
    <3>2. [timer[k] EXCEPT !.state = "expired", !.during = n] \in Timers
      BY <3>1 DEF Timers
    <3>3. timer' = [timer EXCEPT ![k] = [timer[k] EXCEPT !.state = "expired", !.during = n]]
      BY <2>1
    <3> QED
      BY <3>2, <3>3 DEF ThreadMoves, ClientInv, MapTypes
  <2>3. /\ ControlTypes' /\ MapTypes' /\ CountInv' /\ SessionInv'
        /\ DisturbedInv' /\ ResultInv' /\ StartedInv' /\ AgeInv' /\ ClockInv'
        /\ TimeoutIsRecent'
    BY <1>1, <2>1, <2>2, ThreadMovesKeeps DEF ClientInv, ControlTypes
  <2>4. timer'[k].state = "expired" /\ timer'[k].during = n
    BY <2>2 DEF ThreadMoves, ClientInv, MapTypes, Timers
  <2>5. StillOn(k, n)'
    <3> SUFFICES ASSUME NEW j \in k..(n - 1) PROVE result[j] = "kServerCrash"
      BY <1>1 DEF StillOn
    <3>1. j \in Execs /\ j < n /\ j \in k..n
      BY ClientAssumption DEF ClientInv, ControlTypes, Execs
    <3>2. result[j] \in {"none", "kServerCrash"}
      BY <1>1, <1>2, <3>1 DEF ClientInv, ClockInv
    <3>3. result[j] # "none"
      BY <3>1 DEF ClientInv, ResultInv, ControlTypes, Execs
    <3> QED
      BY <3>2, <3>3
  <2>6. FlagInv'
    BY <1>1, <2>1, <2>4, <2>5 DEF FlagInv
  <2>7. KilledIsNotNormal'
    BY <1>1, <2>2, <2>4 DEF ThreadMoves, ClientInv, KilledIsNotNormal
  <2> QED
    BY <2>3, <2>6, <2>7 DEF ClientInv
<1>3. CASE timeout_id # timer[k].cur_timeout_id
  <2>1. UNCHANGED is_timeout /\ SetState(k, "done")
    BY <1>3 DEF TimerWakes
  <2>2. ThreadMoves(k, "done", timer[k].during)
    BY <2>1, SetStateMoves
  <2>3. /\ ControlTypes' /\ MapTypes' /\ CountInv' /\ SessionInv'
        /\ DisturbedInv' /\ ResultInv' /\ StartedInv' /\ AgeInv' /\ ClockInv'
        /\ TimeoutIsRecent'
    BY <1>1, <2>1, <2>2, ThreadMovesKeeps DEF ClientInv, ControlTypes
  <2>4. FlagInv'
    BY <1>1, <2>1, <2>2, FlagStays
  <2>5. timer'[k].state = "done"
    BY <2>2 DEF ThreadMoves, ClientInv, MapTypes, Timers
  <2>6. KilledIsNotNormal'
    BY <1>1, <2>2, <2>5 DEF ThreadMoves, ClientInv, KilledIsNotNormal
  <2> QED
    BY <2>3, <2>4, <2>6 DEF ClientInv
<1> QED
  BY <1>2, <1>3

(* The thread goes on to kill only while is_timeout is up.                  *)
LEMMA TimerLooksKeeps == ASSUME ClientInv, NEW k \in Execs, TimerLooks(k) PROVE ClientInv'
<1> DEFINE s == IF is_timeout THEN "kill" ELSE "done"
<1>1. /\ timer[k].state = "expired" /\ SetState(k, s)
      /\ UNCHANGED <<up, db, alive, last_id, downs, trouble, pc, n, kind, m_, born, timeout_id, is_timeout,
                     result, disturbed, caused, unreset>>
  BY DEF TimerLooks, server, shared, past
<1>2. s \in {"kill", "done"} /\ (s = "done" \/ is_timeout)
  OBVIOUS
<1> HIDE DEF s
<1>3. ThreadMoves(k, s, timer[k].during)
  BY <1>1, <1>2, SetStateMoves
<1>4. /\ ControlTypes' /\ MapTypes' /\ CountInv' /\ SessionInv'
      /\ DisturbedInv' /\ ResultInv' /\ StartedInv' /\ AgeInv' /\ ClockInv'
      /\ TimeoutIsRecent'
  BY <1>1, <1>2, <1>3, ThreadMovesKeeps DEF ClientInv, ControlTypes
<1>5. FlagInv'
  BY <1>1, <1>2, <1>3, FlagStays
<1>6. timer'[k].state = s
  BY <1>3 DEF ThreadMoves, ClientInv, MapTypes, Timers
<1>7. KilledIsNotNormal'
  BY <1>1, <1>2, <1>3, <1>6 DEF ThreadMoves, ClientInv, KilledIsNotNormal
<1> QED
  BY <1>4, <1>5, <1>7 DEF ClientInv

(* The session a thread finds to kill is of its own execution, unless the   *)
(* server was down since.                                                   *)
LEMMA OwnSession ==
  ASSUME ClientInv, NEW k \in Execs, timer[k].state # "none", Hits(k)
  PROVE  k = n \/ timer[k].life < downs
<1>1. alive /\ pc \in Connected /\ born = downs /\ m_ = timer[k].process_id
  BY DEF Hits, ClientInv, CountInv, SessionInv
<1>2. k <= n /\ timer[k].life <= downs
  BY DEF ClientInv, StartedInv, AgeInv, ControlTypes, Execs
<1>3. ASSUME k < n, timer[k].life = downs PROVE FALSE
  <2>1. timer[k].process_id < m_ /\ m_ \in Int
    BY <1>1, <1>3 DEF ClientInv, AgeInv, ControlTypes
  <2> QED
    BY <1>1, <2>1
<1>4. timer[k].life \in Int /\ downs \in Int /\ k \in Int /\ n \in Int
  BY DEF ClientInv, ControlTypes, MapTypes, Timers, Execs
<1> QED
  BY <1>2, <1>3, <1>4

(* A thread kills the session that bears the number it was given, whoever owns it now. *)
LEMMA TimerKillsKeeps == ASSUME ClientInv, NEW k \in Execs, TimerKills(k) PROVE ClientInv'
<1> DEFINE s == IF Hits(k) THEN "hit" ELSE "done"
<1>1. /\ timer[k].state = "kill" /\ SetState(k, s) /\ alive' = (alive /\ ~Hits(k))
      /\ UNCHANGED <<up, db, last_id, downs, trouble, pc, n, kind, m_, born, timeout_id, is_timeout,
                     result, disturbed, caused, unreset>>
  BY DEF TimerKills, shared, past
<1>2. s \in {"hit", "done"} /\ (s = "hit" => Hits(k))
  OBVIOUS
<1>3. alive' \in BOOLEAN /\ (alive' => alive)
  BY <1>1
<1> HIDE DEF s
<1>4. ThreadMoves(k, s, timer[k].during)
  BY <1>1, <1>2, SetStateMoves
<1>5. /\ ControlTypes' /\ MapTypes' /\ CountInv' /\ SessionInv'
      /\ DisturbedInv' /\ ResultInv' /\ StartedInv' /\ AgeInv' /\ ClockInv'
      /\ TimeoutIsRecent'
  BY <1>1, <1>2, <1>3, <1>4, ThreadMovesKeeps DEF ClientInv, ControlTypes
<1>6. FlagInv'
  BY <1>1, <1>2, <1>4, FlagStays
<1>7. timer'[k].state = s /\ timer'[k].life = timer[k].life
  BY <1>4 DEF ThreadMoves, ClientInv, MapTypes, Timers
<1>8. ASSUME s = "hit", timer[k].life = downs PROVE result[k] # "kNormal"
  <2>1. k = n
    BY <1>1, <1>2, <1>8, OwnSession DEF ClientInv, ControlTypes
  <2>2. pc # "idle"
    BY <1>2, <1>8 DEF Hits, ClientInv, CountInv, Connected
  <2> QED
    BY <2>1, <2>2 DEF ClientInv, ResultInv
<1>9. KilledIsNotNormal'
  BY <1>1, <1>4, <1>7, <1>8 DEF ThreadMoves, ClientInv, KilledIsNotNormal
<1> QED
  BY <1>5, <1>6, <1>9 DEF ClientInv

---------------------------------------------------------------------------
(* The invariant holds before the first execution. *)
LEMMA ClientInit == Init => ClientInv
<1> SUFFICES ASSUME Init PROVE ClientInv
  OBVIOUS
<1>1. NoTimer \in Timers /\ NoTimer.state = "none" /\ NoTimer.during = 0
  BY ClientAssumption DEF NoTimer, Timers
<1>2. timer = [k \in Execs |-> NoTimer] /\ \A k \in Execs : timer[k] = NoTimer
  BY DEF Init
<1>3. MapTypes
  BY <1>1, <1>2 DEF Init, MapTypes, Results
<1>4. 0 \in 0..MaxExecs /\ 0 \in 0..MaxUpsets /\ 0 \in 0..0
  BY ClientAssumption
<1>5. ControlTypes
  BY <1>4 DEF Init, Server!Init, Server!Databases, Kinds, ControlTypes
<1>6. CountInv /\ SessionInv /\ DisturbedInv /\ FlagInv
  BY DEF Init, CountInv, SessionInv, DisturbedInv, FlagInv, Connecting, Connected, Running
<1>7. ResultInv /\ TimeoutIsRecent
  BY DEF Init, ResultInv, TimeoutIsRecent, Execs
<1>8. StartedInv /\ AgeInv /\ ClockInv /\ KilledIsNotNormal
  BY <1>1, <1>2 DEF StartedInv, AgeInv, ClockInv, KilledIsNotNormal
<1> QED
  BY <1>3, <1>5, <1>6, <1>7, <1>8 DEF ClientInv

(* The invariant survives a stuttering step. *)
LEMMA ClientStutters == ASSUME ClientInv, UNCHANGED vars PROVE ClientInv'
<1>1. /\ UNCHANGED <<up, db, last_id, alive, downs, trouble, pc, n, kind, m_, born, timeout_id, is_timeout>>
      /\ UNCHANGED <<timer, result, disturbed, caused, unreset>>
  BY DEF vars, server, shared, past
<1>2. ControlTypes' /\ MapTypes' /\ CountInv' /\ SessionInv' /\ DisturbedInv'
  BY <1>1 DEF ClientInv, ControlTypes, MapTypes, CountInv, SessionInv, DisturbedInv
<1>3. AgeInv'
  BY <1>1 DEF ClientInv, AgeInv
<1> QED
  BY <1>1, <1>2, <1>3, ThreadsStay DEF ClientInv, shared, past

(* The invariant holds in every reachable state. *)
LEMMA ClientInvariance == Spec => []ClientInv
<1>1. ClientInv /\ [Next]_vars => ClientInv'
  <2> SUFFICES ASSUME ClientInv, [Next]_vars PROVE ClientInv'
    OBVIOUS
  <2>1. ASSUME Main PROVE ClientInv'
    BY <2>1, ConnectKeeps, ConnectFailsKeeps, FixDatabaseKeeps, ResetDatabaseKeeps,
       ArmTimerKeeps, RunQueriesKeeps, ServerCrashKeeps, CheckAliveKeeps, FinishKeeps DEF Main
  <2>2. ASSUME NEW k \in Execs, Timer(k) PROVE ClientInv'
    BY <2>2, TimerWakesKeeps, TimerLooksKeeps, TimerKillsKeeps DEF Timer
  <2>3. CASE Execute \/ Degrade \/ GoDown \/ ComeUp
    BY <2>3, ExecuteKeeps, DegradeKeeps, GoDownKeeps, ComeUpKeeps
  <2> QED
    BY <2>1, <2>2, <2>3, ClientStutters DEF Next
<1> QED
  BY <1>1, ClientInit, PTL DEF Spec

---------------------------------------------------------------------------
(* What a trouble lasts through.  The last execution whose reset was tried, *)
(* and the last one that returned.                                          *)
ResetTried == IF pc \in {"connect", "reconnect", "fix", "reset"} THEN n - 1 ELSE n
Returned   == IF pc = "idle" THEN n ELSE n - 1

(* A trouble that is there was caused by an execution, and no reset or no   *)
(* execution since was a success, whichever of the two it prevents.         *)
Lasts(t) ==
  \E k \in 1..ResetTried :
    /\ t \in caused[k]
    /\ t \in Spoils => (k + 1)..ResetTried \subseteq unreset
    /\ t \in Bars => StillOn(k, Returned + 1)

LastsInv == \A t \in trouble : Lasts(t)

(* Who is limited to one session has it, from connect on.                   *)
LimitInv == "limit" \in trouble /\ pc \in {"reset", "arm", "query", "check"} => alive

UpInv == trouble # {} => up

OpenInv == pc = "reset" /\ alive => db # "absent" /\ "login" \notin trouble

FinishInv == pc = "finish" => trouble \cap Bars = {}

SpoiledBefore ==
  \E k \in 1..(n - 1) : caused[k] \cap Spoils # {} /\ (k + 1)..n \subseteq unreset

EmptyInv == pc \in {"arm", "query"} /\ alive /\ db # "empty" => SpoiledBefore

TroubleInv ==
  /\ LastsInv /\ LimitInv /\ UpInv /\ OpenInv /\ FinishInv /\ EmptyInv /\ CrashIsExplained

(* A session means that the server is up and execute connected.             *)
LEMMA AliveUp == ASSUME ClientInv, alive PROVE up /\ pc \in Connected
  BY DEF ClientInv, CountInv, SessionInv

(* Results are final, so a stretch of crashes stays one.                    *)
LEMMA StillOnStays ==
  ASSUME ClientInv, NEW k \in Execs, NEW e \in 0..(MaxExecs + 1), StillOn(k, e),
         \A j \in Execs : result[j] = "kServerCrash" => result'[j] = "kServerCrash"
  PROVE  StillOn(k, e)'
<1>1. ASSUME NEW j \in k..(e - 1) PROVE result'[j] = "kServerCrash"
  <2>1. j \in Execs /\ result[j] = "kServerCrash"
    BY ClientAssumption DEF StillOn, Execs
  <2> QED
    BY <2>1
<1> QED
  BY <1>1 DEF StillOn

(* What every step but those of reset_database and of the returns keeps.    *)
LEMMA LastsStays ==
  ASSUME ClientInv, TroubleInv, trouble' \subseteq trouble, UNCHANGED <<caused, unreset, result>>,
         ResetTried' = ResetTried, Returned' = Returned, disturbed \subseteq disturbed'
  PROVE  LastsInv' /\ CrashIsExplained'
<1>1. \A k, e : StillOn(k, e)' <=> StillOn(k, e)
  BY DEF StillOn
<1>2. LastsInv'
  BY <1>1 DEF TroubleInv, LastsInv, Lasts
<1>3. CrashIsExplained'
  BY <1>1 DEF TroubleInv, CrashIsExplained
<1> QED
  BY <1>2, <1>3

(* The number of the execution goes up as it starts.                        *)
LEMMA ExecuteLasts == ASSUME ClientInv, TroubleInv, Execute PROVE TroubleInv'
<1>1. /\ pc = "idle" /\ pc' = "connect" /\ n' = n + 1 /\ n \in Int
      /\ UNCHANGED <<up, db, alive, trouble, caused, unreset, result>> /\ disturbed \subseteq disturbed'
  BY DEF Execute, server, ClientInv, ControlTypes
<1>2. ResetTried' = ResetTried /\ Returned' = Returned
  BY <1>1 DEF ResetTried, Returned
<1>3. LastsInv' /\ CrashIsExplained'
  BY <1>1, <1>2, LastsStays
<1>4. LimitInv' /\ UpInv' /\ OpenInv' /\ FinishInv' /\ EmptyInv'
  BY <1>1 DEF TroubleInv, LimitInv, UpInv, OpenInv, FinishInv, EmptyInv
<1> QED
  BY <1>3, <1>4 DEF TroubleInv

(* A session is admitted by a server with the database and without trouble  *)
(* of login.                                                                *)
LEMMA ConnectLasts == ASSUME ClientInv, TroubleInv, Connect \/ ConnectFails PROVE TroubleInv'
<1>1. /\ pc \in {"connect", "reconnect"} /\ pc' \in {"reconnect", "fix", "reset"}
      /\ UNCHANGED <<up, db, n, trouble, caused, unreset, result, disturbed>>
      /\ pc' = "reset" => alive' /\ db # "absent" /\ "login" \notin trouble
  BY DEF Connect, ConnectFails, Admits, server, past
<1>2. ResetTried' = ResetTried /\ Returned' = Returned
  BY <1>1 DEF ResetTried, Returned
<1>3. LastsInv' /\ CrashIsExplained'
  BY <1>1, <1>2, LastsStays
<1>4. LimitInv' /\ UpInv' /\ OpenInv' /\ FinishInv' /\ EmptyInv'
  BY <1>1 DEF TroubleInv, LimitInv, UpInv, OpenInv, FinishInv, EmptyInv
<1> QED
  BY <1>3, <1>4 DEF TroubleInv

(* fix_database can only lift a trouble.                                    *)
LEMMA FixDatabaseLasts == ASSUME ClientInv, TroubleInv, FixDatabase PROVE TroubleInv'
<1>1. /\ pc = "fix" /\ pc' = "reconnect" /\ trouble' \subseteq trouble
      /\ UNCHANGED <<up, n, alive, caused, unreset, result, disturbed>>
  BY DEF FixDatabase, Repair, Refused, past
<1>2. ResetTried' = ResetTried /\ Returned' = Returned
  BY <1>1 DEF ResetTried, Returned
<1>3. LastsInv' /\ CrashIsExplained'
  BY <1>1, <1>2, LastsStays
<1>4. LimitInv' /\ UpInv' /\ OpenInv' /\ FinishInv' /\ EmptyInv'
  BY <1>1 DEF TroubleInv, LimitInv, UpInv, OpenInv, FinishInv, EmptyInv
<1> QED
  BY <1>3, <1>4 DEF TroubleInv

(* A reset on a session that is there fails only because of a trouble that  *)
(* an earlier execution caused, and one that succeeds leaves none.          *)
LEMMA ResetDatabaseLasts == ASSUME ClientInv, TroubleInv, ResetDatabase PROVE TroubleInv'
<1>1. /\ pc = "reset" /\ pc' = "arm" /\ trouble' \subseteq trouble
      /\ n \in Execs /\ unreset \subseteq unreset'
      /\ UNCHANGED <<up, n, alive, caused, result, disturbed>>
  BY DEF ResetDatabase, Repair, Refused, ClientInv, ControlTypes, CountInv, Execs
<1>2. ResetTried = n - 1 /\ ResetTried' = n /\ Returned' = Returned
  BY <1>1 DEF ResetTried, Returned
<1>3. n \in unreset' \/ (trouble \cap Spoils = {} /\ db' = "empty")
  <2>1. CASE Repair("test_sqlright1") /\ "commands" \notin trouble
    <3>1. db' = "empty" /\ Free("test_sqlright1")
      BY <2>1 DEF Repair, Emptied
    <3>2. "limit" \notin trouble
      BY <1>1, <3>1 DEF Free, TroubleInv, LimitInv
    <3> QED
      BY <2>1, <3>1, <3>2 DEF Spoils
  <2>2. CASE unreset' = unreset \cup {n}
    BY <2>2
  <2> QED
    BY <2>1, <2>2 DEF ResetDatabase
<1>4. \A k, e : StillOn(k, e)' <=> StillOn(k, e)
  BY <1>1 DEF StillOn
<1>5. ASSUME NEW k \in 1..(n - 1), (k + 1)..(n - 1) \subseteq unreset, n \in unreset'
      PROVE  (k + 1)..n \subseteq unreset'
  <2> SUFFICES ASSUME NEW j \in (k + 1)..n PROVE j \in unreset'
    OBVIOUS
  <2>1. j = n \/ j \in (k + 1)..(n - 1)
    BY <1>1 DEF Execs
  <2> QED
    BY <1>1, <1>5, <2>1
<1>6. LastsInv'
  <2> SUFFICES ASSUME NEW t \in trouble' PROVE Lasts(t)'
    BY DEF LastsInv
  <2>1. PICK k \in 1..(n - 1) : /\ t \in caused[k]
                                /\ t \in Spoils => (k + 1)..(n - 1) \subseteq unreset
                                /\ t \in Bars => StillOn(k, Returned + 1)
    BY <1>1, <1>2 DEF TroubleInv, LastsInv, Lasts
  <2>2. t \in Spoils => (k + 1)..n \subseteq unreset'
    BY <1>1, <1>3, <1>5, <2>1
  <2>3. k \in 1..n /\ t \in caused'[k]
    BY <1>1, <2>1 DEF Execs
  <2> QED
    BY <1>1, <1>2, <1>4, <2>1, <2>2, <2>3 DEF Lasts
<1>7. CrashIsExplained'
  BY <1>1, <1>4 DEF TroubleInv, CrashIsExplained
<1>8. EmptyInv'
  <2> SUFFICES ASSUME alive, db' # "empty" PROVE SpoiledBefore'
    BY <1>1 DEF EmptyInv
  <2>1. PICK t \in Spoils : t \in trouble
    <3>1. CASE "commands" \in trouble
      BY <3>1 DEF Spoils
    <3>2. CASE MayRefuse("test_sqlright1")
      <4>1. Admits("test_sqlright1")
        BY <1>1, AliveUp DEF Admits, TroubleInv, OpenInv
      <4> QED
        BY <3>2, <4>1 DEF MayRefuse, Free, Spoils
    <3>3. CASE Repair("test_sqlright1") /\ "commands" \notin trouble
      BY <3>3 DEF Repair, Emptied
    <3> QED
      BY <3>1, <3>2, <3>3 DEF ResetDatabase, Refused
  <2>2. PICK k \in 1..(n - 1) : t \in caused[k] /\ (k + 1)..(n - 1) \subseteq unreset
    BY <1>2, <2>1 DEF TroubleInv, LastsInv, Lasts
  <2>3. n \in unreset'
    BY <1>3, <2>1
  <2>4. (k + 1)..n \subseteq unreset'
    BY <1>5, <2>2, <2>3
  <2>5. t \in caused'[k] \cap Spoils
    BY <1>1, <2>1, <2>2
  <2> QED
    BY <1>1, <2>4, <2>5 DEF SpoiledBefore
<1>9. LimitInv' /\ UpInv' /\ OpenInv' /\ FinishInv'
  BY <1>1 DEF TroubleInv, LimitInv, UpInv, OpenInv, FinishInv
<1> QED
  BY <1>6, <1>7, <1>8, <1>9 DEF TroubleInv

(* Who passes the check finds no trouble that keeps sessions out.           *)
LEMMA RunningLasts ==
  ASSUME ClientInv, TroubleInv, ArmTimer \/ RunQueries \/ CheckAlive
  PROVE  TroubleInv'
<1>1. /\ pc \in {"arm", "query", "check"} /\ pc' \in {"query", "check", "finish"}
      /\ pc' = "query" => pc = "arm" /\ db' = db
      /\ pc' = "finish" => pc = "check" /\ Reachable
      /\ UNCHANGED <<up, n, alive, trouble, caused, unreset, result, disturbed>>
  BY DEF ArmTimer, RunQueries, CheckAlive, server, past
<1>2. ResetTried' = ResetTried /\ Returned' = Returned
  BY <1>1 DEF ResetTried, Returned
<1>3. LastsInv' /\ CrashIsExplained'
  BY <1>1, <1>2, LastsStays
<1>4. FinishInv'
  BY <1>1 DEF TroubleInv, LimitInv, FinishInv, Reachable, Free, Admits, Bars
<1>5. SpoiledBefore' <=> SpoiledBefore
  BY <1>1 DEF SpoiledBefore
<1>6. LimitInv' /\ UpInv' /\ OpenInv' /\ EmptyInv'
  BY <1>1, <1>5 DEF TroubleInv, LimitInv, UpInv, OpenInv, EmptyInv
<1> QED
  BY <1>3, <1>4, <1>6 DEF TroubleInv

(* A new trouble is this execution's own.                                   *)
LEMMA DegradeLasts == ASSUME ClientInv, TroubleInv, Degrade PROVE TroubleInv'
<1>1. /\ pc = "query" /\ alive /\ n \in Execs
      /\ UNCHANGED <<up, db, pc, n, alive, unreset, result, disturbed>>
  BY DEF Degrade, ClientInv, ControlTypes, CountInv, Execs
<1>2. PICK t \in Troubles : /\ trouble' = trouble \cup {t}
                            /\ caused' = [caused EXCEPT ![n] = @ \cup {t}]
  BY DEF Degrade
<1>3. \A k \in Execs : caused[k] \subseteq caused'[k]
  BY <1>2 DEF ClientInv, MapTypes
<1>4. t \in caused'[n]
  BY <1>1, <1>2 DEF ClientInv, MapTypes
<1>5. /\ ResetTried = n /\ ResetTried' = n /\ Returned = n - 1 /\ Returned' = n - 1
      /\ \A k, e : StillOn(k, e)' <=> StillOn(k, e)
  BY <1>1 DEF ResetTried, Returned, StillOn
<1>6. 1..n \subseteq Execs /\ 1..(n - 1) \subseteq Execs
  BY <1>1, ClientAssumption DEF Execs
<1>7. LastsInv'
  <2> SUFFICES ASSUME NEW u \in trouble' PROVE Lasts(u)'
    BY DEF LastsInv
  <2>1. CASE u \in trouble
    <3>1. PICK k \in 1..n : /\ u \in caused[k]
                            /\ u \in Spoils => (k + 1)..n \subseteq unreset
                            /\ u \in Bars => StillOn(k, Returned + 1)
      BY <1>5, <2>1 DEF TroubleInv, LastsInv, Lasts
    <3>2. u \in caused'[k]
      BY <1>3, <1>6, <3>1
    <3>3. u \in Bars => StillOn(k, Returned + 1)'
      BY <1>1, <1>5, <3>1 DEF StillOn
    <3>4. k \in 1..ResetTried' /\ (u \in Spoils => (k + 1)..ResetTried' \subseteq unreset')
      BY <1>1, <1>5, <3>1
    <3> QED
      BY <3>2, <3>3, <3>4 DEF Lasts
  <2>2. CASE u = t
    <3>1. n \in 1..ResetTried' /\ (n + 1)..ResetTried' \subseteq unreset'
      BY <1>1, <1>5 DEF Execs
    <3>2. Returned' + 1 = n
      BY <1>1, <1>5 DEF Execs
    <3>3. StillOn(n, Returned + 1)'
      BY <1>1, <3>2 DEF StillOn, Execs
    <3> QED
      BY <1>1, <1>4, <2>2, <3>1, <3>3 DEF Lasts
  <2> QED
    BY <1>2, <2>1, <2>2
<1>8. CrashIsExplained'
  BY <1>1, <1>3, <1>5 DEF TroubleInv, CrashIsExplained
<1>9. EmptyInv'
  <2> SUFFICES ASSUME db # "empty" PROVE SpoiledBefore'
    BY <1>1 DEF EmptyInv
  <2>1. PICK k \in 1..(n - 1) : caused[k] \cap Spoils # {} /\ (k + 1)..n \subseteq unreset
    BY <1>1 DEF TroubleInv, EmptyInv, SpoiledBefore
  <2> QED
    BY <1>1, <1>3, <1>6, <2>1 DEF SpoiledBefore
<1>10. LimitInv' /\ UpInv' /\ OpenInv' /\ FinishInv'
  BY <1>1, AliveUp DEF LimitInv, UpInv, OpenInv, FinishInv
<1> QED
  BY <1>7, <1>8, <1>9, <1>10 DEF TroubleInv

(* The check fails on a server that is down, or because of a trouble that   *)
(* no execution since it was caused got past.                               *)
LEMMA ServerCrashLasts == ASSUME ClientInv, TroubleInv, ServerCrash PROVE TroubleInv'
<1>1. /\ pc = "check" /\ pc' = "idle" /\ n \in Execs /\ result[n] = "none"
      /\ ~Reachable \/ "limit" \in trouble
      /\ UNCHANGED <<up, db, n, trouble, caused, unreset, disturbed>>
  BY DEF ServerCrash, past, ClientInv, ControlTypes, CountInv, ResultInv, Execs
<1>2. /\ result'[n] = "kServerCrash"
      /\ \A j \in Execs : j # n => result'[j] = result[j]
  BY <1>1 DEF ServerCrash, ClientInv, MapTypes
<1>3. /\ ResetTried = n /\ ResetTried' = n
      /\ Returned + 1 = n /\ Returned' + 1 = n + 1 /\ n + 1 \in 0..(MaxExecs + 1)
  BY <1>1, ClientAssumption DEF ResetTried, Returned, Execs
<1>4. ASSUME NEW k \in Execs, NEW e \in Execs, StillOn(k, e) PROVE StillOn(k, e)'
  BY <1>1, <1>2, <1>4, StillOnStays, ClientAssumption DEF Execs
<1>5. LastsInv'
  <2> SUFFICES ASSUME NEW t \in trouble PROVE Lasts(t)'
    BY <1>1 DEF LastsInv
  <2>1. PICK k \in 1..n : /\ t \in caused[k]
                          /\ t \in Spoils => (k + 1)..n \subseteq unreset
                          /\ t \in Bars => StillOn(k, n)
    BY <1>3 DEF TroubleInv, LastsInv, Lasts
  <2>2. ASSUME t \in Bars PROVE StillOn(k, n + 1)'
    <3>1. k \in Execs /\ StillOn(k, n)'
      BY <1>1, <1>4, <2>1, <2>2, ClientAssumption DEF Execs
    <3>2. ASSUME NEW j \in k..n PROVE result'[j] = "kServerCrash"
      <4>1. j = n \/ j \in k..(n - 1)
        BY <1>1 DEF Execs
      <4> QED
        BY <1>1, <1>2, <3>1, <4>1 DEF StillOn
    <3>3. (n + 1) - 1 = n /\ k <= n + 1
      BY <1>1 DEF Execs
    <3> QED
      BY <1>1, <3>2, <3>3 DEF StillOn
  <2> QED
    BY <1>1, <1>3, <2>1, <2>2 DEF Lasts
<1>6. CrashIsExplained'
  <2> SUFFICES ASSUME NEW e \in Execs, result'[e] = "kServerCrash", e \notin disturbed
               PROVE  \E k \in Execs : caused[k] \cap Bars # {} /\ StillOn(k, e)'
    BY <1>1 DEF CrashIsExplained
  <2>1. CASE e # n
    <3>1. PICK k \in Execs : caused[k] \cap Bars # {} /\ StillOn(k, e)
      BY <1>2, <2>1 DEF TroubleInv, CrashIsExplained
    <3> QED
      BY <1>4, <3>1
  <2>2. CASE e = n
    <3>1. up
      BY <1>1, <2>2 DEF ClientInv, DisturbedInv
    <3>2. PICK t \in Bars : t \in trouble
      BY <1>1, <3>1 DEF Reachable, Free, Admits, Bars
    <3>3. PICK k \in 1..n : t \in caused[k] /\ StillOn(k, n)
      BY <1>3, <3>2 DEF TroubleInv, LastsInv, Lasts
    <3>4. k \in Execs
      BY <1>1, <3>3, ClientAssumption DEF Execs
    <3> QED
      BY <1>1, <1>4, <2>2, <3>2, <3>3, <3>4
  <2> QED
    BY <2>1, <2>2
<1>7. LimitInv' /\ UpInv' /\ OpenInv' /\ FinishInv' /\ EmptyInv'
  BY <1>1 DEF TroubleInv, LimitInv, UpInv, OpenInv, FinishInv, EmptyInv
<1> QED
  BY <1>5, <1>6, <1>7 DEF TroubleInv

(* A regular end is reached only past all troubles that keep sessions out.  *)
LEMMA FinishLasts == ASSUME ClientInv, TroubleInv, Finish PROVE TroubleInv'
<1>1. /\ pc = "finish" /\ pc' = "idle" /\ n \in Execs /\ result[n] = "none"
      /\ trouble \cap Bars = {}
      /\ UNCHANGED <<up, db, n, trouble, caused, unreset, disturbed>>
  BY DEF Finish, past, ClientInv, ControlTypes, CountInv, ResultInv, Execs, TroubleInv, FinishInv
<1>2. /\ result'[n] # "kServerCrash"
      /\ \A j \in Execs : j # n => result'[j] = result[j]
  BY <1>1 DEF Finish, Verdict, ClientInv, MapTypes
<1>3. ResetTried = n /\ ResetTried' = n
  BY <1>1 DEF ResetTried
<1>4. ASSUME NEW k \in Execs, NEW e \in Execs, StillOn(k, e) PROVE StillOn(k, e)'
  BY <1>1, <1>2, <1>4, StillOnStays, ClientAssumption DEF Execs
<1>5. LastsInv'
  BY <1>1, <1>3 DEF TroubleInv, LastsInv, Lasts
<1>6. CrashIsExplained'
  BY <1>1, <1>2, <1>4 DEF TroubleInv, CrashIsExplained
<1>7. LimitInv' /\ UpInv' /\ OpenInv' /\ FinishInv' /\ EmptyInv'
  BY <1>1 DEF TroubleInv, LimitInv, UpInv, OpenInv, FinishInv, EmptyInv
<1> QED
  BY <1>5, <1>6, <1>7 DEF TroubleInv

(* A session that is all root may have is out of reach of KILL.             *)
LEMMA TimerLasts == ASSUME ClientInv, TroubleInv, NEW k \in Execs, Timer(k) PROVE TroubleInv'
<1>a. UNCHANGED <<up, db, pc, n, trouble, caused, unreset, result, disturbed>>
  BY DEF Timer, TimerWakes, TimerLooks, TimerKills, server, past
<1>b. alive' = alive \/ (alive' = (alive /\ ~Hits(k)))
  BY DEF Timer, TimerWakes, TimerLooks, TimerKills, server
<1>c. alive /\ "limit" \in trouble => ~Hits(k)
  BY DEF Hits, Reachable, Free
<1>1. /\ UNCHANGED <<up, db, pc, n, trouble, caused, unreset, result, disturbed>>
      /\ alive' => alive
      /\ alive /\ "limit" \in trouble => alive'
  <2>1. alive \in BOOLEAN
    BY DEF ClientInv, ControlTypes
  <2>2. alive' => alive
    BY <1>b, <2>1
  <2>3. alive /\ "limit" \in trouble => alive'
    BY <1>b, <1>c, <2>1
  <2> QED
    BY <1>a, <2>2, <2>3
<1>2. ResetTried' = ResetTried /\ Returned' = Returned /\ (SpoiledBefore' <=> SpoiledBefore)
  BY <1>1 DEF ResetTried, Returned, SpoiledBefore
<1>3. LastsInv' /\ CrashIsExplained'
  BY <1>1, <1>2, LastsStays
<1>4. LimitInv' /\ UpInv' /\ OpenInv' /\ FinishInv' /\ EmptyInv'
  BY <1>1, <1>2 DEF TroubleInv, LimitInv, UpInv, OpenInv, FinishInv, EmptyInv
<1> QED
  BY <1>3, <1>4 DEF TroubleInv

(* No trouble outlives the server, and none comes up with it.               *)
LEMMA ServerLasts == ASSUME ClientInv, TroubleInv, GoDown \/ ComeUp PROVE TroubleInv'
<1>1. /\ UNCHANGED <<pc, n, caused, unreset, result>> /\ trouble' \subseteq trouble
      /\ disturbed \subseteq disturbed' /\ ~alive' /\ (up' \/ trouble' = {})
      /\ trouble' # {} => up
  BY AliveUp DEF GoDown, ComeUp, Server!ComeUp, TroubleInv, UpInv, past
<1>2. ResetTried' = ResetTried /\ Returned' = Returned
  BY <1>1 DEF ResetTried, Returned
<1>3. LastsInv' /\ CrashIsExplained'
  BY <1>1, <1>2, LastsStays
<1>4. trouble' = {}
  BY DEF GoDown, ComeUp, Server!ComeUp, TroubleInv, UpInv
<1>5. LimitInv' /\ UpInv' /\ OpenInv' /\ FinishInv' /\ EmptyInv'
  BY <1>1, <1>4 DEF LimitInv, UpInv, OpenInv, FinishInv, EmptyInv
<1> QED
  BY <1>3, <1>5 DEF TroubleInv

(* A stuttering step changes none of it.                                    *)
LEMMA StuttersLasts == ASSUME ClientInv, TroubleInv, UNCHANGED vars PROVE TroubleInv'
<1>1. UNCHANGED <<up, db, alive, pc, n, trouble, caused, unreset, result, disturbed>>
  BY DEF vars, server, past
<1>2. ResetTried' = ResetTried /\ Returned' = Returned /\ (SpoiledBefore' <=> SpoiledBefore)
  BY <1>1 DEF ResetTried, Returned, SpoiledBefore
<1>3. LastsInv' /\ CrashIsExplained'
  BY <1>1, <1>2, LastsStays
<1>4. LimitInv' /\ UpInv' /\ OpenInv' /\ FinishInv' /\ EmptyInv'
  BY <1>1, <1>2 DEF TroubleInv, LimitInv, UpInv, OpenInv, FinishInv, EmptyInv
<1> QED
  BY <1>3, <1>4 DEF TroubleInv

(* What is known of the troubles holds in every reachable state.            *)
LEMMA TroubleInvariance == Spec => []TroubleInv
<1>1. Init => TroubleInv
  BY DEF Init, TroubleInv, LastsInv, LimitInv, UpInv, OpenInv, FinishInv, EmptyInv, CrashIsExplained
<1>2. ClientInv /\ TroubleInv /\ [Next]_vars => TroubleInv'
  <2> SUFFICES ASSUME ClientInv, TroubleInv, [Next]_vars PROVE TroubleInv'
    OBVIOUS
  <2>1. ASSUME Main PROVE TroubleInv'
    BY <2>1, ConnectLasts, FixDatabaseLasts, ResetDatabaseLasts, RunningLasts,
       ServerCrashLasts, FinishLasts DEF Main
  <2>2. CASE Execute \/ Degrade \/ GoDown \/ ComeUp \/ \E k \in Execs : Timer(k)
    BY <2>2, ExecuteLasts, DegradeLasts, ServerLasts, TimerLasts
  <2> QED
    BY <2>1, <2>2, StuttersLasts DEF Next
<1> QED
  BY <1>1, <1>2, ClientInvariance, PTL DEF Spec

---------------------------------------------------------------------------
(* The variables keep their types; a session that is there is the last one   *)
(* the server handed out.                                                   *)
THEOREM ClientTypes == Spec => []TypeOK
<1>1. ClientInv => TypeOK
  <2> SUFFICES ASSUME ClientInv PROVE TypeOK
    OBVIOUS
  <2>1. alive => up /\ m_ = last_id
    BY DEF ClientInv, CountInv, SessionInv
  <2>2. /\ born \in 0..MaxUpsets
        /\ last_id \in 0..MaxExecs /\ m_ \in 0..MaxExecs /\ timeout_id \in 0..MaxExecs
    BY ClientAssumption DEF ClientInv, ControlTypes
  <2>3. /\ pc \in {"idle", "connect", "reconnect", "fix", "reset", "arm", "query", "check", "finish"}
        /\ pc \in {"idle", "connect", "fix"} => m_ = 0
    BY DEF ClientInv, ControlTypes, CountInv, Connecting, Connected
  <2> QED
    BY <2>1, <2>2, <2>3 DEF ClientInv, ControlTypes, MapTypes, Timers, Results, TypeOK
<1> QED
  BY <1>1, ClientInvariance, PTL

(* Whatever the previous input did to the database, and wherever a failure   *)
(* cut the execution short, an input meets an empty one, unless a trouble    *)
(* that an earlier input caused has spoiled every reset since, which each    *)
(* result says (execute, connect, fix_database and reset_database).         *)
THEOREM InputsStartEmpty == Spec => []StartsEmpty
<1>1. TroubleInv => StartsEmpty
  BY DEF TroubleInv, EmptyInv, SpoiledBefore, StartsEmpty
<1> QED
  BY <1>1, TroubleInvariance, PTL

(* A thread of an execution that ended regularly never makes a later one     *)
(* time out, however late it wakes up (timeout_query).                      *)
THEOREM TimeoutsAreRecent == Spec => []TimeoutIsRecent
<1>1. ClientInv => TimeoutIsRecent
  BY DEF ClientInv
<1> QED
  BY <1>1, ClientInvariance, PTL

(* An execution whose session was killed by its own thread is not reported   *)
(* as normal.                                                               *)
THEOREM KilledAreNotNormal == Spec => []KilledIsNotNormal
<1>1. ClientInv => KilledIsNotNormal
  BY DEF ClientInv
<1> QED
  BY <1>1, ClientInvariance, PTL

(* A crash is reported of a server that was down during that execution, or   *)
(* of one that an input has kept sessions out of, with no regular end since  *)
(* (check_server_alive).                                                    *)
THEOREM CrashesAreExplained == Spec => []CrashIsExplained
<1>1. TroubleInv => CrashIsExplained
  BY DEF TroubleInv
<1> QED
  BY <1>1, TroubleInvariance, PTL

(* In one life of the server, KILL reaches the session of the thread's own   *)
(* execution or none (terminate_query).                                     *)
THEOREM ThreadsKillTheirOwnSession == Spec => KillsItsOwnSession
<1>1. ClientInv /\ [Next]_vars =>
        [\A k \in Execs : TimerKills(k) /\ alive /\ ~alive' => k = n \/ timer[k].life < downs]_vars
  <2> SUFFICES ASSUME ClientInv, NEW k \in Execs, TimerKills(k), alive, ~alive'
               PROVE  k = n \/ timer[k].life < downs
    OBVIOUS
  <2>1. timer[k].state = "kill" /\ Hits(k)
    BY DEF TimerKills
  <2> QED
    BY <2>1, OwnSession
<1> QED
  BY <1>1, ClientInvariance, PTL DEF Spec, KillsItsOwnSession
=============================================================================
