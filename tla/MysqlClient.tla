----------------------------- MODULE MysqlClient -----------------------------
(***************************************************************************)
(* How the MySQL fuzzer runs an input (class MysqlClient in afl-fuzz.cpp): *)
(* connect, resetting the database until that works, empty the database,   *)
(* send the statements, and see whether the server is still there.  Each   *)
(* execution starts a detached thread that sleeps for exec_tmout and then  *)
(* kills the session of the execution if it still runs; a counter,         *)
(* timeout_id, tells an old thread that its execution is over.  Threads of *)
(* several executions may be alive at once.  The server may go down and    *)
(* come back at any step, and an input may leave it in a trouble that      *)
(* lasts: up, but refusing sessions or statements.                         *)
(***************************************************************************)
EXTENDS Integers, FiniteSets

CONSTANTS
  MaxExecs,  \* bound: executions in one behaviour
  MaxUpsets  \* bound: times the server goes down or an input leaves it in a trouble

ASSUME ClientAssumption == MaxExecs \in Nat /\ MaxUpsets \in Nat

VARIABLES
  up, db,      \* the server, see MysqlServer
  last_id,     \* server: the last session number handed out since it came up
  alive,       \* server: is the session behind m_ still there
  trouble,     \* server: what the inputs left it in, see Troubles
  downs,       \* times the server went down
  pc,          \* where execute is: see TypeOK
  n,           \* number of the execution
  kind,        \* what the statements being sent do: see Kinds
  m_,          \* session number of the connection, 0 for NULL
  born,        \* history: downs when that number was handed out
  timeout_id,
  is_timeout,
  timer,       \* per execution: its thread
  result,      \* per execution: what execute returned
  disturbed,   \* history: executions during which the server was not up
  caused,      \* history: per execution, the troubles its input caused
  unreset      \* history: executions whose reset_database failed

server  == <<up, db, last_id, alive, downs, trouble>>
shared  == <<timeout_id, is_timeout>>
past    == <<disturbed, caused, unreset>>
vars == <<server, pc, n, kind, m_, born, shared, timer, result, past>>

Server == INSTANCE MysqlServer

Execs == 1..MaxExecs

(* What the statements of an input do, if let: they end, end having dropped *)
(* the database, or do not end.  Any input may crash the server.            *)
Kinds == {"ends", "drops", "hangs"}

Upsets == downs + Cardinality({k \in Execs : caused[k] # {}})

(* What an input may leave behind that outlives its session.  login: no     *)
(* session is admitted, the password of root was changed.  test_init: that  *)
(* database was dropped.  limit: root may have one session at a time        *)
(* (MAX_USER_CONNECTIONS or the server's max_user_connections).  commands:  *)
(* statements of reset_database and fix_database fail (read only server).   *)
Troubles == {"login", "test_init", "limit", "commands"}

(* The troubles that keep a session out, and those that spoil a reset.      *)
Bars   == {"login", "test_init", "limit"}
Spoils == {"limit", "commands"}

(* A thread of timeout_query: the session and the timeout_id it was given,  *)
(* and the execution it declared timed out.                                 *)
NoTimer == [state |-> "none", process_id |-> 0, cur_timeout_id |-> 0,
            life |-> 0, during |-> 0]

Init ==
  /\ Server!Init
  /\ last_id = 0 /\ alive = FALSE /\ downs = 0 /\ trouble = {}
  /\ pc = "idle" /\ n = 0 /\ kind = "none" /\ m_ = 0 /\ born = 0
  /\ timeout_id = 0 /\ is_timeout = FALSE
  /\ timer = [k \in Execs |-> NoTimer]
  /\ result = [k \in Execs |-> "none"]
  /\ disturbed = {} /\ unreset = {}
  /\ caused = [k \in Execs |-> {}]

---------------------------------------------------------------------------
(* execute, called by run_target.                                           *)
Execute ==
  /\ pc = "idle" /\ n < MaxExecs
  /\ pc' = "connect" /\ n' = n + 1
  /\ disturbed' = IF up THEN disturbed ELSE disturbed \cup {n + 1}
  /\ UNCHANGED <<server, kind, m_, born, shared, timer, result, caused, unreset>>

(* mysql_real_connect to database d, tried while the fuzzer has no other    *)
(* session.                                                                 *)
Admits(d) ==
  /\ up /\ "login" \notin trouble
  /\ d = "test_init" => "test_init" \notin trouble
  /\ d = "test_sqlright1" => db # "absent"

(* The same while execute may hold its session.                             *)
Free(d) == Admits(d) /\ ~("limit" \in trouble /\ alive)

(* A late thread of timeout_query may hold the one session there may be.    *)
MayRefuse(d) == ~Free(d) \/ "limit" \in trouble

(* connect.  The first failure is only noted, each later one is followed by *)
(* fix_database.                                                            *)
Connect ==
  /\ pc \in {"connect", "reconnect"} /\ Admits("test_sqlright1")
  /\ last_id' = last_id + 1 /\ m_' = last_id + 1 /\ alive' = TRUE /\ born' = downs
  /\ pc' = "reset"
  /\ UNCHANGED <<up, db, downs, trouble, n, kind, shared, timer, result, past>>

ConnectFails ==
  /\ pc \in {"connect", "reconnect"} /\ MayRefuse("test_sqlright1")
  /\ m_' = 0
  /\ pc' = IF pc = "connect" THEN "reconnect" ELSE "fix"
  /\ UNCHANGED <<server, n, kind, born, shared, timer, result, past>>

(* fix_database and reset_database open a session of their own and drop and *)
(* create the database on it.  They may be refused the session; statements  *)
(* that fail do not keep the later ones from being sent, so that anything   *)
(* may be left.  If the server goes down half way its data is replaced      *)
(* anyway.                                                                  *)
\* mutant: the database is created only if it is not there
EmptiedIfAbsent ==
  IF "commands" \in trouble THEN {db, "absent", "empty"}
  ELSE IF db = "absent" THEN {"empty"} ELSE {db}

Emptied == IF "commands" \in trouble THEN {db, "absent", "empty"} ELSE {"empty"}

Refused(d) == MayRefuse(d) /\ UNCHANGED <<db, trouble>>

(* ALTER USER lifts the limit of the account, not the server's.             *)
Repair(d) ==
  /\ Free(d)
  /\ db' \in Emptied
  /\ trouble' \in {trouble, trouble \ {"limit"}}

\* mutant: fix_database leaves the database as it is
FixNothing ==
  /\ pc = "fix"
  /\ pc' = "reconnect"
  /\ UNCHANGED <<server, n, kind, m_, born, shared, timer, result, past>>

FixDatabase ==
  /\ pc = "fix"
  /\ Repair("test_init") \/ Refused("test_init")
  /\ pc' = "reconnect"
  /\ UNCHANGED <<up, last_id, alive, downs, n, kind, m_, born, shared, timer, result, past>>

(* execute prints "Reset database ERROR!!!" and goes on.                    *)
ResetDatabase ==
  /\ pc = "reset"
  /\ \/ Repair("test_sqlright1") /\ "commands" \notin trouble /\ UNCHANGED unreset
     \/ Repair("test_sqlright1") /\ "commands" \in trouble /\ unreset' = unreset \cup {n}
     \/ Refused("test_sqlright1") /\ unreset' = unreset \cup {n}
  /\ pc' = "arm"
  /\ UNCHANGED <<up, last_id, alive, downs, n, kind, m_, born, shared, timer, result,
                 disturbed, caused>>

ArmTimer ==
  /\ pc = "arm"
  /\ is_timeout' = FALSE
  /\ timer' = [timer EXCEPT ![n] =
       [state |-> "asleep", process_id |-> m_, cur_timeout_id |-> timeout_id,
        life |-> born, during |-> 0]]
  /\ pc' = "query" /\ kind' \in Kinds
  /\ UNCHANGED <<server, n, m_, born, timeout_id, result, past>>

Leaves(what) == IF db = "absent" \/ what = "drops" THEN "absent" ELSE "used"

(* A statement of the input leaves a trouble behind.  The data directory is *)
(* replaced, and with it the trouble removed, only when the server is; the  *)
(* bound leaves room for that.                                              *)
Degrade ==
  /\ pc = "query" /\ alive
  /\ Upsets + 1 < MaxUpsets
  /\ \E t \in Troubles \ trouble :
       /\ trouble' = trouble \cup {t}
       /\ caused' = [caused EXCEPT ![n] = @ \cup {t}]
  /\ UNCHANGED <<up, db, last_id, alive, downs, pc, n, kind, m_, born, shared, timer,
                 result, disturbed, unreset>>

(* The statements are sent one after the other.  On a session that is gone  *)
(* they all fail; mysql_real_query then returns 1, which is none of the     *)
(* error numbers it is compared with, so only check_server_alive can tell.  *)
(* What a killed session did before it was killed has its effect.           *)
RunQueries ==
  /\ pc = "query"
  /\ \/ alive /\ kind # "hangs" /\ db' = Leaves(kind)
     \/ ~alive /\ db' \in {db} \cup (IF up THEN {Leaves(kind)} ELSE {})
  /\ pc' = "check" /\ kind' = "none"
  /\ UNCHANGED <<up, last_id, alive, downs, trouble, n, m_, born, shared, timer, result, past>>

\* mutant: the pointer outlives the connection
DisconnectKeeps == m_' = m_ /\ alive' = FALSE /\ born' = 0

Disconnect == m_' = 0 /\ alive' = FALSE /\ born' = 0

(* check_server_alive connects to test_init while execute is connected.     *)
\* mutant: it connects to the database under test
ReachableDb == Free("test_sqlright1")

Reachable == Free("test_init")

(* check_server_alive fails: execute returns without touching timeout_id.   *)
ServerCrash ==
  /\ pc = "check" /\ (~Reachable \/ "limit" \in trouble)
  /\ result' = [result EXCEPT ![n] = "kServerCrash"]
  /\ Disconnect
  /\ pc' = "idle"
  /\ UNCHANGED <<up, db, last_id, downs, trouble, n, kind, shared, timer, past>>

CheckAlive ==
  /\ pc = "check" /\ Reachable
  /\ pc' = "finish"
  /\ UNCHANGED <<server, n, kind, m_, born, shared, timer, result, past>>

\* mutant: the threads are not told that the execution is over
NextTimeoutIdSame == timeout_id

NextTimeoutId == timeout_id + 1

Verdict == IF is_timeout THEN "kTimeout" ELSE "kNormal"

Finish ==
  /\ pc = "finish"
  /\ timeout_id' = NextTimeoutId
  /\ is_timeout' = FALSE
  /\ result' = [result EXCEPT ![n] = Verdict]
  /\ Disconnect
  /\ pc' = "idle"
  /\ UNCHANGED <<up, db, last_id, downs, trouble, n, kind, timer, past>>

---------------------------------------------------------------------------
(* timeout_query, the thread of execution k.                                *)
SetState(k, s) == timer' = [timer EXCEPT ![k].state = s]

(* Under timeout_mutex: is the execution this thread was started for over?  *)
\* mutant: is_timeout is raised by terminate_query, after the kill
TimerWakesQuietly(k) ==
  /\ timer[k].state = "asleep"
  /\ IF timeout_id = timer[k].cur_timeout_id
       THEN timer' = [timer EXCEPT ![k].state = "kill", ![k].during = n]
       ELSE SetState(k, "done")
  /\ UNCHANGED <<server, pc, n, kind, m_, born, shared, result, past>>

TimerWakes(k) ==
  /\ timer[k].state = "asleep"
  /\ IF timeout_id = timer[k].cur_timeout_id
       THEN /\ is_timeout' = TRUE
            /\ timer' = [timer EXCEPT ![k].state = "expired", ![k].during = n]
       ELSE /\ SetState(k, "done")
            /\ UNCHANGED is_timeout
  /\ UNCHANGED <<server, pc, n, kind, m_, born, timeout_id, result, past>>

(* is_timeout is read again, outside the mutex.                             *)
TimerLooks(k) ==
  /\ timer[k].state = "expired"
  /\ SetState(k, IF is_timeout THEN "kill" ELSE "done")
  /\ UNCHANGED <<server, pc, n, kind, m_, born, shared, result, past>>

(* terminate_query: KILL by session number, if test_init can be reached.    *)
\* mutant: the thread looks its session up when it is about to kill it
HitsCurrent(k) == Reachable /\ alive /\ k \in Execs

Hits(k) == Reachable /\ alive /\ m_ = timer[k].process_id

TimerKills(k) ==
  /\ timer[k].state = "kill"
  /\ alive' = (alive /\ ~Hits(k))
  /\ SetState(k, IF Hits(k) THEN "hit" ELSE "done")
  /\ UNCHANGED <<up, db, last_id, downs, trouble, pc, n, kind, m_, born, shared, result, past>>

---------------------------------------------------------------------------
(* The server goes down, by an input or by the rebooter, and comes back.    *)
GoDown ==
  /\ Upsets < MaxUpsets
  /\ Server!GoDown
  /\ downs' = downs + 1 /\ alive' = FALSE /\ trouble' = {}
  /\ disturbed' = IF pc = "idle" THEN disturbed ELSE disturbed \cup {n}
  /\ UNCHANGED <<last_id, pc, n, kind, m_, born, shared, timer, result, caused, unreset>>

ComeUp ==
  /\ Server!ComeUp
  /\ last_id' = 0
  /\ UNCHANGED <<alive, downs, trouble, pc, n, kind, m_, born, shared, timer, result, past>>

Main ==
  \/ Connect \/ ConnectFails \/ FixDatabase \/ ResetDatabase \/ ArmTimer
  \/ RunQueries \/ ServerCrash \/ CheckAlive \/ Finish

Timer(k) == TimerWakes(k) \/ TimerLooks(k) \/ TimerKills(k)

Next ==
  \/ Execute \/ Main \/ Degrade
  \/ \E k \in Execs : Timer(k)
  \/ GoDown \/ ComeUp

(* Threads are scheduled, sleeping ones wake up, and the rebooter brings    *)
(* the server back, which MysqlHost is shown to do.  It also takes every    *)
(* server down now and then, one in trouble with the others.                *)
Fairness ==
  /\ WF_vars(Main)
  /\ \A k \in Execs : WF_vars(Timer(k))
  /\ WF_vars(ComeUp)
  /\ WF_vars(trouble # {} /\ GoDown)

Spec == Init /\ [][Next]_vars /\ Fairness

---------------------------------------------------------------------------
(* Properties.                                                              *)

(* Type invariant.                                                          *)
TypeOK ==
  /\ up \in BOOLEAN /\ db \in Server!Databases
  /\ last_id \in 0..MaxExecs /\ downs \in 0..MaxUpsets
  /\ alive \in BOOLEAN /\ (alive => up /\ m_ = last_id)
  /\ pc \in {"idle", "connect", "reconnect", "fix", "reset", "arm", "query",
             "check", "finish"}
  /\ n \in 0..MaxExecs /\ kind \in Kinds \cup {"none"}
  /\ born \in 0..MaxUpsets
  /\ m_ \in 0..MaxExecs /\ (pc \in {"idle", "connect", "fix"} => m_ = 0)
  /\ timeout_id \in 0..MaxExecs /\ is_timeout \in BOOLEAN
  /\ timer \in [Execs -> [state : {"none", "asleep", "expired", "kill", "hit", "done"},
                          process_id : 0..MaxExecs, cur_timeout_id : 0..MaxExecs,
                          life : 0..MaxUpsets, during : 0..MaxExecs]]
  /\ result \in [Execs -> {"none", "kNormal", "kTimeout", "kServerCrash"}]
  /\ disturbed \subseteq Execs /\ unreset \subseteq Execs
  /\ trouble \subseteq Troubles /\ caused \in [Execs -> SUBSET Troubles]

(* An input meets an empty database, whatever the input before it did and   *)
(* however that was cut short, unless an input before it left a trouble     *)
(* that spoils resets, and then every result since, its own included,       *)
(* begins with "Reset database ERROR!!!".                                   *)
StartsEmpty ==
  pc = "query" /\ alive /\ db # "empty" =>
    \E k \in 1..(n - 1) : caused[k] \cap Spoils # {} /\ (k + 1)..n \subseteq unreset

(* The thread of execution k may still decide about execution e: no         *)
(* execution from k to the one before e came to its regular end.            *)
StillOn(k, e) == k <= e /\ \A j \in k..(e - 1) : result[j] = "kServerCrash"

(* An execution is said to have timed out only if a thread said so while it *)
(* ran, its own or that of an execution whose server went down: executions  *)
(* that ended regularly never time out a later one.                         *)
TimeoutIsRecent ==
  \A e \in Execs : result[e] = "kTimeout" =>
    \E k \in Execs : timer[k].during = e /\ StillOn(k, e)

(* A session killed by the thread of its own execution is never reported to *)
(* have ended normally.                                                     *)
KilledIsNotNormal ==
  \A k \in Execs : timer[k].state = "hit" /\ timer[k].life = downs =>
    result[k] # "kNormal"

(* KILL names a session by number, and numbers start over with the server:  *)
(* as long as it did not go down, a thread kills no other execution's       *)
(* session.                                                                 *)
KillsItsOwnSession ==
  [][ \A k \in Execs : TimerKills(k) /\ alive /\ ~alive' => k = n \/ timer[k].life < downs ]_vars

(* An execution is blamed for a crash only if the server was not up at some *)
(* moment of it, or its input or one before it left a trouble that keeps    *)
(* sessions out: then no execution since came to a regular end either, so   *)
(* the first of the false alarms is the input's own.                        *)
CrashIsExplained ==
  \A e \in Execs : result[e] = "kServerCrash" =>
    \/ e \in disturbed
    \/ \E k \in Execs : caused[k] \cap Bars # {} /\ StillOn(k, e)

(* Every execution returns: a query that hangs is killed, a database that   *)
(* was dropped is created again, a server that went down is waited for, and *)
(* so is the reboot of one that admits nobody.                              *)
ExecutionsReturn == pc # "idle" ~> pc = "idle"
=============================================================================
