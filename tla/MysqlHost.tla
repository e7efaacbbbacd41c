------------------------------ MODULE MysqlHost ------------------------------
(***************************************************************************)
(* How the MySQL servers under test are launched and kept alive.           *)
(* run_parallel.py starts, one instance after the other, a fuzzer and its  *)
(* server; the id of the coverage memory passes from the fuzzer to the     *)
(* launcher through the single file shm_env.txt.  mysql_rebooter.py, run   *)
(* again and again by a shell loop, asks servers to shut down, kills the   *)
(* others, and starts each one it finds unreachable on a fresh copy of its *)
(* data.  Servers crash and shut down at their own pace meanwhile.         *)
(***************************************************************************)
EXTENDS Integers

CONSTANT N  \* parallel_num, the number of instances

ASSUME HostAssumption == N \in Nat \ {0}

VARIABLES
  proc,     \* per instance: its mysqld, see TypeOK
  data,     \* per instance: its data directory
  mem,      \* per instance: the fuzzer whose memory mysqld writes, 0 for none
  fuzzer,   \* per instance: afl-fuzz, up to the end of setup_shm
  file,     \* shm_env.txt: the fuzzer that created it, and what it holds
  lpc, li,  \* run_parallel.py: where it is, the instance it launches
  shm,      \* per instance: cur_shm_str in all_share_mem_file.txt
  rpc, k    \* mysql_rebooter.py: where it is, the instance it looks at

servers  == <<proc, data, mem>>
launcher == <<lpc, li, shm>>
rebooter == <<rpc, k>>
vars == <<servers, fuzzer, file, launcher, rebooter>>

Instances == 1..N

NoFile == [owner |-> 0, text |-> 0]

(* "told": asked to shut down, still answering; "closing": not answering,   *)
(* still a process.                                                         *)
Reachable(i) == proc[i] \in {"up", "told"}

Init ==
  /\ proc = [i \in Instances |-> "down"]
  /\ data = [i \in Instances |-> "absent"]
  /\ mem = [i \in Instances |-> 0]
  /\ fuzzer = [i \in Instances |-> "none"]
  /\ file = NoFile
  /\ lpc = "fuzzer" /\ li = 1 /\ shm = [i \in Instances |-> 0]
  /\ rpc = "sleep" /\ k = 1

---------------------------------------------------------------------------
(* run_parallel.py, for instance li: copy the data, start the fuzzer, read  *)
(* the file as soon as it is there, remove it, start the server.            *)
LaunchFuzzer ==
  /\ lpc = "fuzzer"
  /\ data' = [data EXCEPT ![li] = "empty"]
  /\ fuzzer' = [fuzzer EXCEPT ![li] = "open"]
  /\ lpc' = "poll"
  /\ UNCHANGED <<proc, mem, file, li, shm, rebooter>>

ReadFile ==
  /\ lpc = "poll" /\ file # NoFile
  /\ shm' = [shm EXCEPT ![li] = file.text]
  /\ lpc' = "remove"
  /\ UNCHANGED <<servers, fuzzer, file, li, rebooter>>

\* mutant: the file stays
LeaveFile ==
  /\ lpc = "remove"
  /\ lpc' = "server"
  /\ UNCHANGED <<servers, fuzzer, file, li, shm, rebooter>>

RemoveFile ==
  /\ lpc = "remove"
  /\ file' = NoFile
  /\ lpc' = "server"
  /\ UNCHANGED <<servers, fuzzer, li, shm, rebooter>>

LaunchServer ==
  /\ lpc = "server"
  /\ proc' = [proc EXCEPT ![li] = "up"]
  /\ mem' = [mem EXCEPT ![li] = shm[li]]
  /\ IF li = N THEN lpc' = "done" /\ UNCHANGED li
               ELSE lpc' = "fuzzer" /\ li' = li + 1
  /\ UNCHANGED <<data, fuzzer, file, shm, rebooter>>

(* setup_shm of fuzzer i: the file is created, then written when it is      *)
(* closed.  If it was removed in between, nobody sees what is written.      *)
OpenFile(i) ==
  /\ fuzzer[i] = "open"
  /\ file' = [owner |-> i, text |-> 0]
  /\ fuzzer' = [fuzzer EXCEPT ![i] = "write"]
  /\ UNCHANGED <<servers, launcher, rebooter>>

WriteFile(i) ==
  /\ fuzzer[i] = "write"
  /\ file' = IF file.owner = i THEN [file EXCEPT !.text = i] ELSE file
  /\ fuzzer' = [fuzzer EXCEPT ![i] = "fuzz"]
  /\ UNCHANGED <<servers, launcher, rebooter>>

---------------------------------------------------------------------------
(* mysql_rebooter.py.  Before the launcher has written its files it dies    *)
(* when it opens them, and is run again.                                    *)
StartRound ==
  /\ rpc = "sleep" /\ lpc = "done"
  /\ rpc' = "polite" /\ k' = 1
  /\ UNCHANGED <<servers, fuzzer, file, launcher>>

(* The next instance of the loop, or what follows the loop.                 *)
\* mutant: one instance too many
PastLast(i) == i > N

\* mutant: one instance too few
BeforeLast(i) == i = N - 1

Last(i) == i = N

Advance(again, after) ==
  IF Last(k) THEN rpc' = after /\ k' = 1 ELSE rpc' = again /\ k' = k + 1

(* An instance that was restarted less than MYSQL_REBOOT_TIME_GAP ago, or   *)
(* cannot be reached, is passed over; which ones are due is left open.      *)
Pass ==
  /\ rpc = "polite"
  /\ Advance("polite", "pkill")
  /\ UNCHANGED <<servers, fuzzer, file, launcher>>

Due ==
  /\ rpc = "polite" /\ Reachable(k)
  /\ rpc' = "shutdown"
  /\ UNCHANGED <<servers, fuzzer, file, launcher, k>>

Tell(i) == IF proc[i] = "up" THEN "told" ELSE proc[i]

AskToShutdown ==
  /\ rpc = "shutdown" /\ Reachable(k)
  /\ proc' = [proc EXCEPT ![k] = Tell(k)]
  /\ Advance("polite", "pkill")
  /\ UNCHANGED <<data, mem, fuzzer, file, launcher>>

(* The server is lost between connect and SHUTDOWN: nothing catches the     *)
(* exception, the round is over.                                            *)
AbortRound ==
  /\ rpc = "shutdown" /\ ~Reachable(k)
  /\ rpc' = "sleep" /\ k' = 1
  /\ UNCHANGED <<servers, fuzzer, file, launcher>>

(* pkill mysqld: every one, due or not.                                     *)
KillAll ==
  /\ rpc = "pkill"
  /\ proc' = [i \in Instances |-> Tell(i)]
  /\ rpc' = "check"
  /\ UNCHANGED <<data, mem, fuzzer, file, launcher, k>>

StillThere ==
  /\ rpc = "check" /\ Reachable(k)
  /\ Advance("check", "sleep")
  /\ UNCHANGED <<servers, fuzzer, file, launcher>>

Gone ==
  /\ rpc = "check" /\ ~Reachable(k)
  /\ rpc' = "restore"
  /\ UNCHANGED <<servers, fuzzer, file, launcher, k>>

(* The data directory is removed and copied again; if that fails the loop   *)
(* is left, and the instances after this one wait for the next round.       *)
\* mutant: the data directory is copied only if it is not there
CopiedIfAbsent == IF data[k] = "partial" THEN "empty" ELSE data[k]

Copied == "empty"

Restore ==
  /\ rpc = "restore"
  /\ data' = [data EXCEPT ![k] = Copied]
  /\ rpc' = "start"
  /\ UNCHANGED <<proc, mem, fuzzer, file, launcher, k>>

RestoreFails ==
  /\ rpc = "restore"
  /\ data' = [data EXCEPT ![k] = "partial"]
  /\ rpc' = "sleep" /\ k' = 1
  /\ UNCHANGED <<proc, mem, fuzzer, file, launcher>>

(* The new mysqld exits at once while the old one holds the socket.         *)
Restart ==
  /\ rpc = "start"
  /\ IF proc[k] = "down"
       THEN /\ proc' = [proc EXCEPT ![k] = "up"]
            /\ mem' = [mem EXCEPT ![k] = shm[k]]
       ELSE UNCHANGED <<proc, mem>>
  /\ Advance("check", "sleep")
  /\ UNCHANGED <<data, fuzzer, file, launcher>>

---------------------------------------------------------------------------
(* The servers: inputs change the data or crash the server; one that was    *)
(* told to shut down stops answering, and some time later is gone.          *)
Fuzz(i) ==
  /\ Reachable(i)
  /\ \E d \in {"empty", "used", "absent"} : data' = [data EXCEPT ![i] = d]
  /\ UNCHANGED <<proc, mem, fuzzer, file, launcher, rebooter>>

Leave(i, from, to) ==
  /\ proc[i] \in from
  /\ proc' = [proc EXCEPT ![i] = to]
  /\ UNCHANGED <<data, mem, fuzzer, file, launcher, rebooter>>

Crash(i) == Leave(i, {"up", "told"}, "down")
Close(i) == Leave(i, {"told"}, "closing")
Exit(i)  == Leave(i, {"closing"}, "down")

Launcher == LaunchFuzzer \/ ReadFile \/ RemoveFile \/ LaunchServer

SetupShm(i) == OpenFile(i) \/ WriteFile(i)

Rebooter ==
  \/ StartRound \/ Pass \/ Due \/ AskToShutdown \/ AbortRound \/ KillAll
  \/ StillThere \/ Gone \/ Restore \/ RestoreFails \/ Restart

Next ==
  \/ Launcher \/ Rebooter
  \/ \E i \in Instances :
       SetupShm(i) \/ Fuzz(i) \/ Crash(i) \/ Close(i) \/ Exit(i)

(* The scripts and the fuzzers run, the shell loop goes on, a server told   *)
(* to shut down does so in the end, and the copy does not fail for ever.    *)
Fairness ==
  /\ WF_vars(Launcher) /\ WF_vars(Rebooter)
  /\ \A i \in Instances :
       /\ WF_vars(SetupShm(i)) /\ WF_vars(Close(i)) /\ WF_vars(Exit(i))
       /\ SF_vars(Restore /\ k = i)

Spec == Init /\ [][Next]_vars /\ Fairness

---------------------------------------------------------------------------
(* Properties.                                                              *)

(* Type invariant.  The rebooter looks at instances that exist, and only a  *)
(* server the launcher or the rebooter started is a process.                *)
TypeOK ==
  /\ proc \in [Instances -> {"up", "told", "closing", "down"}]
  /\ data \in [Instances -> {"empty", "used", "absent", "partial"}]
  /\ mem \in [Instances -> 0..N] /\ shm \in [Instances -> 0..N]
  /\ fuzzer \in [Instances -> {"none", "open", "write", "fuzz"}]
  /\ file \in [owner : 0..N, text : 0..N]
  /\ lpc \in {"fuzzer", "poll", "remove", "server", "done"} /\ li \in Instances
  /\ rpc \in {"sleep", "polite", "shutdown", "pkill", "check", "restore", "start"}
  /\ k \in Instances
  /\ \A i \in Instances : fuzzer[i] = "none" => proc[i] = "down"

(* A server writes the coverage of its own fuzzer's memory or of none,      *)
(* never of another fuzzer's, although all ids go through one file.         *)
SharesItsFuzzer ==
  \A i \in Instances : Reachable(i) => mem[i] \in {0, i}

(* Every instance is the server the client expects: it only ever comes up   *)
(* on a fresh and complete copy of its data.  With ServersReturn this is    *)
(* \A i \in Instances : Served(i)!Spec, the quantifier moved to the parts.   *)
Served(i) == INSTANCE MysqlServer
  WITH up <- Reachable(i), db <- IF Reachable(i) THEN data[i] ELSE "empty"

Serves(i) == Served(i)!Next \/ UNCHANGED Served(i)!svars

ServersServe ==
  /\ \A i \in Instances : Served(i)!Init
  /\ [][ \A i \in Instances : Serves(i) ]_vars

(* No instance is down for good, though a round that fails leaves the       *)
(* instances after it to the next one.                                      *)
ServersReturn == \A i \in Instances : []<>Reachable(i)
=============================================================================
