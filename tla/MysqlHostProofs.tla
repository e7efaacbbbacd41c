--------------------------- MODULE MysqlHostProofs ---------------------------
(***************************************************************************)
(* Proofs about MysqlHost, for every number of instances.                  *)
(***************************************************************************)
EXTENDS MysqlHost, TLAPS

USE HostAssumption DEF Instances

(* How far the launch is: the fuzzers started so far, and the rounds that   *)
(* wait for its end.                                                        *)
LaunchOrder ==
  /\ \A i \in Instances : i < li => fuzzer[i] # "none"
  /\ \A i \in Instances : i > li => fuzzer[i] = "none"
  /\ lpc = "fuzzer" <=> fuzzer[li] = "none"
  /\ lpc = "done" => li = N
  /\ rpc # "sleep" => lpc = "done"

(* shm_env.txt belongs to the fuzzer being launched, which has created it   *)
(* by the time it is read; each id comes from the fuzzer that owns it.      *)
FileIsFresh ==
  /\ \A i \in Instances : fuzzer[i] = "open" =>
       i = li /\ lpc = "poll" /\ file = NoFile
  /\ file # NoFile => file.owner = li /\ lpc \in {"poll", "remove"}
  /\ file.text \in {0, file.owner}

(* The ids the servers got and will get when they are restarted.            *)
OwnIds == \A i \in Instances : mem[i] \in {0, i} /\ shm[i] \in {0, i}

HostInv == TypeOK /\ LaunchOrder /\ FileIsFresh /\ OwnIds

(* The invariant holds before anything is launched.                         *)
LEMMA InitHolds == Init => HostInv
  BY DEF Init, HostInv, TypeOK, LaunchOrder, FileIsFresh, OwnIds, NoFile

(* The loops of the rebooter stay among the instances.                      *)
LEMMA AdvanceIsSound ==
  ASSUME NEW again, NEW after, k \in Instances, Advance(again, after)
  PROVE  k' \in Instances /\ rpc' \in {again, after}
  BY DEF Advance, Last

(* The launcher keeps the invariant.                                        *)
LEMMA LauncherKeeps == HostInv /\ Launcher => HostInv'
<1> SUFFICES ASSUME HostInv, Launcher PROVE HostInv'
  OBVIOUS
<1> USE DEF HostInv, TypeOK, LaunchOrder, FileIsFresh, OwnIds, NoFile
<1>1. CASE LaunchFuzzer BY <1>1 DEF LaunchFuzzer, rebooter
<1>2. CASE ReadFile
  <2>1. file.text \in 0..N /\ file.text \in {0, li}
    OBVIOUS
  <2>2. shm' \in [Instances -> 0..N]
    BY <1>2, <2>1 DEF ReadFile
  <2>3. OwnIds'
    BY <1>2, <2>1 DEF ReadFile, servers
  <2>4. UNCHANGED <<servers, fuzzer, file, li, rebooter>> /\ lpc = "poll" /\ lpc' = "remove"
    BY <1>2 DEF ReadFile
  <2>5. TypeOK'
    BY <2>2, <2>4 DEF servers, rebooter
  <2>6. LaunchOrder'
    BY <2>4 DEF rebooter
  <2>7. FileIsFresh'
    <3>1. \A i \in Instances : fuzzer[i] # "open"
      BY <1>2 DEF ReadFile
    <3> QED BY <2>4, <3>1
  <2> QED BY <2>3, <2>5, <2>6, <2>7
<1>3. CASE RemoveFile BY <1>3 DEF RemoveFile, servers, rebooter
<1>4. CASE LaunchServer BY <1>4 DEF LaunchServer, rebooter
<1> QED BY <1>1, <1>2, <1>3, <1>4 DEF Launcher

(* A fuzzer that creates or writes the file keeps the invariant.            *)
LEMMA FuzzerKeeps ==
  ASSUME HostInv, NEW i \in Instances, SetupShm(i)
  PROVE  HostInv'
<1> USE DEF HostInv, TypeOK, LaunchOrder, FileIsFresh, OwnIds, NoFile
<1>1. CASE OpenFile(i) BY <1>1 DEF OpenFile, servers, launcher, rebooter
<1>2. CASE WriteFile(i)
  <2>1. /\ file' \in [owner : 0..N, text : 0..N]
        /\ file'.owner = file.owner
        /\ file'.text \in {0, file.owner}
        /\ file.owner = 0 => file' = file
    <3>1. CASE file.owner = i
      <4>1. file' = [file EXCEPT !.text = i]
        BY <1>2, <3>1 DEF WriteFile
      <4>2. file \in [owner : 0..N, text : 0..N] /\ i \in 0..N /\ i # 0
        OBVIOUS
      <4> QED BY ONLY <3>1, <4>1, <4>2
    <3>2. CASE file.owner # i BY <1>2, <3>2 DEF WriteFile
    <3> QED BY <3>1, <3>2
  <2>2. file' # NoFile => file # NoFile
    BY <2>1
  <2>3. fuzzer' = [fuzzer EXCEPT ![i] = "fuzz"] /\ fuzzer[i] = "write"
    BY <1>2 DEF WriteFile
  <2>4. UNCHANGED <<servers, launcher, rebooter>>
    BY <1>2 DEF WriteFile
  <2>5. TypeOK'
    BY <2>1, <2>3, <2>4 DEF servers, launcher, rebooter
  <2>6. LaunchOrder' /\ OwnIds'
    BY <2>3, <2>4 DEF servers, launcher, rebooter
  <2>7. FileIsFresh'
    BY <2>1, <2>2, <2>3, <2>4 DEF servers, launcher, rebooter
  <2> QED BY <2>5, <2>6, <2>7
<1> QED BY <1>1, <1>2 DEF SetupShm

(* The rebooter keeps the invariant.                                        *)
LEMMA RebooterKeeps == HostInv /\ Rebooter => HostInv'
<1> SUFFICES ASSUME HostInv, Rebooter PROVE HostInv'
  OBVIOUS
<1> USE DEF HostInv, TypeOK, LaunchOrder, FileIsFresh, OwnIds, NoFile, launcher
<1>1. CASE StartRound BY <1>1 DEF StartRound, servers
<1>2. CASE Pass BY <1>2, AdvanceIsSound DEF Pass, servers
<1>3. CASE Due BY <1>3 DEF Due, servers
<1>4. CASE AskToShutdown
  BY <1>4, AdvanceIsSound DEF AskToShutdown, Tell, Reachable
<1>5. CASE AbortRound BY <1>5 DEF AbortRound, servers
<1>6. CASE KillAll BY <1>6 DEF KillAll, Tell
<1>7. CASE StillThere BY <1>7, AdvanceIsSound DEF StillThere, servers
<1>8. CASE Gone BY <1>8 DEF Gone, servers
<1>9. CASE Restore BY <1>9 DEF Restore, Copied
<1>10. CASE RestoreFails BY <1>10 DEF RestoreFails
<1>11. CASE Restart
  <2>1. shm[k] \in 0..N /\ shm[k] \in {0, k} /\ rpc = "start"
    BY <1>11 DEF Restart
  <2>2. \A i \in Instances : fuzzer[i] # "none"
    BY <2>1
  <2>3. mem' \in [Instances -> 0..N] /\ \A i \in Instances : mem'[i] \in {0, i}
    BY <1>11, <2>1 DEF Restart
  <2>4. proc' \in [Instances -> {"up", "told", "closing", "down"}]
    BY <1>11 DEF Restart
  <2>5. UNCHANGED <<data, fuzzer, file, launcher>>
    BY <1>11 DEF Restart
  <2>6. k' \in Instances /\ rpc' \in {"check", "sleep"}
    BY <1>11, AdvanceIsSound DEF Restart
  <2>7. TypeOK' /\ OwnIds'
    BY <2>2, <2>3, <2>4, <2>5, <2>6
  <2>8. LaunchOrder' /\ FileIsFresh'
    BY <2>1, <2>5, <2>6
  <2> QED BY <2>7, <2>8
<1> QED BY <1>1, <1>2, <1>3, <1>4, <1>5, <1>6, <1>7, <1>8, <1>9, <1>10, <1>11
        DEF Rebooter

(* So does whatever a server does.                                          *)
LEMMA ServerKeeps ==
  ASSUME HostInv, NEW i \in Instances,
         Fuzz(i) \/ Crash(i) \/ Close(i) \/ Exit(i)
  PROVE  HostInv'
<1> USE DEF HostInv, TypeOK, LaunchOrder, FileIsFresh, OwnIds, NoFile,
            launcher, rebooter
<1>1. CASE Fuzz(i) BY <1>1 DEF Fuzz, Reachable
<1>2. CASE Crash(i) BY <1>2 DEF Crash, Leave
<1>3. CASE Close(i) BY <1>3 DEF Close, Leave
<1>4. CASE Exit(i) BY <1>4 DEF Exit, Leave
<1> QED BY <1>1, <1>2, <1>3, <1>4

(* The invariant holds of every behaviour.                                  *)
LEMMA Invariance == Spec => []HostInv
<1>1. HostInv /\ [Next]_vars => HostInv'
  <2> SUFFICES ASSUME HostInv, [Next]_vars PROVE HostInv'
    OBVIOUS
  <2>1. CASE Next BY <2>1, LauncherKeeps, FuzzerKeeps, RebooterKeeps, ServerKeeps DEF Next
  <2>2. CASE UNCHANGED vars
    BY <2>2 DEF vars, servers, launcher, rebooter, HostInv, TypeOK, LaunchOrder,
                FileIsFresh, OwnIds
  <2> QED BY <2>1, <2>2
<1> QED BY InitHolds, <1>1, PTL DEF Spec

(* Types, for every number of instances.                                    *)
THEOREM HostTypes == Spec => []TypeOK
  BY Invariance, PTL DEF HostInv

(* Although all ids go through one file, no server of any number of them    *)
(* ever writes the coverage of another fuzzer.                              *)
THEOREM IdsAreNotMixed == Spec => []SharesItsFuzzer
<1>1. HostInv => SharesItsFuzzer
  BY DEF HostInv, OwnIds, SharesItsFuzzer
<1> QED BY Invariance, <1>1, PTL

(* A server that does not answer and is about to be started has a fresh     *)
(* copy of its data; none answers on a partial one.                         *)
FreshData ==
  /\ \A i \in Instances : Reachable(i) => data[i] # "partial"
  /\ lpc \in {"poll", "remove", "server"} => data[li] = "empty"
  /\ lpc # "done" => \A i \in Instances : i >= li => proc[i] = "down"
  /\ rpc = "restore" => ~Reachable(k)
  /\ rpc = "start" => ~Reachable(k) /\ data[k] = "empty"

ServeInv == HostInv /\ FreshData

(* What a step may do to the server of an instance, in the host's terms.    *)
ServesHere(i) ==
  \/ Reachable(i) /\ ~Reachable(i)'
  \/ ~Reachable(i) /\ Reachable(i)' /\ data'[i] = "empty"
  \/ Reachable(i) /\ Reachable(i)' /\ data'[i] \in {"empty", "used", "absent"}
  \/ ~Reachable(i) /\ ~Reachable(i)'

(* These are the steps of MysqlServer.                                      *)
LEMMA HereIsThere == \A i \in Instances : ServesHere(i) => Serves(i)
<1> SUFFICES ASSUME NEW i \in Instances, ServesHere(i) PROVE Serves(i)
  OBVIOUS
<1> USE DEF Serves, Served!Next, Served!svars, Served!Databases, Reachable
<1>1. CASE Reachable(i) /\ ~Reachable(i)' BY <1>1 DEF Served!GoDown
<1>2. CASE ~Reachable(i) /\ Reachable(i)' /\ data'[i] = "empty"
  BY <1>2 DEF Served!ComeUp
<1>3. CASE /\ Reachable(i) /\ Reachable(i)'
           /\ data'[i] \in {"empty", "used", "absent"}
  BY <1>3 DEF Served!Use
<1>4. CASE ~Reachable(i) /\ ~Reachable(i)'
  BY <1>4
<1> QED BY <1>1, <1>2, <1>3, <1>4 DEF ServesHere

(* What a step that neither starts nor stops a server, nor touches its      *)
(* data, does to it.                                                        *)
LEMMA Untouched ==
  ASSUME ServeInv, NEW i \in Instances, proc'[i] = proc[i], data'[i] = data[i]
  PROVE  ServesHere(i) /\ (Reachable(i)' => data'[i] # "partial")
  BY DEF ServeInv, HostInv, TypeOK, FreshData, ServesHere, Reachable

(* The launcher starts a server on the data it has just copied.             *)
LEMMA LauncherServes ==
  ServeInv /\ Launcher => FreshData' /\ \A i \in Instances : ServesHere(i)
<1> SUFFICES ASSUME ServeInv, Launcher
             PROVE  FreshData' /\ \A i \in Instances : ServesHere(i)
  OBVIOUS
<1> USE DEF ServeInv, HostInv, TypeOK, LaunchOrder, FreshData, Reachable
<1>1. CASE LaunchFuzzer BY <1>1 DEF LaunchFuzzer, rebooter, ServesHere
<1>2. CASE ReadFile BY <1>2 DEF ReadFile, servers, rebooter, ServesHere
<1>3. CASE RemoveFile BY <1>3 DEF RemoveFile, servers, rebooter, ServesHere
<1>4. CASE LaunchServer BY <1>4 DEF LaunchServer, rebooter, ServesHere
<1> QED BY <1>1, <1>2, <1>3, <1>4 DEF Launcher

(* The fuzzers touch no server.                                             *)
LEMMA FuzzerServes ==
  ASSUME ServeInv, NEW f \in Instances, SetupShm(f)
  PROVE  FreshData' /\ \A i \in Instances : ServesHere(i)
<1>1. UNCHANGED <<servers, launcher, rebooter>>
  BY DEF SetupShm, OpenFile, WriteFile
<1> QED BY <1>1, Untouched DEF servers, launcher, rebooter, ServeInv, FreshData, Reachable

(* The rebooter starts a server on the data it has just copied.             *)
LEMMA RebooterServes ==
  ServeInv /\ Rebooter => FreshData' /\ \A i \in Instances : ServesHere(i)
<1> SUFFICES ASSUME ServeInv, Rebooter
             PROVE  FreshData' /\ \A i \in Instances : ServesHere(i)
  OBVIOUS
<1> USE DEF ServeInv, HostInv, TypeOK, LaunchOrder, FreshData, Reachable, launcher
<1>1. CASE StartRound BY <1>1, Untouched DEF StartRound, servers
<1>2. CASE Pass
  <2>1. rpc' \in {"polite", "pkill"}
    BY <1>2, AdvanceIsSound DEF Pass
  <2> QED BY <1>2, <2>1, Untouched DEF Pass, servers
<1>3. CASE Due BY <1>3, Untouched DEF Due, servers
<1>4. CASE AskToShutdown
  <2>1. rpc' \in {"polite", "pkill"} /\ lpc = "done"
    BY <1>4, AdvanceIsSound DEF AskToShutdown
  <2>2. \A i \in Instances : Reachable(i)' <=> Reachable(i)
    BY <1>4 DEF AskToShutdown, Tell
  <2>3. UNCHANGED <<data, launcher>>
    BY <1>4 DEF AskToShutdown
  <2> QED BY <2>1, <2>2, <2>3 DEF ServesHere
<1>5. CASE AbortRound BY <1>5, Untouched DEF AbortRound, servers
<1>6. CASE KillAll BY <1>6 DEF KillAll, Tell, ServesHere
<1>7. CASE StillThere
  <2>1. rpc' \in {"check", "sleep"}
    BY <1>7, AdvanceIsSound DEF StillThere
  <2> QED BY <1>7, <2>1, Untouched DEF StillThere, servers
<1>8. CASE Gone BY <1>8, Untouched DEF Gone, servers
<1>9. CASE Restore BY <1>9 DEF Restore, Copied, ServesHere
<1>10. CASE RestoreFails BY <1>10 DEF RestoreFails, ServesHere
<1>11. CASE Restart
  <2>1. rpc' \in {"check", "sleep"} /\ lpc = "done"
    BY <1>11, AdvanceIsSound DEF Restart
  <2>2. \A i \in Instances : i # k => proc'[i] = proc[i]
    BY <1>11 DEF Restart
  <2>3. UNCHANGED <<data, launcher>> /\ ~Reachable(k) /\ data[k] = "empty"
    BY <1>11 DEF Restart
  <2> QED BY <2>1, <2>2, <2>3 DEF ServesHere
<1> QED BY <1>1, <1>2, <1>3, <1>4, <1>5, <1>6, <1>7, <1>8, <1>9, <1>10, <1>11
        DEF Rebooter

(* A server comes up in no other way.                                       *)
LEMMA ServerServes ==
  ASSUME ServeInv, NEW j \in Instances,
         Fuzz(j) \/ Crash(j) \/ Close(j) \/ Exit(j)
  PROVE  FreshData' /\ \A i \in Instances : ServesHere(i)
<1> USE DEF ServeInv, HostInv, TypeOK, LaunchOrder, FreshData, Reachable,
            launcher, rebooter, ServesHere
<1>1. CASE Fuzz(j) BY <1>1 DEF Fuzz
<1>2. CASE Crash(j) BY <1>2 DEF Crash, Leave
<1>3. CASE Close(j) BY <1>3 DEF Close, Leave
<1>4. CASE Exit(j) BY <1>4 DEF Exit, Leave
<1> QED BY <1>1, <1>2, <1>3, <1>4

(* The host implements the server of every instance, liveness apart: it     *)
(* comes up only on a fresh and complete copy of its data.                  *)
THEOREM HostServes == Spec => ServersServe
<1>1. Init => (\A i \in Instances : Served(i)!Init) /\ FreshData
  BY DEF Init, Served!Init, FreshData, Reachable
<1>2. ServeInv /\ [Next]_vars => FreshData' /\ \A i \in Instances : ServesHere(i)
  <2> SUFFICES ASSUME ServeInv, [Next]_vars
               PROVE  FreshData' /\ \A i \in Instances : ServesHere(i)
    OBVIOUS
  <2>1. CASE Next
    BY <2>1, LauncherServes, FuzzerServes, RebooterServes, ServerServes DEF Next
  <2>2. CASE UNCHANGED vars
    BY <2>2, Untouched DEF vars, servers, launcher, rebooter, ServeInv, FreshData, Reachable
  <2> QED BY <2>1, <2>2
<1>3. ServeInv /\ [Next]_vars => FreshData' /\ [\A i \in Instances : Serves(i)]_vars
  BY <1>2, HereIsThere
<1> QED BY Invariance, <1>1, <1>3, PTL DEF Spec, ServeInv, ServersServe
=============================================================================
