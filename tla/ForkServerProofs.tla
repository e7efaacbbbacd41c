-------------------------- MODULE ForkServerProofs --------------------------
(***************************************************************************)
(* Theorems about ForkServer, for any number of runs, with and without a   *)
(* stop signal.                                                            *)
(***************************************************************************)
EXTENDS ForkServer, SequenceTheorems, TLAPS

Started == proc[run] \in Ends \cup {"running"}
Ended   == proc[run] \in Ends

(* The fork server is at s unless it was killed there.                      *)
At(s) == fs \in {s, "dead"}

(* What the two pipes hold while afl-fuzz has read neither the pid nor the   *)
(* status of the run, and while it has read the pid only.                   *)
PidPending ==
  \/ ctl = 1 /\ st = <<>> /\ At("idle") /\ proc[run] = "none"
  \/ ctl = 0 /\ st = <<>> /\ At("forked") /\ Started
  \/ ctl = 0 /\ st = <<run>> /\ At("wait") /\ Started
  \/ ctl = 0 /\ st = <<run, proc[run]>> /\ At("idle") /\ Ended

StatusPending ==
  /\ ctl = 0
  /\ \/ st = <<>> /\ At("wait") /\ Started
     \/ st = <<proc[run]>> /\ At("idle") /\ Ended

(* One part per value of pc.                                                *)
HelloInv ==
  pc = "hello" =>
    /\ run = 0 /\ child_pid = -1 /\ ctl = 0
    /\ \/ st = <<>> /\ At("boot")
       \/ st = <<0>> /\ At("idle")

IdleInv ==
  pc = "idle" =>
    /\ child_pid = 0 /\ ~timer /\ ctl = 0 /\ st = <<>> /\ At("idle")
    /\ run > 0 => Ended

AskedInv == pc = "asked" => run > 0 /\ child_pid = 0 /\ ~timer /\ PidPending

RunningInv ==
  pc \in {"read_pid", "armed"} =>
    /\ run > 0 /\ child_pid = run /\ StatusPending
    /\ IF pc = "armed" THEN armedFor = run ELSE ~timer

EndedInv ==
  pc \in {"read_status", "forgot"} =>
    /\ run > 0 /\ ctl = 0 /\ st = <<>> /\ At("idle")
    /\ Ended /\ status = proc[run] /\ armedFor = run
    /\ child_pid = IF pc = "forgot" THEN 0 ELSE run

OverInv ==
  /\ pc = "broken" => run > 0 /\ child_pid = 0 /\ ctl = 0
  /\ pc \in {"broken", "stopped", "fatal"} => fs = "dead" /\ st = <<>>
  /\ stop_soon => fs = "dead"

(* The two halves of TypeOK: what afl-fuzz holds, and everything else.       *)
FuzzerTypes ==
  /\ pc \in {"hello", "idle", "asked", "read_pid", "armed", "read_status",
             "forgot", "broken", "stopped", "fatal"}
  /\ run \in 0..MaxRuns
  /\ child_pid = -1 \/ child_pid = 0 \/ child_pid = run
  /\ child_timed_out \in BOOLEAN /\ prev_timed_out \in BOOLEAN
  /\ status \in Ends \cup {"none"}
  /\ timer \in BOOLEAN /\ armedFor \in 0..run
  /\ result \in {"none", "NONE", "TMOUT", "CRASH"}

SystemTypes ==
  /\ stop_soon \in BOOLEAN
  /\ fs \in {"boot", "idle", "forked", "wait", "dead"}
  /\ ctl \in 0..1 /\ Len(st) <= 2
  /\ proc \in [Runs -> Ends \cup {"none", "running"}]

(* Runs that were not asked for have no child.                              *)
FutureInv == \A n \in Runs : n > run => proc[n] = "none"

ForkInv ==
  /\ FuzzerTypes /\ SystemTypes
  /\ HelloInv /\ IdleInv /\ AskedInv /\ RunningInv /\ EndedInv /\ OverInv
  /\ FutureInv /\ TimerKillsItsOwnRun /\ ResultIsOfThisRun

(* The messages of one exchange, as sequences.                              *)
LEMMA AppendSecond ==
  ASSUME NEW a, NEW b
  PROVE  Append(<<a>>, b) = <<a, b>>
<1> DEFINE S == {a, b}
<1>1. <<a>> \in Seq(S) /\ b \in S /\ <<a, b>> \in Seq(S)
  OBVIOUS
<1>2. /\ Append(<<a>>, b) \in Seq(S) /\ Len(Append(<<a>>, b)) = 2
      /\ Append(<<a>>, b)[1] = a /\ Append(<<a>>, b)[2] = b
  BY <1>1, AppendProperties
<1>3. Len(<<a, b>>) = 2 /\ <<a, b>>[1] = a /\ <<a, b>>[2] = b
  OBVIOUS
<1>4. \A i \in 1..Len(Append(<<a>>, b)) : Append(<<a>>, b)[i] = <<a, b>>[i]
  BY <1>2, <1>3
<1>5. Len(Append(<<a>>, b)) = Len(<<a, b>>)
  BY <1>2, <1>3
<1> HIDE DEF S
<1> QED
  BY <1>1, <1>2, <1>4, <1>5, SeqEqual, Zenon

(* What the two writes and reads on a pipe of at most two messages do to it. *)
LEMMA Messages ==
  /\ Len(<<>>) = 0
  /\ \A a : /\ <<a>> # <<>> /\ Len(<<a>>) = 1 /\ Append(<<>>, a) = <<a>>
           /\ Head(<<a>>) = a /\ Tail(<<a>>) = <<>>
  /\ \A a, b : /\ <<a, b>> # <<>> /\ Len(<<a, b>>) = 2 /\ Append(<<a>>, b) = <<a, b>>
              /\ Head(<<a, b>>) = a /\ Tail(<<a, b>>) = <<b>>
<1>1. Len(<<>>) = 0
  OBVIOUS
<1>2. ASSUME NEW a
      PROVE  /\ <<a>> # <<>> /\ Len(<<a>>) = 1 /\ Append(<<>>, a) = <<a>>
             /\ Head(<<a>>) = a /\ Tail(<<a>>) = <<>>
  OBVIOUS
<1>3. ASSUME NEW a, NEW b
      PROVE  /\ <<a, b>> # <<>> /\ Len(<<a, b>>) = 2 /\ Append(<<a>>, b) = <<a, b>>
             /\ Head(<<a, b>>) = a /\ Tail(<<a, b>>) = <<b>>
  BY AppendSecond
<1> QED
  BY <1>1, <1>2, <1>3

(* The hello message is the only one in the pipe.                           *)
LEMMA HelloKeeps == ASSUME ForkInv, Hello PROVE ForkInv'
<1>1. /\ run = 0 /\ ctl = 0 /\ At("idle") /\ st' = <<>> /\ Len(st') = 0
  BY ForkAssumption, Messages DEF Hello, ForkInv, HelloInv, At
<1>2. /\ pc' = "idle" /\ child_pid' = 0 /\ timer' = FALSE
      /\ UNCHANGED <<run, child_timed_out, prev_timed_out, status, armedFor, result,
                     stop_soon, fs, ctl, proc>>
  BY DEF Hello, server
<1>3. FuzzerTypes'
  BY <1>1, <1>2, ForkAssumption DEF ForkInv, FuzzerTypes, Ended, Runs
<1>4. SystemTypes'
  BY <1>1, <1>2 DEF ForkInv, SystemTypes
<1>5. HelloInv' /\ IdleInv' /\ AskedInv' /\ RunningInv' /\ EndedInv' /\ OverInv'
  BY <1>1, <1>2 DEF ForkInv, HelloInv, IdleInv, AskedInv, RunningInv, EndedInv, OverInv, PidPending, StatusPending, Started, Ended, At
<1>6. FutureInv' /\ TimerKillsItsOwnRun' /\ ResultIsOfThisRun'
  BY <1>1, <1>2 DEF ForkInv, FutureInv, TimerKillsItsOwnRun, ResultIsOfThisRun
<1> QED
  BY <1>3, <1>4, <1>5, <1>6 DEF ForkInv

(* The fork server was killed before it said hello.                         *)
LEMMA NoHelloKeeps == ASSUME ForkInv, NoHello PROVE ForkInv'
<1>1. /\ run = 0 /\ child_pid = -1 /\ ctl = 0 /\ fs = "dead" /\ st = <<>>
  BY ForkAssumption, Messages DEF NoHello, ForkInv, HelloInv, At
<1>2. /\ pc' = "fatal"
      /\ UNCHANGED <<run, child_pid, child_timed_out, prev_timed_out, status, timer,
                     armedFor, result, stop_soon, fs, ctl, st, proc>>
  BY DEF NoHello, server
<1>3. FuzzerTypes'
  BY <1>1, <1>2, ForkAssumption DEF ForkInv, FuzzerTypes, Ended, Runs
<1>4. SystemTypes'
  BY <1>1, <1>2 DEF ForkInv, SystemTypes
<1>5. HelloInv' /\ IdleInv' /\ AskedInv' /\ RunningInv' /\ EndedInv' /\ OverInv'
  BY <1>1, <1>2 DEF ForkInv, HelloInv, IdleInv, AskedInv, RunningInv, EndedInv, OverInv, PidPending, StatusPending, Started, Ended, At
<1>6. FutureInv' /\ TimerKillsItsOwnRun' /\ ResultIsOfThisRun'
  BY <1>1, <1>2 DEF ForkInv, FutureInv, TimerKillsItsOwnRun, ResultIsOfThisRun
<1> QED
  BY <1>3, <1>4, <1>5, <1>6 DEF ForkInv

(* A run is asked for while both pipes are empty.                           *)
LEMMA RequestKeeps == ASSUME ForkInv, Request PROVE ForkInv'
<1>1. /\ child_pid = 0 /\ ~timer /\ ctl = 0 /\ st = <<>> /\ At("idle")
      /\ run' = run + 1 /\ run' \in Runs /\ run \in Nat /\ proc[run'] = "none"
  BY ForkAssumption, Messages DEF Request, ForkInv, IdleInv, FuzzerTypes, FutureInv, Runs
<1>2. /\ \/ pc' = "broken" /\ fs = "dead" /\ ctl' = ctl
         \/ pc' = "asked" /\ ctl' = ctl + 1
      /\ child_timed_out' = FALSE
      /\ UNCHANGED <<child_pid, prev_timed_out, status, timer, armedFor, result,
                     stop_soon, fs, st, proc>>
  BY DEF Request, server
<1>3. FuzzerTypes'
  <2>1. armedFor' \in 0..run'
    BY <1>1, <1>2 DEF ForkInv, FuzzerTypes
  <2>2. run' \in 0..MaxRuns /\ child_pid' = 0
    BY <1>1, <1>2 DEF Runs
  <2> QED
    BY <1>2, <2>1, <2>2 DEF ForkInv, FuzzerTypes
<1>4. SystemTypes'
  BY <1>1, <1>2 DEF ForkInv, SystemTypes
<1>5. HelloInv' /\ IdleInv' /\ AskedInv' /\ RunningInv' /\ EndedInv' /\ OverInv'
  BY <1>1, <1>2 DEF ForkInv, HelloInv, IdleInv, AskedInv, RunningInv, EndedInv, OverInv, PidPending, StatusPending, Started, Ended, At
<1>6. FutureInv' /\ TimerKillsItsOwnRun' /\ ResultIsOfThisRun'
  BY <1>1, <1>2 DEF ForkInv, FutureInv, TimerKillsItsOwnRun, ResultIsOfThisRun
<1> QED
  BY <1>3, <1>4, <1>5, <1>6 DEF ForkInv

(* The first message of the exchange is the pid.                            *)
LEMMA ReadPidKeeps == ASSUME ForkInv, ReadPid PROVE ForkInv'
<1>1. /\ run > 0 /\ ctl = 0 /\ child_pid' = run /\ ~timer
      /\ \/ st' = <<>> /\ At("wait") /\ Started
         \/ st' = <<proc[run]>> /\ At("idle") /\ Ended
      /\ Len(st') <= 2
  <2>1. /\ run > 0 /\ ~timer /\ PidPending
        /\ st # <<>> /\ child_pid' = Head(st) /\ st' = Tail(st)
    BY DEF ForkInv, AskedInv, ReadPid
  <2>2. CASE ctl = 0 /\ st = <<run>> /\ At("wait") /\ Started
    BY <2>1, <2>2, Messages
  <2>3. CASE ctl = 0 /\ st = <<run, proc[run]>> /\ At("idle") /\ Ended
    BY <2>1, <2>3, Messages
  <2> QED
    BY <2>1, <2>2, <2>3 DEF PidPending
<1>2. /\ pc' = "read_pid"
      /\ UNCHANGED <<run, child_timed_out, prev_timed_out, status, timer, armedFor,
                     result, stop_soon, fs, ctl, proc>>
  BY DEF ReadPid, server
<1>3. FuzzerTypes'
  BY <1>1, <1>2, ForkAssumption DEF ForkInv, FuzzerTypes, Ended, Runs
<1>4. SystemTypes'
  BY <1>1, <1>2 DEF ForkInv, SystemTypes
<1>5. HelloInv' /\ IdleInv' /\ AskedInv' /\ RunningInv' /\ EndedInv' /\ OverInv'
  BY <1>1, <1>2 DEF ForkInv, HelloInv, IdleInv, AskedInv, RunningInv, EndedInv, OverInv, PidPending, StatusPending, Started, Ended, At
<1>6. FutureInv' /\ TimerKillsItsOwnRun' /\ ResultIsOfThisRun'
  BY <1>1, <1>2 DEF ForkInv, FutureInv, TimerKillsItsOwnRun, ResultIsOfThisRun
<1> QED
  BY <1>3, <1>4, <1>5, <1>6 DEF ForkInv

(* The timer is armed for the run whose pid was read.                       *)
LEMMA ArmTimerKeeps == ASSUME ForkInv, ArmTimer PROVE ForkInv'
<1>1. run > 0 /\ run \in Nat /\ child_pid = run /\ StatusPending
  BY ForkAssumption, Messages DEF ArmTimer, ForkInv, RunningInv, FuzzerTypes
<1>2. /\ pc' = "armed" /\ timer' = TRUE /\ armedFor' = run
      /\ UNCHANGED <<run, child_pid, child_timed_out, prev_timed_out, status, result,
                     stop_soon, fs, ctl, st, proc>>
  BY DEF ArmTimer, server
<1>3. FuzzerTypes'
  BY <1>1, <1>2, ForkAssumption DEF ForkInv, FuzzerTypes, Ended, Runs
<1>4. SystemTypes'
  BY <1>1, <1>2 DEF ForkInv, SystemTypes
<1>5. HelloInv' /\ IdleInv' /\ AskedInv' /\ RunningInv' /\ EndedInv' /\ OverInv'
  BY <1>1, <1>2 DEF ForkInv, HelloInv, IdleInv, AskedInv, RunningInv, EndedInv, OverInv, PidPending, StatusPending, Started, Ended, At
<1>6. FutureInv' /\ TimerKillsItsOwnRun' /\ ResultIsOfThisRun'
  BY <1>1, <1>2 DEF ForkInv, FutureInv, TimerKillsItsOwnRun, ResultIsOfThisRun
<1> QED
  BY <1>3, <1>4, <1>5, <1>6 DEF ForkInv

(* The second message is the status of the run.                             *)
LEMMA ReadStatusKeeps == ASSUME ForkInv, ReadStatus PROVE ForkInv'
<1>1. /\ run > 0 /\ child_pid = run /\ ctl = 0 /\ armedFor = run
      /\ st' = <<>> /\ Len(st') = 0 /\ status' = proc[run] /\ At("idle") /\ Ended
  BY ForkAssumption, Messages DEF ReadStatus, ForkInv, RunningInv, StatusPending
<1>2. /\ pc' = "read_status"
      /\ UNCHANGED <<run, child_pid, child_timed_out, prev_timed_out, timer, armedFor,
                     result, stop_soon, fs, ctl, proc>>
  BY DEF ReadStatus, server
<1>3. FuzzerTypes'
  BY <1>1, <1>2, ForkAssumption DEF ForkInv, FuzzerTypes, Ended, Runs
<1>4. SystemTypes'
  BY <1>1, <1>2 DEF ForkInv, SystemTypes
<1>5. HelloInv' /\ IdleInv' /\ AskedInv' /\ RunningInv' /\ EndedInv' /\ OverInv'
  BY <1>1, <1>2 DEF ForkInv, HelloInv, IdleInv, AskedInv, RunningInv, EndedInv, OverInv, PidPending, StatusPending, Started, Ended, At
<1>6. FutureInv' /\ TimerKillsItsOwnRun' /\ ResultIsOfThisRun'
  BY <1>1, <1>2 DEF ForkInv, FutureInv, TimerKillsItsOwnRun, ResultIsOfThisRun
<1> QED
  BY <1>3, <1>4, <1>5, <1>6 DEF ForkInv

(* child_pid is cleared when the status has been read; the timer may still be on. *)
LEMMA ForgetChildKeeps == ASSUME ForkInv, ForgetChild PROVE ForkInv'
<1>1. /\ run > 0 /\ ctl = 0 /\ st = <<>> /\ At("idle")
      /\ Ended /\ status = proc[run] /\ armedFor = run
  BY ForkAssumption, Messages DEF ForgetChild, ForkInv, EndedInv
<1>2. /\ pc' = "forgot" /\ child_pid' = 0
      /\ UNCHANGED <<run, child_timed_out, prev_timed_out, status, timer, armedFor,
                     result, stop_soon, fs, ctl, st, proc>>
  BY DEF ForgetChild, server
<1>3. FuzzerTypes'
  BY <1>1, <1>2, ForkAssumption DEF ForkInv, FuzzerTypes, Ended, Runs
<1>4. SystemTypes'
  BY <1>1, <1>2 DEF ForkInv, SystemTypes
<1>5. HelloInv' /\ IdleInv' /\ AskedInv' /\ RunningInv' /\ EndedInv' /\ OverInv'
  BY <1>1, <1>2 DEF ForkInv, HelloInv, IdleInv, AskedInv, RunningInv, EndedInv, OverInv, PidPending, StatusPending, Started, Ended, At
<1>6. FutureInv' /\ TimerKillsItsOwnRun' /\ ResultIsOfThisRun'
  BY <1>1, <1>2 DEF ForkInv, FutureInv, TimerKillsItsOwnRun, ResultIsOfThisRun
<1> QED
  BY <1>3, <1>4, <1>5, <1>6 DEF ForkInv

(* The verdict is drawn from the status of the run.                         *)
LEMMA DisarmTimerKeeps == ASSUME ForkInv, DisarmTimer PROVE ForkInv'
<1>1. /\ run > 0 /\ ctl = 0 /\ st = <<>> /\ At("idle")
      /\ Ended /\ status = proc[run] /\ child_pid = 0
  BY ForkAssumption, Messages DEF DisarmTimer, ForkInv, EndedInv
<1>2. /\ pc' = "idle" /\ timer' = FALSE /\ prev_timed_out' = child_timed_out
      /\ result' = Outcome
      /\ UNCHANGED <<run, child_pid, child_timed_out, status, armedFor, stop_soon,
                     fs, ctl, st, proc>>
  BY DEF DisarmTimer, server
<1>3. FuzzerTypes'
  <2>1. Outcome \in {"NONE", "TMOUT", "CRASH"}
    BY DEF Outcome
  <2> QED
    BY <1>1, <1>2, <2>1, ForkAssumption DEF ForkInv, FuzzerTypes
<1>4. SystemTypes'
  BY <1>1, <1>2 DEF ForkInv, SystemTypes
<1>5. HelloInv' /\ IdleInv' /\ AskedInv' /\ RunningInv' /\ EndedInv' /\ OverInv'
  BY <1>1, <1>2 DEF ForkInv, HelloInv, IdleInv, AskedInv, RunningInv, EndedInv, OverInv, PidPending, StatusPending, Started, Ended, At
<1>6. FutureInv' /\ TimerKillsItsOwnRun' /\ ResultIsOfThisRun'
  <2>1. ~ stop_soon =>
          /\ Outcome = "NONE"  <=> proc[run] = "exit"
          /\ Outcome = "TMOUT" => proc[run] = "SIGKILL"
          /\ proc[run] = "signal" => Outcome = "CRASH"
    BY <1>1 DEF Outcome, Ended, Ends
  <2> QED
    BY <1>1, <1>2, <2>1 DEF ForkInv, FutureInv, TimerKillsItsOwnRun, ResultIsOfThisRun
<1> QED
  BY <1>3, <1>4, <1>5, <1>6 DEF ForkInv

(* The pipe is closed: the fuzzer stops if it was told to, and gives up if not. *)
LEMMA PipeBrokenKeeps == ASSUME ForkInv, PipeBroken PROVE ForkInv'
<1>1. /\ fs = "dead" /\ st = <<>>
  BY ForkAssumption, Messages DEF PipeBroken, ForkInv, OverInv
<1>2. /\ pc' \in {"stopped", "fatal"}
      /\ UNCHANGED <<run, child_pid, child_timed_out, prev_timed_out, status, timer,
                     armedFor, result, stop_soon, fs, ctl, st, proc>>
  BY DEF PipeBroken, server
<1>3. FuzzerTypes'
  BY <1>1, <1>2, ForkAssumption DEF ForkInv, FuzzerTypes, Ended, Runs
<1>4. SystemTypes'
  BY <1>1, <1>2 DEF ForkInv, SystemTypes
<1>5. HelloInv' /\ IdleInv' /\ AskedInv' /\ RunningInv' /\ EndedInv' /\ OverInv'
  BY <1>1, <1>2 DEF ForkInv, HelloInv, IdleInv, AskedInv, RunningInv, EndedInv, OverInv, PidPending, StatusPending, Started, Ended, At
<1>6. FutureInv' /\ TimerKillsItsOwnRun' /\ ResultIsOfThisRun'
  BY <1>1, <1>2 DEF ForkInv, FutureInv, TimerKillsItsOwnRun, ResultIsOfThisRun
<1> QED
  BY <1>3, <1>4, <1>5, <1>6 DEF ForkInv

(* The main loop sees stop_soon and ends. *)
LEMMA QuitKeeps == ASSUME ForkInv, Quit PROVE ForkInv'
<1>1. /\ fs = "dead" /\ st = <<>>
  BY ForkAssumption, Messages DEF Quit, ForkInv, OverInv, IdleInv
<1>2. /\ pc' = "stopped"
      /\ UNCHANGED <<run, child_pid, child_timed_out, prev_timed_out, status, timer,
                     armedFor, result, stop_soon, fs, ctl, st, proc>>
  BY DEF Quit, server
<1>3. FuzzerTypes'
  BY <1>1, <1>2, ForkAssumption DEF ForkInv, FuzzerTypes, Ended, Runs
<1>4. SystemTypes'
  BY <1>1, <1>2 DEF ForkInv, SystemTypes
<1>5. HelloInv' /\ IdleInv' /\ AskedInv' /\ RunningInv' /\ EndedInv' /\ OverInv'
  BY <1>1, <1>2 DEF ForkInv, HelloInv, IdleInv, AskedInv, RunningInv, EndedInv, OverInv, PidPending, StatusPending, Started, Ended, At
<1>6. FutureInv' /\ TimerKillsItsOwnRun' /\ ResultIsOfThisRun'
  BY <1>1, <1>2 DEF ForkInv, FutureInv, TimerKillsItsOwnRun, ResultIsOfThisRun
<1> QED
  BY <1>3, <1>4, <1>5, <1>6 DEF ForkInv

----------------------------------------------------------------------------
(* A child ends or is killed, the fork server may be killed, the timer may  *)
(* go off: nothing of this is seen by the exchange under way.               *)
Disturbs ==
  /\ UNCHANGED <<pc, run, child_pid, prev_timed_out, status, armedFor, result, ctl, st>>
  /\ child_timed_out' \in BOOLEAN /\ timer' \in BOOLEAN /\ stop_soon' \in BOOLEAN
  /\ timer' => timer
  /\ fs' = fs \/ fs' = "dead"
  /\ stop_soon => stop_soon'
  /\ stop_soon' => stop_soon \/ fs' = "dead"
  /\ proc' \in [Runs -> Ends \cup {"none", "running"}]
  /\ \A n \in Runs : proc'[n] = proc[n] \/ (proc[n] = "running" /\ proc'[n] \in Ends)

(* What a signal handler or the end of a child may do at any moment of a run. *)
LEMMA DisturbsKeeps == ASSUME ForkInv, Disturbs PROVE ForkInv'
<1>0. FuzzerTypes /\ SystemTypes
  BY DEF ForkInv
<1>1. FuzzerTypes' /\ SystemTypes'
  <2>1. FuzzerTypes'
    BY <1>0 DEF Disturbs, FuzzerTypes
  <2>2. SystemTypes'
    BY <1>0 DEF Disturbs, SystemTypes
  <2> QED
    BY <2>1, <2>2
<1>2. run > 0 => run \in Runs
  BY ForkAssumption DEF ForkInv, FuzzerTypes, Runs
<1>3. /\ \A s : At(s) => At(s)'
      /\ run > 0 /\ Started => Started'
      /\ run > 0 /\ Ended => Ended' /\ proc'[run] = proc[run]
      /\ run > 0 /\ proc[run] = "none" => proc'[run] = "none"
  BY <1>2 DEF Disturbs, At, Started, Ended, Ends
<1>4. /\ run > 0 /\ PidPending => PidPending'
      /\ run > 0 /\ StatusPending => StatusPending'
  BY <1>3 DEF Disturbs, PidPending, StatusPending
<1>5. HelloInv' /\ IdleInv' /\ AskedInv'
  BY <1>3, <1>4 DEF Disturbs, ForkInv, HelloInv, IdleInv, AskedInv
<1>6. RunningInv' /\ EndedInv'
  BY <1>3, <1>4 DEF Disturbs, ForkInv, RunningInv, EndedInv
<1>7. OverInv' /\ TimerKillsItsOwnRun'
  BY DEF Disturbs, ForkInv, OverInv, TimerKillsItsOwnRun
<1>8. FutureInv'
  BY DEF Disturbs, ForkInv, FutureInv
<1>9. ResultIsOfThisRun'
  BY <1>2, <1>3 DEF Disturbs, ForkInv, ResultIsOfThisRun, IdleInv
<1> QED
  BY <1>1, <1>5, <1>6, <1>7, <1>8, <1>9 DEF ForkInv

(* handle_timeout kills child_pid, which is 0 or the child of the current run. *)
LEMMA HandleTimeoutKeeps == ASSUME ForkInv, HandleTimeout PROVE ForkInv'
<1>1. /\ timer' = FALSE
      /\ UNCHANGED <<pc, run, child_pid, prev_timed_out, status, armedFor, result,
                     stop_soon, ctl, st>>
      /\ proc' = proc \/ (child_pid > 0 /\ proc' = Killed(child_pid))
      /\ child_timed_out' = child_timed_out \/ child_timed_out' = TRUE
      /\ fs' = fs \/ fs' = "dead"
  BY DEF HandleTimeout
<1>2. /\ child_timed_out \in BOOLEAN /\ stop_soon \in BOOLEAN
      /\ proc \in [Runs -> Ends \cup {"none", "running"}]
  BY DEF ForkInv, FuzzerTypes, SystemTypes
<1>3. /\ proc' \in [Runs -> Ends \cup {"none", "running"}]
      /\ \A n \in Runs : proc'[n] = proc[n] \/ (proc[n] = "running" /\ proc'[n] \in Ends)
  BY <1>1, <1>2 DEF Killed, Ends
<1>4. /\ child_timed_out' \in BOOLEAN /\ timer' \in BOOLEAN /\ stop_soon' \in BOOLEAN
      /\ ~ timer' /\ stop_soon' = stop_soon
  BY <1>1, <1>2
<1>5. Disturbs
  BY <1>1, <1>3, <1>4 DEF Disturbs
<1> QED
  BY <1>5, DisturbsKeeps

(* handle_stop_sig sets stop_soon and kills child_pid and the server. *)
LEMMA HandleStopSigKeeps == ASSUME ForkInv, HandleStopSig PROVE ForkInv'
<1>1. /\ child_timed_out \in BOOLEAN /\ stop_soon \in BOOLEAN /\ timer \in BOOLEAN
      /\ proc \in [Runs -> Ends \cup {"none", "running"}]
  BY DEF ForkInv, FuzzerTypes, SystemTypes
<1>2. /\ proc' \in [Runs -> Ends \cup {"none", "running"}]
      /\ \A n \in Runs : proc'[n] = proc[n] \/ (proc[n] = "running" /\ proc'[n] \in Ends)
  BY <1>1 DEF HandleStopSig, Killed, Ends
<1>3. /\ UNCHANGED <<fuzzer, ctl, st>>
      /\ stop_soon' = TRUE /\ fs' = "dead"
  BY DEF HandleStopSig
<1>4. Disturbs
  BY <1>1, <1>2, <1>3 DEF Disturbs, fuzzer
<1> QED
  BY <1>4, DisturbsKeeps

(* A child ends by itself or by a signal; the server has not waited for it yet. *)
LEMMA ChildEndsKeeps == ASSUME ForkInv, ChildEnds PROVE ForkInv'
<1>1. /\ child_timed_out \in BOOLEAN /\ stop_soon \in BOOLEAN /\ timer \in BOOLEAN
      /\ proc \in [Runs -> Ends \cup {"none", "running"}]
  BY DEF ForkInv, FuzzerTypes, SystemTypes
<1>2. Disturbs
  BY <1>1 DEF ChildEnds, Disturbs, Ends, fuzzer, server
<1> QED
  BY <1>2, DisturbsKeeps

----------------------------------------------------------------------------
(* The fork server says hello, forks, and sends the pid and the status.     *)
LEMMA BootKeeps == ASSUME ForkInv, Boot PROVE ForkInv'
<1>1. /\ pc = "hello" /\ st' = <<0>> /\ Len(st') = 1 /\ fs' = "idle"
      /\ UNCHANGED <<fuzzer, stop_soon, ctl, proc>>
  BY Messages DEF Boot, ForkInv, FuzzerTypes, HelloInv, IdleInv, AskedInv, RunningInv,
                  EndedInv, OverInv, PidPending, StatusPending, At
<1>2. FuzzerTypes'
  BY <1>1 DEF ForkInv, FuzzerTypes, fuzzer
<1>3. SystemTypes'
  BY <1>1 DEF ForkInv, SystemTypes
<1>4. HelloInv' /\ IdleInv' /\ AskedInv' /\ RunningInv' /\ EndedInv' /\ OverInv'
  BY <1>1 DEF Boot, fuzzer, ForkInv, HelloInv, IdleInv, AskedInv, RunningInv, EndedInv, OverInv, At
<1>5. FutureInv' /\ TimerKillsItsOwnRun' /\ ResultIsOfThisRun'
  BY <1>1 DEF fuzzer, ForkInv, FutureInv, TimerKillsItsOwnRun, ResultIsOfThisRun
<1> QED
  BY <1>2, <1>3, <1>4, <1>5 DEF ForkInv

(* The server forks: the new child gets a number no earlier child had. *)
LEMMA ForkKeeps == ASSUME ForkInv, Fork PROVE ForkInv'
<1>1. /\ pc = "asked" /\ run > 0 /\ st = <<>> /\ ctl = 1 /\ ctl' = 0 /\ fs' = "forked"
      /\ proc' = [proc EXCEPT ![run] = "running"]
      /\ UNCHANGED <<fuzzer, stop_soon, st>>
  BY DEF Fork, ForkInv, FuzzerTypes, HelloInv, IdleInv, AskedInv, RunningInv,
         EndedInv, OverInv, PidPending, StatusPending, At
<1>2. run \in Runs /\ proc \in [Runs -> Ends \cup {"none", "running"}] /\ fs = "idle"
  BY <1>1, ForkAssumption DEF ForkInv, FuzzerTypes, SystemTypes, Runs, Fork
<1>3. FuzzerTypes'
  BY <1>1 DEF ForkInv, FuzzerTypes, fuzzer
<1>4. SystemTypes'
  BY <1>1, <1>2 DEF ForkInv, SystemTypes
<1>5. Started'
  BY <1>1, <1>2 DEF Started, fuzzer
<1>6. HelloInv' /\ IdleInv' /\ AskedInv' /\ RunningInv' /\ EndedInv' /\ OverInv'
  BY <1>1, <1>2, <1>5 DEF fuzzer, ForkInv, HelloInv, IdleInv, AskedInv, RunningInv,
                          EndedInv, OverInv, PidPending, At
<1>7. FutureInv' /\ TimerKillsItsOwnRun' /\ ResultIsOfThisRun'
  BY <1>1, <1>2 DEF fuzzer, ForkInv, FutureInv, TimerKillsItsOwnRun, ResultIsOfThisRun, Runs
<1> QED
  BY <1>3, <1>4, <1>6, <1>7 DEF ForkInv

(* The server writes the pid of the child it has just forked. *)
LEMMA SendPidKeeps == ASSUME ForkInv, SendPid PROVE ForkInv'
<1>1. /\ pc = "asked" /\ run > 0 /\ st' = <<run>> /\ Len(st') = 1 /\ ctl = 0 /\ Started
      /\ fs' = "wait" /\ fs = "forked" /\ UNCHANGED <<fuzzer, stop_soon, ctl, proc>>
  BY Messages DEF SendPid, ForkInv, FuzzerTypes, HelloInv, IdleInv, AskedInv, RunningInv,
                  EndedInv, OverInv, PidPending, StatusPending, At
<1>2. FuzzerTypes'
  BY <1>1 DEF ForkInv, FuzzerTypes, fuzzer
<1>3. SystemTypes'
  BY <1>1 DEF ForkInv, SystemTypes
<1>4. HelloInv' /\ IdleInv' /\ AskedInv' /\ RunningInv' /\ EndedInv' /\ OverInv'
  BY <1>1 DEF fuzzer, ForkInv, HelloInv, IdleInv, AskedInv, RunningInv, EndedInv, OverInv,
              PidPending, Started, At
<1>5. FutureInv' /\ TimerKillsItsOwnRun' /\ ResultIsOfThisRun'
  BY <1>1 DEF fuzzer, ForkInv, FutureInv, TimerKillsItsOwnRun, ResultIsOfThisRun
<1> QED
  BY <1>2, <1>3, <1>4, <1>5 DEF ForkInv

(* The server writes the status of the child it waited for, the last message of a run. *)
LEMMA SendStatusKeeps == ASSUME ForkInv, SendStatus PROVE ForkInv'
<1>1. /\ run > 0 /\ ctl = 0 /\ fs' = "idle" /\ fs = "wait" /\ Ended
      /\ UNCHANGED <<fuzzer, stop_soon, ctl, proc>>
      /\ \/ pc = "asked" /\ st' = <<run, proc[run]>>
         \/ pc \in {"read_pid", "armed"} /\ st' = <<proc[run]>>
      /\ Len(st') <= 2
  <2>1. /\ fs' = "idle" /\ fs = "wait" /\ Ended /\ st' = Append(st, proc[run])
        /\ UNCHANGED <<fuzzer, stop_soon, ctl, proc>>
    BY DEF SendStatus, Ended
  <2>2. \/ pc = "asked" /\ run > 0 /\ ctl = 0 /\ st = <<run>>
        \/ pc \in {"read_pid", "armed"} /\ run > 0 /\ ctl = 0 /\ st = <<>>
    BY <2>1 DEF ForkInv, FuzzerTypes, HelloInv, IdleInv, AskedInv, RunningInv,
                EndedInv, OverInv, PidPending, StatusPending, At
  <2>3. CASE pc = "asked" /\ run > 0 /\ ctl = 0 /\ st = <<run>>
    BY <2>1, <2>3, Messages
  <2>4. CASE pc \in {"read_pid", "armed"} /\ run > 0 /\ ctl = 0 /\ st = <<>>
    BY <2>1, <2>4, Messages
  <2> QED
    BY <2>2, <2>3, <2>4
<1>2. FuzzerTypes'
  BY <1>1 DEF ForkInv, FuzzerTypes, fuzzer
<1>3. SystemTypes'
  BY <1>1 DEF ForkInv, SystemTypes
<1>4. HelloInv' /\ IdleInv' /\ AskedInv' /\ RunningInv' /\ EndedInv' /\ OverInv'
  BY <1>1 DEF fuzzer, ForkInv, HelloInv, IdleInv, AskedInv, RunningInv, EndedInv, OverInv,
              PidPending, StatusPending, Ended, At
<1>5. FutureInv' /\ TimerKillsItsOwnRun' /\ ResultIsOfThisRun'
  BY <1>1 DEF fuzzer, ForkInv, FutureInv, TimerKillsItsOwnRun, ResultIsOfThisRun
<1> QED
  BY <1>2, <1>3, <1>4, <1>5 DEF ForkInv

----------------------------------------------------------------------------
(* The invariant holds before the first run. *)
LEMMA ForkInit == Init => ForkInv
<1> SUFFICES ASSUME Init PROVE ForkInv
  OBVIOUS
<1>1. FuzzerTypes
  <2>1. 0 \in 0..MaxRuns /\ 0 \in 0..0
    BY ForkAssumption
  <2> QED
    BY <2>1 DEF Init, FuzzerTypes
<1>a. Len(st) <= 2
  <2>1. st = <<>>
    BY DEF Init
  <2> QED
    BY <2>1
<1>b. SystemTypes
  <2>1. 0 \in 0..1
    OBVIOUS
  <2>2. proc \in [Runs -> Ends \cup {"none", "running"}]
    BY DEF Init
  <2> QED
    BY <1>a, <2>1, <2>2 DEF Init, SystemTypes
<1>2. HelloInv /\ IdleInv /\ AskedInv /\ RunningInv /\ EndedInv /\ OverInv
  BY DEF Init, HelloInv, IdleInv, AskedInv, RunningInv, EndedInv, OverInv, At
<1>3. FutureInv /\ TimerKillsItsOwnRun /\ ResultIsOfThisRun
  BY DEF Init, FutureInv, TimerKillsItsOwnRun, ResultIsOfThisRun
<1> QED
  BY <1>1, <1>b, <1>2, <1>3 DEF ForkInv

(* The invariant survives a stuttering step. *)
LEMMA ForkStutters == ASSUME ForkInv, UNCHANGED vars PROVE ForkInv'
<1>1. /\ child_timed_out \in BOOLEAN /\ stop_soon \in BOOLEAN /\ timer \in BOOLEAN
      /\ proc \in [Runs -> Ends \cup {"none", "running"}]
  BY DEF ForkInv, FuzzerTypes, SystemTypes
<1>2. Disturbs
  BY <1>1 DEF vars, fuzzer, server, Disturbs
<1> QED
  BY <1>2, DisturbsKeeps

(* The invariant holds in every reachable state. *)
LEMMA ForkInvariance == Spec => []ForkInv
<1>1. ForkInv /\ [Next]_vars => ForkInv'
  <2> SUFFICES ASSUME ForkInv, [Next]_vars
               PROVE  ForkInv'
    OBVIOUS
  <2>1. ASSUME Fuzz PROVE ForkInv'
    BY <2>1, HelloKeeps, NoHelloKeeps, RequestKeeps, ReadPidKeeps, ArmTimerKeeps,
       ReadStatusKeeps, ForgetChildKeeps, DisarmTimerKeeps, PipeBrokenKeeps, QuitKeeps
       DEF Fuzz
  <2>2. ASSUME Serve \/ Boot PROVE ForkInv'
    BY <2>2, ForkKeeps, SendPidKeeps, SendStatusKeeps, BootKeeps DEF Serve
  <2>3. ASSUME ChildEnds \/ HandleTimeout \/ HandleStopSig PROVE ForkInv'
    BY <2>3, ChildEndsKeeps, HandleTimeoutKeeps, HandleStopSigKeeps
  <2>4. ASSUME UNCHANGED vars PROVE ForkInv'
    BY <2>4, ForkStutters
  <2> QED
    BY <2>1, <2>2, <2>3, <2>4 DEF Next
<1> QED
  BY <1>1, ForkInit, PTL DEF Spec

(* The variables keep their types, and the pipes never hold more than one    *)
(* exchange, however the handlers interleave with run_target.               *)
THEOREM ForkTypes == Spec => []TypeOK
<1>1. ForkInv => TypeOK
  BY DEF ForkInv, FuzzerTypes, SystemTypes, TypeOK
<1> QED
  BY <1>1, ForkInvariance, PTL

(* run_target answers for the child of its own run, whatever the handlers    *)
(* did meanwhile (afl-fuzz.cpp, run_target and handle_timeout).             *)
THEOREM ResultsAreOfTheirRun == Spec => []ResultIsOfThisRun
<1>1. ForkInv => ResultIsOfThisRun
  BY DEF ForkInv
<1> QED
  BY <1>1, ForkInvariance, PTL

(* A timer that is armed while a child is known was armed for that child.   *)
THEOREM TimersKillTheirRun == Spec => []TimerKillsItsOwnRun
<1>1. ForkInv => TimerKillsItsOwnRun
  BY DEF ForkInv
<1> QED
  BY <1>1, ForkInvariance, PTL
=============================================================================
