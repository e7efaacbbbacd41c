----------------------------- MODULE ForkServer -----------------------------
(***************************************************************************)
(* How the SQLite fuzzer runs its target: afl-fuzz asks the fork server    *)
(* (afl-as.h, inside the instrumented sqlite3) for a child over one pipe,  *)
(* and reads the child's pid and then its wait status from another.  A     *)
(* one-shot timer kills a child that takes too long, a stop signal kills   *)
(* the child and the fork server; both handlers may run between any two    *)
(* steps.  A child is named by the number of its run.                      *)
(***************************************************************************)
EXTENDS Integers, Sequences, FiniteSets

CONSTANTS
  MaxRuns,  \* bound: children requested in one behaviour
  CanStop   \* whether a stop signal may arrive

ASSUME ForkAssumption == MaxRuns \in Nat /\ CanStop \in BOOLEAN

VARIABLES
  pc,              \* afl-fuzz: where init_forkserver or run_target is
  run,             \* number of the run
  child_pid,       \* -1 before the handshake, 0 for no child
  child_timed_out,
  prev_timed_out,
  status,          \* what was read from the status pipe
  timer,           \* is ITIMER_REAL armed
  armedFor,        \* history: the run the timer was last armed for
  stop_soon,
  result,          \* what run_target returned
  fs,              \* the fork server: "boot", "idle", "forked", "wait" or "dead"
  ctl,             \* requests in the control pipe
  st,              \* messages in the status pipe
  proc             \* per run: its child, or how the child ended

fuzzer == <<pc, run, child_pid, child_timed_out, prev_timed_out, status, timer,
            armedFor, result>>
server == <<fs, ctl, st>>
vars == <<fuzzer, stop_soon, server, proc>>

Runs == 1..MaxRuns

(* How a child ends: on its own, by a signal of its own making, or by       *)
(* SIGKILL, from the fuzzer or from the kernel.                             *)
Ends == {"exit", "signal", "SIGKILL"}

Killed(n) == [proc EXCEPT ![n] = IF @ = "running" THEN "SIGKILL" ELSE @]

Init ==
  /\ pc = "hello" /\ run = 0
  /\ child_pid = -1 /\ child_timed_out = FALSE /\ prev_timed_out = FALSE
  /\ status = "none" /\ result = "none"
  /\ timer = TRUE /\ armedFor = 0
  /\ stop_soon = FALSE
  /\ fs = "boot" /\ ctl = 0 /\ st = <<>>
  /\ proc = [n \in Runs |-> "none"]

---------------------------------------------------------------------------
(* init_forkserver: wait for the hello message, with the timer armed.       *)
Hello ==
  /\ pc = "hello" /\ st # <<>>
  /\ st' = Tail(st)
  /\ child_pid' = 0 /\ timer' = FALSE
  /\ pc' = "idle"
  /\ UNCHANGED <<run, child_timed_out, prev_timed_out, status, armedFor, result,
                 stop_soon, fs, ctl, proc>>

(* The pipe was closed instead: FATAL, whatever child_pid now holds.        *)
NoHello ==
  /\ pc = "hello" /\ st = <<>> /\ fs = "dead"
  /\ pc' = "fatal"
  /\ UNCHANGED <<run, child_pid, child_timed_out, prev_timed_out, status, timer,
                 armedFor, result, stop_soon, server, proc>>

(* run_target, one step per system call.                                    *)
Request ==
  /\ pc = "idle" /\ ~stop_soon /\ run < MaxRuns
  /\ run' = run + 1
  /\ child_timed_out' = FALSE
  /\ IF fs = "dead" THEN pc' = "broken" /\ UNCHANGED ctl
                    ELSE pc' = "asked" /\ ctl' = ctl + 1
  /\ UNCHANGED <<child_pid, prev_timed_out, status, timer, armedFor, result,
                 stop_soon, fs, st, proc>>

ReadPid ==
  /\ pc = "asked" /\ st # <<>>
  /\ child_pid' = Head(st) /\ st' = Tail(st)
  /\ pc' = "read_pid"
  /\ UNCHANGED <<run, child_timed_out, prev_timed_out, status, timer, armedFor,
                 result, stop_soon, fs, ctl, proc>>

ArmTimer ==
  /\ pc = "read_pid"
  /\ timer' = TRUE /\ armedFor' = run
  /\ pc' = "armed"
  /\ UNCHANGED <<run, child_pid, child_timed_out, prev_timed_out, status, result,
                 stop_soon, server, proc>>

ReadStatus ==
  /\ pc = "armed" /\ st # <<>>
  /\ status' = Head(st) /\ st' = Tail(st)
  /\ pc' = "read_status"
  /\ UNCHANGED <<run, child_pid, child_timed_out, prev_timed_out, timer, armedFor,
                 result, stop_soon, fs, ctl, proc>>

\* mutant: the pid stays in child_pid when the child has been reaped
ForgetChildKept ==
  /\ pc = "read_status"
  /\ pc' = "forgot"
  /\ UNCHANGED <<run, child_pid, child_timed_out, prev_timed_out, status, timer,
                 armedFor, result, stop_soon, server, proc>>

ForgetChild ==
  /\ pc = "read_status"
  /\ child_pid' = 0
  /\ pc' = "forgot"
  /\ UNCHANGED <<run, child_timed_out, prev_timed_out, status, timer, armedFor,
                 result, stop_soon, server, proc>>

\* mutant: any child whose timer fired is said to have timed out
OutcomeByTimer ==
  IF child_timed_out THEN "TMOUT"
  ELSE IF status = "exit" \/ stop_soon THEN "NONE" ELSE "CRASH"

(* What run_target makes of the status.  A build with a sanitizer also      *)
(* crashes by exit code (MSAN_ERROR); SQLRight fuzzes builds without one.   *)
Outcome ==
  IF status = "exit" \/ stop_soon THEN "NONE"
  ELSE IF status = "SIGKILL" /\ child_timed_out THEN "TMOUT" ELSE "CRASH"

\* mutant: the timer is left running when the run is over
DisarmTimerLeft ==
  /\ pc = "forgot"
  /\ prev_timed_out' = child_timed_out
  /\ result' = Outcome
  /\ pc' = "idle"
  /\ UNCHANGED <<run, child_pid, child_timed_out, status, timer, armedFor,
                 stop_soon, server, proc>>

DisarmTimer ==
  /\ pc = "forgot"
  /\ timer' = FALSE
  /\ prev_timed_out' = child_timed_out
  /\ result' = Outcome
  /\ pc' = "idle"
  /\ UNCHANGED <<run, child_pid, child_timed_out, status, armedFor, stop_soon,
                 server, proc>>

(* A pipe whose other end is closed ends run_target; without a stop signal  *)
(* that is fatal.                                                           *)
PipeBroken ==
  /\ \/ pc \in {"asked", "armed"} /\ st = <<>> /\ fs = "dead"
     \/ pc = "broken"
  /\ pc' = IF stop_soon THEN "stopped" ELSE "fatal"
  /\ UNCHANGED <<run, child_pid, child_timed_out, prev_timed_out, status, timer,
                 armedFor, result, stop_soon, server, proc>>

(* main leaves its loop between two runs.                                   *)
Quit ==
  /\ pc = "idle" /\ stop_soon
  /\ pc' = "stopped"
  /\ UNCHANGED <<run, child_pid, child_timed_out, prev_timed_out, status, timer,
                 armedFor, result, stop_soon, server, proc>>

---------------------------------------------------------------------------
(* The signal handlers.                                                     *)
\* mutant: only a child is killed, not a fork server that does not come up
HandleTimeoutChildOnly ==
  /\ timer /\ timer' = FALSE
  /\ IF child_pid > 0
       THEN child_timed_out' = TRUE /\ proc' = Killed(child_pid)
       ELSE UNCHANGED <<child_timed_out, proc>>
  /\ UNCHANGED <<pc, run, child_pid, prev_timed_out, status, armedFor, result,
                 stop_soon, server>>

HandleTimeout ==
  /\ timer /\ timer' = FALSE
  /\ CASE child_pid > 0  -> /\ child_timed_out' = TRUE
                            /\ proc' = Killed(child_pid)
                            /\ UNCHANGED fs
       [] child_pid = -1 -> /\ child_timed_out' = TRUE
                            /\ fs' = "dead"
                            /\ UNCHANGED proc
       [] OTHER          -> UNCHANGED <<child_timed_out, proc, fs>>
  /\ UNCHANGED <<pc, run, child_pid, prev_timed_out, status, armedFor, result,
                 stop_soon, ctl, st>>

HandleStopSig ==
  /\ CanStop /\ ~stop_soon
  /\ stop_soon' = TRUE
  /\ proc' = IF child_pid > 0 THEN Killed(child_pid) ELSE proc
  /\ fs' = "dead"
  /\ UNCHANGED <<fuzzer, ctl, st>>

---------------------------------------------------------------------------
(* The fork server and its children.                                        *)
Boot ==
  /\ fs = "boot" /\ fs' = "idle"
  /\ st' = Append(st, 0)
  /\ UNCHANGED <<fuzzer, stop_soon, ctl, proc>>

Fork ==
  /\ fs = "idle" /\ ctl > 0
  /\ ctl' = ctl - 1
  /\ fs' = "forked"
  /\ proc' = [proc EXCEPT ![run] = "running"]
  /\ UNCHANGED <<fuzzer, stop_soon, st>>

SendPid ==
  /\ fs = "forked" /\ fs' = "wait"
  /\ st' = Append(st, run)
  /\ UNCHANGED <<fuzzer, stop_soon, ctl, proc>>

SendStatus ==
  /\ fs = "wait" /\ proc[run] \in Ends
  /\ fs' = "idle"
  /\ st' = Append(st, proc[run])
  /\ UNCHANGED <<fuzzer, stop_soon, ctl, proc>>

ChildEnds ==
  \E n \in Runs, end \in Ends :
    /\ proc[n] = "running"
    /\ proc' = [proc EXCEPT ![n] = end]
    /\ UNCHANGED <<fuzzer, stop_soon, server>>

Fuzz ==
  \/ Hello \/ NoHello \/ Request \/ ReadPid \/ ArmTimer \/ ReadStatus
  \/ ForgetChild \/ DisarmTimer \/ PipeBroken \/ Quit

Serve == Fork \/ SendPid \/ SendStatus

Next == Fuzz \/ Serve \/ Boot \/ ChildEnds \/ HandleTimeout \/ HandleStopSig

(* The two processes are scheduled and the timer expires.  Nothing makes a  *)
(* child end by itself, or sqlite3 come up.                                 *)
Fairness == WF_vars(Fuzz) /\ WF_vars(Serve) /\ WF_vars(HandleTimeout)

Spec == Init /\ [][Next]_vars /\ Fairness

---------------------------------------------------------------------------
(* Properties.                                                              *)

(* Type invariant; the pipes never hold more than one exchange.             *)
TypeOK ==
  /\ pc \in {"hello", "idle", "asked", "read_pid", "armed", "read_status",
             "forgot", "broken", "stopped", "fatal"}
  /\ run \in 0..MaxRuns
  /\ child_pid \in {-1, 0, run}
  /\ child_timed_out \in BOOLEAN /\ prev_timed_out \in BOOLEAN
  /\ status \in Ends \cup {"none"}
  /\ timer \in BOOLEAN /\ armedFor \in 0..run
  /\ stop_soon \in BOOLEAN
  /\ result \in {"none", "NONE", "TMOUT", "CRASH"}
  /\ fs \in {"boot", "idle", "forked", "wait", "dead"}
  /\ ctl \in 0..1 /\ Len(st) <= 2
  /\ proc \in [Runs -> Ends \cup {"none", "running"}]

(* run_target answers for the child of its own run: a timeout or a crash is *)
(* never reported of a child that exited, nor an exit of one that did not,  *)
(* and only a child that was killed is said to have timed out.              *)
ResultIsOfThisRun ==
  pc = "idle" /\ run > 0 /\ ~stop_soon =>
    /\ result = "NONE"  <=> proc[run] = "exit"
    /\ result = "TMOUT" => proc[run] = "SIGKILL"
    /\ proc[run] = "signal" => result = "CRASH"

(* The timer of one run never kills the child of another.                   *)
TimerKillsItsOwnRun ==
  timer /\ child_pid > 0 => armedFor = child_pid

(* A run of a target that hangs comes to an end, and so does the wait for   *)
(* one that never says hello: the timer is never wasted on a moment without *)
(* anything to kill.                                                        *)
RunsReturn ==
  /\ pc = "asked" ~> pc \in {"idle", "stopped", "fatal"}
  /\ pc = "hello" ~> pc # "hello"

(* afl-fuzz.cpp:7888: "If we stopped programmatically, we kill the          *)
(* forkserver and the current runner. If we stopped manually, this is done  *)
(* by the signal handler."                                                  *)
NoRunnerIsLeft ==
  pc = "stopped" => \A n \in Runs : proc[n] # "running"
=============================================================================
