----------------------------- MODULE SeedQueue ------------------------------
(***************************************************************************)
(* The seed queue of the SQLite fuzzer (afl-fuzz.cpp): the dry run         *)
(* calibrates the initial seeds; calibration makes a seed contend for the  *)
(* slots of top_rated, one per byte of the coverage map; cull_queue picks  *)
(* favored seeds among the winners; fuzz_one fuzzes the current seed, or   *)
(* skips it in favour of favored ones, and queues the inputs that reach    *)
(* new code.  A seed is its position in the queue, 0 stands for NULL.      *)
(***************************************************************************)
EXTENDS Integers, Sequences, FiniteSets

CONSTANTS
  NumSeeds,      \* seeds found by read_testcases
  MapSize,       \* MAP_SIZE
  Factors,       \* values of exec_us * len
  GiveUpFaults,  \* faults the dry run is told to tolerate (-t n+, AFL_SKIP_CRASHES)
  CalChances,    \* CAL_CHANCES
  SmallQueue,    \* the queue length up to which non-favored seeds are not skipped
  MaxQueue       \* bound: length of the queue

Bytes == 1..MapSize
NULL  == 0
Fault == {"NONE", "TMOUT", "CRASH", "ERROR", "NOINST", "NOBITS"}

ASSUME QueueAssumption ==
  /\ NumSeeds \in Nat \ {0}
  /\ MapSize \in Nat \ {0}
  /\ Factors \subseteq Nat
  /\ GiveUpFaults \subseteq {"TMOUT", "CRASH"}
  /\ CalChances \in Nat \ {0}
  /\ SmallQueue \in Nat
  /\ MaxQueue \in Nat

VARIABLES
  pc,                 \* where main and fuzz_one are: see TypeOK
  queue,              \* the queue entries, oldest first
  top_rated,          \* per byte: the seed that reaches it best
  score_changed,
  queued_favored,
  pending_favored,
  pending_not_fuzzed,
  virgin,             \* bytes of virgin_bits not reached yet
  queue_cur           \* the seed being fuzzed

counters == <<queued_favored, pending_favored, pending_not_fuzzed>>
vars == <<pc, queue, top_rated, score_changed, counters, virgin, queue_cur>>

Seeds == DOMAIN queue
NoMini == {}

(* add_to_queue: a new entry is at the end, with every field zero.          *)
NewEntry ==
  [cal_failed |-> 0, was_fuzzed |-> FALSE,
   favored |-> FALSE, fs_redundant |-> FALSE,
   tc_ref |-> 0, trace_mini |-> NoMini, fav_factor |-> 0]

(* The queue with one entry replaced                                        *)
With(entries, q, entry) == [e \in DOMAIN entries |-> IF e = q THEN entry ELSE entries[e]]

---------------------------------------------------------------------------
(* update_bitmap_score: q takes the bytes of its trace that nobody holds or *)
(* whose holder is not better.                                              *)
\* mutant: the comparison the wrong way round
WinsWorse(q, factor, trace) ==
  {i \in trace : top_rated[i] = NULL \/ factor >= queue[top_rated[i]].fav_factor}

Wins(q, factor, trace) ==
  {i \in trace : top_rated[i] = NULL \/ factor <= queue[top_rated[i]].fav_factor}

Holds(e, won) == {i \in won : top_rated[i] = e}

(* A holder loses its references, and its trace with the last of them.      *)
\* mutant: the trace goes with the first reference
ReleasedEarly(e, won) ==
  LET lost == Cardinality(Holds(e, won))
  IN  [queue[e] EXCEPT !.tc_ref = @ - lost,
                       !.trace_mini = IF lost > 0 THEN NoMini ELSE @]

Released(e, won) ==
  LET lost == Cardinality(Holds(e, won))
  IN  [queue[e] EXCEPT !.tc_ref = @ - lost,
                       !.trace_mini = IF lost > 0 /\ queue[e].tc_ref = lost
                                      THEN NoMini ELSE @]

Scored(q, factor, trace, won) ==
  [queue[q] EXCEPT !.cal_failed = 0, !.fav_factor = factor,
                   !.tc_ref = @ + Cardinality(won),
                   !.trace_mini = IF won # {} THEN trace ELSE @]

(* calibrate_case, as the run of q ends.  A run without a fault takes the   *)
(* entry through; one that is refused, times out, crashes or touches none   *)
(* of the instrumentation counts as a failed calibration.                   *)
\* mutant: the failure is not counted
CalibrateFailsUncounted(q) ==
  UNCHANGED <<queue, top_rated, score_changed, virgin>>

CalibrateFails(q) ==
  /\ queue' = With(queue, q, [queue[q] EXCEPT !.cal_failed = @ + 1])
  /\ UNCHANGED <<top_rated, score_changed, virgin>>

CalibrateEnds(q, factor, trace) ==
  LET won == Wins(q, factor, trace)
  IN  /\ queue' = [e \in Seeds |-> IF e = q THEN Scored(q, factor, trace, won)
                                            ELSE Released(e, won)]
      /\ top_rated' = [i \in Bytes |-> IF i \in won THEN q ELSE top_rated[i]]
      /\ score_changed' = (score_changed \/ won # {})
      /\ virgin' = virgin \ trace

(* A seed is calibrated with success once, and the answer is NOBITS when it *)
(* reached nothing new.                                                     *)
CalibrateResult(trace) == IF trace \cap virgin = {} THEN "NOBITS" ELSE "NONE"

(* cull_queue: bytes are visited in order, and the holder of a byte that no *)
(* seed picked so far reaches is picked.                                    *)
Covers(picked) == UNION {queue[top_rated[i]].trace_mini : i \in picked}

\* mutant: the bytes of a picked seed are not taken off the list
PickedEveryHolder == {n \in Bytes : top_rated[n] # NULL}

Visit(picked, n) ==
  IF top_rated[n] # NULL /\ n \notin Covers(picked) THEN picked \cup {n} ELSE picked

PickedUpTo[n \in 0..MapSize] == IF n = 0 THEN {} ELSE Visit(PickedUpTo[n - 1], n)

Picked == PickedUpTo[MapSize]

Favored == {top_rated[i] : i \in Picked}

Pending(q) == ~queue[q].was_fuzzed

CullQueue ==
  IF score_changed
  THEN /\ score_changed' = FALSE
       /\ queued_favored' = Cardinality(Picked)
       /\ pending_favored' = Cardinality({i \in Picked : Pending(top_rated[i])})
       /\ queue' = [e \in Seeds |-> [queue[e] EXCEPT !.favored = (e \in Favored),
                                                     !.fs_redundant = (e \notin Favored)]]
  ELSE UNCHANGED <<score_changed, queued_favored, pending_favored, queue>>

---------------------------------------------------------------------------
Init ==
  /\ pc = "dry"
  /\ queue = [e \in 1..NumSeeds |-> NewEntry]
  /\ top_rated = [i \in Bytes |-> NULL]
  /\ score_changed = FALSE
  /\ queued_favored = 0 /\ pending_favored = 0 /\ pending_not_fuzzed = NumSeeds
  /\ virgin = Bytes
  /\ queue_cur = 1

(* perform_dry_run walks the queue; queue_cur stands for its q.             *)
DryRunNext ==
  IF queue_cur < Len(queue)
  THEN pc' = "dry" /\ queue_cur' = queue_cur + 1
  ELSE pc' = "start" /\ queue_cur' = NULL

DryRunCalibrates ==
  /\ pc = "dry"
  /\ \E factor \in Factors, trace \in (SUBSET Bytes) \ {{}} :
       CalibrateEnds(queue_cur, factor, trace)
  /\ DryRunNext
  /\ UNCHANGED <<counters>>

(* A fault; the tolerated ones write the seed off.                          *)
DryRunFails ==
  /\ pc = "dry"
  /\ \E res \in Fault \ {"NONE", "NOBITS"} :
       queue' = With(queue, queue_cur, [queue[queue_cur] EXCEPT !.cal_failed =
                       IF res \in GiveUpFaults THEN CalChances ELSE @ + 1])
  /\ DryRunNext
  /\ UNCHANGED <<top_rated, score_changed, virgin, counters>>

(* A seed the parser refuses is not calibrated; res is then uninitialized,  *)
(* and may hold a fault that writes the seed off.                           *)
DryRunUnparsed ==
  /\ pc = "dry"
  /\ \E res \in Fault :
       queue' = With(queue, queue_cur, [queue[queue_cur] EXCEPT !.cal_failed =
                       IF res \in GiveUpFaults THEN CalChances ELSE @])
  /\ DryRunNext
  /\ UNCHANGED <<top_rated, score_changed, virgin, counters>>

(* The first cycle starts at the first seed, or where the session that is   *)
(* resumed had got to (find_start_position).                                *)
StartFuzzing ==
  /\ pc = "start"
  /\ CullQueue
  /\ pc' = "fuzz"
  /\ queue_cur' \in 1..NumSeeds
  /\ UNCHANGED <<top_rated, pending_not_fuzzed, virgin>>

(* The head of the main loop: cull, and start over past the queue's end.    *)
LoopHead ==
  /\ pc = "loop"
  /\ CullQueue
  /\ pc' = "fuzz"
  /\ queue_cur' = IF queue_cur = NULL THEN 1 ELSE queue_cur
  /\ UNCHANGED <<top_rated, pending_not_fuzzed, virgin>>

(* queue_cur->next                                                          *)
Advance == queue_cur' = IF queue_cur < Len(queue) THEN queue_cur + 1 ELSE NULL

MayBeSkipped ==
  IF pending_favored > 0
  THEN queue[queue_cur].was_fuzzed \/ ~queue[queue_cur].favored
  ELSE ~queue[queue_cur].favored /\ Len(queue) > SmallQueue

SkipSeed ==
  /\ pc = "fuzz" /\ MayBeSkipped
  /\ pc' = "loop" /\ Advance
  /\ UNCHANGED <<queue, top_rated, score_changed, counters, virgin>>

\* mutant: was_fuzzed is not looked at
FirstTimeEver(cur) == cur.cal_failed = 0

FirstTime(cur) == cur.cal_failed = 0 /\ ~cur.was_fuzzed

(* abandon_entry: the first time a seed that is through its calibration     *)
(* gets here it counts as fuzzed.                                           *)
Abandon(entries) ==
  LET cur   == entries[queue_cur]
      first == FirstTime(cur)
  IN  /\ queue' = IF first THEN With(entries, queue_cur, [cur EXCEPT !.was_fuzzed = TRUE])
                           ELSE entries
      /\ pending_not_fuzzed' = IF first THEN pending_not_fuzzed - 1 ELSE pending_not_fuzzed
      /\ pending_favored' = IF first /\ cur.favored THEN pending_favored - 1
                                                    ELSE pending_favored
      /\ UNCHANGED queued_favored

(* fuzz_one goes on to mutate a seed whose calibration has not failed.      *)
EnterSeed ==
  /\ pc = "fuzz" /\ queue[queue_cur].cal_failed = 0
  /\ pc' = "parse"
  /\ UNCHANGED <<queue, top_rated, score_changed, counters, virgin, queue_cur>>

(* Another attempt to calibrate, while the seed has chances left: fuzz_one  *)
(* goes on only if it is told NONE.                                         *)
RecalibrateSeed ==
  /\ pc = "fuzz" /\ queue[queue_cur].cal_failed \in 1..(CalChances - 1)
  /\ \E factor \in Factors, trace \in (SUBSET Bytes) \ {{}} :
       /\ CalibrateResult(trace) = "NONE"
       /\ CalibrateEnds(queue_cur, factor, trace)
  /\ pc' = "parse"
  /\ UNCHANGED <<counters, queue_cur>>

(* NOBITS ends the visit; the calibration itself did not fail.              *)
RecalibrateNoBits ==
  /\ pc = "fuzz" /\ queue[queue_cur].cal_failed \in 1..(CalChances - 1)
  /\ \E factor \in Factors, trace \in (SUBSET Bytes) \ {{}} :
       LET won == Wins(queue_cur, factor, trace)
       IN  /\ CalibrateResult(trace) = "NOBITS"
           /\ Abandon([e \in Seeds |-> IF e = queue_cur
                                       THEN Scored(queue_cur, factor, trace, won)
                                       ELSE Released(e, won)])
           /\ top_rated' = [i \in Bytes |-> IF i \in won THEN queue_cur ELSE top_rated[i]]
           /\ score_changed' = (score_changed \/ won # {})
  /\ pc' = "loop" /\ Advance
  /\ UNCHANGED <<virgin>>

RecalibrateFails ==
  /\ pc = "fuzz" /\ queue[queue_cur].cal_failed \in 1..(CalChances - 1)
  /\ CalibrateFails(queue_cur)
  /\ pc' = "loop" /\ Advance
  /\ UNCHANGED <<counters>>

(* A seed without chances left is passed over.                              *)
GiveUpSeed ==
  /\ pc = "fuzz" /\ queue[queue_cur].cal_failed >= CalChances
  /\ pc' = "loop" /\ Advance
  /\ UNCHANGED <<queue, top_rated, score_changed, counters, virgin>>

ParseSeed ==
  /\ pc = "parse"
  /\ pc' = "mutate"
  /\ UNCHANGED <<queue, top_rated, score_changed, counters, virgin, queue_cur>>

(* A seed the parser refuses, or that has no mutation, is done at once.     *)
NothingToMutate ==
  /\ pc = "parse"
  /\ Abandon(queue)
  /\ pc' = "loop" /\ Advance
  /\ UNCHANGED <<top_rated, score_changed, virgin>>

(* common_fuzz_stuff and save_if_interesting on one mutation: an input that *)
(* reaches new code is queued, unless its text is unparsable or its shape   *)
(* known; the new code counts as reached all the same.  Its calibration is  *)
(* commented out.                                                           *)
Queued == [e \in 1..(Len(queue) + 1) |-> IF e \in Seeds THEN queue[e] ELSE NewEntry]

SaveIfInteresting ==
  /\ Len(queue) < MaxQueue
  /\ \E trace \in SUBSET Bytes :
       /\ trace \cap virgin # {}
       /\ virgin' = virgin \ trace
  /\ \/ /\ queue' = Queued
        /\ pending_not_fuzzed' = pending_not_fuzzed + 1
     \/ UNCHANGED <<queue, pending_not_fuzzed>>
  /\ UNCHANGED <<pc, top_rated, score_changed, queued_favored, pending_favored, queue_cur>>

ExecuteMutation ==
  /\ pc = "mutate"
  /\ SaveIfInteresting

(* The mutations are used up.                                               *)
FinishSeed ==
  /\ pc = "mutate"
  /\ Abandon(queue)
  /\ pc' = "sync"
  /\ UNCHANGED <<top_rated, score_changed, virgin, queue_cur>>

(* sync_fuzzers imports from other fuzzers by the same door.                *)
SyncFuzzers ==
  /\ pc = "sync"
  /\ SaveIfInteresting

NextSeed ==
  /\ pc = "sync"
  /\ pc' = "loop" /\ Advance
  /\ UNCHANGED <<queue, top_rated, score_changed, counters, virgin>>

(* stop_soon: whatever is going on ends without bookkeeping.                *)
Stop ==
  /\ pc # "stopped"
  /\ pc' = "stopped"
  /\ UNCHANGED <<queue, top_rated, score_changed, counters, virgin, queue_cur>>

VisitSeed ==
  EnterSeed \/ RecalibrateSeed \/ RecalibrateNoBits \/ RecalibrateFails \/ GiveUpSeed

Step ==
  \/ DryRunCalibrates \/ DryRunFails \/ DryRunUnparsed
  \/ StartFuzzing \/ LoopHead \/ VisitSeed
  \/ ParseSeed \/ NothingToMutate \/ FinishSeed \/ NextSeed

Next == Step \/ SkipSeed \/ ExecuteMutation \/ SyncFuzzers \/ Stop

Spec == Init /\ [][Next]_vars

(* The fuzzer keeps taking steps, and the dice of fuzz_one, thrown at every  *)
(* visit, do not skip a seed for ever.                                      *)
Fairness ==
  /\ WF_vars(Step)
  /\ \A e \in 1..MaxQueue : SF_vars(queue_cur = e /\ VisitSeed)

FairSpec == Spec /\ Fairness

---------------------------------------------------------------------------
(* Properties.                                                              *)

Entry ==
  [cal_failed : 0..CalChances, was_fuzzed : BOOLEAN, favored : BOOLEAN,
   fs_redundant : BOOLEAN, tc_ref : 0..MapSize, trace_mini : SUBSET Bytes,
   fav_factor : Factors \cup {0}]

(* Type invariant; the counters stay in the range of their unsigned type.   *)
TypeOK ==
  /\ pc \in {"dry", "start", "loop", "fuzz", "parse", "mutate", "sync", "stopped"}
  /\ queue \in Seq(Entry) /\ Len(queue) >= NumSeeds
  /\ top_rated \in [Bytes -> Seeds \cup {NULL}]
  /\ score_changed \in BOOLEAN
  /\ queued_favored \in 0..Len(queue)
  /\ pending_favored \in 0..Len(queue)
  /\ pending_not_fuzzed \in 0..Len(queue)
  /\ virgin \subseteq Bytes
  /\ queue_cur \in Seeds \cup {NULL}
  /\ queue_cur = NULL => pc \in {"start", "loop", "stopped"}

HeldBy(e) == {i \in Bytes : top_rated[i] = e}

(* tc_ref counts the slots a seed holds, its trace is kept exactly while it *)
(* holds one, and covers them all: cull_queue never follows a slot to a     *)
(* trace that was freed.                                                    *)
RefCounts ==
  \A e \in Seeds :
    /\ queue[e].tc_ref = Cardinality(HeldBy(e))
    /\ (queue[e].trace_mini # NoMini) <=> HeldBy(e) # {}
    /\ HeldBy(e) \subseteq queue[e].trace_mini

FavoredSeeds == {e \in Seeds : queue[e].favored}

(* After culling the favored seeds reach every byte anybody holds, none of  *)
(* them is marked redundant on disk, and none was counted twice.            *)
FavoredCover ==
  ~score_changed =>
    /\ \A i \in Bytes : top_rated[i] # NULL =>
         \E e \in FavoredSeeds : i \in queue[e].trace_mini
    /\ queued_favored = Cardinality(FavoredSeeds)
    /\ \A e \in FavoredSeeds : ~queue[e].fs_redundant

(* The pending counters, which decide what is skipped and when the run is   *)
(* over, count what they are named for in every state.                      *)
PendingCounts ==
  /\ pending_favored = Cardinality({e \in FavoredSeeds : Pending(e)})
  /\ pending_not_fuzzed = Cardinality({e \in Seeds : Pending(e)})

(* A slot of top_rated is never vacated, and changes hands only to a seed   *)
(* that is no slower and no longer.                                         *)
SlotsOnlyImprove ==
  [][ \A i \in Bytes : top_rated[i] # NULL =>
        /\ top_rated'[i] # NULL
        /\ queue'[top_rated'[i]].fav_factor <= queue[top_rated[i]].fav_factor ]_vars

Settled(e) ==
  /\ e \in Seeds
  /\ queue[e].was_fuzzed \/ queue[e].cal_failed >= CalChances

(* Every seed in the queue is fuzzed or given up as long as the fuzzer is   *)
(* not stopped: skipping for favored seeds starves none.                    *)
NoStarvation ==
  \A e \in 1..MaxQueue : e \in Seeds ~> pc = "stopped" \/ Settled(e)

(* afl-fuzz.cpp:1388: "The purpose of the "favorables" is to have a minimal *)
(* set of paths that trigger all the bits seen in the bitmap so far".       *)
FavorablesTriggerAllSeen ==
  pc = "fuzz" => \A i \in Bytes \ virgin :
                   \E e \in FavoredSeeds : i \in queue[e].trace_mini
=============================================================================
