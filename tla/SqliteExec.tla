----------------------------- MODULE SqliteExec -----------------------------
(***************************************************************************)
(* The execution pipeline of the SQLite fuzzer (afl-fuzz.cpp): an input is *)
(* one run of sqlite3, or for some oracles a run per variant, whose        *)
(* standard output all goes to ONE file shared with the fork server.  The  *)
(* fuzzer reads that file back and empties it after a run, cuts the        *)
(* results of the oracle's selects out between BEGIN and END marks, and    *)
(* compares them; a disagreement is a bug report.  Timeouts, skip requests *)
(* (SIGUSR1) and stop signals cut an input short.                          *)
(* A line of output is a record: the input and the run that wrote it, and  *)
(* its text.                                                               *)
(***************************************************************************)
EXTENDS FuzzerOracles, BisectOracles

CONSTANTS
  Inputs,      \* for each oracle its inputs: the runs an input is made of, a
               \* run being the lines it prints, and the types the oracle
               \* finds its selects to have
  TmoutLimit,  \* TMOUT_LIMIT
  MaxInputs,   \* bound: inputs executed in one behaviour
  MaxSkips,    \* bound: skip requests in one behaviour
  CanStop      \* whether a stop signal may arrive

Line == [input : Nat, run : Nat, text : Text]

ASSUME ExecAssumption ==
  /\ Inputs \in [Oracles -> SUBSET [runs : Seq(Seq(Text)) \ {<<>>}, types : Seq(SelectType)]]
  /\ \A o \in Oracles : \A in \in Inputs[o] : Len(in.runs) = MulRunNum(o)
  /\ TmoutLimit \in Nat
  /\ MaxInputs \in Nat
  /\ MaxSkips \in Nat
  /\ CanStop \in BOOLEAN

VARIABLES
  oracle,        \* p_oracle, the same for the whole session
  caller,        \* what the fuzzer executes inputs for
  pc,            \* where execute_cmd_string is: see TypeOK
  id,            \* number of the input being executed
  input,         \* cmd_string_vec
  types,         \* v_valid_type: what the selects in it are taken for
  output,        \* the lines in the file behind program_output_fd
  results,       \* res_str, or v_res_str: what was read, per finished run
  fault,         \* what the last run_target returned
  verdict,       \* all_comp_res.final_res
  subseq_tmouts, \* timeouts in a row
  skip_requested,
  stop_soon,
  skips,         \* bound: skip requests so far
  faults,        \* history: what each run of this input ended in
  abandoned,     \* history: inputs that returned with their output unread
  recent         \* history: what the last runs on this seed ended in

signals == <<skip_requested, stop_soon, skips>>
history == <<faults, abandoned, recent>>
vars == <<oracle, caller, pc, id, input, types, output, results, fault, verdict, subseq_tmouts,
          signals, history>>

---------------------------------------------------------------------------
(* A select of the oracle in the SQL text of a run (ir_to_string): its rows *)
(* come out between two marks that name the validation statement.           *)
Marked(v, rows) == <<Begin(v)>> \o rows \o <<End(v)>>

(* What sqlite3 prints for a run, with nothing cut short.                   *)
Printed(n, r, run) ==
  [k \in DOMAIN run |-> [input |-> n, run |-> r, text |-> run[k]]]

(* extract_query_result: the k-th BEGIN is paired with the k-th END; a      *)
(* BEGIN left without an END is ignored.                                    *)
Marks(out, text) == {p \in DOMAIN out : out[p].text = text}
Times(out, text) == Cardinality(Marks(out, text))

At(out, text, k) ==
  CHOOSE p \in Marks(out, text) : Cardinality({j \in Marks(out, text) : j <= p}) = k

Between(out, from, to) ==
  [k \in 1..(to - from - 1) |-> out[from + k].text]

\* mutant: a BEGIN without its END takes all the output that is left
ExtractOpen(out, v) ==
  LET To(k) == IF k <= Times(out, End(v)) THEN At(out, End(v), k) ELSE Len(out) + 1
  IN  [k \in 1..Times(out, Begin(v)) |-> Between(out, At(out, Begin(v), k), To(k))]

Pairs(out, v) ==
  LET begins == Times(out, Begin(v))
      ends   == Times(out, End(v))
  IN  1..(IF begins <= ends THEN begins ELSE ends)

Extract(out, v) ==
  [k \in Pairs(out, v) |->
     LET res == Between(out, At(out, Begin(v), k), At(out, End(v), k))
     IN  IF HasError(res) THEN <<Error>> ELSE res]

Statements(out) == [v \in 1..3 |-> Extract(out, v - 1)]
FirstStatement(outs) == [r \in DOMAIN outs |-> Extract(outs[r], 0)]

(* SQL_ROWID gives up an input that ran into a constraint of its own making.*)
Constrained(outs) == \E r \in DOMAIN outs : \E k \in DOMAIN outs[r] : outs[r][k].text = Constraint

(* compare_query_result and compare_query_results_cross_run; an oracle that *)
(* compares runs has nothing to say of a seed, which is run once.           *)
Compare(tys, outs) ==
  CASE oracle = "NOREC"  -> NorecVerdicts(Statements(outs[1]))
    [] oracle = "TLP"    -> TlpVerdicts(tys, Statements(outs[1]))
    [] oracle = "LIKELY" -> LikelyVerdicts(tys, Statements(outs[1]))
    [] MulRunNum(oracle) > 1 ->
         IF Len(outs) = 1 \/ (oracle = "ROWID" /\ Constrained(outs)) THEN {"ALL_Error"}
         ELSE IF oracle = "OPT" THEN OptVerdicts(FirstStatement(outs))
         ELSE CountedVerdicts(tys, FirstStatement(outs))

---------------------------------------------------------------------------
Init ==
  /\ oracle \in Oracles
  /\ caller = "perform_dry_run"
  /\ pc = "idle" /\ id = 0 /\ input = <<>> /\ types = <<>>
  /\ output = <<>> /\ results = <<>>
  /\ fault = "NONE" /\ verdict = "ALL_Error"
  /\ subseq_tmouts = 0
  /\ skip_requested = FALSE /\ stop_soon = FALSE /\ skips = 0
  /\ faults = <<>> /\ abandoned = {} /\ recent = <<>>

(* fuzz_one takes another seed from the queue.                              *)
NewSeed ==
  /\ pc = "idle" /\ ~stop_soon
  /\ caller' = "fuzz_one"
  /\ subseq_tmouts' = 0
  /\ recent' = <<>>
  /\ UNCHANGED <<oracle, pc, id, input, types, output, results, fault, verdict, signals,
                 faults, abandoned>>

(* Entry of execute_cmd_string.  Inputs refused for a banned word return    *)
(* before anything changes and are left out.                                *)
Enter(in) ==
  /\ pc = "idle" /\ ~stop_soon /\ id < MaxInputs
  /\ pc' = "run" /\ id' = id + 1
  /\ input' = in.runs /\ types' = in.types
  /\ results' = <<>> /\ faults' = <<>>
  /\ verdict' = "ALL_Error"
  /\ UNCHANGED <<oracle, output, fault, subseq_tmouts, signals, abandoned, recent>>

(* common_fuzz_stuff: a mutated query with the oracle's selects.  A seed    *)
(* that had to be calibrated is mutated only if that ended without a fault. *)
SubmitInput ==
  /\ caller \in {"fuzz_one", "calibrate_case", "common_fuzz_stuff"}
  /\ caller = "calibrate_case" => fault = "NONE"
  /\ caller' = "common_fuzz_stuff"
  /\ \E in \in Inputs[oracle] : Enter(in)

(* calibrate_case: a seed as it is, which carries no marks; in the dry run  *)
(* one after the other, in fuzz_one the seed taken.                         *)
Seed == [runs |-> << <<>> >>, types |-> <<>>]

Calibrate ==
  /\ caller \in {"perform_dry_run", "fuzz_one"}
  /\ caller' = IF caller = "fuzz_one" THEN "calibrate_case" ELSE caller
  /\ Enter(Seed)

(* run_target: the run's output is appended to what the file holds, all of  *)
(* it or a prefix when sqlite3 is killed by the timer or crashes.  The stop *)
(* signal kills it and the fork server, and no fault is returned then.      *)
RunOutcome(full) ==
  LET some == {SubSeq(full, 1, n) : n \in 0..Len(full)}
  IN  IF stop_soon THEN [fault : {"NONE"}, printed : some]
      ELSE {[fault |-> "NONE", printed |-> full]} \cup [fault : {"TMOUT", "CRASH"}, printed : some]

Due == Len(results) + 1   \* the run that is due

(* The history of a seed's runs goes back to as many as exhaust it.         *)
Window == TmoutLimit + 2

Remember(outcomes, f) ==
  Append(IF Len(outcomes) < Window THEN outcomes ELSE Tail(outcomes), f)

RunTarget ==
  /\ pc = "run"
  /\ \E o \in RunOutcome(Printed(id, Due, input[Due])) :
       /\ output' = output \o o.printed
       /\ fault' = o.fault
       /\ faults' = Append(faults, o.fault)
       /\ recent' = Remember(recent, o.fault)
  /\ pc' = "ran"
  /\ UNCHANGED <<oracle, caller, id, input, types, results, verdict, subseq_tmouts, signals,
                 abandoned>>

Exhausted == fault = "TMOUT" /\ subseq_tmouts > TmoutLimit

\* mutant: timeouts are counted on over runs that end
SubseqEver == IF fault = "TMOUT" THEN subseq_tmouts + 1 ELSE subseq_tmouts

Subseq == IF fault = "TMOUT" THEN subseq_tmouts + 1 ELSE 0

Abandon ==
  /\ abandoned' = abandoned \cup {id}
  /\ pc' = "returned"
  /\ UNCHANGED <<oracle, caller, id, input, types, output, results, fault, verdict, faults,
                 recent, stop_soon, skips>>

(* A stop signal: return to main, which leaves its loop.                    *)
StopReturn ==
  /\ pc = "ran" /\ stop_soon
  /\ UNCHANGED <<subseq_tmouts, skip_requested>>
  /\ Abandon

(* Too many timeouts in a row: return without looking at the output.        *)
TimeoutReturn ==
  /\ pc = "ran" /\ ~stop_soon /\ Exhausted
  /\ subseq_tmouts' = Subseq
  /\ UNCHANGED skip_requested
  /\ Abandon

(* A skip request: return without looking at the output.                    *)
SkipReturn ==
  /\ pc = "ran" /\ ~stop_soon /\ ~Exhausted
  /\ skip_requested
  /\ subseq_tmouts' = Subseq
  /\ skip_requested' = FALSE
  /\ Abandon

\* mutant: the file is rewound and read, and left as it is
AfterReadKept(out) == out

(* read_sqlite_output_and_reset_output_file, after every run.               *)
AfterRead(out) == <<>>

NextAfterRead == IF Len(results) + 1 < Len(input) THEN "run" ELSE "compare"

ReadOutput ==
  /\ pc = "ran" /\ ~stop_soon /\ ~Exhausted /\ ~skip_requested
  /\ subseq_tmouts' = Subseq
  /\ results' = Append(results, output)
  /\ output' = AfterRead(output)
  /\ pc' = NextAfterRead
  /\ UNCHANGED <<oracle, caller, id, input, types, fault, verdict, signals, history>>

(* compare_query_result or compare_query_results_cross_run, and the report. *)
CompareResults ==
  /\ pc = "compare"
  /\ verdict' \in Compare(types, results)
  /\ pc' = "returned"
  /\ UNCHANGED <<oracle, caller, id, input, types, output, results, fault, subseq_tmouts,
                 signals, history>>

(* Back to the caller: calibrate_case hands the fault on, common_fuzz_stuff *)
(* drops an input without verdict and fault, and hands on the others to     *)
(* save_if_interesting; neither touches what is modelled here.              *)
Return ==
  /\ pc = "returned"
  /\ pc' = "idle"
  /\ UNCHANGED <<oracle, caller, id, input, types, output, results, fault, verdict,
                 subseq_tmouts, signals, history>>

(* save_if_interesting runs a timeout that reached new code once more, with *)
(* hang_tmout, and empties the output file.                                 *)
RerunHang ==
  /\ pc = "returned" /\ caller = "common_fuzz_stuff" /\ fault = "TMOUT"
  /\ pc' = "idle"
  /\ output' = AfterRead(output)
  /\ UNCHANGED <<oracle, caller, id, input, types, results, fault, verdict, subseq_tmouts,
                 signals, history>>

(* sync_fuzzers runs another fuzzer's test case between two seeds; it       *)
(* empties the output file and looks at nothing in it.                      *)
SyncImport ==
  /\ pc = "idle" /\ ~stop_soon
  /\ caller' = "sync_fuzzers"
  /\ output' = AfterRead(output)
  /\ UNCHANGED <<oracle, pc, id, input, types, results, fault, verdict, subseq_tmouts,
                 signals, history>>

(* SIGUSR1 and the stop signals may arrive at any time.                     *)
HandleSkipreq ==
  /\ skips < MaxSkips
  /\ skip_requested' = TRUE
  /\ skips' = skips + 1
  /\ UNCHANGED <<oracle, caller, pc, id, input, types, output, results, fault, verdict,
                 subseq_tmouts, stop_soon, history>>

HandleStopSig ==
  /\ CanStop /\ ~stop_soon
  /\ stop_soon' = TRUE
  /\ UNCHANGED <<oracle, caller, pc, id, input, types, output, results, fault, verdict,
                 subseq_tmouts, skip_requested, skips, history>>

Next ==
  \/ NewSeed \/ SubmitInput \/ Calibrate
  \/ RunTarget \/ StopReturn \/ TimeoutReturn \/ SkipReturn \/ ReadOutput
  \/ CompareResults \/ Return \/ RerunHang \/ SyncImport
  \/ HandleSkipreq \/ HandleStopSig

Spec == Init /\ [][Next]_vars

---------------------------------------------------------------------------
(* Properties.                                                              *)

(* Type invariant; the output is read once per run, in order.               *)
TypeOK ==
  /\ oracle \in Oracles
  /\ caller \in {"perform_dry_run", "fuzz_one", "calibrate_case", "common_fuzz_stuff",
                "sync_fuzzers"}
  /\ pc \in {"idle", "run", "ran", "compare", "returned"}
  /\ id \in 0..MaxInputs
  /\ \/ [runs |-> input, types |-> types] \in Inputs[oracle] \cup {Seed}
     \/ id = 0 /\ input = <<>> /\ types = <<>>
  /\ output \in Seq(Line)
  /\ results \in Seq(Seq(Line))
  /\ fault \in {"NONE", "TMOUT", "CRASH"}
  /\ verdict \in {"Pass", "Fail", "ALL_Error"}
  /\ subseq_tmouts \in Nat
  /\ skip_requested \in BOOLEAN
  /\ stop_soon \in BOOLEAN
  /\ skips \in 0..MaxSkips
  /\ faults \in Seq({"NONE", "TMOUT", "CRASH"})
  /\ abandoned \subseteq 1..MaxInputs
  /\ recent \in Seq({"NONE", "TMOUT", "CRASH"}) /\ Len(recent) <= Window

(* Lines in the file, or in what was read of it, that an earlier input left *)
ForeignIn(out) == {k \in DOMAIN out : out[k].input # id}

(* What was read of a run holds a line of another input only if that input  *)
(* was abandoned with its output unread; so does the file itself.  This is  *)
(* what emptying the file after every run must keep up.                     *)
OnlyAbandonedIsForeign ==
  /\ \A k \in ForeignIn(output) : output[k].input \in abandoned
  /\ \A r \in DOMAIN results : \A k \in ForeignIn(results[r]) :
       results[r][k].input \in abandoned

(* Leftovers can spoil the first run of an input only: what was read of a   *)
(* later run was printed by that run alone.                                 *)
LaterRunsAreClean ==
  \A r \in DOMAIN results \ {1} : \A k \in DOMAIN results[r] :
    results[r][k].input = id /\ results[r][k].run = r

Clean == \A r \in DOMAIN results : ForeignIn(results[r]) = {}

(* What the comparison may say of the input when every run prints all of it. *)
Complete == [r \in DOMAIN input |-> Printed(id, r, input[r])]
Truth == Compare(types, Complete)

(* The forms of the k-th select: its results, statement by statement of the *)
(* one run, or run by run.                                                  *)
Forms(outs, k) ==
  IF MulRunNum(oracle) > 1 THEN [r \in DOMAIN outs |-> FirstStatement(outs)[r][k]]
  ELSE [v \in 1..(IF oracle = "LIKELY" THEN 3 ELSE 2) |-> Statements(outs[1])[v][k]]

(* The same rows, each as often, in whatever order; of NOREC and of         *)
(* aggregates the same number, of which TOTAL prints one as a real.         *)
Occurs(x, res) == Cardinality({k \in DOMAIN res : res[k] = x})

SameRows(a, b) ==
  \A x \in RowsAt(a, DOMAIN a) \cup RowsAt(b, DOMAIN b) : Occurs(x, a) = Occurs(x, b)

ByNumber(k) == oracle = "NOREC" \/ (oracle = "TLP" /\ types[k] \in Aggregate)

SameNumbers(a, b) == HasNumber(a) /\ HasNumber(b) => Number(a) = Number(b)

\* A select the oracle found no type for may be compared either way.
Untyped(k) == oracle = "LIKELY" /\ k \notin DOMAIN types

Same(a, b, k) ==
  /\ ByNumber(k) \/ Untyped(k) => SameNumbers(a, b)
  /\ ~ByNumber(k) => SameRows(a, b)

Differs(k) == \E i, j \in DOMAIN Forms(Complete, k) :
                ~Same(Forms(Complete, k)[i], Forms(Complete, k)[j], k)

(* SQL_INDEX and SQL_ROWID never write the outcome of such a select.        *)
NeverWritten(k) == oracle \in {"INDEX", "ROWID"} /\ types[k] = "VALUES"

ReadClean == pc = "returned" /\ Len(results) = Len(input) /\ Clean
Settled   == ReadClean /\ \A r \in DOMAIN faults : faults[r] = "NONE"

(* What is not compared when all is printed: an input of ROWID that runs    *)
(* into a constraint, one of TLP whose results and types differ in number.  *)
(* Cut short before that shows, it is compared.                             *)
SetAside == \/ oracle = "ROWID" /\ Constrained(Complete)
            \/ oracle = "TLP" /\ Compared(Statements(Complete[1])) # DOMAIN types

(* An input read without leftovers is judged right.  A run cut short by the *)
(* timer or a crash is never a bug report by itself: what is reported is a  *)
(* select whose forms differ when all is printed, one that the same oracle  *)
(* reports then if it compares the input at all; and when all runs end well *)
(* the verdict is theirs.                                                   *)
CleanVerdictIsRight ==
  /\ ReadClean /\ verdict = "Fail" =>
       /\ "Fail" \in Truth \/ SetAside
       /\ \E k \in DOMAIN Extract(Complete[1], 0) : Differs(k) \/ NeverWritten(k)
  /\ Settled => verdict \in Truth

(* Where the bisecting tool compares otherwise: it knows three of the six   *)
(* oracles; wants one row for NOREC, an integer on the left, and takes -1   *)
(* for an error; skips rows of several NULLs; and of aggregates wants       *)
(* integers, adds up or picks from several rows, ignores averages, maxima   *)
(* below 0 and minima above MaxSize.                                        *)
OutOfToolsReach(type, rs) ==
  LET rows   == UNION {RowsAt(rs[v], DOMAIN rs[v]) : v \in DOMAIN rs}
      oneRow == \A v \in DOMAIN rs : Len(rs[v]) = 1
  IN  \/ oracle \notin {"NOREC", "TLP", "OPT"}
      \/ oracle = "NOREC" /\ \/ ~oneRow
                             \/ rs[1][1].kind # "row"
                             \/ \E row \in rows : row.n = -1
      \/ oracle = "TLP" /\ type \notin Aggregate /\ \E row \in rows : row.kind = "bars"
      \/ oracle = "TLP" /\ type \in Aggregate /\
           \/ ~oneRow \/ type = "AVG"
           \/ \E row \in rows : \/ row.kind # "row"
                                \/ type = "MAX" /\ row.n < 0
                                \/ type = "MIN" /\ row.n > MaxSize

(* A report of one select is one the bisecting tool can reproduce: run on   *)
(* the version that was fuzzed, it sees the same disagreement.              *)
FailReproduces ==
  Settled /\ verdict = "Fail" /\ Len(types) = 1 /\ Len(Extract(results[1], 0)) = 1 =>
    LET rs == Forms(results, 1)
    IN  OutOfToolsReach(types[1], rs) \/ ToolVerdict(oracle, types[1], rs) = "FAIL"

(* With no signal pending, a run is given up unread exactly when it and the *)
(* TmoutLimit + 1 runs before it on the same seed all timed out, whichever  *)
(* inputs they were runs of: neither earlier, for timeouts that were        *)
(* interrupted, nor later.                                                  *)
AllTimedOut == Len(recent) = Window /\ \A k \in DOMAIN recent : recent[k] = "TMOUT"

TimeoutsAreRationed ==
  [][ pc = "ran" /\ pc' # "ran" /\ ~stop_soon /\ ~skip_requested
        => (pc' = "returned" <=> AllTimedOut) ]_vars

(* DEVELOPMENT.md:33: "comparing the `SELECT` results with/without           *)
(* `LIKELY/UNLIKLY` hints, we can find `LIKELY` related optimization bugs":  *)
(* a row that a hint loses, with no error and nothing cut short, is          *)
(* reported.                                                                *)
LostRowsAreReported ==
  Settled /\ oracle = "LIKELY" /\ Len(types) = 1 /\ Differs(1)
    /\ (\A v \in DOMAIN Forms(Complete, 1) : ~HasError(Forms(Complete, 1)[v]))
  => verdict = "Fail"

(* afl-fuzz.cpp:3014: "Compare results between different validation stmts   *)
(* in a single run."                                                        *)
ReportsCompareOneRun ==
  verdict = "Fail" /\ Len(input) = 1 => Clean
=============================================================================
