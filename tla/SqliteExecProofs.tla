-------------------------- MODULE SqliteExecProofs --------------------------
(***************************************************************************)
(* Whose output the fuzzer compares, for every set of inputs, every limit  *)
(* and any number of skips: an input reads its own lines and those of      *)
(* inputs that were abandoned with their output unread, no others.         *)
(***************************************************************************)
EXTENDS OracleProofs

(* Lines that are the current input's own or an abandoned one's.            *)
Traced(out) ==
  \A k \in DOMAIN out : out[k].input \in abandoned \cup {id}

(* Only between the end of a run and the read that follows it may the file  *)
(* hold lines of the current input; when the next input starts, whatever is *)
(* in the file must belong to abandoned ones.                               *)
OutputSettled ==
  pc # "ran" =>
    \A k \in DOMAIN output : output[k].input \in abandoned

ExecTypes ==
  /\ oracle \in Oracles
  /\ output \in Seq(Line)
  /\ results \in Seq(Seq(Line))
  /\ input \in Seq(Seq(Text))
  /\ id \in Nat
  /\ pc = "run" => Due \in DOMAIN input

IInv ==
  /\ ExecTypes
  /\ Traced(output)
  /\ \A r \in DOMAIN results : Traced(results[r])
  /\ OutputSettled

(* A line printed by a run carries the number of the input it belongs to.   *)
LEMMA PrintedLines ==
  ASSUME NEW n \in Nat, NEW r \in Nat, NEW run \in Seq(Text)
  PROVE  /\ Printed(n, r, run) \in Seq(Line)
         /\ \A k \in DOMAIN Printed(n, r, run) : Printed(n, r, run)[k].input = n
<1>1. \A k \in DOMAIN run : run[k] \in Text
  OBVIOUS
<1>2. \A k \in DOMAIN run :
        /\ [input |-> n, run |-> r, text |-> run[k]] \in Line
        /\ [input |-> n, run |-> r, text |-> run[k]].input = n
  BY <1>1 DEF Line
<1>3. DOMAIN run = 1..Len(run) /\ Len(run) \in Nat
  OBVIOUS
<1> DEFINE L(k) == [input |-> n, run |-> r, text |-> run[k]]
<1>4. /\ Printed(n, r, run) = [k \in 1..Len(run) |-> L(k)]
      /\ \A k \in 1..Len(run) : L(k) \in Line /\ L(k).input = n
  BY <1>2, <1>3 DEF Printed
<1> HIDE DEF L
<1>5. [k \in 1..Len(run) |-> L(k)] \in Seq(Line)
  BY <1>3, <1>4
<1>6. QED
  BY <1>4, <1>5

(* However a run ends, the lines it printed are a prefix of its output.     *)
LEMMA OutcomeLines ==
  ASSUME NEW n \in Nat, NEW full \in Seq(Line), NEW o \in RunOutcome(full),
         \A k \in DOMAIN full : full[k].input = n
  PROVE  /\ o.printed \in Seq(Line)
         /\ \A k \in DOMAIN o.printed : o.printed[k].input = n
<1>1. CASE o.printed = full
  BY <1>1
<1>2. CASE \E m \in 0..Len(full) : o.printed = SubSeq(full, 1, m)
  <2>1. PICK m \in 0..Len(full) : o.printed = SubSeq(full, 1, m)
    BY <1>2
  <2>2. /\ SubSeq(full, 1, m) \in Seq(Line)
        /\ DOMAIN SubSeq(full, 1, m) = 1..m
        /\ \A k \in 1..m : SubSeq(full, 1, m)[k] = full[k] /\ k \in DOMAIN full
    OBVIOUS
  <2>3. QED
    BY <2>1, <2>2
<1>3. QED
  BY <1>1, <1>2 DEF RunOutcome

(* The output file is empty at the start. *)
LEMMA InitInv == Init => IInv
BY DEF Init, IInv, ExecTypes, Traced, OutputSettled, Due

(* The only step that adds lines adds the current input's.                  *)
LEMMA RunStep ==
  ASSUME IInv, RunTarget
  PROVE  IInv'
<1>1. /\ pc = "run" /\ Due \in DOMAIN input /\ Due \in Nat
      /\ pc' = "ran" /\ UNCHANGED <<oracle, id, input, results, abandoned>>
  BY DEF RunTarget, IInv, ExecTypes, Due
<1> DEFINE full == Printed(id, Due, input[Due])
<1>2. full \in Seq(Line) /\ \A k \in DOMAIN full : full[k].input = id
  <2>1. id \in Nat /\ input[Due] \in Seq(Text)
    BY <1>1 DEF IInv, ExecTypes
  <2>2. QED
    BY <1>1, <2>1, PrintedLines
<1>3. PICK o \in RunOutcome(full) : output' = output \o o.printed
  BY DEF RunTarget
<1>4. o.printed \in Seq(Line) /\ \A k \in DOMAIN o.printed : o.printed[k].input = id
  <2> HIDE DEF full
  <2>1. QED
    BY <1>2, <1>3, OutcomeLines DEF IInv, ExecTypes
<1>5. output \in Seq(Line) /\ Traced(output)
  BY DEF IInv, ExecTypes
<1> HIDE DEF full
<1>6. output' \in Seq(Line) /\ Traced(output)'
  <2>1. output' \in Seq(Line)
    BY <1>3, <1>4, <1>5
  <2>2. ASSUME NEW k \in DOMAIN output'
        PROVE  output'[k].input \in abandoned \cup {id}
    <3>1. CASE k \in DOMAIN output
      BY <1>3, <1>4, <1>5, <3>1 DEF Traced
    <3>2. CASE k \notin DOMAIN output
      <4>1. /\ k - Len(output) \in DOMAIN o.printed
            /\ output'[k] = o.printed[k - Len(output)]
        BY <1>3, <1>4, <1>5, <3>2
      <4>2. QED
        BY <1>4, <4>1
    <3>3. QED
      BY <3>1, <3>2
  <2>3. QED
    BY <1>1, <2>1, <2>2 DEF Traced
<1>7. (\A r \in DOMAIN results : Traced(results[r]))'
  BY <1>1 DEF IInv, Traced
<1>8. QED
  BY <1>1, <1>6, <1>7 DEF IInv, ExecTypes, OutputSettled

(* Reading empties the file and keeps what was read with the run. *)
LEMMA ReadStep ==
  ASSUME IInv, ReadOutput
  PROVE  IInv'
<1>1. /\ results' = Append(results, output) /\ output' = <<>>
      /\ pc' \in {"run", "compare"}
      /\ pc' = "run" => Len(results) + 1 < Len(input)
      /\ UNCHANGED <<oracle, id, input, abandoned>>
  BY DEF ReadOutput, AfterRead, NextAfterRead, history
<1>2. results \in Seq(Seq(Line)) /\ output \in Seq(Line) /\ input \in Seq(Seq(Text))
  BY DEF IInv, ExecTypes
<1>3. /\ results' \in Seq(Seq(Line)) /\ Len(results') = Len(results) + 1
      /\ output' \in Seq(Line)
      /\ \A r \in DOMAIN results' : results'[r] = IF r \in DOMAIN results
                                                  THEN results[r] ELSE output
  BY <1>1, <1>2
<1>4. (pc = "run" => Due \in DOMAIN input)'
  BY <1>1, <1>2, <1>3 DEF Due
<1>5. (\A r \in DOMAIN results : Traced(results[r]))'
  BY <1>1, <1>3 DEF IInv, Traced
<1>6. Traced(output)' /\ OutputSettled'
  BY <1>1 DEF Traced, OutputSettled
<1>7. QED
  BY <1>1, <1>2, <1>3, <1>4, <1>5, <1>6 DEF IInv, ExecTypes

(* A new input starts with an empty list of results, and what the file      *)
(* holds was settled while the last input was still current.                *)
LEMMA EnterStep ==
  ASSUME IInv, ExecAssumption, SubmitInput \/ Calibrate
  PROVE  IInv'
<1>1. PICK in \in Inputs[oracle] \cup {Seed} : Enter(in)
  BY DEF SubmitInput, Calibrate
<1>2. in.runs \in Seq(Seq(Text)) /\ in.runs # <<>>
  <2>1. CASE in \in Inputs[oracle]
    BY <2>1 DEF ExecAssumption, IInv, ExecTypes
  <2>2. CASE in = Seed
    BY <2>2 DEF Seed
  <2>3. QED
    BY <1>1, <2>1, <2>2
<1>3. /\ pc = "idle" /\ pc' = "run" /\ id' = id + 1 /\ input' = in.runs
      /\ results' = <<>> /\ UNCHANGED <<oracle, output, abandoned>>
  BY <1>1 DEF Enter
<1>4. Due' \in DOMAIN input'
  BY <1>2, <1>3 DEF Due
<1>5. QED
  BY <1>2, <1>3, <1>4 DEF IInv, ExecTypes, Traced, OutputSettled

(* The early returns leave the lines of this input in the file, and mark it abandoned. *)
LEMMA AbandonStep ==
  ASSUME IInv, StopReturn \/ TimeoutReturn \/ SkipReturn
  PROVE  IInv'
<1>1. /\ abandoned' = abandoned \cup {id} /\ pc' = "returned"
      /\ UNCHANGED <<oracle, id, input, output, results>>
  BY DEF StopReturn, TimeoutReturn, SkipReturn, Abandon
<1>2. QED
  BY <1>1 DEF IInv, ExecTypes, Traced, OutputSettled

(* The other steps do not touch the file. *)
LEMMA OtherStep ==
  ASSUME IInv,
         \/ NewSeed \/ CompareResults \/ Return \/ RerunHang
         \/ SyncImport \/ HandleSkipreq \/ HandleStopSig \/ UNCHANGED vars
  PROVE  IInv'
<1>1. /\ UNCHANGED <<oracle, id, input, results, abandoned>>
      /\ output' = output \/ output' = <<>>
      /\ \/ pc' = pc
         \/ pc' \in {"returned", "idle"} /\ pc \in {"compare", "returned"}
  BY DEF NewSeed, CompareResults, Return, RerunHang, SyncImport,
         HandleSkipreq, HandleStopSig, vars, signals, history, AfterRead
<1>2. output' \in Seq(Line)
  <2>1. <<>> \in Seq(Line)
    OBVIOUS
  <2>2. QED
    BY <1>1, <2>1 DEF IInv, ExecTypes
<1>3. Traced(output)' /\ OutputSettled'
  BY <1>1 DEF IInv, Traced, OutputSettled
<1>4. (\A r \in DOMAIN results : Traced(results[r]))'
  BY <1>1 DEF IInv, Traced
<1>5. QED
  BY <1>1, <1>2, <1>3, <1>4 DEF IInv, ExecTypes, Due

(* OnlyAbandonedIsForeign holds in every state: the file behind             *)
(* program_output_fd, and what was read of it, hold the lines of the current *)
(* input and of abandoned inputs, whatever the signals and the timer do.    *)
THEOREM ForeignLines == Spec => []OnlyAbandonedIsForeign
<1>1. Init => IInv
  BY InitInv
<1>2. IInv /\ [Next]_vars => IInv'
  BY ExecAssumption, RunStep, ReadStep, EnterStep, AbandonStep, OtherStep DEF Next
<1>3. IInv => OnlyAbandonedIsForeign
  BY DEF IInv, Traced, OnlyAbandonedIsForeign, ForeignIn
<1>4. QED
  BY <1>1, <1>2, <1>3, PTL DEF Spec

---------------------------------------------------------------------------
(* The lines of a run that is not the input's first.                        *)
OwnRun(out, r) == \A k \in DOMAIN out : out[k].input = id /\ out[k].run = r

(* After the first read of an input the file is empty until the next run    *)
(* prints into it.                                                          *)
LInv ==
  /\ pc = "run" /\ results # <<>> => output = <<>>
  /\ pc = "ran" /\ results # <<>> => OwnRun(output, Due)
  /\ \A r \in DOMAIN results \ {1} : OwnRun(results[r], r)

(* What a run prints is tagged with that run. *)
LEMMA PrintedRun ==
  ASSUME NEW n \in Nat, NEW r \in Nat, NEW run \in Seq(Text)
  PROVE  \A k \in DOMAIN Printed(n, r, run) : Printed(n, r, run)[k].run = r
BY DEF Printed

(* So is every part of it that a timeout or a crash leaves. *)
LEMMA OutcomeRun ==
  ASSUME NEW r \in Nat, NEW full \in Seq(Line), NEW o \in RunOutcome(full),
         \A k \in DOMAIN full : full[k].run = r
  PROVE  \A k \in DOMAIN o.printed : o.printed[k].run = r
<1>1. CASE o.printed = full
  BY <1>1
<1>2. CASE \E m \in 0..Len(full) : o.printed = SubSeq(full, 1, m)
  <2>1. PICK m \in 0..Len(full) : o.printed = SubSeq(full, 1, m)
    BY <1>2
  <2>2. /\ DOMAIN SubSeq(full, 1, m) = 1..m
        /\ \A k \in 1..m : SubSeq(full, 1, m)[k] = full[k] /\ k \in DOMAIN full
    OBVIOUS
  <2>3. QED
    BY <2>1, <2>2
<1>3. QED
  BY <1>1, <1>2 DEF RunOutcome

(* A later run of an input appends to a file that holds its own lines only. *)
LEMMA LaterRunStep ==
  ASSUME IInv, LInv, RunTarget
  PROVE  LInv'
<1>1. /\ pc = "run" /\ Due \in DOMAIN input /\ Due \in Nat /\ Due' = Due
      /\ pc' = "ran" /\ UNCHANGED <<id, results>>
      /\ id \in Nat /\ input[Due] \in Seq(Text)
  BY DEF RunTarget, IInv, ExecTypes, Due
<1> DEFINE full == Printed(id, Due, input[Due])
<1>2. PICK o \in RunOutcome(full) : output' = output \o o.printed
  BY DEF RunTarget
<1>3. /\ full \in Seq(Line)
      /\ \A k \in DOMAIN full : full[k].input = id
      /\ \A k \in DOMAIN full : full[k].run = Due
  <2>1. /\ full \in Seq(Line)
        /\ \A k \in DOMAIN full : full[k].input = id
    BY <1>1, PrintedLines
  <2>2. \A k \in DOMAIN full : full[k].run = Due
    BY <1>1, PrintedRun
  <2>3. QED
    BY <2>1, <2>2
<1> HIDE DEF full
<1>4. /\ o.printed \in Seq(Line)
      /\ \A k \in DOMAIN o.printed : o.printed[k].input = id
  BY <1>1, <1>2, <1>3, OutcomeLines
<1>5. \A k \in DOMAIN o.printed : o.printed[k].run = Due
  BY <1>1, <1>2, <1>3, OutcomeRun
<1>6. ASSUME results # <<>>
      PROVE  OwnRun(output, Due)'
  <2>1. output = <<>>
    BY <1>1, <1>6 DEF LInv
  <2>2. output' = o.printed
    BY <1>2, <1>4, <2>1
  <2>3. QED
    BY <1>1, <1>4, <1>5, <2>2 DEF OwnRun
<1>7. (\A r \in DOMAIN results \ {1} : OwnRun(results[r], r))'
  BY <1>1 DEF LInv, OwnRun
<1>8. QED
  BY <1>1, <1>6, <1>7 DEF LInv

(* Reading passes lines of the later run only on to its result. *)
LEMMA LaterReadStep ==
  ASSUME IInv, LInv, ReadOutput
  PROVE  LInv'
<1>1. /\ results' = Append(results, output) /\ output' = <<>>
      /\ pc = "ran" /\ pc' \in {"run", "compare"} /\ UNCHANGED id
  BY DEF ReadOutput, AfterRead, NextAfterRead
<1>2. results \in Seq(Seq(Line)) /\ output \in Seq(Line)
  BY DEF IInv, ExecTypes
<1>3. \A r \in DOMAIN results' :
        IF r \in DOMAIN results
        THEN results'[r] = results[r]
        ELSE r = Len(results) + 1 /\ results'[r] = output
  BY <1>1, <1>2
<1>4. Due # 1 => OwnRun(output, Due)
  BY <1>1, <1>2 DEF LInv, Due
<1>5. (\A r \in DOMAIN results \ {1} : OwnRun(results[r], r))'
  BY <1>1, <1>3, <1>4 DEF LInv, OwnRun, Due
<1>6. QED
  BY <1>1, <1>5 DEF LInv

(* The other steps run nothing and read nothing. *)
LEMMA LaterOtherStep ==
  ASSUME IInv, LInv,
         \/ NewSeed \/ StopReturn \/ CompareResults \/ Return \/ RerunHang
         \/ SyncImport \/ HandleSkipreq \/ HandleStopSig \/ UNCHANGED vars
         \/ SubmitInput \/ Calibrate \/ TimeoutReturn \/ SkipReturn
  PROVE  LInv'
<1>1. CASE SubmitInput \/ Calibrate
  <2>1. pc' = "run" /\ results' = <<>>
    BY <1>1 DEF SubmitInput, Calibrate, Enter
  <2>2. QED
    BY <2>1 DEF LInv
<1>2. CASE \/ StopReturn \/ CompareResults \/ Return \/ RerunHang
           \/ TimeoutReturn \/ SkipReturn
  <2>1. pc' \in {"returned", "idle"} /\ UNCHANGED <<id, results>>
    BY <1>2 DEF StopReturn, CompareResults, Return, RerunHang, TimeoutReturn,
                SkipReturn, Abandon
  <2>2. QED
    BY <2>1 DEF LInv, OwnRun
<1>3. CASE SyncImport
  <2>1. pc = "idle" /\ UNCHANGED <<pc, id, results>>
    BY <1>3 DEF SyncImport
  <2>2. QED
    BY <2>1 DEF LInv, OwnRun
<1>4. CASE NewSeed \/ HandleSkipreq \/ HandleStopSig \/ UNCHANGED vars
  <2>1. UNCHANGED <<pc, id, output, results>>
    BY <1>4 DEF NewSeed, HandleSkipreq, HandleStopSig, vars
  <2>2. QED
    BY <2>1 DEF LInv, OwnRun, Due
<1>5. QED
  BY <1>1, <1>2, <1>3, <1>4

(* LaterRunsAreClean holds in every state: of an input that is run several  *)
(* times, only the first run can be read with anything but its own lines.   *)
THEOREM LaterRuns == Spec => []LaterRunsAreClean
<1>1. Init => IInv /\ LInv
  BY InitInv DEF Init, LInv
<1>2. IInv /\ [Next]_vars => IInv'
  BY ExecAssumption, RunStep, ReadStep, EnterStep, AbandonStep, OtherStep DEF Next
<1>3. IInv /\ LInv /\ [Next]_vars => LInv'
  BY LaterRunStep, LaterReadStep, LaterOtherStep DEF Next
<1>4. LInv => LaterRunsAreClean
  BY DEF LInv, LaterRunsAreClean, OwnRun
<1>5. QED
  BY <1>1, <1>2, <1>3, <1>4, PTL DEF Spec

---------------------------------------------------------------------------
(* The verdict on an input is one of three.                                 *)
LEMMA CompareType ==
  ASSUME oracle \in Oracles, NEW tys, NEW outs
  PROVE  Compare(tys, outs) \subseteq {"Pass", "Fail", "ALL_Error"}
<1> DEFINE V == {"Pass", "Fail", "ALL_Error"}
<1>1. \A outcome, uncounted : Verdict(outcome, uncounted) \in V
  BY Zenon DEF Verdict
<1>2. \A stmts : NorecVerdicts(stmts) \subseteq V
  BY <1>1, Zenon DEF NorecVerdicts
<1>3. \A stmts : TlpVerdicts(tys, stmts) \subseteq V
  BY <1>1, Zenon DEF TlpVerdicts
<1>4. \A stmts : LikelyVerdicts(tys, stmts) \subseteq V
  BY <1>1, Zenon DEF LikelyVerdicts
<1>5. \A runs : CountedVerdicts(tys, runs) \subseteq V
  BY <1>1, Zenon DEF CountedVerdicts
<1>6. \A runs : OptVerdicts(runs) \subseteq V
  BY <1>1, Zenon DEF OptVerdicts
<1>7. "ALL_Error" \in V
  OBVIOUS
<1> HIDE DEF V
<1>8. Compare(tys, outs) \subseteq V
  <2>1. CASE oracle \in {"NOREC", "TLP", "LIKELY"}
    BY <1>2, <1>3, <1>4, <2>1, CompareIs
  <2>2. CASE oracle \in {"INDEX", "ROWID"}
    BY <1>5, <1>7, <2>2, CompareIs
  <2>3. CASE oracle = "OPT"
    BY <1>6, <1>7, <2>3, CompareIs
  <2> QED BY <2>1, <2>2, <2>3 DEF Oracles
<1> QED BY <1>8 DEF V

(* How a run ends is one of three.                                          *)
LEMMA OutcomeFault ==
  ASSUME NEW full, NEW o \in RunOutcome(full)
  PROVE  o.fault \in {"NONE", "TMOUT", "CRASH"}
BY DEF RunOutcome

(* The types of what IInv says nothing of; an input being executed has a    *)
(* number.                                                                  *)
OtherTypes ==
  /\ caller \in {"perform_dry_run", "fuzz_one", "calibrate_case", "common_fuzz_stuff",
                "sync_fuzzers"}
  /\ pc \in {"idle", "run", "ran", "compare", "returned"}
  /\ id \in 0..MaxInputs /\ (pc # "idle" => id # 0)
  /\ \/ [runs |-> input, types |-> types] \in Inputs[oracle] \cup {Seed}
     \/ id = 0 /\ input = <<>> /\ types = <<>>
  /\ fault \in {"NONE", "TMOUT", "CRASH"}
  /\ verdict \in {"Pass", "Fail", "ALL_Error"}
  /\ faults \in Seq({"NONE", "TMOUT", "CRASH"})

Endings == {"NONE", "TMOUT", "CRASH"}

CounterTypes ==
  /\ recent \in Seq(Endings) /\ Len(recent) <= Window
  /\ subseq_tmouts \in Nat
  /\ skip_requested \in BOOLEAN
  /\ stop_soon \in BOOLEAN
  /\ skips \in 0..MaxSkips
  /\ abandoned \subseteq 1..MaxInputs

(* Types of everything but file and results. *)
LEMMA OtherTypesStay ==
  ASSUME IInv, OtherTypes, ExecAssumption, [Next]_vars
  PROVE  OtherTypes'
<1>0. MaxInputs \in Nat
  BY DEF ExecAssumption
<1>6. caller' \in {"perform_dry_run", "fuzz_one", "calibrate_case", "common_fuzz_stuff",
                   "sync_fuzzers"}
  <2>1. caller' \in {caller, "fuzz_one", "calibrate_case", "common_fuzz_stuff", "sync_fuzzers"}
    BY DEF Next, NewSeed, SubmitInput, Calibrate, RunTarget, StopReturn, TimeoutReturn,
           SkipReturn, Abandon, ReadOutput, CompareResults, Return, RerunHang, SyncImport,
           HandleSkipreq, HandleStopSig, vars
  <2> QED BY <2>1 DEF OtherTypes
<1>1. ASSUME NEW in \in Inputs[oracle] \cup {Seed}, Enter(in)
      PROVE  OtherTypes'
  <2>1. /\ pc' = "run" /\ id' = id + 1 /\ id < MaxInputs
        /\ input' = in.runs /\ types' = in.types /\ faults' = <<>>
        /\ verdict' = "ALL_Error" /\ UNCHANGED <<oracle, fault>>
    BY <1>1 DEF Enter
  <2>2. [runs |-> in.runs, types |-> in.types] = in
    <3>1. CASE in \in Inputs[oracle]
      <4>1. in \in [runs : Seq(Seq(Text)) \ {<<>>}, types : Seq(SelectType)]
        BY <3>1 DEF ExecAssumption, IInv, ExecTypes
      <4> QED BY <4>1
    <3>2. CASE in = Seed
      BY <3>2 DEF Seed
    <3> QED BY <1>1, <3>1, <3>2
  <2>3. [runs |-> input', types |-> types'] \in Inputs[oracle] \cup {Seed}
    BY <2>1, <2>2
  <2> QED BY <1>0, <1>6, <2>1, <2>3 DEF OtherTypes, Seed
<1>2. CASE SubmitInput \/ Calibrate
  BY <1>1, <1>2 DEF SubmitInput, Calibrate
<1>3. CASE RunTarget
  <2>1. /\ pc = "run" /\ pc' = "ran"
        /\ UNCHANGED <<oracle, id, input, types, verdict>>
    BY <1>3 DEF RunTarget
  <2>2. PICK o \in RunOutcome(Printed(id, Due, input[Due])) :
           fault' = o.fault /\ faults' = Append(faults, o.fault)
    BY <1>3 DEF RunTarget
  <2>3. o.fault \in {"NONE", "TMOUT", "CRASH"}
    BY <2>2, OutcomeFault
  <2>4. faults' \in Seq({"NONE", "TMOUT", "CRASH"})
    BY <2>2, <2>3 DEF OtherTypes
  <2> QED BY <1>6, <2>1, <2>2, <2>3, <2>4 DEF OtherTypes
<1>4. CASE CompareResults
  <2>1. verdict' \in {"Pass", "Fail", "ALL_Error"}
    BY <1>4, CompareType DEF CompareResults, IInv, ExecTypes
  <2> QED BY <1>4, <1>6, <2>1 DEF CompareResults, OtherTypes, history
<1>5. CASE \/ NewSeed \/ StopReturn \/ TimeoutReturn \/ SkipReturn \/ ReadOutput \/ Return
           \/ RerunHang \/ SyncImport \/ HandleSkipreq \/ HandleStopSig \/ UNCHANGED vars
  <2>1. UNCHANGED <<oracle, id, input, types, fault, verdict, faults>>
    BY <1>5 DEF NewSeed, StopReturn, TimeoutReturn, SkipReturn, Abandon, ReadOutput, Return,
                RerunHang, SyncImport, HandleSkipreq, HandleStopSig, vars, history
  <2>2. \/ pc' = pc
        \/ pc' = "idle"
        \/ pc # "idle" /\ pc' \in {"run", "compare", "returned"}
    BY <1>5 DEF NewSeed, StopReturn, TimeoutReturn, SkipReturn, Abandon, ReadOutput, Return,
                NextAfterRead, RerunHang, SyncImport, HandleSkipreq, HandleStopSig, vars
  <2> QED BY <1>6, <2>1, <2>2 DEF OtherTypes
<1> QED BY <1>2, <1>3, <1>4, <1>5 DEF Next

(* Types of the counters of executions, timeouts and hangs. *)
LEMMA CountersStay ==
  ASSUME OtherTypes, CounterTypes, ExecAssumption, [Next]_vars
  PROVE  CounterTypes'
<1>0. MaxInputs \in Nat /\ MaxSkips \in Nat
  BY DEF ExecAssumption
<1>1. subseq_tmouts' \in Nat
  <2>1. subseq_tmouts' \in {subseq_tmouts, 0, Subseq}
    BY DEF Next, NewSeed, SubmitInput, Calibrate, Enter, RunTarget, StopReturn, TimeoutReturn,
           SkipReturn, ReadOutput, CompareResults, Return, RerunHang, SyncImport,
           HandleSkipreq, HandleStopSig, vars
  <2> QED BY <2>1 DEF Subseq, CounterTypes
<1>2. skip_requested' \in BOOLEAN
  <2>1. skip_requested' = skip_requested \/ skip_requested' = TRUE \/ skip_requested' = FALSE
    BY DEF Next, NewSeed, SubmitInput, Calibrate, Enter, RunTarget, StopReturn, TimeoutReturn,
           SkipReturn, ReadOutput, CompareResults, Return, RerunHang, SyncImport,
           HandleSkipreq, HandleStopSig, vars, signals
  <2> QED BY <2>1, Zenon DEF CounterTypes
<1>3. stop_soon' \in BOOLEAN
  <2>1. stop_soon' = stop_soon \/ stop_soon' = TRUE
    BY DEF Next, NewSeed, SubmitInput, Calibrate, Enter, RunTarget, StopReturn, TimeoutReturn,
           SkipReturn, Abandon, ReadOutput, CompareResults, Return, RerunHang, SyncImport,
           HandleSkipreq, HandleStopSig, vars, signals
  <2> QED BY <2>1, Zenon DEF CounterTypes
<1>4. skips' \in 0..MaxSkips
  <2>1. skips' = skips \/ (skips < MaxSkips /\ skips' = skips + 1)
    BY DEF Next, NewSeed, SubmitInput, Calibrate, Enter, RunTarget, StopReturn, TimeoutReturn,
           SkipReturn, Abandon, ReadOutput, CompareResults, Return, RerunHang, SyncImport,
           HandleSkipreq, HandleStopSig, vars, signals
  <2> QED BY <1>0, <2>1 DEF CounterTypes
<1>5. pc # "idle" => id \in 1..MaxInputs
  BY <1>0 DEF OtherTypes
<1>6. abandoned' \subseteq 1..MaxInputs
  <2>1. abandoned' = abandoned \/ (pc = "ran" /\ abandoned' = abandoned \cup {id})
    BY DEF Next, NewSeed, SubmitInput, Calibrate, Enter, RunTarget, StopReturn, TimeoutReturn,
           SkipReturn, Abandon, ReadOutput, CompareResults, Return, RerunHang, SyncImport,
           HandleSkipreq, HandleStopSig, vars, history
  <2> QED BY <1>5, <2>1 DEF CounterTypes
<1>7. recent' \in Seq(Endings) /\ Len(recent') <= Window
  <2>1. Window \in Nat \ {0, 1}
    BY DEF Window, ExecAssumption
  <2>2. recent \in Seq(Endings) /\ Len(recent) <= Window
    BY DEF CounterTypes
  <2>3. CASE RunTarget
    <3>1. PICK o \in RunOutcome(Printed(id, Due, input[Due])) : recent' = Remember(recent, o.fault)
      BY <2>3 DEF RunTarget
    <3>2. o.fault \in Endings
      BY <3>1, OutcomeFault DEF Endings
    <3>3. CASE Len(recent) < Window
      BY <2>1, <2>2, <3>1, <3>2, <3>3 DEF Remember
    <3>4. CASE ~ (Len(recent) < Window)
      <4>1. Tail(recent) \in Seq(Endings) /\ Len(Tail(recent)) = Len(recent) - 1
        BY <2>1, <2>2, <3>4
      <4> QED BY <2>1, <2>2, <3>1, <3>2, <3>4, <4>1 DEF Remember
    <3> QED BY <3>3, <3>4
  <2>4. recent' = recent \/ recent' = <<>> \/ RunTarget
    BY DEF Next, NewSeed, SubmitInput, Calibrate, Enter, StopReturn, TimeoutReturn,
           SkipReturn, Abandon, ReadOutput, CompareResults, Return, RerunHang, SyncImport,
           HandleSkipreq, HandleStopSig, vars, history
  <2>5. CASE recent' = <<>>
    <3>1. <<>> \in Seq(Endings) /\ Len(<<>>) = 0
      OBVIOUS
    <3> QED BY <2>1, <2>5, <3>1
  <2>6. CASE recent' = recent
    BY <2>2, <2>6
  <2> QED BY <2>3, <2>4, <2>5, <2>6
<1>8. Window' = Window
  BY DEF Window
<1> QED BY <1>1, <1>2, <1>3, <1>4, <1>6, <1>7, <1>8 DEF CounterTypes

(* Every step keeps IInv.                                                   *)
LEMMA IInvStays ==
  ASSUME IInv, ExecAssumption, [Next]_vars
  PROVE  IInv'
BY RunStep, ReadStep, EnterStep, AbandonStep, OtherStep DEF Next

TypesInv == IInv /\ OtherTypes /\ CounterTypes

(* All types together are inductive.                                        *)
LEMMA TypesInvariance ==
  /\ Init => TypesInv
  /\ ExecAssumption /\ TypesInv /\ [Next]_vars => TypesInv'
<1>1. Init => IInv /\ OtherTypes /\ CounterTypes
  <2> SUFFICES ASSUME Init PROVE IInv /\ OtherTypes /\ CounterTypes
    OBVIOUS
  <2>1. IInv
    BY InitInv
  <2>2. /\ caller = "perform_dry_run" /\ id = 0 /\ pc = "idle" /\ input = <<>> /\ types = <<>> /\ fault = "NONE"
        /\ verdict = "ALL_Error" /\ faults = <<>>
    BY DEF Init
  <2>3. OtherTypes
    BY <2>2, ExecAssumption DEF OtherTypes, ExecAssumption
  <2>4. CounterTypes
    <3>0. recent \in Seq(Endings) /\ Len(recent) <= Window
      <4>1. recent = <<>> /\ Len(<<>>) = 0 /\ <<>> \in Seq(Endings)
        BY DEF Init
      <4>2. Window \in Nat
        BY ExecAssumption DEF Window, ExecAssumption
      <4> QED BY <4>1, <4>2
    <3>1. skips \in 0..MaxSkips /\ subseq_tmouts \in Nat
      BY ExecAssumption DEF Init, ExecAssumption
    <3>2. skip_requested \in BOOLEAN /\ stop_soon \in BOOLEAN
      BY Zenon DEF Init
    <3>3. abandoned = {}
      BY DEF Init
    <3> QED BY <3>0, <3>1, <3>2, <3>3, Zenon DEF CounterTypes
  <2> QED BY <2>1, <2>3, <2>4
<1>2. ExecAssumption /\ TypesInv /\ [Next]_vars => TypesInv'
  BY IInvStays, OtherTypesStay, CountersStay DEF TypesInv
<1> QED BY <1>1, <1>2 DEF TypesInv

(* TypeOK holds in every state.                                             *)
THEOREM ExecutionTypes == Spec => []TypeOK
<1>1. Init => TypesInv
  BY TypesInvariance
<1>2. TypesInv /\ [Next]_vars => TypesInv'
  BY ExecAssumption, TypesInvariance
<1>3. TypesInv => TypeOK
  BY DEF TypesInv, IInv, ExecTypes, OtherTypes, CounterTypes, TypeOK, Endings
<1> QED BY <1>1, <1>2, <1>3, PTL DEF Spec

(* What the last run of an input ended in is what run_target last returned. *)
FaultInv ==
  pc \in {"ran", "compare", "returned"} => faults # <<>> /\ faults[Len(faults)] = fault

(* After a run the last fault recorded is that of the run. *)
LEMMA FaultStays ==
  ASSUME OtherTypes, FaultInv, [Next]_vars
  PROVE  FaultInv'
<1>1. CASE RunTarget
  <2>1. PICK o \in RunOutcome(Printed(id, Due, input[Due])) :
           fault' = o.fault /\ faults' = Append(faults, o.fault)
    BY <1>1 DEF RunTarget
  <2>2. faults \in Seq({"NONE", "TMOUT", "CRASH"})
    BY DEF OtherTypes
  <2>3. faults' # <<>> /\ faults'[Len(faults')] = o.fault
    BY <2>1, <2>2
  <2> QED BY <2>1, <2>3 DEF FaultInv
<1>2. CASE SubmitInput \/ Calibrate
  <2>1. pc' = "run"
    BY <1>2 DEF SubmitInput, Calibrate, Enter
  <2> QED BY <2>1 DEF FaultInv
<1>3. CASE \/ NewSeed \/ StopReturn \/ TimeoutReturn \/ SkipReturn \/ ReadOutput
           \/ CompareResults \/ Return \/ RerunHang \/ SyncImport \/ HandleSkipreq
           \/ HandleStopSig \/ UNCHANGED vars
  <2>1. UNCHANGED <<fault, faults>>
    BY <1>3 DEF NewSeed, StopReturn, TimeoutReturn, SkipReturn, Abandon, ReadOutput,
                CompareResults, Return, RerunHang, SyncImport, HandleSkipreq, HandleStopSig,
                vars, history
  <2>2. pc' = pc \/ pc' \in {"idle", "run"} \/ pc \in {"ran", "compare"}
    BY <1>3 DEF NewSeed, StopReturn, TimeoutReturn, SkipReturn, Abandon, ReadOutput,
                CompareResults, Return, RerunHang, SyncImport, HandleSkipreq, HandleStopSig,
                vars
  <2> QED BY <2>1, <2>2 DEF FaultInv
<1> QED BY <1>1, <1>2, <1>3 DEF Next

---------------------------------------------------------------------------
(* The last n runs on the seed timed out, and the run before them, if it    *)
(* is remembered, did not; beyond the window n may be anything.             *)
Ends(n) ==
  IF n >= Window
  THEN AllTimedOut
  ELSE /\ n <= Len(recent)
       /\ \A k \in DOMAIN recent : k > Len(recent) - n => recent[k] = "TMOUT"
       /\ n < Len(recent) => recent[Len(recent) - n] # "TMOUT"

(* While no stop signal has arrived the counter agrees with the history,    *)
(* after a run as soon as it is brought up to date.                         *)
StreakInv ==
  ~ stop_soon => /\ pc # "ran" => Ends(subseq_tmouts)
                 /\ pc = "ran" => Ends(Subseq)

(* A run that ends makes the streak one longer or empty, in the history as  *)
(* in the counter.                                                          *)
LEMMA StreakOfRun ==
  ASSUME CounterTypes, ExecAssumption, Ends(subseq_tmouts),
         NEW f \in {"NONE", "TMOUT", "CRASH"},
         recent' = Remember(recent, f), fault' = f, subseq_tmouts' = subseq_tmouts
  PROVE  Ends(Subseq)'
<1> DEFINE n == subseq_tmouts
           W == Window
<1>1. W \in Nat \ {0, 1} /\ n \in Nat /\ recent \in Seq(Endings) /\ Len(recent) <= W
  BY DEF Window, ExecAssumption, CounterTypes
<1>2. /\ recent' \in Seq(Endings)
      /\ Len(recent') = IF Len(recent) < W THEN Len(recent) + 1 ELSE W
      /\ recent'[Len(recent')] = f
      /\ \A k \in 1..(Len(recent') - 1) :
           recent'[k] = recent[IF Len(recent) < W THEN k ELSE k + 1]
  <2>1. f \in Endings
    BY DEF Endings
  <2>2. CASE Len(recent) < W
    <3>1. recent' = Append(recent, f)
      BY <2>2 DEF Remember
    <3> QED BY <1>1, <2>1, <2>2, <3>1
  <2>3. CASE ~ (Len(recent) < W)
    <3>1. recent' = Append(Tail(recent), f) /\ Len(recent) = W
      BY <1>1, <2>3 DEF Remember
    <3>2. /\ Tail(recent) \in Seq(Endings) /\ Len(Tail(recent)) = W - 1
          /\ \A k \in 1..(W - 1) : Tail(recent)[k] = recent[k + 1]
      BY <1>1, <3>1
    <3> HIDE DEF W
    <3> QED BY <1>1, <2>1, <2>3, <3>1, <3>2
  <2> QED BY <2>2, <2>3
<1>3. Subseq' = IF f = "TMOUT" THEN n + 1 ELSE 0
  BY DEF Subseq
<1>4. W' = W
  BY DEF Window
<1>5. DOMAIN recent = 1..Len(recent) /\ DOMAIN recent' = 1..Len(recent') /\ Len(recent) \in Nat
  BY <1>1, <1>2
<1> HIDE DEF W, n
<1>6. CASE f # "TMOUT"
  <2>1. Subseq' = 0
    BY <1>3, <1>6
  <2>2. /\ 0 <= Len(recent')
        /\ \A k \in DOMAIN recent' : k > Len(recent') - 0 => recent'[k] = "TMOUT"
        /\ recent'[Len(recent') - 0] # "TMOUT"
    BY <1>1, <1>2, <1>5, <1>6
  <2> QED BY <1>1, <1>4, <2>1, <2>2 DEF Ends, W
<1>7. CASE f = "TMOUT" /\ n >= W
  <2>1. Len(recent) = W /\ \A k \in 1..W : recent[k] = "TMOUT"
    BY <1>5, <1>7 DEF Ends, AllTimedOut, W, n
  <2>2. Len(recent') = W /\ \A k \in 1..W : recent'[k] = "TMOUT"
    BY <1>1, <1>2, <1>7, <2>1
  <2>3. AllTimedOut'
    BY <1>4, <1>5, <2>2 DEF AllTimedOut, W
  <2> QED BY <1>1, <1>3, <1>4, <1>7, <2>3 DEF Ends, W
<1>8. CASE f = "TMOUT" /\ n < W
  <2>1. /\ n <= Len(recent)
        /\ \A k \in 1..Len(recent) : k > Len(recent) - n => recent[k] = "TMOUT"
        /\ n < Len(recent) => recent[Len(recent) - n] # "TMOUT"
    BY <1>1, <1>5, <1>8 DEF Ends, W, n
  <2>2. /\ n + 1 <= Len(recent')
        /\ \A k \in 1..Len(recent') : k > Len(recent') - (n + 1) => recent'[k] = "TMOUT"
        /\ n + 1 < Len(recent') => recent'[Len(recent') - (n + 1)] # "TMOUT"
    <3>1. CASE Len(recent) < W
      BY <1>1, <1>2, <1>5, <1>8, <2>1, <3>1
    <3>2. CASE Len(recent) = W
      BY <1>1, <1>2, <1>5, <1>8, <2>1, <3>2
    <3>3. Len(recent) < W \/ Len(recent) = W
      <4>1. Len(recent) \in Nat /\ W \in Nat /\ Len(recent) <= W
        BY <1>1, <1>5
      <4> QED BY <4>1
    <3> QED BY <3>1, <3>2, <3>3, Zenon
  <2>3. CASE n + 1 >= W
    <3>1. Len(recent') = W /\ \A k \in 1..W : recent'[k] = "TMOUT"
      BY <1>1, <1>2, <1>5, <1>8, <2>2, <2>3
    <3>2. AllTimedOut'
      BY <1>4, <1>5, <3>1 DEF AllTimedOut, W
    <3> QED BY <1>3, <1>4, <1>8, <2>3, <3>2 DEF Ends, W
  <2>4. CASE ~ (n + 1 >= W)
    BY <1>3, <1>4, <1>5, <1>8, <2>2, <2>4 DEF Ends, W
  <2> QED BY <2>3, <2>4
<1> QED BY <1>1, <1>6, <1>7, <1>8

(* The streak and the counter agree after every step.                       *)
LEMMA StreakStays ==
  ASSUME CounterTypes, ExecAssumption, StreakInv, [Next]_vars
  PROVE  StreakInv'
<1>1. CASE RunTarget
  <2>1. pc = "run" /\ pc' = "ran" /\ UNCHANGED <<subseq_tmouts, signals>>
    BY <1>1 DEF RunTarget
  <2>2. PICK o \in RunOutcome(Printed(id, Due, input[Due])) :
           fault' = o.fault /\ recent' = Remember(recent, o.fault)
    BY <1>1 DEF RunTarget
  <2>3. o.fault \in {"NONE", "TMOUT", "CRASH"}
    BY <2>2, OutcomeFault
  <2>4. ASSUME ~ stop_soon PROVE Ends(Subseq)'
    <3>1. Ends(subseq_tmouts)
      BY <2>1, <2>4 DEF StreakInv
    <3> QED BY <2>1, <2>2, <2>3, <3>1, StreakOfRun
  <2>5. stop_soon' = stop_soon
    BY <2>1 DEF signals
  <2> QED BY <2>1, <2>4, <2>5 DEF StreakInv
<1>2. CASE NewSeed
  <2>1. pc' = "idle" /\ subseq_tmouts' = 0 /\ recent' = <<>>
    BY <1>2 DEF NewSeed
  <2>2. Ends(0)'
    BY <2>1, ExecAssumption DEF Ends, Window, ExecAssumption
  <2> QED BY <2>1, <2>2 DEF StreakInv
<1>3. CASE StopReturn \/ HandleStopSig
  <2>1. stop_soon'
    BY <1>3 DEF StopReturn, Abandon, HandleStopSig
  <2> QED BY <2>1 DEF StreakInv
<1>4. CASE TimeoutReturn \/ SkipReturn \/ ReadOutput
  <2>1. /\ pc = "ran" /\ pc' # "ran" /\ subseq_tmouts' = Subseq
        /\ UNCHANGED <<recent, stop_soon>>
    BY <1>4 DEF TimeoutReturn, SkipReturn, Abandon, ReadOutput, NextAfterRead, signals, history
  <2> QED BY <2>1 DEF StreakInv, Ends, AllTimedOut, Window
<1>5. CASE \/ SubmitInput \/ Calibrate \/ CompareResults \/ Return \/ RerunHang
           \/ SyncImport \/ HandleSkipreq \/ UNCHANGED vars
  <2>1. /\ UNCHANGED <<subseq_tmouts, recent, stop_soon, fault>>
        /\ pc' = pc \/ (pc # "ran" /\ pc' # "ran")
    BY <1>5 DEF SubmitInput, Calibrate, Enter, CompareResults, Return, RerunHang, SyncImport,
           HandleSkipreq, vars, signals, history
  <2> QED BY <2>1 DEF StreakInv, Ends, Subseq, AllTimedOut, Window
<1> QED BY <1>1, <1>2, <1>3, <1>4, <1>5 DEF Next

(* TimeoutsAreRationed holds of every step: subseq_tmouts, which several    *)
(* inputs and three functions share, abandons a run exactly when TMOUT_LIMIT*)
(* and two runs in a row timed out on the same seed.                        *)
THEOREM TimeoutsRationed == Spec => TimeoutsAreRationed
<1>1. Init => TypesInv /\ StreakInv
  <2> SUFFICES ASSUME Init PROVE TypesInv /\ StreakInv
    OBVIOUS
  <2>1. TypesInv
    BY TypesInvariance
  <2>2. pc # "ran" /\ subseq_tmouts = 0 /\ recent = <<>>
    BY DEF Init
  <2> QED BY <2>1, <2>2, ExecAssumption DEF StreakInv, Ends, Window, ExecAssumption
<1>2. TypesInv /\ StreakInv /\ [Next]_vars => (TypesInv /\ StreakInv)'
  BY ExecAssumption, TypesInvariance, StreakStays DEF TypesInv
<1>3. ASSUME TypesInv, StreakInv, [Next]_vars, pc = "ran", pc' # "ran",
             ~ stop_soon, ~ skip_requested
      PROVE  pc' = "returned" <=> AllTimedOut
  <2>1. Ends(Subseq)
    BY <1>3 DEF StreakInv
  <2>2. subseq_tmouts \in Nat /\ TmoutLimit \in Nat
    BY <1>3, ExecAssumption DEF TypesInv, CounterTypes, ExecAssumption
  <2>3. Exhausted => AllTimedOut
    BY <2>1, <2>2 DEF Exhausted, Subseq, Ends, Window
  <2>4. ASSUME ~ Exhausted PROVE ~ AllTimedOut
    <3>1. ~ (Subseq >= Window) /\ Subseq \in Nat
      BY <2>2, <2>4 DEF Exhausted, Subseq, Window
    <3>2. Subseq < Len(recent) => recent[Len(recent) - Subseq] # "TMOUT"
      BY <2>1, <3>1 DEF Ends
    <3>3. Len(recent) \in Nat /\ DOMAIN recent = 1..Len(recent)
      BY <1>3 DEF TypesInv, CounterTypes
    <3>4. CASE Len(recent) = Window
      <4>1. Len(recent) - Subseq \in DOMAIN recent
        BY <2>2, <3>1, <3>3, <3>4 DEF Window
      <4> QED BY <2>2, <3>1, <3>2, <3>3, <3>4, <4>1 DEF AllTimedOut, Window
    <3> QED BY <3>4 DEF AllTimedOut
  <2>5. TimeoutReturn \/ ReadOutput
    BY <1>3 DEF Next, NewSeed, SubmitInput, Calibrate, Enter, RunTarget, StopReturn, SkipReturn,
           CompareResults, Return, RerunHang, SyncImport, HandleSkipreq, HandleStopSig, vars
  <2>6. CASE TimeoutReturn
    BY <2>3, <2>6 DEF TimeoutReturn, Abandon
  <2>7. CASE ReadOutput
    BY <2>4, <2>7 DEF ReadOutput, NextAfterRead
  <2> QED BY <2>5, <2>6, <2>7
<1>4. TypesInv /\ StreakInv /\ [Next]_vars =>
        [pc = "ran" /\ pc' # "ran" /\ ~stop_soon /\ ~skip_requested
           => (pc' = "returned" <=> AllTimedOut)]_vars
  BY <1>3
<1> QED BY <1>1, <1>2, <1>4, PTL DEF Spec, TimeoutsAreRationed

---------------------------------------------------------------------------
(* What was read, compared to what the runs print.                          *)
Foreign(out) == \E k \in DOMAIN out : out[k].input # id

(* The output of the r-th run, all of it unless the run was cut short.      *)
PartOf(out, r, f) ==
  /\ \E m \in 0..Len(Printed(id, r, input[r])) : out = SubSeq(Printed(id, r, input[r]), 1, m)
  /\ f = "NONE" => out = Printed(id, r, input[r])

(* A running input is not an abandoned one, so that what another left in    *)
(* the file shows; how far it has got; and what it read is foreign or part  *)
(* of what the run printed.  Only all of its runs are compared.             *)
ReadInv ==
  /\ \A j \in abandoned : j \in Nat /\ j <= id
  /\ pc \in {"run", "ran", "compare"} => id \notin abandoned
  /\ pc = "run" => Len(faults) = Len(results) /\ Len(results) < Len(input)
  /\ pc = "ran" => /\ Len(faults) = Len(results) + 1 /\ Len(results) < Len(input)
                   /\ stop_soon \/ Foreign(output) \/ PartOf(output, Due, fault)
  /\ pc = "compare" => Len(results) = Len(input) /\ Len(faults) = Len(input)
  /\ pc = "returned" =>
       \/ Len(results) < Len(input)
       \/ /\ Len(results) = Len(input) /\ Len(faults) = Len(input)
          /\ verdict \in Compare(types, results)
  /\ pc \in {"run", "ran", "compare", "returned"} =>
       \A r \in DOMAIN results : Foreign(results[r]) \/ PartOf(results[r], r, faults[r])

(* The lengths and the elements of the histories.                           *)
LEMMA Lengths ==
  ASSUME IInv, OtherTypes
  PROVE  /\ Len(results) \in Nat /\ DOMAIN results = 1..Len(results)
         /\ Len(input) \in Nat /\ DOMAIN input = 1..Len(input)
         /\ Len(faults) \in Nat /\ DOMAIN faults = 1..Len(faults)
         /\ id \in Nat
BY DEF IInv, ExecTypes, OtherTypes

(* The comparison depends on the oracle, the types and the results read only. *)
LEMMA SameComparison ==
  ASSUME UNCHANGED <<oracle, types, results>>
  PROVE  Compare(types, results)' = Compare(types, results)
BY DEF Compare, Constrained

(* However a run ends, what it printed is part of what it prints.           *)
LEMMA OutcomePart ==
  ASSUME NEW r, NEW o \in RunOutcome(Printed(id, r, input[r])),
         Printed(id, r, input[r]) \in Seq(Line), ~ stop_soon
  PROVE  PartOf(o.printed, r, o.fault)
<1> DEFINE full == Printed(id, r, input[r])
<1>1. CASE o.fault = "NONE" /\ o.printed = full
  <2>1. full = SubSeq(full, 1, Len(full)) /\ Len(full) \in 0..Len(full)
    <3> HIDE DEF full
    <3> QED BY DEF full
  <2> QED BY <1>1, <2>1 DEF PartOf
<1>2. CASE o.fault \in {"TMOUT", "CRASH"} /\ \E m \in 0..Len(full) : o.printed = SubSeq(full, 1, m)
  BY <1>2 DEF PartOf
<1>3. \/ o.fault = "NONE" /\ o.printed = full
      \/ o.fault \in {"TMOUT", "CRASH"} /\ \E m \in 0..Len(full) : o.printed = SubSeq(full, 1, m)
  <2> HIDE DEF full
  <2> QED BY DEF RunOutcome, full
<1> QED BY <1>1, <1>2, <1>3

(* The results read stay the beginnings of what the runs print: a run. *)
LEMMA ReadInvRun ==
  ASSUME IInv, OtherTypes, ReadInv, RunTarget
  PROVE  ReadInv'
<1>1. /\ pc = "run" /\ pc' = "ran" /\ Due \in DOMAIN input /\ Due' = Due
      /\ UNCHANGED <<oracle, id, input, types, results, abandoned>>
  BY DEF RunTarget, IInv, ExecTypes, Due
<1> DEFINE full == Printed(id, Due, input[Due])
<1>2. full \in Seq(Line)
  <2>1. id \in Nat /\ Due \in Nat /\ input[Due] \in Seq(Text)
    BY <1>1 DEF IInv, ExecTypes
  <2> QED BY <2>1, PrintedLines
<1>3. PICK o \in RunOutcome(full) :
         output' = output \o o.printed /\ fault' = o.fault /\ faults' = Append(faults, o.fault)
  BY DEF RunTarget
<1>4. ~ stop_soon => PartOf(o.printed, Due, o.fault)
  BY <1>2, <1>3, OutcomePart
<1>5. o.printed \in Seq(Line)
  <2>1. id \in Nat /\ Due \in Nat /\ input[Due] \in Seq(Text)
    BY <1>1 DEF IInv, ExecTypes
  <2>2. \A k \in DOMAIN full : full[k].input = id
    BY <2>1, PrintedLines
  <2> HIDE DEF full
  <2> QED BY <1>2, <1>3, <2>1, <2>2, OutcomeLines
<1> HIDE DEF full
<1>6. output \in Seq(Line) /\ \A k \in DOMAIN output : output[k].input \in abandoned
  BY <1>1 DEF IInv, ExecTypes, OutputSettled
<1>7. (stop_soon \/ Foreign(output) \/ PartOf(output, Due, fault))'
  <2>0. stop_soon' = stop_soon
    BY DEF RunTarget, signals
  <2>1. CASE output = <<>> /\ ~ stop_soon
    <3>1. output' = o.printed
      BY <1>3, <1>5, <2>1
    <3>2. PartOf(output, Due, fault)'
      BY <1>1, <1>3, <1>4, <2>1, <3>1 DEF PartOf
    <3> QED BY <3>2
  <2>2. CASE output # <<>>
    <3>1. 1 \in DOMAIN output /\ 1 \in DOMAIN output' /\ output'[1] = output[1]
      BY <1>3, <1>5, <1>6, <2>2
    <3>2. output'[1].input # id'
      BY <1>1, <1>6, <3>1 DEF ReadInv
    <3> QED BY <3>1, <3>2 DEF Foreign
  <2> QED BY <2>0, <2>1, <2>2
<1>8. faults \in Seq({"NONE", "TMOUT", "CRASH"}) /\ Len(faults) = Len(results)
  BY <1>1 DEF OtherTypes, ReadInv
<1>9. Len(faults') = Len(faults) + 1 /\ \A r \in DOMAIN results : faults'[r] = faults[r]
  BY <1>3, <1>8, Lengths
<1>10. (\A r \in DOMAIN results : Foreign(results[r]) \/ PartOf(results[r], r, faults[r]))'
  <2>1. \A r \in DOMAIN results : Foreign(results[r]) \/ PartOf(results[r], r, faults[r])
    BY <1>1 DEF ReadInv
  <2> QED BY <1>1, <1>9, <2>1 DEF Foreign, PartOf
<1>11. (\A j \in abandoned : j \in Nat /\ j <= id)' /\ (id \notin abandoned)'
  BY <1>1 DEF ReadInv
<1>12. Len(results) < Len(input)
  BY <1>1 DEF ReadInv
<1> QED BY <1>1, <1>7, <1>8, <1>9, <1>10, <1>11, <1>12 DEF ReadInv

(* The results read stay the beginnings of what the runs print: reading, where a clean file
   matters. *)
LEMMA ReadInvRead ==
  ASSUME IInv, OtherTypes, FaultInv, ReadInv, ReadOutput
  PROVE  ReadInv'
<1>1. /\ results' = Append(results, output) /\ pc = "ran" /\ pc' = NextAfterRead
      /\ UNCHANGED <<oracle, id, input, types, faults, abandoned>>
  BY DEF ReadOutput, history
<1>2. /\ Len(faults) = Len(results) + 1 /\ Len(results) < Len(input)
      /\ Foreign(output) \/ PartOf(output, Due, fault)
      /\ id \notin abandoned /\ \A j \in abandoned : j \in Nat /\ j <= id
      /\ \A r \in DOMAIN results : Foreign(results[r]) \/ PartOf(results[r], r, faults[r])
  BY <1>1 DEF ReadInv, ReadOutput
<1>3. faults[Due] = fault
  BY <1>1, <1>2 DEF FaultInv, Due
<1>4. /\ Len(results') = Len(results) + 1
      /\ \A r \in DOMAIN results' : \/ r \in DOMAIN results /\ results'[r] = results[r]
                                    \/ r = Due /\ results'[r] = output
  BY <1>1 DEF IInv, ExecTypes, Due
<1>5. (\A r \in DOMAIN results : Foreign(results[r]) \/ PartOf(results[r], r, faults[r]))'
  BY <1>1, <1>2, <1>3, <1>4 DEF Foreign, PartOf
<1>6. /\ pc' \in {"run", "compare"}
      /\ pc' = "run" => Len(faults') = Len(results') /\ Len(results') < Len(input')
      /\ pc' = "compare" => Len(results') = Len(input') /\ Len(faults') = Len(input')
  <2>1. Len(results) \in Nat /\ Len(input) \in Nat
    BY Lengths
  <2> QED BY <1>1, <1>2, <1>4, <2>1 DEF NextAfterRead
<1> QED BY <1>1, <1>2, <1>5, <1>6 DEF ReadInv

(* The results read stay the beginnings of what the runs print: a new input has none. *)
LEMMA ReadInvEnter ==
  ASSUME IInv, OtherTypes, ReadInv, ExecAssumption, SubmitInput \/ Calibrate
  PROVE  ReadInv'
<1>1. PICK in \in Inputs[oracle] \cup {Seed} : Enter(in)
  BY DEF SubmitInput, Calibrate
<1>2. /\ pc' = "run" /\ id' = id + 1 /\ results' = <<>> /\ faults' = <<>>
      /\ UNCHANGED abandoned
  BY <1>1 DEF Enter
<1>3. IInv'
  BY EnterStep
<1>4. Len(results') < Len(input')
  BY <1>2, <1>3 DEF IInv, ExecTypes, Due
<1>5. \A j \in abandoned' : j \in Nat /\ j < id'
  <2>1. id \in Nat /\ \A j \in abandoned : j \in Nat /\ j <= id
    BY Lengths DEF ReadInv
  <2> QED BY <1>2, <2>1
<1>6. id' \in Nat /\ id' \notin abandoned' /\ \A j \in abandoned' : j <= id'
  BY <1>2, <1>5, Lengths
<1> QED BY <1>2, <1>4, <1>5, <1>6 DEF ReadInv

(* The results read stay the beginnings of what the runs print: an input given up. *)
LEMMA ReadInvAbandon ==
  ASSUME IInv, OtherTypes, ReadInv, StopReturn \/ TimeoutReturn \/ SkipReturn
  PROVE  ReadInv'
<1>1. /\ abandoned' = abandoned \cup {id} /\ pc = "ran" /\ pc' = "returned"
      /\ UNCHANGED <<id, input, results, faults>>
  BY DEF StopReturn, TimeoutReturn, SkipReturn, Abandon
<1>2. (\A j \in abandoned : j \in Nat /\ j <= id)'
  BY <1>1, Lengths DEF ReadInv
<1>3. (\A r \in DOMAIN results : Foreign(results[r]) \/ PartOf(results[r], r, faults[r]))'
  BY <1>1 DEF ReadInv, Foreign, PartOf
<1> QED BY <1>1, <1>2, <1>3 DEF ReadInv

(* The verdict is one the comparison of what was read allows. *)
LEMMA ReadInvCompare ==
  ASSUME IInv, OtherTypes, ReadInv, CompareResults
  PROVE  ReadInv'
<1>1. /\ pc = "compare" /\ pc' = "returned" /\ verdict' \in Compare(types, results)
      /\ UNCHANGED <<oracle, id, input, types, results, faults, abandoned>>
  BY DEF CompareResults, history
<1>2. verdict' \in Compare(types, results)'
  BY <1>1, SameComparison
<1>3. (\A r \in DOMAIN results : Foreign(results[r]) \/ PartOf(results[r], r, faults[r]))'
  BY <1>1 DEF ReadInv, Foreign, PartOf
<1>4. \A j \in abandoned' : j \in Nat /\ j <= id'
  BY <1>1 DEF ReadInv
<1>5. Len(results') = Len(input') /\ Len(faults') = Len(input')
  BY <1>1 DEF ReadInv
<1> QED BY <1>1, <1>2, <1>3, <1>4, <1>5 DEF ReadInv

(* The remaining steps change neither the results read nor the verdict. *)
LEMMA ReadInvOther ==
  ASSUME ReadInv,
         \/ NewSeed \/ Return \/ RerunHang \/ SyncImport
         \/ HandleSkipreq \/ HandleStopSig \/ UNCHANGED vars
  PROVE  ReadInv'
<1>1. UNCHANGED <<oracle, id, input, types, results, fault, verdict, faults, abandoned>>
  BY DEF NewSeed, Return, RerunHang, SyncImport, HandleSkipreq, HandleStopSig,
         vars, history
<1>2. /\ pc' = pc \/ pc' \in {"idle"}
      /\ pc' = "ran" => UNCHANGED output
      /\ stop_soon => stop_soon'
  BY DEF NewSeed, Return, RerunHang, SyncImport, HandleSkipreq, HandleStopSig, vars, signals
<1>3. \A j \in abandoned' : j \in Nat /\ j <= id'
  BY <1>1 DEF ReadInv
<1>4. CASE pc' \in {"idle"}
  BY <1>3, <1>4 DEF ReadInv
<1>5. CASE pc' = pc
  <2>1. /\ (pc \in {"run", "ran", "compare"} => id \notin abandoned)'
        /\ (pc = "run" => Len(faults) = Len(results) /\ Len(results) < Len(input))'
        /\ (pc = "compare" => Len(results) = Len(input) /\ Len(faults) = Len(input))'
    BY <1>1, <1>5 DEF ReadInv
  <2>2. (pc = "ran" => /\ Len(faults) = Len(results) + 1 /\ Len(results) < Len(input)
                       /\ stop_soon \/ Foreign(output) \/ PartOf(output, Due, fault))'
    BY <1>1, <1>2, <1>5 DEF ReadInv, Foreign, PartOf, Due
  <2>3. Compare(types, results)' = Compare(types, results)
    BY <1>1, SameComparison
  <2>4. (pc = "returned" =>
           \/ Len(results) < Len(input)
           \/ /\ Len(results) = Len(input) /\ Len(faults) = Len(input)
              /\ verdict \in Compare(types, results))'
    BY <1>1, <1>5, <2>3 DEF ReadInv
  <2>5. (pc \in {"run", "ran", "compare", "returned"} =>
           \A r \in DOMAIN results : Foreign(results[r]) \/ PartOf(results[r], r, faults[r]))'
    BY <1>1, <1>5 DEF ReadInv, Foreign, PartOf
  <2> QED BY <1>3, <2>1, <2>2, <2>4, <2>5 DEF ReadInv
<1> QED BY <1>2, <1>4, <1>5

(* What every step keeps.                                                   *)
WholeInv == IInv /\ OtherTypes /\ FaultInv /\ ReadInv

(* All parts of the invariant together are inductive. *)
LEMMA WholeInvariance ==
  /\ Init => WholeInv
  /\ ExecAssumption /\ WholeInv /\ [Next]_vars => WholeInv'
<1>1. ASSUME Init PROVE WholeInv
  <2>1. IInv
    BY <1>1, InitInv
  <2>2. /\ caller = "perform_dry_run" /\ id = 0 /\ pc = "idle" /\ input = <<>> /\ types = <<>> /\ fault = "NONE"
        /\ verdict = "ALL_Error" /\ faults = <<>> /\ abandoned = {}
    BY <1>1 DEF Init
  <2>3. OtherTypes
    BY <2>2, ExecAssumption DEF OtherTypes, ExecAssumption
  <2>4. FaultInv /\ ReadInv
    BY <2>2 DEF FaultInv, ReadInv
  <2> QED BY <2>1, <2>3, <2>4 DEF WholeInv
<1>2. ASSUME ExecAssumption, WholeInv, [Next]_vars PROVE WholeInv'
  <2>1. IInv' /\ OtherTypes' /\ FaultInv'
    BY <1>2, IInvStays, OtherTypesStay, FaultStays DEF WholeInv
  <2>2. ReadInv'
    BY <1>2, ReadInvRun, ReadInvRead, ReadInvEnter, ReadInvAbandon, ReadInvCompare,
       ReadInvOther DEF Next, WholeInv
  <2> QED BY <2>1, <2>2 DEF WholeInv
<1> QED BY <1>1, <1>2

(* An input that is being executed is one of the oracle's, or a seed.       *)
LEMMA InputIs ==
  ASSUME ExecAssumption, IInv, OtherTypes, pc # "idle"
  PROVE  /\ input \in Seq(Seq(Text)) /\ types \in Seq(SelectType)
         /\ Len(input) \in {1, MulRunNum(oracle)}
<1>1. [runs |-> input, types |-> types] \in Inputs[oracle] \cup {Seed}
  BY DEF OtherTypes
<1>2. oracle \in Oracles
  BY DEF IInv, ExecTypes
<1>3. CASE [runs |-> input, types |-> types] \in Inputs[oracle]
  <2> DEFINE in == [runs |-> input, types |-> types]
  <2>1. in.runs = input /\ in.types = types
    OBVIOUS
  <2> HIDE DEF in
  <2>2. in \in Inputs[oracle]
    BY <1>3 DEF in
  <2>3. in \in [runs : Seq(Seq(Text)) \ {<<>>}, types : Seq(SelectType)]
    BY <1>2, <2>2 DEF ExecAssumption
  <2>4. Len(in.runs) = MulRunNum(oracle)
    BY <1>2, <2>2 DEF ExecAssumption
  <2> QED BY <2>1, <2>3, <2>4
<1>4. CASE [runs |-> input, types |-> types] = Seed
  <2>1. input = << <<>> >> /\ types = <<>>
    BY <1>4 DEF Seed
  <2> QED BY <2>1
<1> QED BY <1>1, <1>3, <1>4

(* What the runs of an input print, one after the other.                    *)
LEMMA CompleteIs ==
  ASSUME input \in Seq(Seq(Text)), id \in Nat
  PROVE  /\ DOMAIN Complete = 1..Len(input) /\ Len(Complete) = Len(input)
         /\ \A r \in 1..Len(input) : Complete[r] \in Seq(Line)
                                    /\ Complete[r] = Printed(id, r, input[r])
<1>1. /\ DOMAIN input = 1..Len(input) /\ Len(input) \in Nat
      /\ \A r \in 1..Len(input) : input[r] \in Seq(Text) /\ r \in Nat
  OBVIOUS
<1> DEFINE P(r) == Printed(id, r, input[r])
<1>2. \A r \in 1..Len(input) : P(r) \in Seq(Line)
  BY <1>1, PrintedLines
<1>3. Complete = [r \in 1..Len(input) |-> P(r)]
  BY <1>1 DEF Complete
<1> HIDE DEF P
<1>4. Complete \in Seq(Seq(Line)) /\ Len(Complete) = Len(input)
  BY <1>1, <1>2, <1>3
<1> QED BY <1>2, <1>3, <1>4 DEF P

(* What was read of an input without leftovers is what its runs print, each *)
(* cut short or not; and it is what was compared.                           *)
LEMMA CleanIsCutShort ==
  ASSUME ExecAssumption, WholeInv, ReadClean
  PROVE  /\ CutShort(results) /\ verdict \in Compare(types, results)
         /\ Settled => results = Complete
<1>1. /\ pc = "returned" /\ Len(results) = Len(input)
      /\ \A r \in DOMAIN results : ForeignIn(results[r]) = {}
  BY DEF ReadClean, Clean
<1>2. /\ Len(results) \in Nat /\ DOMAIN results = 1..Len(results)
      /\ Len(input) \in Nat /\ DOMAIN faults = 1..Len(faults) /\ id \in Nat
  BY Lengths DEF WholeInv
<1>3. Len(faults) = Len(input) /\ verdict \in Compare(types, results)
  <2>1. \/ Len(results) < Len(input)
        \/ Len(faults) = Len(input) /\ verdict \in Compare(types, results)
    BY <1>1 DEF WholeInv, ReadInv
  <2>2. ~ (Len(results) < Len(input))
    BY <1>1, <1>2
  <2> QED BY <2>1, <2>2
<1>4. /\ DOMAIN Complete = 1..Len(input)
      /\ \A r \in 1..Len(input) : Complete[r] \in Seq(Line)
                                 /\ Complete[r] = Printed(id, r, input[r])
  BY <1>2, CompleteIs DEF WholeInv, IInv, ExecTypes
<1>5. \A r \in 1..Len(input) : PartOf(results[r], r, faults[r])
  <2> TAKE r \in 1..Len(input)
  <2>1. r \in DOMAIN results /\ ~ Foreign(results[r])
    BY <1>1, <1>2 DEF ForeignIn, Foreign
  <2> QED BY <1>1, <2>1 DEF WholeInv, ReadInv
<1>6. CutShort(results)
  <2>1. \A r \in 1..Len(input) : Begins(results[r], Complete[r])
    BY <1>4, <1>5 DEF PartOf, Begins
  <2> QED BY <1>1, <1>2, <1>4, <2>1 DEF CutShort
<1>7. ASSUME Settled PROVE results = Complete
  <2>1. \A r \in 1..Len(input) : faults[r] = "NONE"
    BY <1>2, <1>3, <1>7 DEF Settled
  <2>2. \A r \in 1..Len(input) : results[r] = Complete[r]
    BY <1>4, <1>5, <2>1 DEF PartOf
  <2>3. results = [r \in 1..Len(input) |-> results[r]]
    BY <1>1, <1>2 DEF WholeInv, IInv, ExecTypes
  <2>4. Complete = [r \in 1..Len(input) |-> Complete[r]]
    <3>1. Complete = [r \in DOMAIN input |-> Printed(id, r, input[r])]
      BY DEF Complete
    <3> QED BY <1>4, <3>1
  <2> QED BY <2>2, <2>3, <2>4
<1> QED BY <1>3, <1>6, <1>7

(* A bug report on clean output is one on the whole output too, and the forms really differ. *)
LEMMA CleanFailIsTrue ==
  ASSUME ExecAssumption, WholeInv, ReadClean, verdict = "Fail"
  PROVE  /\ "Fail" \in Truth \/ SetAside
         /\ \E k \in DOMAIN Extract(Complete[1], 0) : Differs(k) \/ NeverWritten(k)
<1>1. CutShort(results) /\ "Fail" \in Compare(types, results)
  BY CleanIsCutShort
<1>2. /\ input \in Seq(Seq(Text)) /\ types \in Seq(SelectType)
      /\ Len(input) \in {1, MulRunNum(oracle)} /\ id \in Nat /\ Len(results) = Len(input)
      /\ oracle \in Oracles
  <2>1. pc # "idle" /\ Len(results) = Len(input)
    BY DEF ReadClean
  <2> QED BY <2>1, InputIs DEF WholeInv, IInv, ExecTypes
<1>3. /\ DOMAIN Complete = 1..Len(input) /\ Len(Complete) = Len(input)
  BY <1>2, CompleteIs
<1>4. MulRunNum(oracle) \in 1..3 /\ 1 \in DOMAIN Complete
  <2>1. MulRunNum(oracle) \in 1..3
    BY DEF MulRunNum
  <2> QED BY <1>2, <1>3, <2>1
<1>5. /\ Complete[1] \in Seq(Line) /\ Begins(results[1], Complete[1])
  BY <1>1, <1>4 DEF CutShort
<1>6. CASE oracle = "NOREC"
  <2>1. /\ Compare(types, results) = NorecVerdicts(Statements(results[1]))
        /\ Truth = NorecVerdicts(Statements(Complete[1]))
    BY <1>6, CompareIs DEF Truth
  <2> QED BY <1>1, <1>5, <1>6, <2>1, NorecCutShort
<1>7. CASE oracle = "TLP"
  <2>1. /\ Compare(types, results) = TlpVerdicts(types, Statements(results[1]))
        /\ Truth = TlpVerdicts(types, Statements(Complete[1]))
    BY <1>7, CompareIs DEF Truth
  <2> QED BY <1>1, <1>2, <1>5, <1>7, <2>1, TlpCutShort
<1>8. CASE oracle = "LIKELY"
  <2>1. /\ Compare(types, results) = LikelyVerdicts(types, Statements(results[1]))
        /\ Truth = LikelyVerdicts(types, Statements(Complete[1]))
    BY <1>8, CompareIs DEF Truth
  <2> QED BY <1>1, <1>2, <1>5, <1>8, <2>1, LikelyCutShort
<1>9. CASE oracle \in {"INDEX", "ROWID"}
  <2>1. /\ Len(results) # 1
        /\ "Fail" \in CountedVerdicts(types, FirstStatement(results))
    BY <1>1, <1>9, CompareIs
  <2>2. /\ "Fail" \in CountedVerdicts(types, FirstStatement(Complete))
        /\ \E k \in DOMAIN Extract(Complete[1], 0) : Differs(k) \/ NeverWritten(k)
    BY <1>1, <1>2, <1>4, <1>9, <2>1, CountedCutShort
  <2>3. SetAside \/ Truth = CountedVerdicts(types, FirstStatement(Complete))
    <3>1. ~ (oracle = "ROWID" /\ Constrained(Complete)) \/ SetAside
      BY DEF SetAside
    <3>2. Len(Complete) # 1
      BY <1>2, <1>3, <2>1
    <3> QED BY <1>9, <3>1, <3>2, CompareIs DEF Truth
  <2> QED BY <2>2, <2>3
<1>10. CASE oracle = "OPT"
  <2>1. /\ Len(results) # 1
        /\ "Fail" \in OptVerdicts(FirstStatement(results))
    BY <1>1, <1>10, CompareIs
  <2>2. Len(Complete) # 1 /\ DOMAIN Complete = 1..3
    <3>1. Len(input) = 3
      BY <1>2, <1>10, <2>1 DEF MulRunNum
    <3> QED BY <1>3, <3>1
  <2>3. Truth = OptVerdicts(FirstStatement(Complete))
    BY <1>10, <2>2, CompareIs DEF Truth
  <2> QED BY <1>1, <1>10, <2>1, <2>2, <2>3, OptCutShort
<1> QED BY <1>2, <1>6, <1>7, <1>8, <1>9, <1>10 DEF Oracles

(* CleanVerdictIsRight holds in every state: no timeout and no crash makes  *)
(* a report of selects that agree, whatever the oracle, the input and the   *)
(* point at which a run was cut short.                                      *)
THEOREM CleanVerdictsAreRight == Spec => []CleanVerdictIsRight
<1>1. Init => WholeInv
  BY WholeInvariance
<1>2. WholeInv /\ [Next]_vars => WholeInv'
  BY ExecAssumption, WholeInvariance
<1>3. WholeInv => CleanVerdictIsRight
  <2> SUFFICES ASSUME WholeInv PROVE CleanVerdictIsRight
    OBVIOUS
  <2>1. ReadClean /\ verdict = "Fail" =>
          /\ "Fail" \in Truth \/ SetAside
          /\ \E k \in DOMAIN Extract(Complete[1], 0) : Differs(k) \/ NeverWritten(k)
    BY ExecAssumption, CleanFailIsTrue
  <2>2. ASSUME Settled PROVE verdict \in Truth
    <3>1. ReadClean
      BY <2>2 DEF Settled
    <3>2. results = Complete /\ verdict \in Compare(types, results)
      BY <2>2, <3>1, ExecAssumption, CleanIsCutShort
    <3> QED BY <3>2 DEF Truth
  <2> QED BY <2>1, <2>2 DEF CleanVerdictIsRight
<1> QED BY <1>1, <1>2, <1>3, PTL DEF Spec

---------------------------------------------------------------------------
(* What was read of the first run, statement by statement.                  *)
LEMMA FirstRead ==
  ASSUME WholeInv, 1 \in DOMAIN results
  PROVE  /\ Statements(results[1]) \in [1..3 -> Results]
         /\ Statements(results[1])[1] = Extract(results[1], 0)
<1>1. results[1] \in Seq(Line)
  BY DEF WholeInv, IInv, ExecTypes
<1>2. \A v \in 1..3 : Extract(results[1], v - 1) \in Results
  BY <1>1, ExtractType DEF Results
<1> QED BY <1>2 DEF Statements

(* A bug report on a whole output is seen by the bisecting tool, within its reach. *)
LEMMA FailIsSeen ==
  ASSUME ExecAssumption, WholeInv, Settled, verdict = "Fail", Len(types) = 1,
         Len(Extract(results[1], 0)) = 1, ~ OutOfToolsReach(types[1], Forms(results, 1))
  PROVE  ToolVerdict(oracle, types[1], Forms(results, 1)) = "FAIL"
<1> DEFINE rs == Forms(results, 1)
<1>1. "Fail" \in Compare(types, results)
  BY CleanIsCutShort DEF Settled
<1>2. /\ input \in Seq(Seq(Text)) /\ types \in Seq(SelectType)
      /\ Len(input) \in {1, MulRunNum(oracle)} /\ Len(results) = Len(input)
      /\ results \in Seq(Seq(Line))
  <2>1. pc # "idle" /\ Len(results) = Len(input)
    BY DEF Settled, ReadClean
  <2> QED BY <2>1, InputIs DEF WholeInv, IInv, ExecTypes
<1>3. 1 \in DOMAIN results /\ DOMAIN results = 1..Len(results)
  <2>1. MulRunNum(oracle) \in 1..3
    BY DEF MulRunNum
  <2> QED BY <1>2, <2>1
<1> DEFINE s == Statements(results[1])
<1>4. /\ s \in [1..3 -> Results] /\ s[1] = Extract(results[1], 0)
  BY <1>3, FirstRead
<1>5. DOMAIN types = {1} /\ types[1] \in SelectType
  <2>1. DOMAIN types = 1..1 /\ 1..1 = {1}
    BY <1>2
  <2>2. \A k \in DOMAIN types : types[k] \in SelectType
    <3>1. types \in Seq(SelectType)
      BY <1>2
    <3> QED BY <3>1
  <2> QED BY <2>1, <2>2
<1>6. DOMAIN Extract(results[1], 0) = {1}
  <2>1. Extract(results[1], 0) \in Seq(Seq(Text))
    BY <1>4 DEF Results
  <2>2. DOMAIN Extract(results[1], 0) = 1..1 /\ 1..1 = {1}
    BY <2>1
  <2> QED BY <2>2
<1>7. oracle \in {"NOREC", "TLP", "OPT"}
  BY DEF OutOfToolsReach
<1> HIDE DEF s
<1>8. CASE oracle = "NOREC"
  <2>1. "Fail" \in NorecVerdicts(s)
    BY <1>1, <1>8, CompareIs DEF s
  <2>2. PICK k \in DOMAIN s[1] \cap DOMAIN s[2] : Numbers({s[1][k], s[2][k]}) = "Fail"
    BY <1>4, <2>1, NorecFails
  <2>3. 1 \in DOMAIN s[1] /\ 1 \in DOMAIN s[2] /\ Numbers({s[1][1], s[2][1]}) = "Fail"
    BY <1>4, <1>6, <2>2
  <2>4. rs = [v \in 1..2 |-> s[v][1]]
    BY <1>8, FormsAre DEF s
  <2>5. DOMAIN rs = 1..2 /\ rs[1] = s[1][1] /\ rs[2] = s[2][1]
    BY <2>4
  <2>6. rs[1] \in Seq(Text) /\ rs[2] \in Seq(Text)
    BY <1>4, <2>3, <2>5 DEF Results
  <2> HIDE DEF rs
  <2>7. ~ OutOfToolsReach(types[1], rs)
    BY DEF rs
  <2>8. /\ \A v \in DOMAIN rs : Len(rs[v]) = 1
        /\ rs[1][1].kind = "row"
        /\ \A row \in UNION {RowsAt(rs[v], DOMAIN rs[v]) : v \in DOMAIN rs} : row.n # -1
    BY <1>8, <2>7 DEF OutOfToolsReach
  <2>9. Len(rs[1]) = 1 /\ Len(rs[2]) = 1
    BY <2>5, <2>8
  <2>10. rs[1][1].n # -1 /\ rs[2][1].n # -1
    <3>1. 1 \in DOMAIN rs[1] /\ 1 \in DOMAIN rs[2] /\ 1 \in DOMAIN rs /\ 2 \in DOMAIN rs
      BY <2>5, <2>6, <2>9
    <3>2. \A v \in DOMAIN rs : \A j \in DOMAIN rs[v] :
            rs[v][j] \in UNION {RowsAt(rs[u], DOMAIN rs[u]) : u \in DOMAIN rs}
      BY DEF RowsAt
    <3> QED BY <2>8, <3>1, <3>2
  <2>11. SameNumber(rs[1], rs[2]) = "FAIL"
    BY <2>3, <2>5, <2>6, <2>8, <2>9, <2>10, ToolSeesNorec
  <2>12. ToolVerdict(oracle, types[1], rs) = SameNumber(rs[1], rs[2])
    BY <1>8 DEF ToolVerdict
  <2> QED BY <2>11, <2>12 DEF rs
<1>9. CASE oracle = "TLP"
  <2>1. "Fail" \in TlpVerdicts(types, s)
    BY <1>1, <1>9, CompareIs DEF s
  <2>2. PICK k \in DOMAIN types \cap DOMAIN s[1] \cap DOMAIN s[2] :
           TlpOutcome(types[k], s[1][k], s[2][k]) = "Fail"
    BY <1>2, <1>4, <2>1, TlpFails
  <2>3. /\ 1 \in DOMAIN s[1] /\ 1 \in DOMAIN s[2]
        /\ TlpOutcome(types[1], s[1][1], s[2][1]) = "Fail"
    BY <1>5, <2>2
  <2>4. rs = [v \in 1..2 |-> s[v][1]]
    BY <1>9, FormsAre DEF s
  <2>5. DOMAIN rs = 1..2 /\ rs[1] = s[1][1] /\ rs[2] = s[2][1]
    BY <2>4
  <2>6. rs[1] \in Seq(Text) /\ rs[2] \in Seq(Text)
    BY <1>4, <2>3, <2>5 DEF Results
  <2> HIDE DEF rs
  <2>7. ~ OutOfToolsReach(types[1], rs)
    BY DEF rs
  <2>8. ToolVerdict("TLP", types[1], rs) = "FAIL"
    BY <1>5, <1>9, <2>3, <2>5, <2>6, <2>7, ToolSeesTlp
  <2> QED BY <1>9, <2>8 DEF rs
<1>10. CASE oracle = "OPT"
  <2>1. Len(results) # 1 /\ "Fail" \in OptVerdicts(FirstStatement(results))
    BY <1>1, <1>10, CompareIs
  <2>2. DOMAIN results = 1..3
    <3>1. Len(results) = 3
      BY <1>2, <1>10, <2>1 DEF MulRunNum
    <3> QED BY <1>3, <3>1
  <2> DEFINE w == FirstStatement(results)
  <2>3. /\ DOMAIN w = 1..3
        /\ \A r \in 1..3 : w[r] = Extract(results[r], 0) /\ w[r] \in Results
    <3>1. \A r \in 1..3 : Extract(results[r], 0) \in Results
      <4>1. \A r \in 1..3 : results[r] \in Seq(Line)
        <5>1. results \in Seq(Seq(Line))
          BY <1>2
        <5> QED BY <2>2, <5>1
      <4> QED BY <4>1, ExtractType DEF Results
    <3> QED BY <2>2, <3>1 DEF FirstStatement
  <2> HIDE DEF w
  <2>4. PICK k \in DOMAIN w[1] : InAll(w, k) /\ OptOutcome(w[1][k], w[2][k], w[3][k]) = "Fail"
    BY <2>1, OptFails DEF w
  <2>5. k = 1
    BY <1>6, <2>3, <2>4
  <2>6. \A r \in 1..3 : w[r][1] \in Seq(Text)
    <3> TAKE r \in 1..3
    <3>1. 1 \in DOMAIN w[r]
      BY <2>3, <2>4, <2>5 DEF InAll
    <3> QED BY <2>3, <3>1 DEF Results
  <2>7. Len(w[1][1]) # Len(w[2][1]) \/ Len(w[2][1]) # Len(w[3][1])
    BY <2>4, <2>5, <2>6, OptOutcomeFails
  <2>8. rs = [r \in 1..3 |-> Extract(results[r], 0)[1]]
    BY <1>10, <2>2, FormsAre
  <2>9. DOMAIN rs = 1..3 /\ \A r \in 1..3 : rs[r] = w[r][1]
    BY <2>3, <2>8
  <2> HIDE DEF rs
  <2>10. rs[1] # rs[2] \/ rs[2] # rs[3]
    BY <2>7, <2>9
  <2>11. Agree(rs) = "FAIL"
    <3>1. 1 \in DOMAIN rs /\ 2 \in DOMAIN rs /\ 3 \in DOMAIN rs
      BY <2>9
    <3> QED BY <2>10, <3>1, AgreeFails
  <2>12. ToolVerdict(oracle, types[1], rs) = Agree(rs)
    BY <1>10 DEF ToolVerdict
  <2> QED BY <2>11, <2>12 DEF rs
<1> QED BY <1>7, <1>8, <1>9, <1>10

(* FailReproduces holds in every state: the bisecting tool, run on the      *)
(* version that was fuzzed, sees the disagreement of a report of one select,*)
(* but for the cases OutOfToolsReach lists.                                 *)
THEOREM FailuresReproduce == Spec => []FailReproduces
<1>1. Init => WholeInv
  BY WholeInvariance
<1>2. WholeInv /\ [Next]_vars => WholeInv'
  BY ExecAssumption, WholeInvariance
<1>3. WholeInv => FailReproduces
  BY ExecAssumption, FailIsSeen DEF FailReproduces
<1> QED BY <1>1, <1>2, <1>3, PTL DEF Spec
=============================================================================
