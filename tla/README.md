# SQLRight: specifications, model checking and proofs

SQLRight looks for logical bugs in SQLite, MySQL and PostgreSQL. For each of
them it carries its own copy of AFL (`afl-fuzz.cpp`), extended with an SQL
mutator and with *oracles*: a statement is run together with a transformed
form of it that must give the same rows, and a disagreement is written out as
a bug report. Reports are then bisected over the history of the DBMS and
deduplicated by the commit that introduced them.

This directory holds TLA+ models of the parts of SQLRight in which the order
of events matters, TLC configurations that check them on small instances, and
TLAPS proofs for every size. Paths below are relative to the repository.

    cd tla
    tlc -config SqliteBisect_search.cfg MCSqliteBisect.tla   # any row of "Runs"
    tlapm MysqlHostProofs.tla                                # any *Proofs module

## 1. Inventory

State, operations and interactions of each component, what makes it hard, and
what makes it correct. *Modelled in* names the modules; `PROJECT.json` has the
same list with a status, and under `map` the lines behind every definition.

### SQLite

**Bisecting tool** (`SQLite/docker/bisecting`: `__main__.py`,
`helper/bisecting.py`, `helper/version_control.py`, `helper/executor.py`).
State: a build directory per commit, `fail_compiled_commits.txt`, the commit
bounds of the search, the table of unique bugs. Operations: take the next
report; scan the release tags from the newest; halve between two commits; check
out, build (or use the cached build) and run a commit; record a failed build;
deduplicate. Calls git, make and sqlite3; reads what the fuzzer wrote.
*Hard*: a commit may be buggy, correct, crash, print nothing, time out or not
build, the operator may kill the tool during a build, and its files survive.
*Correct when*: the commit named buggy was seen to be buggy and is newer than a
commit seen not to be; it is the introducing commit if the history is monotone;
no failed build is repeated; the ledger agrees with the reports.
*Modelled in* `SqliteBisect`, abstractly in `CommitBracket`.

**Oracles of the bisecting tool** (`bisecting/ORACLE/*.py`). Pure functions
from output text to a result: a second implementation, in another language, of
the comparison a report came from. *Hard*: a disagreement the fuzzer reported is
lost if this one does not see it. *Correct when*: it does, on the version that was
fuzzed. Only NOREC, TLP and OPT are ever used: `__main__.py` gives the reports
of every other oracle to OPT, which wants three runs and finds too few.
*Modelled in* `BisectOracles` (rows) and `SqliteBisect` (errors, missing results).

**Execution pipeline** (`afl-fuzz.cpp`: `execute_cmd_string`, `common_fuzz_stuff`,
`calibrate_case`, `save_if_interesting`, `compare_query_result`,
`extract_query_result`). State: one output file shared with the fork server, the
results read so far, `skip_requested`, `stop_soon`, `subseq_tmouts`.
Operations: run each variant of an input, read and empty the file, cut the
results out between marks, compare, report, keep crashes and hangs.
*Hard*: SIGUSR1 and stop signals at any step, early returns between the run and
the read, several runs per input. *Correct when*: results compared come from the
input they are attributed to; a timeout or crash is not a bug report; a seed is given
up for a full row of timeouts only. *Modelled in* `SqliteExec`.

**Fork server protocol** (`afl-fuzz.cpp`: `init_forkserver`, `run_target`,
`handle_timeout`, `handle_stop_sig`; `afl-as.h`). State: two pipes, `child_pid`,
`child_timed_out`, the interval timer. *Hard*: two processes, a timer and
signal handlers that use a pid read by the main program. *Correct when*: a
result is about the child of this run, the timer kills no other child, a run
returns, no child is left behind. *Modelled in* `ForkServer`.

**Seed queue** (`afl-fuzz.cpp`: `add_to_queue`, `update_bitmap_score`,
`cull_queue`, `perform_dry_run`, `fuzz_one`, the main loop). State: queue
entries with their reference-counted traces, `top_rated`, counters. *Hard*: one
fact is kept in four places (slot, reference count, trace, counter) and
updated incrementally; skipping is probabilistic. *Correct when*: these agree in
every state and every seed is fuzzed eventually. *Modelled in* `SeedQueue`.

**Mutator, IR and library** (`src/src/mutator.cpp`, `ir_wrapper.cpp`, `ast.cpp`,
`utils.cpp`). Parses SQL into a tree, mutates subtrees, fixes names to match a
schema model, keeps a library of fragments. Single-threaded, mostly pure tree
rewriting. Modelled are only the marks it puts around results and the string
helpers of the oracles.

**Oracles of the fuzzer** (`src/oracle/sqlite_*.cpp`). Append transformed
selects, then compare rows, counts or aggregates of up to three forms. *Hard*: six
`compare_results` that differ in small ways, with verdicts left unwritten and
types read past the end of a vector. *Correct when*: a bug report is about a
select whose forms really differ. *Modelled in* `OracleText` (what a result
is) and `FuzzerOracles` (the comparisons); the rewriting of selects is not.

**Synchronisation with other fuzzers** (`afl-fuzz.cpp`: `sync_fuzzers`). A step
of `SeedQueue` that adds seeds, one of `SqliteExec` that executes. Its `.synced`
files are not modelled: no launcher passes `-M` or `-S`, so it never runs.

**Launcher** (`fuzz_root/run_parallel.py`). Starts N independent fuzzers; no
shared state but disk. Not modelled.

### MySQL

**Client** (`MySQL/docker/src/AFL/afl-fuzz.cpp`: class `MysqlClient`,
`run_target`). State: the connection `m_`, `timeout_id`, `is_timeout`, one
detached thread per execution; the server's sessions and database. Operations:
connect (retry until it works), reset the database, send statements, check that
the server lives, time out, kill the session. *Hard*: threads of several
executions alive at once, sessions named by number, a server that may go down
at any step, or that an input leaves running but refusing sessions or statements.
*Correct when*: inputs start on an empty database or say that they did not, statuses
are true or can be traced to such an input, a thread kills its own session only,
every execution returns.
*Modelled in* `MysqlClient`, against `MysqlServer`.

**Launcher and rebooter** (`fuzz_root/run_parallel.py`, `mysql_rebooter.py`, the
loop in `scripts/run_sqlright_mysql_fuzzing_helper.sh`, `setup_shm`). State:
server processes and data directories, `shm_env.txt`, the list of memory ids.
Operations: launch, ask for shutdown, pkill, check, restore, restart. *Hard*:
one file hands over an id per fuzzer, servers shut down at their own pace, copies
fail, an exception ends a round. *Correct when*: each instance implements
`MysqlServer` and records coverage where its own fuzzer looks.
*Modelled in* `MysqlHost`.

**Fuzzer core** (the rest of its `afl-fuzz.cpp`). The queue is the code of the
SQLite fuzzer with other calls; not modelled a second time.

**Bisecting tool** (`MySQL/bisecting/bisecting/bisecting_scripts`: `analysis.py`,
`bisecting.py`, `mysql.py`, `reports.py`, `utils.py`). State: prebuilt
installations of every commit with a data directory each, one mysqld at a time,
the bounds of the search, the table of accused commits, bug files, `time.txt`.
Operations: take the next sample; for each select halve between the newest and the
oldest commit; per commit stop servers, restore the data, start the server, ask;
register the commit, write or refuse the bug file. *Hard*: `pkill` and start do not
wait, so a server of another commit or none may answer; installations may be
incomplete or missing; neither end of the history is ever run; a commit is
registered before its file is written. *Correct when*: as for SQLite, if servers
come and go in time; ids, files and `time.txt` always agree; every sample is dealt
with. *Modelled in* `MysqlBisect`, a second implementation of `CommitBracket`.

**Binary cache builder** (`MySQL/bisecting/bisecting_cache_binaries`). A linear
script of git and make calls; not modelled, but what it may leave behind (no
directory, an empty one, one without binaries) is an input of `MysqlBisect`. A copy
that is interrupted leaves `bin/mysql`, which the next call takes for finished.

**Oracles, mutator, parser** (`docker/src/oracle`, `docker/src/src`,
`docker/src/parser`). As for SQLite; not modelled.

**Vendored AFL** (`MySQL/docker/AFL`). Third-party; not modelled.

### PostgreSQL

**Client** (`PostgreSQL/docker/src/AFL/afl-fuzz.cpp`: class `PostgresClient`).
One synchronous call after another on one connection; timeouts are the server's
`statement_timeout` and a wall-clock check followed by PQcancel. No timeout
threads and nothing that restarts a server (a connection that is refused ends the
execution as `kConnectFailed`, and so does every later one), so what makes
`MysqlClient` hard has no counterpart here. Not modelled.

**Launcher, fuzzer core, oracles, mutator, options generator**. As above; the
launcher never restarts a server (its monitoring is commented out). Not modelled.

### Scripts

`*/scripts` (minimisers, report parsers, statistics, shell wrappers): offline
tools without state of their own. Not modelled.

## 2. How the code is turned into modules

| module | stands for | proofs |
|---|---|---|
| `CommitBracket` | what a bisection promises: a known-buggy and a known-good commit that only move towards each other | with its implementations |
| `SqliteBisect` | the SQLite bisecting tool | `SqliteBisectProofs` |
| `MysqlBisect` | the MySQL bisecting tool and its servers | `MysqlBisectProofs` |
| `OracleText` | what sqlite3 prints for a select, and the types of selects | `OracleProofs` |
| `FuzzerOracles` | `compare_results` of the fuzzer's six oracles | `OracleProofs` |
| `BisectOracles` | the comparison of the SQLite bisecting tool | `OracleProofs` |
| `SqliteExec` | execution, output file, marks, verdict, bug report | `SqliteExecProofs` |
| `SeedQueue` | calibration, culling, `fuzz_one`, the queue cycle | `SeedQueueProofs` |
| `ForkServer` | the two processes, pipes, timer, signal handlers | `ForkServerProofs` |
| `MysqlServer` | what the MySQL client may assume of a server | |
| `MysqlClient` | one fuzzer, its timeout threads, one server | `MysqlClientProofs` |
| `MysqlHost` | launcher, rebooter, all servers | `MysqlHostProofs` |

`MC<module>` instantiates a module for TLC. Three refinements connect them:
`SqliteBisect` and `MysqlBisect` implement `CommitBracket` (property
`BracketSpec` of each), and `MysqlHost` implements one `MysqlServer` per instance (`ServersServe`,
`ServersReturn`), the module whose behaviours `MysqlClient` meets through its
actions `GoDown` and `ComeUp`.

Variables keep the names of the code. The correspondence, module by module:

* **SqliteBisect.** A commit is its position in `all_commits_hexsha`. `build`
  is the directory `bld/<hexsha>` (absent, without or with `sqlite3`);
  `failFile` and `failed` are the file and its copy in memory. An action is a
  stretch of `bi_secting_commits` between two effects that outlive the process
  (start of a build, its end, the decision), so that `Restart` can fall
  between them. The oracle and what a query does on a commit are drawn once, in `Init`.
* **MysqlBisect.** A commit is its index in `sorted_commits.json`, 0 the newest
  (the comment "Approximate towards 0 (older)" has it the other way round). An
  action is one call that another process can interfere with: `StopServers`
  (pkill), `RestoreData`, `LaunchServer`, `AskServer` after the two seconds;
  `StopsListening`, `Exits` and `ComesUp` are what mysqld does meanwhile, and
  whoever listens answers. `CrossCompare` is `start_bisect` with `dump_unique_bugs`:
  the commit is registered first, then a file is written if a pattern not yet
  used matches or `--non-deter` is given. `world` holds what does not change in a
  run: histories, installations, whether servers are in time, the option.
* **OracleText, FuzzerOracles, BisectOracles.** Operators without state. A
  result is a sequence of rows: a number, a real, a word, blank (one NULL), bars
  (several), or an error. What C++ leaves undefined (a verdict
  never written, a type read past the end of a vector) makes the verdicts of an
  input a set. Statements of one run and runs of one statement are two shapes of
  the same comparison, chosen by `MulRunNum`.
* **SqliteExec.** The output file is a sequence of lines tagged with the input
  and run that printed them; the tags are history the code does not have.
  The verdict is any of those `FuzzerOracles` allows. Actions follow the statements of
  `execute_cmd_string`: run, early returns, read-and-empty, compare, return.
  `caller` says for whom inputs are executed (dry run, calibration of the seed taken,
  its mutations, an import), which decides what may come next: a seed is mutated only
  if its calibration ended without a fault. `faults`, `recent` and `abandoned` are history.
* **SeedQueue.** A seed is its position in the queue. `Wins`, `Released` and
  `Scored` are the pieces of `update_bitmap_score`, `Picked` and `Favored` those
  of `cull_queue`; the dice of `fuzz_one` are a choice between `VisitSeed` and
  `SkipSeed`. Coverage is a set of bytes, `exec_us * len` one number.
* **ForkServer.** One action per system call on each side, handlers in between.
* **MysqlClient.** One action per round trip to the server or per access to
  the variables shared with the threads (`ArmTimer`, `Finish`, `TimerWakes`
  under the mutex, `TimerLooks` outside it). `alive` is the server's view of the
  session behind `m_`; `born`, `timer[k].life`, `disturbed`, `caused` and `unreset` are
  history. What an input may leave behind on a live server is a set of four troubles
  (`Degrade`): no login, `test_init` dropped, one session at a time, statements of the
  reset refused. Each decides which of the four connections of the code are refused
  (`Admits` before execute has its session, `Free` beside it) and whether a reset or
  `fix_database` empties the database, leaves it, or leaves it dropped (`Repair`). A failed reset
  is noted in the result and the input runs all the same.
* **MysqlHost.** One action per step of either script; a server is `up`, `told`
  to shut down but answering, `closing`, or `down`. Clocks are left out: which
  instance is due for a polite shutdown is any choice.

## 3. Runs

Every run ends within three minutes on two cores.

| run | instance | what it shows |
|---|---|---|
| `bisect_search` | 5 commits, tags 1, 2, 5, at most one broken build. OPT: all 4^5 histories of agree, differ, late, crash. TLP: two reports and one kill at any step. NOREC, LIKELY, INDEX, ROWID: histories that turn once, with one odd commit | bounds narrow and examine only commits strictly inside, the bracket is sound, exact on monotone histories, evidence belongs to the commit reported if that one compiles, the ledger agrees with the reports, recorded failures survive and are not rebuilt, every report is settled unless an exception ends the tool, and `CommitBracket` is implemented |
| `bisect_crossed` | 3 commits, crashes allowed on tags | **violated**: finding 1 |
| `exec_runs` | 2 inputs of each of the six oracles (34 in all: rows lost, NULL rows, doubled rows, errors, aggregates, too many rows, more results than types, constraints), a skip, a stop, timeouts, crashes | foreign output comes from abandoned inputs only, reaches only a first run; without it a report is of a real difference even if runs were cut short, the verdict on whole output is one the oracle allows, and the bisecting tool sees a report too, apart from the cases `OutOfToolsReach` names; a run is given up unread exactly after TMOUT_LIMIT + 2 timeouts in a row on one seed |
| `exec_mixed` | inputs that agree with themselves | **violated**: finding 2 |
| `exec_likely` | 1 input of LIKELY | **violated**: finding 5 |
| `queue_cycles` | 2 seeds and a find, 3 bytes, 2 speeds | reference counts, traces, cover and counters agree; slots improve; no seed starves |
| `queue_cover` | 1 seed, 2 bytes | **violated**: finding 3 |
| `fork_runs` | 3 runs, a stop | results are about their own run, the timer kills its own run, runs return |
| `fork_stop` | 1 run, a stop | **violated**: finding 4 |
| `client_runs` | 3 executions, two upsets: the server goes down, or an input leaves it in a trouble | what stale timeout threads can and cannot do; an input starts on an empty database or on one whose failed resets its result and those before it show; a crash is reported of a server that was down, or after an input that keeps sessions out; every execution returns |
| `host_rounds` | 2 instances | ids are not mixed, every instance implements `MysqlServer` (N = 3 passes as well, in four minutes) |
| `mysql_bisect` | 6 commits, 2 samples with 3 selects; in time: all histories of one select between its assumed ends, and a commit with an empty or no directory; late: three histories and every order of stopping, listening and coming up | in time the reports are right; in all: the search implements `CommitBracket`, ids, bug files and `time.txt` agree, and every sample is dealt with unless a server lingers or a directory is missing |

**Why the bounds suffice.** *Bisect*: with tags 1, 2 and 5 the scan meets a
newest, a middle and an oldest tag and leaves a gap that is halved twice, so both
roundings of the midpoint and every result on either side occur; one broken
build is enough to make a bound move over a commit that was never run; a kill
meets TLP because its two reports can accuse the same commit and share a
recorded failure. *MySQL bisect*: six commits are halved two or three times,
with even and odd sums of the bounds; a later select finds the servers, the
accused commits and the used patterns of earlier ones, of its own sample and of
another. *Exec*: an abandoned input needs one successor to be polluted, and its second run shows
that pollution ends; TMOUT_LIMIT 0 is passed by two timeouts in a row. A limit of 5 pieces
stands for the 50 of the code.
*Queue*: two seeds compete for a byte, one loses its last reference, a third is
added while they are pending. *Fork*: a late timer or a late status needs a
next run, the third shows it does not travel further. *Client*: a thread of the first
execution meets the second, and after a crash also the third; session
numbers restart twice, or a trouble of the first execution meets two more and then
the reboot that ends it (an upset is left for that reboot). *Host*: an instance that fails and one after it.

**Deadlock** is checked in `host_rounds`. In the others the system stops by
a bound, because its work is done, or because the program ends.

**Fairness.**
* `SqliteBisect!AnchoredSpec`: weak fairness of the single process; each subprocess
  ends (sqlite3 has a 3 s timeout). Kills are bounded by `MaxRestarts`. The
  histories are those in which a crashing tag cannot cross the bounds (finding 1).
* `MysqlBisect`: weak fairness of the tool, all of whose calls have a timeout or
  return, and of the mysqld processes: one that gets SIGTERM ends, one that is
  started comes up or aborts.
* `SeedQueue!FairSpec`: weak fairness of the loop and, for each seed, strong
  fairness of being visited rather than skipped: `fuzz_one` throws dice with
  at most 99 % for skipping on every visit, so skipping for ever has
  probability zero.
* `ForkServer`: both processes run and the interval timer fires. Nothing
  makes a child end by itself.
* `MysqlClient`: the main thread and the timeout threads are scheduled, and the
  server comes back, which `host_rounds` shows of the rebooter. A server in trouble is
  taken down eventually: the rebooter runs `pkill mysqld` in every round, whatever the
  servers say, and restores the data directory of those that are gone.
* `MysqlHost`: scripts and fuzzers run (the shell loop repeats), a server told
  to shut down ends, and copying the data does not fail for ever (strong
  fairness, since rounds come and go).

**Findings**, each with the words it contradicts in `PROJECT.json`:
1. A tag on which sqlite3 crashes becomes the "correct" bound while the scan
   goes on to older tags; the result can name a correct commit newer than the
   buggy one.
2. An input abandoned on a skip request, or past the timeout limit, leaves its
   output in the file; the next input is compared over both.
3. With inline calibration commented out, a new input clears `virgin_bits` but
   never competes for a slot: favored seeds do not cover all bits seen.
4. A stop signal between fork and the read of the pid leaves the child running.

5. `SQL_LIKELY::compare_norm` counts newlines by comparing characters to the address
   of a string: a row that a LIKELY hint loses is never reported.

**Met on the way**, and modelled as the code has it:
* Reports of LIKELY, INDEX and ROWID are bisected with OPT, which calls every
  commit an error; `bash run_sqlite_bisecting.sh SQLRight --oracle LIKELY`
  (`DEVELOPMENT.md:164`) therefore settles nothing.
* `SQL_TLP::compare_norm` clears the rows before it asks whether they are all 0, so one
  row on the left passes against any number on the right.
* `SQL_INDEX` and `SQL_ROWID` write `==` for `=` in the default case: the verdict on
  a select of unknown type is whatever was in memory, a bug report included
  (`NeverWritten` excepts it). Their and LIKELY's aggregates are never recognised.
* An input is set aside when its results and types differ in number (`SQL_TLP`) or when
  a ROWID constraint error was printed (`SQL_ROWID`). Cut short before that shows, it
  is compared and may be reported (`SetAside`); the difference is real all the same.
* `SQL_LIKELY` reads a type past the end of its vector for a select it found no
  type for, and may compare it by rows or by number (`Untyped`).
* The bisecting tool leaves AVG at 0, MAX at 0 or more, refuses aggregates that are
  no integers and skips rows that hold `|` and spaces only; the fuzzer does not.
* The MySQL tool drops results without rows, so a select that loses all of its
  rows counts as an error, and its commit as correct.
* An input that drops `test_init` or limits root to one session makes every execution
  of its fuzzer a reported crash until the next reboot; under such a limit, or when the
  statements of `reset_database` fail, inputs run on what earlier ones left.
* Both ends of the MySQL history are assumed: a select that fails everywhere
  accuses the second oldest commit, one that never fails the newest, without evidence.

**Mutants.** Each property of a passing run has a mutant (`PROJECT.json`): an
operator next to the one it replaces, marked `\* mutant`, with which TLC finds
the property violated.

## 4. Proofs

Every safety invariant and every action property that a passing run checks, and the
safety part of all three refinements, is also a theorem: it holds for every
value of the constants that satisfies the assumption of the module (tlapm, with SMT, Zenon
and LS4). The constants are free: commits, tags, reports, seeds, bytes, runs,
executions, instances, the limits that bound the counters. `PROJECT.json` lists the
theorems under `theorems`. Each module proves one
inductive invariant, a conjunction of named parts, with one lemma per action, and
reads its theorems off it.

**`SqliteBisectProofs`**, invariant `SearchInv`, assuming `BisectAssumption` (tags are
commits, histories are total).
* `BoundsCorrect` (types, and the halving examines only commits strictly between
  the bounds) comes first: the bounds are ordered commits, and the midpoint of two
  numbers more than one apart lies between them.
* `BracketIsSound`, `ExactOnMonotoneHistories`: what makes the properties
  inductive is what the scan knows of the tags it has passed (`ScanInv`: none was seen
  to fail as long as the newer bound is missing, all count as buggy as long as the
  older one is), and that a result
  waiting to be acted on is that of the commit examined (`ResultInv`).
* `EvidenceIsOfTheAccused`: the last buggy result belongs to the newer bound, whenever
  the commit there compiles. One that does not moves the bound and leaves the strings, so
  a report that accuses it shows those of another commit.
* `LedgerIsConsistent`: an entry is counted once per report that accuses it. Adding
  a report adds one element to a finite set (`FS_AddElement`).
* `FailuresAreNotRebuilt`: an action property. A build starts only for a commit
  that was looked up in `failed`, and `failed` is `failFile` whenever a commit is
  examined (`FailuresInv`), because every search reads the file anew.
* `SqliteImplementsBracket`: from `AnchoredSpec` (finding 1 shows why not from `Spec`), every
  step moves one bound inwards to a commit of its side, opens or closes a search, or
  stutters.

**`MysqlBisectProofs`**, invariants `MysqlInv` and `LedgerInv`, assuming
`MysqlBisectAssumption` (at least two commits).
* `MysqlBisectTypes`, `MysqlReportsAreRight`: while a
  search is under way the commit examined lies between the bounds (`SearchInv`); with
  servers in time only the server of that commit can be listening when the question is
  put (`ServerInv`), so that a bound other than an assumed end was seen on its side, and
  evidence is that of the newer bound (`EvidenceInv`). On a history that turns once
  neighbouring bounds can only meet at the turn (`NeighboursAtTurn`).
* `MysqlImplementsBracket`: every decision moves one bound inwards (`SearchNarrows`), in
  positions counted from the other end (`Mirror`).
* `MysqlLedgerIsConsistent`: the commit is registered before the file is
  written, so `AccusedInv`, `NumberInv`, `FileInv` and `SampleInv` say separately what
  each of table, numbers, files and `time.txt` knows, and `Recorded` is the one way a
  search changes them (`CrossCompareRecords`).

**`OracleProofs`** holds the lemmas about operators that the next module needs.
* Output cut short: what `extract_query_result` finds in a beginning of some output is
  a beginning of what it finds in the whole (`ExtractOfBeginning`), because the k-th
  mark has the same place in both.
* When each oracle can report (`NorecFails`, `TlpFails`, `LikelyFails`, ...), and
  that results with the same rows in another order are never told apart (`SameCounts`: a
  bijection on the places of each row).
* That the comparison in Python fails what the one in C++ fails (`ToolSeesNorec`,
  `ToolSeesTlp`).

**`SqliteExecProofs`**, invariant `WholeInv`, assuming `ExecAssumption` (an input has
as many runs as its oracle asks for).
* `ForeignLines`, `LaterRuns`: outside the stretch from a run to its
  read the file holds abandoned inputs' lines alone, which is why a run that
  follows a read starts on an empty file.
* `TimeoutsRationed`: `subseq_tmouts` is the length of the row of timeouts that ends
  the history of the seed (`StreakInv`), over its calibration and all its inputs; only a
  signal, or the return at the limit, keeps a run from being counted.
* `CleanVerdictsAreRight`, `FailuresReproduce`: on clean output every result read
  is a beginning of what its run prints (`ReadInv`); the lemmas of `OracleProofs` do the
  rest, oracle by oracle.

**`SeedQueueProofs`**, invariant `QueueInv`.
* `RefCountsAreExact`: a seed that competes gains one reference per slot it wins
  (`WinnerGains`), every other loses those it held (`OthersLose`), and a trace is freed with
  the last of them.
* `FavoredSeedsCover`: the loop of `cull_queue` is the recursive function
  `PickedUpTo`. `WalkExists` shows that it is well defined (the least slot it
  could not reach cannot exist), and `VisitKeeps` that after slot n all bytes up to n
  that anyone holds are covered.
* `PendingCountsAreExact`: the counters are cardinalities. They are decremented where one
  element leaves the set, also on the way on which calibration fails.
* `SlotsImprove`: an action property, from the comparison in `Wins`.

**`ForkServerProofs`**, invariant `ForkInv`: what is in the two pipes, and in which state the
children are, at every point of `run_target`. `ResultsAreOfTheirRun` holds because both
messages of a run are read before the next is asked for, `TimersKillTheirRun` because the
timer is off before `child_pid` changes. Steps of handlers and children are one lemma
(`DisturbsKeeps`).

**`MysqlClientProofs`**, invariant `ClientInv`.
* `TimeoutsAreRecent`, `ThreadsKillTheirOwnSession`: a thread sleeps with numbers of the
  past. Within one life of the server session numbers only grow (`AgeInv`), and a
  thread whose `timeout_id` is still the present one has seen only crashes since (`ClockInv`).
* `KilledAreNotNormal`: `is_timeout` is set before the kill (`FlagInv`).
* `InputsStartEmpty`, `CrashesAreExplained`: a second invariant, `TroubleInv`. A trouble
  that is there was caused by an execution since which no reset, or no execution, was a
  success (`LastsInv`): one that spoils resets is lifted by nothing a refused reset does,
  and one that keeps sessions out also makes `check_server_alive` fail, so nobody gets to the
  regular end. It needs that whoever is limited to one session holds it from connect to the
  check (`LimitInv`), which holds because KILL needs a session too.

**`MysqlHostProofs`**, invariants `HostInv` and `FreshData`.
* `HostTypes`, `IdsAreNotMixed`: through the one file no server
  of any number gets another fuzzer's id, because the file, if there, belongs
  to the instance being launched (`FileIsFresh`).
* `HostServes`: the safety half of the refinement of `MysqlServer`, for every instance:
  between restore and restart the server is unreachable and nobody changes its data. Each
  action does one of four things to an instance (`ServesHere`), and these are the steps of
  `MysqlServer` (`HereIsThere`).

**Only model-checked**: liveness (`Settled` of both bisecting tools, `NoStarvation`,
`RunsReturn`, `ExecutionsReturn`, `ServersReturn`), since fairness and ENABLED are
beyond the prover, and the five violations, which are counterexamples.
The library's induction theorems cannot be used with these provers; where a
theorem needed induction (`WalkExists`, positions of marks) it takes the least
element of a set of numbers instead. What `Accumulated` computes of more than one
row is not proved, nor needed: such results are out of the tool's reach.

**What the proofs changed.** `Restart` leaves a directory half built only if a build
was under way, not after the tool died. `CommitBracket!NextReport` allows a search
that fails at once. CASE expressions whose conditions overlapped, of which TLA+
leaves the choice open, became IF. `FailReproduces` got the exceptions that inputs
outside the old instance need (maxima below 0, minima above `MaxSize`, -1 as a
number); the run now contains a maximum below 0.

## 5. What is left out inside the modelled parts

* Text: SQL, error messages and rows are values; marks are the one format kept,
  because pairing them is what can go wrong. EXPLAIN output is
  left out: it decides only which fragments enter the library.
* `MysqlBisect` has the verdict on a select and a commit as an input; rows are
  not compared again. A report holds one run, so the loop over `queries_l` has
  one round. A sample without selects, and reports the parser refuses, do nothing.
* `SqliteExec` has of `save_if_interesting` only the second run of a hang, which
  empties the output file; which inputs are saved is left out. `execute_cmd_string` only returns
  faults, and calibration and the dry run save nothing.
* `SeedQueue` leaves out `.state` files, `depth` and the scores that weight havoc.
* `ForkServer` leaves out persistent mode and dumb mode, which SQLRight does not use, and
  the exit code by which a sanitized build reports a crash (`uses_asan` and `MSAN_ERROR` in
  `run_target`), since the builds it fuzzes have no sanitizer.
* `MysqlClient` knows four troubles; others an input might cause (a server that is slow, or
  answers wrongly) are left out, and so is one caused by an input on a session already
  killed. An input on a dropped database does not create it. `mysql_real_query`
  returns 0 or 1, so its comparisons with CR_SERVER_LOST are never true; the
  model has no such branch.
* `OracleText` keeps one number per row; columns and the formatting of reals are left out.
* `MysqlHost` takes a server for gone when it does not listen; the code does so for any
  OperationalError, so one that refuses the rebooter's login is restored as well.
  It assumes launching copies do not fail (the launcher would end) and
  that a mysqld started while its predecessor holds the socket exits.

## 6. Plan

Done, in this order: bisecting (the result users act upon), execution
(the source of reports), queue, fork server, MySQL client and host; the
comparisons of both sets of SQLite oracles; the MySQL bisecting tool.

Not planned, and why:
* `sync_fuzzers` and its `.synced` files: never reached by the launchers.
* `PostgresClient`: synchronous, with nothing to interleave (section 1).
* The rewriting of selects, the mutator and its library: rewriting of trees, a
  pure function of the input and of dice, without an invariant that two steps of
  it could break; a model would be the code again.
* Parsers, MySQL patches, options tables: generated or third-party code, which
  is most of the lines of the repository.
* A second copy of queue and scheduling for MySQL and PostgreSQL.

Next, proofs of what the runs do not ask yet: that each decision shrinks the distance
between the bounds (the measure behind `Settled`); that `MysqlHost` restores every
instance that is not `up` in a round; that the order of the rows changes no verdict,
stated for a whole input; that no child outlives `child_pid` except by finding 4.
