# distcompile in TLA+

A verification project for distcompile, a distributed C/C++ build system with a
content-addressed cache. It follows a build from its manifest and its keys
through the coordinator's queue to the workers' compilers and back, with the
database transactions, connection pool, long poll, disks and child processes
that carry it, and the faults around them. TLC checks the models on small
instances, and TLAPS proves for every instance nearly all the safety properties
that those runs check, and that the queue implements an abstract build graph.

Paths below are relative to the repository; `coordinator.cpp:444` means line 444
of `src/coordinator.cpp`.

## The system

| part | state | operations | talks to |
|---|---|---|---|
| `dcc` (`dcc.cpp`) | units, the set to upload, `.dcstate` | preprocess, CheckCache, FindMissing/PutBlobs, SubmitBuild, poll GetBuild, GetBlob | coordinator (gRPC, `with_retry`) |
| keys, manifest (`preprocess.cpp`, `manifest.cpp`) | none | flags to configuration, text to keys, lines to targets | called by dcc |
| coordinator (`coordinator.cpp`, `schema.sql`) | Postgres tables builds, tasks, task_deps, cache, workers; `ready_gen_`, `worker_part_` | submit, try_claim, CompleteTask (finished, make_ready, maybe_finish), register_worker, heartbeat, reap_loop, wake_workers | Postgres, blob store |
| graph algorithms (`graph.cpp`) | none | topo_order, upward_rank, partition | called by submit_build |
| connection pool (`db.h`, `db.cpp`) | `idle_`, libpq status | get, give_back, exec, transaction | Postgres |
| blob store (`cas.cpp`, `util.cpp`) | files named by hash | has, put, get | disk |
| worker (`worker.cpp`) | one job per slot thread, local blob cache | register, heartbeat, claim, execute, report | coordinator (gRPC, `with_retry`), children |
| children (`util.cpp`, run_process) | pipes, exit codes | start, read, time out, wait | compilers, called by worker and dcc |

What is hard here:

- **concurrency**: gRPC handlers run transactions on the same rows under READ
  COMMITTED; slots of many workers claim and report at once; the reaper runs
  beside them; builds share keys; threads of one process fork children while
  others have pipes open; the user edits files while dcc reads them;
- **failure**: workers die with work in hand, replies get lost after their call
  took effect, calls are repeated, leases run out under workers that still run,
  Postgres restarts, the coordinator restarts between two statements, clients go
  away, disks fill up, compilers hang, die or run out of memory;
- **ordering**: results arrive after the row they are about has moved on; a
  cache answer is used two calls later; a handler looks at the table before it
  sleeps; a file is stamped after it was read.

`PROJECT.json` lists these hazards at the lines where they bite, each with the
properties that would catch it, and lists every component with what is and what
is not modelled of it. Where the code has the hazard and a property only says how
far it reaches, a note says so.

## Modules

| module | models | state and actions |
|---|---|---|
| `BuildGraph` | what the coordinator promises | status of tasks, verdict of builds; Submit, Finish, Fail, JudgeLater |
| `TaskQueue` | the whole life of a build | the tables (`state`, `pending`, `attempts`, `owner`, `failedBy`, `expired`, `cooling`, `bstate`, `cache`), `blobs`, dcc's `stage` and `need`, the slots' `job`, results `late` on the wire, processes `alive`, verdicts `owed` by the reaper, tasks `spoilt` by a machine |
| `CompletionTx` | CompleteTask's transactions, one statement a step | committed `row`s and `build`, per transaction its call stack of `finished()`, own writes and locks; lock `queue`s |
| `ConnPool` | `Pool` and its users | `idle`, per handler its connection and place in `get()`, the server |
| `LongPoll` | `claim_task`'s wait, `wake_workers`, the worker registry | rows, the place `pc` of each handler, who is `behind` the generation; partitions of rows and workers, in the table and in `worker_part_`; registration, claims, requeues, restarts |
| `Graph` | topo_order, upward_rank, partition | operators on a sequence of tasks; a loop of the code is a recursive function of the number of rounds |
| `BuildSpec` | DCBUILD to rows | `parse_manifest` line by line, `build()`'s task graph, `submit_build`'s checks with the operators of `Graph` |
| `Incremental` | dcc's keys and `.dcstate` | files with stamps, the saved state, each unit's place between read, include and stamp; user edits, flags, failed builds, a second coordinator |
| `RunProcess` | `run_process` in several threads | calls, children, pipes, who holds a write end, which calls were `cut` short by a failing `poll()` or `read()` |
| `BlobStore` | `Cas`, `write_file_atomic` on disks that fill up | files whole or short, each thread's put |
| `WorkerExec` | `execute()` and the coordinator's acceptance of a report | composes `RunProcess` and `BlobStore`; each slot's stage, input, hash, result |
| `MC...` | the instances TLC checks | |
| `TaskQueueProofs`, `TaskQueueVerdicts` | theorems of `TaskQueue` | |
| `CompletionTxProofs`, `ConnPoolProofs`, `LongPollProofs`, `WorkerExecProofs`, `IncrementalProofs`, `BuildSpecProofs` | theorems of the module in the name | |

In `TaskQueue` a database transaction is one action, with everything it does:
`CompleteOk` is the `complete` UPDATE, `cache_put`, the count-down of the
dependents, `make_ready` on those that reach zero, the cascade through those
found in the cache, and `maybe_finish` if a sink was among them. The cascade is
written as the least set that is closed under it: `hits` is the set of released
rows with a cached key, which the acyclic graph determines. Where the code uses
two transactions the model uses two actions: `Reap` and `ReapVerdict`. `GetBuild`,
`CheckCache`, `Upload`, `SubmitBuild`, `FetchOutputs` are dcc's calls;
`ClaimTask`, `Execute`, `Report` a slot's loop. Time is two flags, set by actions
of their own: a lease may have run out (`expired`) and a requeued row may still
be cooling. `CompletionTx` opens the completion transactions up and shows, by
the same abstract module `BuildGraph`, that treating them as atomic is justified
(`AtomicSteps`), with one exception, the verdict of builds with several sinks
(`tx_sinks`). `LongPoll` opens up the claim: it is there that partitions matter,
and there that a row is announced. `WorkerExec` opens up `Execute` and shows
what `TaskQueue` takes for granted about blobs and results (see `exec`).

Faults of `TaskQueue` are actions, enabled by the constant `Faults` and bounded
by `MaxFaults`: late heartbeats, failed fetches and uploads (`io`, reported as
transient), commands that fail on one machine only (`run`: a timeout, a killed
compiler, a failed fork, no memory, no output file; `execute()` reports each as
permanent, `worker.cpp:172`, `worker.cpp:175`), repeated and late reports, reports given up, lost claim replies, crashes, restarts under the same
id, coordinator restarts, and clients that hang up (`HangUp`: dcc is killed or
its retries end). A `SubmitBuild` that `with_retry` repeats after a lost reply
leaves a build nobody polls beside its copy, which is `HangUp` of one of two
twin builds.

Abstractions: keys and outputs are constants of tasks, equal keys having equal
outputs (compilers are deterministic, sha256 injective); which eligible row a
claim of `TaskQueue` takes is free, because SKIP LOCKED may hide any; its blobs
are a set of digests; `CompletionTx` does not lock rows of the cache table. In
`BuildSpec` a source word stands for what the constant `Expand` says a glob
matches, and which sources have equal keys is free, within one language. In
`Incremental` a text is the source's content, the header that was found and its
content, and contents may differ in comments only. `Look` is one step although
`still_valid` stats file by file: stamps never come back, so files that pass one
after the other all had their stamps at the first stat, and a file that fails
makes the unit invalid at that moment.
`RunProcess` counts output in chunks. What may happen to a call is its `Mishap`: a
child hangs; it dies in the middle of its output; it closes stdout and stderr and
runs on (`CloseOwn`); `poll()` or `read()` fails, which drops streams without
killing anybody, so that the child may meet a broken pipe. A kill at the deadline
reaches the driver only: the compiler proper may hang on as an `orphan`, with the
write ends it inherited. `BlobStore` knows files as none, whole or
short. Every edit has an mtime of its own: two edits within the clock's
resolution are outside the model.

## Runs

Passing runs:

| run | instance | what it shows |
|---|---|---|
| `faults` | one build (two compiles, an archive), two workers, three faults of all ten kinds, two attempts | `TypeOK`, `PendingExact`, `InputsReady`, `AttemptUnique`, `FailurePaid`, `VerdictSound`, `AttemptRevoked`, `TerminalFinal`, and the refinement `RefinesBuildGraph` |
| `twins` | two builds of the same source and archive, one of which cannot be archived, two faults: transient failures, a worker that dies, a client that goes away | cache races between builds: `VerdictPrompt`, `ClientServed`, `RefinesBuildGraph` with cascading hits; under fairness `BuildSettles` |
| `tx_overlap` | seven tasks, seven reports (one task twice), a permanent failure, a lost connection, cascades that deadlock | `CountExact`, `OutputsVisible`, `VerdictReached`, `AtomicSteps`; `AllReported`: a deadlock victim's rerun gets through |
| `pool_outage` | three handlers, two connections, two outages, in which the server is bounced, down or refuses a statement | `NoLostWakeup`, `PoolServes` |
| `longpoll` | two workers, one of which comes and goes, two rows meant for two partitions, a requeue, announced or not, a coordinator restart | `NoMissedWakeup`, `PartAgrees`, `ReadyIsClaimed` |
| `spec` | every manifest of up to three out of nineteen lines; every graph of three tasks with good and bad deps | the algorithms against reference definitions: `OrderRight`, `RankRight`, `ObjectsTogether`, `LoadsBalanced`; `TargetsCovered`, `ManifestSubmits`, `FlagsSplit` |
| `exec` | two slots of a worker on one task, or two jobs of dcc; two stores, each disk may fill up; pipes of one chunk; children of both may hang, one thread has the other mishaps too | `OutputComplete`, `TimeoutEarned`, `CallReturns`; `WholeUnlessFull`, `AcceptedRight`, `AcceptedStored` |
| `incremental` | a C and a C++ unit, two headers, two builds, two edits at any moment, two configurations | `StateSound`, `FreshEnough`, `PairRight`, `RefusalExplained` |

Runs in which TLC finds what a comment or document says violated (the finding in
`PROJECT.json` quotes it):

| run | what happens |
|---|---|
| `tx_sinks` | two binaries of a build finish in overlapping transactions, each counts the other as unfinished, and the build stays running for ever |
| `lostclaim` | a claim whose reply is lost is kept alive by the worker's own heartbeats and never run |
| `coordinator_restart` | the reaper fails a task, the coordinator stops before `maybe_finish`, and the build is never judged |
| `pool_down` | each reconnect that throws takes a connection out of the pool; after `--db-pool` of them every handler waits for ever |

The mechanism of `lostclaim` also applies to a worker that dies and is started
again under the same `--id` (fault `restart`): it renews its predecessor's lease.
Safety holds with both faults (`faults`), liveness with neither.

Several properties of passing runs have exceptions, and each exception is a
behaviour of the code that TLC reaches; without it the property is violated:

- `StateSound`, `FreshEnough`: *raced* units. Stamps are taken after gcc has read
  the files (`dcc.cpp:122`); an edit in between gets the stamp of a file that was
  seen, and the old key is reused until the file changes again. *Shadowed*
  units: a header created earlier on the search path changes no stamp
  (`dcc.cpp:103`). Both are missed also when they were on the disk before dcc began:
  a raced entry is reused by later builds. The comment at `dcc.cpp:37` knows of neither.
- `WholeUnlessFull`, `AcceptedRight`, `AcceptedStored`: a disk that has been full.
  `write_file_atomic` leaves the last buffer to the stream's destructor, so a
  small file may be published short (`util.cpp:88`); `has()` looks at the name
  only, so it is never repaired. A short file of the coordinator is noticed by
  the worker, whose own `put` checks the hash, and every attempt fails; a short
  file in the worker's cache is believed as it is
  (`worker.cpp:112`) and half an input may be compiled and reported.
- `TimeoutEarned`: a call may time out because of *another* thread's child. The
  pipes are not close-on-exec (`util.cpp:115`), so a child forked meanwhile keeps
  the write end; if it hangs, the call of a compiler that has ended well waits
  too, and its timeout is reported as a permanent failure. It may also time out
  for a child that lost its reader to a failed `poll()` or `read()`.
- `CallReturns`: once the streams are closed, `waitpid` has no timeout
  (`util.cpp:178`). A child that has closed stdout and stderr and hangs, or whose
  streams a failed `poll()` or `read()` has dropped, keeps its slot for ever, and
  no deadline ends it, whatever `util.h:27` says of one.
- `OutputComplete`: a call whose `poll()` or `read()` failed; both are taken for the
  end of the output (`util.cpp:159`, `util.cpp:168`).
- `FailurePaid`: one `run` fault fails a task that compiles, without a second
  attempt. A task that was not `spoilt` so is failed only after `MaxAttempts` faults.
- `NoMissedWakeup`: the rows that a reaper has made ready and not announced,
  because `maybe_finish` of another row threw (`coordinator.cpp:569`). The next
  wake-up or the 250 ms of the wait repair it, as `ReadyIsClaimed` shows.
- `ManifestSubmits`: a binary that names a library twice is refused as
  UNAVAILABLE, by the primary key of task_deps.
- `tx_overlap` reaches the deadlock of two cascades that lock in opposite orders,
  although `finished()` locks dependents in id order; `AllReported` shows that
  the victim's rerun by `transaction()` gets through.
- `VerdictPrompt` is about builds with one sink; see `tx_sinks`.

### Bounds

Two workers with one slot each are enough for every race about a row: the
coordinator tells workers apart only as "the owner", "the last to fail" and "the
others". Two attempts give a first, a last and a stale attempt. Three faults let
a stale result meet a requeued and reclaimed row, and exceed `MaxAttempts` by
one. One archive over two compiles has a count that two completions race for;
two builds of one source and an archive make hits cascade. In `CompletionTx`
seven tasks are the smallest graph with two cascades that lock each other's
dependents and a sink behind them. Three handlers on two connections leave
somebody waiting in `get()`. In `LongPoll` two rows let one be requeued while the
other is announced, and two workers may be given the same partition or leave one
without a worker. Graphs of three tasks have chains, forks, rings of two and
three, repeated and dangling deps; three lines of a manifest give two targets
and a flag, or a binary before its library. In `WorkerExec` two threads are
enough for a leaked write end and for two writers of one blob, and a volume of
two chunks exceeds the pipe. `Unlucky` bounds the threads with mishaps other than
a child that hangs: one, so that the other thread's call is the one disturbed. In `Incremental` two builds let the second rely on
what the first saved; two edits change a file during the first and between the
two, or hide a header and bring it back.

### Fairness

`FairSpec` of `TaskQueue` gives weak fairness to what loops for ever in the code:
dcc's calls and polls, the slot loops, the reaper; and to the clock, which ends
leases of dead workers and cooldowns. Heartbeats and late messages are promised
nothing. `BuildSettles` needs one worker that does not die, and faults are
finite. `CompletionTx` assumes that statements are executed and that Postgres
finds deadlocks and grants row locks in the order they were asked for; `ConnPool`
that handlers run, failed calls are repeated and the server comes back (and
finitely many calls: a C++ condition variable promises no order among waiters).
`LongPoll` assumes that handlers run, tasks end, waits time out and cooldowns
end; that a worker leaves or returns and that a coordinator restarts is promised
nothing. `WorkerExec` assumes that threads, disks and those children run that do
not hang; a `Mishap` is promised nothing. The deadline of `run_process` is long against what a working child
does, so `TimeOut` waits until every child that holds the pipe is `Stuck`: hung,
or blocked on a pipe nobody reads. The code's poll loop gives up only when the
deadline is over *and* nothing is there to read, which the guard keeps.

## Proofs

Every theorem is about every value of the constants, under the named assumptions
of the module it is about, which TLC evaluates in each run.

| module | assumes | theorems (property) |
|---|---|---|
| `TaskQueueProofs` | the dependency graph is finite, acyclic and within builds; equal keys have equal outputs; slots have workers | `TypeCorrect` (`TypeOK`), `PendingCorrect` (`PendingExact`), `VerdictCorrect` (`VerdictSound`), `FinalityCorrect` (`TerminalFinal`), `InputsCorrect` (`InputsReady`), `ClientCorrect` (`ClientServed`), `AttemptCorrect` (`AttemptUnique`), `RevokedCorrect` (`AttemptRevoked`) |
| `TaskQueueVerdicts` | the same; for `VerdictsPrompt` also `"coordinator" \notin Faults` | `FailuresPaid` (`FailurePaid`), `VerdictsPrompt` (`VerdictPrompt`), `ImplementsBuildGraph` (`RefinesBuildGraph`) |
| `CompletionTxProofs` | tasks are finitely many numbers, deps come before their dependents; for `OneBinaryJudged` also `OneSink(s)` | `CountsExact` (`CountExact`), `KeysFromOutputs` (`OutputsVisible`), `CommitsAreSteps` (`AtomicSteps`), `OneBinaryJudged` (`VerdictReached`) |
| `ConnPoolProofs` | finitely many handlers, a pool of at least one connection | `NoWakeupLost` (`NoLostWakeup`) |
| `LongPollProofs` | finitely many claimers | `NoWakeupMissed` (`NoMissedWakeup`), `PartsAgree` (`PartAgrees`) |
| `WorkerExecProofs` | pipes hold at least one chunk, volumes are numbers, the two stores and the task's blobs exist, `""` is no blob | `OutputsComplete` (`OutputComplete`), `TimeoutsEarned` (`TimeoutEarned`), `WholeFiles` (`WholeUnlessFull`), `OutputsRight` (`AcceptedRight`), `OutputsStored` (`AcceptedStored`) |
| `IncrementalProofs` | units and headers are different files with names, search paths are sequences of headers, 0 is neither a content nor a configuration | `StateIsSound` (`StateSound`), `KeysFresh` (`FreshEnough`), `PairsRight` (`PairRight`), `RefusalsExplained` (`RefusalExplained`) |
| `BuildSpecProofs` | a line is a directive and a sequence of words; what a word stands for is known wherever it may name sources; graphs of other clients are sequences of tasks with any integers as costs and deps; costs of dcc are naturals, there is at least one partition, no text is the missing hash | `TopoOrderIsRight` (`OrderRight`), `UpwardRankIsRight` (`RankRight`), `PartitionKeepsObjects` (`ObjectsTogether`), `PartitionIsBalanced` (`LoadsBalanced`), `BuildCoversTargets` (`TargetsCovered`), `ManifestsAreAccepted` (`ManifestSubmits`), `MakeConfigSplits` (`FlagsSplit`) |

The two extra hypotheses are where the code really is weaker: `coordinator_restart`
and `tx_sinks` are the counterexamples without them.

### The arguments

`TaskQueueProofs`:

1. *Counts.* `PendingExact` is not inductive as it stands, so
   `IInv == TypeOK /\ PendingExact /\ RowsInserted /\ AttemptsLeft /\ StageFits`.
   A completion counts down every dependent of the rows it finishes; that keeps
   the count exact only if those rows were unfinished before and their dependents
   exist, which is `RowsInserted` (a build's rows are inserted together, and a
   dep lies in the same build). Then a row that reaches zero must have been
   waiting (`ReleasedWaits`), so neither the reported row nor a finished one is
   ever released again. `AttemptsLeft` (a ready row has an attempt left, a waiting
   one was never claimed) keeps the claim's increment inside `TypeOK`; `StageFits`
   (a build that dcc has not submitted has no rows) keeps `InsertRows` from
   overwriting rows. `CountDownExact` is the one fact about cardinalities. There
   is one lemma per database operation (`CompleteOkDb`, `RequeueDb`, `ClaimRowDb`,
   `InsertRowsDb`), and `ClientInv`, `HangUpInv`, `SlotInv` and `LeaseInv` have one
   step per action.
2. *Verdicts.* Under `IInv` every step is `Forward`: ended rows stay as they are,
   and a build changes its state only from none or running, to what `MaybeFinish`
   says of the rows as the step leaves them. Both theorems follow from that.
3. *Store.* Under `IInv` every step is `Stored`: no blob goes away, a new cache row
   has its output (the `retry_copy` check of `CompleteTask`, and equal keys having
   equal outputs), a finished row has a cache row, an open compile task its input.
   `StoreInv` is inductive from that; `ServedInv` says what each client may rely on
   between two of its calls, and `OthersServed` that no other actor undoes it.
4. *Attempts.* Every step is `Handed`: a slot gets a job only from a claim, with the
   number the claim counts up to, and `HeldInv` says held numbers are not larger
   than the row's count, so the new one differs from all held ones.

`TaskQueueVerdicts`. `FailurePaid` compares attempts with faults, and the count of
faults is spent long before the row fails: `PaidInv` says of every row that each
of its attempts but the last has met a fault (the last one too unless a live
worker holds it under a lease that has not run out), and of every slot and every
result on the wire that what it says is true: a permanent failure is of a task
that does not compile or was `spoilt`. `PromptInv` says that a running
build has an unfinished row and no failed one, unless the reaper owes it a
verdict. It is stronger than `VerdictPrompt`: it holds for any number of sinks,
and the last row in the order of `topo_order` to be finished is a sink
(`LastInOrder`).

The refinement: seen through `Status`, each action is a step of
`BuildGraph` or a stutter. There is one lemma for each kind of step (`SubmitMaps`,
`FailMaps`, `FinishMaps`, `RequeueMaps`, `CompleteMaps`); a completion with its
cascade is one `Finish`, because the hits are exactly the rows whose deps are
finished and whose key is cached.

`CompletionTxProofs`. `IInv` is stated of one transaction's record, the committed
rows and the build: nothing is written without its lock (`Locked`), written rows
were open or waiting (`Origin`), the calls of `finished()` on the stack owe what
they have not counted down (`Calls`, `Covered`), and what the transaction sees is
counted exactly if the debt is added (`Counted`). Only COMMIT changes what others
read; a row it changes is locked by nobody else (`Exclusive`), so every other
transaction's count moves with the committed one. At COMMIT the debt is nothing,
so the committed counts are exact, and the commit is a step of `BuildGraph`.
`OneBinaryJudged` adds `VerdictInv`: whoever fails a task or finishes the only sink
is on its way to judge the build.

`ConnPoolProofs`. `Matched`: while somebody sleeps, there are at least as many
handlers on their way to `get()` or to `notify_one` as idle connections.
`give_back` adds one of each, `notify_one` puts a sleeper in its caller's place,
and a handler falls asleep only when nothing is idle.

`LongPollProofs`. `Alert`: a handler that has read the current generation and waits
has seen all that is ready and was not left unannounced, or somebody is about to
bump the generation; one that sleeps behind the generation is about to be notified. `Placed` is the same for
partitions: a registered worker is in the table and the coordinator's map, when
it has an entry, agrees.

`WorkerExecProofs`. `ProcInv`: what a child has still to write, what is in the pipe
and what was read make up its volume (`Conserved`); live children and orphans, and
only they, hold write ends, a live child its own unless it has written all it
will (`Held`); so a stream that is closed in a call that is not `cut` was empty,
and its child had nothing left to write (`ReadOut`). An exit code means that every
stream is closed and the child ended by itself, so all was read. A child that is
blocked but does not hang would have to write to a closed stream, which `ReadOut`
excludes but for `cut` calls; that is `TimeoutsEarned`. `StoreInv`: a
temporary file is short only on a disk that has been full, and the rename passes
that on. `SlotInv` follows the input and the hash through a slot.

`IncrementalProofs`. `Knows(f, m, c)`: if file `f` has stamp `m` it has content `c`,
and `m` is not in the future. An edit has a later stamp than all that are known,
so knowledge is never lost; an entry that was not raced knows every file of its
text (`Remembers`), which makes `still_valid` sound (`ValidText`). While gcc is
between reading and stamping, its text is of a disk of this build or the source
has a later stamp (`JustMade`), which the stamp step records as a race. `Rooted`
is `FreshEnough` for one unit, also while it is preprocessed a second time;
`Needed` tracks which results are cached, uploaded or in error.

`BuildSpecProofs` is about loops, and what a loop computes of every input takes
induction. The library's induction theorems have an operator as parameter, so
`Induct` is stated of a set of numbers instead: the rounds after which a loop's
invariant holds form a set that has 0 and, with a round, the next one; `Smallest`
(well-foundedness of the naturals) does the rest. `Recursion` shows in the same
way that the recursive functions of `Graph` and `BuildSpec` exist, by
approximations of 0, 1, 2, ... rounds; each loop then has a lemma that gives its
rounds (`...Run`), one that a round keeps its invariant (`...Keeps`) and one about
its end (`...Ends`). With these:

1. *topo_order.* `KahnInv`: the count of a task is the number of its deps that were
   not visited, repeated ones repeatedly, and the tasks in the order are exactly
   those whose count is zero. If the loop ends early, the tasks that are left wait
   for each other, which is a ring; if it does not, a ring would have a first
   member in the order (`OrderedNoRing`). `Permutation` counts: no repetition among
   `n` numbers and length `n` means all of them.
2. *upward_rank.* From the end of the order, dependents come first
   (`DependentsLater`), so a rank is final when it is computed.
3. *partition.* `ClaimInv`: a unit once given is kept, and a free object goes to the
   archive that is visited first; so archives, then binaries, then the rest
   (`UnitsRight`). `DealInv`: costs fall, a unit goes to the lightest partition, so
   the unit that came last to a partition is its smallest, and without it that
   partition was the lightest then, and the others have only grown.
4. *parse_manifest and build().* `Parsed` (unique names, libraries link nothing) is
   kept by every line; `Linked` is what the end of the file adds. `Shape` and `Made`
   place compiles, archives and links one after the other, so a dep is smaller
   than its task: no ring, no bad number. `Feeds` and `CoveredBy` follow the
   deduplicated lists back to the sources.
5. *make_config.* `ArgumentNext`: the closed form of one word from that of the word
   before, by the parity of the run of separate flags.

The inductive invariant `SpecInv` of the state machine then says of each phase
what was built and what was answered, and each theorem is read off it.

Each inductive invariant was model-checked on the module's run before it was
proved.

### Only model-checked

Liveness under fairness is out of the prover's reach: `BuildSettles`,
`AllReported`, `PoolServes`, `ReadyIsClaimed`, `CallReturns`. Every invariant and
every action property of a passing run, and the refinement, has its theorem.

## Not modelled

- Characters: array literals, stripping of line markers and comments, globbing,
  output file names (`flat_name` may map two objects of an archive to one name,
  `coordinator.cpp:55`).
- Power failures: nothing is synced to disk, and synchronous_commit is off
  (`coordinator.cpp:653`), so a Postgres crash may take back what clients were told.
- Rows of the cache table as lockable rows, and submit and the reaper beside
  completions, statement by statement.
- How often `with_retry` calls again: a deadlock victim of `CompletionTx` is rerun
  without limit, where the code stops after six runs of `transaction()`
  (`db.h:104`) in each of eight calls, and the worker then leaves the row to the
  end of its lease.
- Statistics, timers and backoff times; test and benchmark tools.

## Plan

1. Stronger theorems from the invariants there are: `VerdictInv` for several sinks
   with the exception that `tx_sinks` shows.
2. `LossyCommit`: synchronous_commit=off and a Postgres crash.
3. Array literals: a round trip over short sequences of characters.
