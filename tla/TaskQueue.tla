------------------------------ MODULE TaskQueue ------------------------------
(***************************************************************************)
(* The life of a build: dcc checks the cache, uploads, submits and polls;  *)
(* the coordinator keeps builds, tasks and the action cache in Postgres    *)
(* and the blobs on disk; worker slots claim, execute and report; the      *)
(* reaper requeues expired leases.                                         *)
(*                                                                         *)
(* Every database transaction is one action here (module CompletionTx opens*)
(* the completion transactions up).  Compilers are taken to be             *)
(* deterministic, so a task's cache key and output are constants of the    *)
(* task.  Time is abstracted to two flags per row: expired (lease_until <  *)
(* now()) and cooling (ready_at is less than three seconds old).  A claim  *)
(* takes any eligible ready row: SKIP LOCKED may hide the better ones.     *)
(*                                                                         *)
(* What the environment may do wrong is named by Faults:                   *)
(*   "slow"       a live worker's heartbeats are late and a lease runs out *)
(*   "io"         a fetch or an upload fails, or --fail-rate injects it    *)
(*   "run"        a command is killed, runs 600 s, cannot be started or     *)
(*                leaves no file, though nothing is wrong with its task    *)
(*   "repeat"     a CompleteTask reply is lost or late; the worker retries *)
(*   "giveup"     a worker stops retrying CompleteTask after 8 attempts    *)
(*   "lostclaim"  a claim commits but its reply never reaches the worker   *)
(*   "crash"      a worker process dies                                    *)
(*   "hangup"     dcc is killed, or one of its calls fails eight times      *)
(*   "restart"    a dead worker comes back under the same --id             *)
(*   "coordinator" the coordinator restarts (or the reaper hits a DbError) *)
(* MaxFaults bounds how many of them happen.                               *)
(***************************************************************************)
EXTENDS Integers, FiniteSets

CONSTANTS
  Build, Task,
  BuildOf,      \* the build a task row belongs to
  Compile,      \* the tasks of kind COMPILE; the others archive or link
  Deps,         \* the rows of task_deps, as a set of tasks per task
  Rank,         \* a task's place in topo_order: the graph has no cycle
  Key, Output,  \* cache key and output digest of a task
  Input,        \* digest of a compile task's preprocessed text
  Broken,       \* tasks whose command exits nonzero or is refused, wherever it runs
  Worker, Slot,
  Mortal,       \* the workers that may crash
  WorkerOf,     \* the worker a slot thread belongs to
  Toolchain,    \* toolchain id of a build or a worker
  MaxAttempts,  \* --max-attempts
  Faults, MaxFaults,
  NoWorker, NoJob

ASSUME GraphAssumption ==
  /\ IsFiniteSet(Task)
  /\ BuildOf \in [Task -> Build]
  /\ Compile \subseteq Task
  /\ Broken \subseteq Task
  /\ Deps \in [Task -> SUBSET Task]
  /\ Rank \in [Task -> Nat]
  /\ \A t \in Task : \A d \in Deps[t] :
       BuildOf[d] = BuildOf[t] /\ Rank[d] < Rank[t]
  /\ \A t \in Compile : Deps[t] = {}

ASSUME KeyAssumption ==
  \A t, u \in Task : Key[t] = Key[u] => Output[t] = Output[u]

ASSUME WorkerAssumption ==
  /\ WorkerOf \in [Slot -> Worker]
  /\ NoWorker \notin Worker
  /\ MaxAttempts \in Nat \ {0}
  /\ MaxFaults \in Nat

Keys == {Key[t] : t \in Task}
Blobs == {Input[t] : t \in Compile} \cup {Output[t] : t \in Task}

Rows(b) == {t \in Task : BuildOf[t] = b}
Dependents(t) == {u \in Task : t \in Deps[u]}
Sinks == {t \in Task : Dependents(t) = {}}

\* What execute() must fetch: the preprocessed text, or the outputs of the deps.
Inputs(t) == IF t \in Compile THEN {Input[t]} ELSE {Output[d] : d \in Deps[t]}

Verdicts == {"ok", "retry", "fail"}
Attempt == 1 .. MaxAttempts
Job == [task : Task, attempt : Attempt, step : {"execute"} \cup Verdicts]
Result == [task : Task, attempt : Attempt, worker : Worker, verdict : Verdicts]

ASSUME JobAssumption == NoJob \notin Job

VARIABLES
  state, pending, attempts, owner, failedBy, expired, cooling, \* table tasks
  bstate,   \* table builds
  cache,    \* table cache: the keys that have a row
  blobs,    \* the blob store
  stage,    \* where each build's dcc is
  need,     \* the compile tasks dcc found missing from the cache
  job,      \* what each slot thread holds
  late,     \* TaskResults still on their way after their sender moved on
  alive,    \* worker processes that run
  owed,     \* builds the reaper failed a task of and has not judged yet
  faults,   \* faults so far
  spoilt    \* the tasks that a "run" fault has hit: history, read by no guard

rowVars == <<state, pending, attempts, owner, failedBy, expired, cooling>>
dbVars == <<rowVars, bstate, cache>>
clientVars == <<stage, need>>
workerVars == <<job, late, alive>>
vars == <<dbVars, blobs, clientVars, workerVars, owed, faults, spoilt>>

Finished == {"done", "cached"}
RowState == Finished \cup {"absent", "waiting", "ready", "running", "failed"}

Init ==
  /\ state = [t \in Task |-> "absent"]
  /\ pending = [t \in Task |-> 0]
  /\ attempts = [t \in Task |-> 0]
  /\ owner = [t \in Task |-> NoWorker]
  /\ failedBy = [t \in Task |-> NoWorker]
  /\ expired = [t \in Task |-> FALSE]
  /\ cooling = [t \in Task |-> FALSE]
  /\ bstate = [b \in Build |-> "none"]
  /\ cache = {}
  /\ blobs = {}
  /\ stage = [b \in Build |-> "start"]
  /\ need = [b \in Build |-> {}]
  /\ job = [s \in Slot |-> NoJob]
  /\ late = {}
  /\ alive = Worker
  /\ owed = {}
  /\ faults = 0
  /\ spoilt = {}

Counted(kind) ==
  /\ kind \in Faults
  /\ faults < MaxFaults
  /\ faults' = faults + 1

Fault(kind) == Counted(kind) /\ UNCHANGED spoilt

\* Mutation: the count leaves failed rows out and is looked at first.
MaybeFinishCountFirst(b, cur, st) ==
  IF cur = "running" /\ \A t \in Rows(b) : st[t] \in Finished \cup {"failed"} THEN "done"
  ELSE IF cur = "running" /\ \E t \in Rows(b) : st[t] = "failed" THEN "failed"
  ELSE cur

\* Mutation: the count looks at 'waiting' and 'running' rows only.
MaybeFinishForgetsReady(b, cur, st) ==
  IF cur = "running" /\ \E t \in Rows(b) : st[t] = "failed" THEN "failed"
  ELSE IF cur = "running" /\ \A t \in Rows(b) : st[t] \notin {"waiting", "running"}
  THEN "done" ELSE cur

(***************************************************************************)
(* maybe_finish: the state of build b once its rows are st, if it was cur. *)
(***************************************************************************)
MaybeFinish(b, cur, st) ==
  IF cur = "running" /\ \E t \in Rows(b) : st[t] = "failed" THEN "failed"
  ELSE IF cur = "running" /\ \A t \in Rows(b) : st[t] \in Finished THEN "done"
  ELSE cur

-----------------------------------------------------------------------------
(* dcc *)

CheckCache(b) ==
  /\ stage[b] = "start"
  /\ need' = [need EXCEPT ![b] = {t \in Rows(b) \cap Compile : Key[t] \notin cache}]
  /\ stage' = [stage EXCEPT ![b] = "checked"]
  /\ UNCHANGED <<dbVars, blobs, workerVars, owed, faults, spoilt>>

\* Mutation: the last, partly filled batch is not flushed.
UploadSetUnflushed(b) == {Input[t] : t \in need[b]} \cap blobs

\* What FindMissing and PutBlobs make sure the store has.
UploadSet(b) == {Input[t] : t \in need[b]}

Upload(b) ==
  /\ stage[b] = "checked"
  /\ blobs' = blobs \cup UploadSet(b)
  /\ stage' = [stage EXCEPT ![b] = "uploaded"]
  /\ UNCHANGED <<dbVars, need, workerVars, owed, faults, spoilt>>

\* submit() throws: a compile task with no cache row has no uploaded input.
Rejected(b) ==
  \E t \in Rows(b) \cap Compile : Key[t] \notin cache /\ Input[t] \notin blobs

\* The rows submit() resolves from the cache, hits being resolved already: a
\* row has a key once every dep has an output.
CacheHits(b, hits) == {t \in Rows(b) : Deps[t] \subseteq hits /\ Key[t] \in cache}

InsertRows(b) ==
  /\ \E hits \in SUBSET Rows(b) :
       /\ hits = CacheHits(b, hits)
       /\ state' = [t \in Task |->
            IF t \notin Rows(b) THEN state[t]
            ELSE IF t \in hits THEN "cached"
            ELSE IF Deps[t] \subseteq hits THEN "ready" ELSE "waiting"]
       /\ pending' = [t \in Task |->
            IF t \in Rows(b) THEN Cardinality(Deps[t] \ hits) ELSE pending[t]]
  /\ bstate' = [bstate EXCEPT ![b] = MaybeFinish(b, "running", state')]
  /\ UNCHANGED <<attempts, owner, failedBy, expired, cooling, cache>>

SubmitBuild(b) ==
  /\ stage[b] = "uploaded"
  /\ stage' = [stage EXCEPT ![b] = IF Rejected(b) THEN "error" ELSE "polling"]
  /\ IF Rejected(b) THEN UNCHANGED dbVars ELSE InsertRows(b)
  /\ UNCHANGED <<blobs, need, workerVars, owed, faults, spoilt>>

\* dcc polls for as long as the build's state is 'running'.
GetBuild(b) ==
  /\ stage[b] = "polling"
  /\ stage' = [stage EXCEPT ![b] = CASE bstate[b] = "running" -> "polling"
                                     [] bstate[b] = "failed" -> "failed"
                                     [] OTHER -> "fetching"]
  /\ UNCHANGED <<dbVars, blobs, need, workerVars, owed, faults, spoilt>>

\* The download of the archives and binaries the build names as outputs.
FetchOutputs(b) ==
  /\ stage[b] = "fetching"
  /\ stage' = [stage EXCEPT ![b] =
       IF \A t \in Rows(b) \ Compile : state[t] \in Finished /\ Output[t] \in blobs
       THEN "ok" ELSE "error"]
  /\ UNCHANGED <<dbVars, blobs, need, workerVars, owed, faults, spoilt>>

Ended == {"ok", "failed", "error", "gone"}

\* with_retry runs out of attempts and dcc throws, or dcc is killed: a submitted
\* build is left to itself.  A SubmitBuild whose reply is lost is one of these
\* too, and the copy that with_retry submits is another build with equal keys.
HangUp(b) ==
  /\ Fault("hangup")
  /\ stage[b] \notin Ended
  /\ stage' = [stage EXCEPT ![b] = "gone"]
  /\ UNCHANGED <<dbVars, blobs, need, workerVars, owed>>

Client(b) ==
  \/ CheckCache(b) \/ Upload(b) \/ SubmitBuild(b) \/ GetBuild(b) \/ FetchOutputs(b)

-----------------------------------------------------------------------------
(* ClaimTask *)

\* Mutation: a worker never gets a row back that failed on it.
ClaimableNeverAgain(w, t) ==
  state[t] = "ready" /\ Toolchain[BuildOf[t]] = Toolchain[w] /\ failedBy[t] # w

\* The WHERE of the claim: equal toolchain, and not the worker that failed the
\* row less than three seconds ago.
Claimable(w, t) ==
  /\ state[t] = "ready"
  /\ Toolchain[BuildOf[t]] = Toolchain[w]
  /\ failedBy[t] # w \/ ~cooling[t]

\* Mutation: attempts are not counted by the claim.
NextAttemptUncounted(t) == attempts[t]

NextAttempt(t) == attempts[t] + 1

ClaimRow(w, t) ==
  /\ Claimable(w, t)
  /\ state' = [state EXCEPT ![t] = "running"]
  /\ owner' = [owner EXCEPT ![t] = w]
  /\ attempts' = [attempts EXCEPT ![t] = NextAttempt(t)]
  /\ expired' = [expired EXCEPT ![t] = FALSE]
  /\ UNCHANGED <<pending, failedBy, cooling, bstate, cache>>

ClaimTask(s, t) ==
  /\ WorkerOf[s] \in alive
  /\ job[s] = NoJob
  /\ ClaimRow(WorkerOf[s], t)
  /\ job' = [job EXCEPT ![s] = [task |-> t, attempt |-> NextAttempt(t), step |-> "execute"]]
  /\ UNCHANGED <<blobs, clientVars, late, alive, owed, faults, spoilt>>

\* The handler claims after its caller's deadline or connection is gone: the
\* slot's with_retry just asks again.
ClaimLost(s, t) ==
  /\ Fault("lostclaim")
  /\ job[s] = NoJob
  /\ ClaimRow(WorkerOf[s], t)
  /\ UNCHANGED <<blobs, clientVars, workerVars, owed>>

-----------------------------------------------------------------------------
(* The worker's slot thread *)

SetStep(s, v) == job' = [job EXCEPT ![s].step = v]

\* What execute() makes of a task when nothing goes wrong on its machine: a blob
\* that cannot be fetched is transient, a nonzero exit is not.
RunVerdict(t) ==
  IF ~(Inputs(t) \subseteq blobs) THEN "retry" ELSE IF t \in Broken THEN "fail" ELSE "ok"

\* The output is in the store before the result is reported.
Execute(s) ==
  /\ job[s] # NoJob
  /\ job[s].step = "execute"
  /\ LET t == job[s].task IN
       /\ SetStep(s, RunVerdict(t))
       /\ blobs' = IF RunVerdict(t) = "ok" THEN blobs \cup {Output[t]} ELSE blobs
  /\ UNCHANGED <<dbVars, clientVars, late, alive, owed, faults, spoilt>>

\* A fetch, a write or the upload fails, or the injected failure of --fail-rate.
ExecuteFails(s) ==
  /\ Fault("io")
  /\ job[s] # NoJob
  /\ job[s].step = "execute"
  /\ SetStep(s, "retry")
  /\ UNCHANGED <<dbVars, blobs, clientVars, late, alive, owed>>

\* The inputs are there and the command fails on this machine only: run_process
\* gives -1 (pipe or fork fails, 600 s are over, a signal) or the status of a
\* compiler without memory or disk, or there is no output file.  execute() takes
\* each of them for a compile error.
ExecuteDies(s) ==
  /\ Counted("run")
  /\ job[s] # NoJob
  /\ job[s].step = "execute"
  /\ Inputs(job[s].task) \subseteq blobs
  /\ SetStep(s, "fail")
  /\ spoilt' = spoilt \cup {job[s].task}
  /\ UNCHANGED <<dbVars, blobs, clientVars, late, alive, owed>>

HasResult(s) == job[s] # NoJob /\ job[s].step \in Verdicts

ResultOf(s) == [task |-> job[s].task, attempt |-> job[s].attempt,
                worker |-> WorkerOf[s], verdict |-> job[s].step]

-----------------------------------------------------------------------------
(* CompleteTask *)

\* retry_copy: a success whose output is not in the store counts as transient.
EffectiveVerdict(r) ==
  IF r.verdict = "ok" /\ Output[r.task] \notin blobs THEN "retry" ELSE r.verdict

\* count_down on u for each row of New that it waits on.
CountDown(u, New) == pending[u] - Cardinality(Deps[u] \cap New)

\* Mutation: a row is released while it still waits for one dep.
ReleasedEarly(New) == {u \in Task : Deps[u] \cap New # {} /\ CountDown(u, New) <= 1}

\* The rows whose count reaches zero: make_ready is called on them.
Released(New) == {u \in Task : Deps[u] \cap New # {} /\ CountDown(u, New) = 0}

\* Mutation: only the reported row is asked whether it is a sink.
NeedsVerdictNoCascade(t, New) == t \in Sinks

\* finished() looks at the whole build when a row it finished has no dependents.
NeedsVerdict(t, New) == New \cap Sinks # {}

\* Mutation: a repeated or late report is accepted for a row that is over.
OpenForLate(r) == state[r.task] \notin {"absent", "waiting"}

\* The WHERE of "complete" and "fail": no attempt has ended the row yet.
Open(r) == state[r.task] \in {"ready", "running"}

\* Mutation: "retry" matches any attempt.
CurrentAnyAttempt(r) == state[r.task] = "running"

\* The WHERE of "retry": the row still runs the attempt that is reported.
Current(r) == state[r.task] = "running" /\ attempts[r.task] = r.attempt

\* "complete", "cache_put" and finished(): hits are the rows make_ready finds in
\* the cache on the way, each of which is finished() in turn.
CompleteOk(r) ==
  /\ Open(r)
  /\ cache' = cache \cup {Key[r.task]}
  /\ \E hits \in SUBSET Rows(BuildOf[r.task]) :
       LET New == {r.task} \cup hits IN
       /\ hits = {u \in Released(New) : Key[u] \in cache'}
       /\ state' = [u \in Task |->
            IF u = r.task THEN "done" ELSE IF u \in hits THEN "cached"
            ELSE IF u \in Released(New) THEN "ready" ELSE state[u]]
       /\ pending' = [u \in Task |-> CountDown(u, New)]
       /\ bstate' = [bstate EXCEPT ![BuildOf[r.task]] =
            IF NeedsVerdict(r.task, New) THEN MaybeFinish(BuildOf[r.task], @, state') ELSE @]
  /\ owner' = [owner EXCEPT ![r.task] = r.worker]
  /\ UNCHANGED <<attempts, failedBy, expired, cooling>>

\* Mutation: one attempt too many.
NextTryLate(t) == IF attempts[t] > MaxAttempts THEN "failed" ELSE "ready"

\* Mutation: one attempt too few.
NextTryEarly(t) == IF attempts[t] + 1 >= MaxAttempts THEN "failed" ELSE "ready"

\* The CASE of the retry and reap statements.
NextTry(t) == IF attempts[t] >= MaxAttempts THEN "failed" ELSE "ready"

\* "retry" and "reap": the rows of S are given up by their owners.
Requeue(S) ==
  /\ state' = [t \in Task |-> IF t \in S THEN NextTry(t) ELSE state[t]]
  /\ owner' = [t \in Task |-> IF t \in S THEN NoWorker ELSE owner[t]]
  /\ failedBy' = [t \in Task |-> IF t \in S THEN owner[t] ELSE failedBy[t]]
  /\ cooling' = [t \in Task |-> IF t \in S THEN TRUE ELSE cooling[t]]
  /\ UNCHANGED <<pending, attempts, expired, cache>>

CompleteRetry(r) ==
  /\ Current(r)
  /\ Requeue({r.task})
  /\ bstate' = [bstate EXCEPT ![BuildOf[r.task]] =
       IF NextTry(r.task) = "failed" THEN MaybeFinish(BuildOf[r.task], @, state') ELSE @]

CompleteFail(r) ==
  /\ Open(r)
  /\ state' = [state EXCEPT ![r.task] = "failed"]
  /\ bstate' = [bstate EXCEPT ![BuildOf[r.task]] = MaybeFinish(BuildOf[r.task], @, state')]
  /\ UNCHANGED <<pending, attempts, owner, failedBy, expired, cooling, cache>>

\* accepted = false: another attempt finished first, or the row moved on.
Duplicate(r) ==
  /\ IF EffectiveVerdict(r) = "retry" THEN ~Current(r) ELSE ~Open(r)
  /\ UNCHANGED dbVars

CompleteTask(r) ==
  \/ EffectiveVerdict(r) = "ok" /\ CompleteOk(r)
  \/ EffectiveVerdict(r) = "retry" /\ CompleteRetry(r)
  \/ EffectiveVerdict(r) = "fail" /\ CompleteFail(r)
  \/ Duplicate(r)

Report(s) ==
  /\ HasResult(s)
  /\ CompleteTask(ResultOf(s))
  /\ job' = [job EXCEPT ![s] = NoJob]
  /\ UNCHANGED <<blobs, clientVars, late, alive, owed, faults, spoilt>>

\* The call times out: a copy of the result is still on its way (or was
\* applied and the reply lost), and with_retry sends it again.
ReportAgain(s) ==
  /\ Fault("repeat")
  /\ HasResult(s)
  /\ late' = late \cup {ResultOf(s)}
  /\ UNCHANGED <<dbVars, blobs, clientVars, job, alive, owed>>

\* The last of the 8 attempts fails too: loop() ignores the status.
ReportGivenUp(s) ==
  /\ Fault("giveup")
  /\ HasResult(s)
  /\ late' = late \cup {ResultOf(s)}
  /\ job' = [job EXCEPT ![s] = NoJob]
  /\ UNCHANGED <<dbVars, blobs, clientVars, alive, owed>>

LateReport(r) ==
  /\ CompleteTask(r)
  /\ late' = late \ {r}
  /\ UNCHANGED <<blobs, clientVars, job, alive, owed, faults, spoilt>>

-----------------------------------------------------------------------------
(* Leases *)

Leased(w) == {t \in Task : state[t] = "running" /\ owner[t] = w}

Heartbeat(w) ==
  /\ w \in alive
  /\ \E t \in Leased(w) : expired[t]
  /\ expired' = [t \in Task |-> IF t \in Leased(w) THEN FALSE ELSE expired[t]]
  /\ UNCHANGED <<state, pending, attempts, owner, failedBy, cooling, bstate, cache,
                 blobs, clientVars, workerVars, owed, faults, spoilt>>

ExpireLease(t) ==
  /\ state[t] = "running"
  /\ ~expired[t]
  /\ expired' = [expired EXCEPT ![t] = TRUE]
  /\ UNCHANGED <<state, pending, attempts, owner, failedBy, cooling, bstate, cache,
                 blobs, clientVars, workerVars, owed>>

\* Nobody renews a dead worker's lease; a live worker's runs out only if its
\* heartbeats are late by more than the lease.
LeaseOfDead(t) == owner[t] \notin alive /\ ExpireLease(t) /\ UNCHANGED <<faults, spoilt>>
LeaseOfSlow(t) == owner[t] \in alive /\ ExpireLease(t) /\ Fault("slow")

Cooled(t) ==
  /\ cooling[t]
  /\ cooling' = [cooling EXCEPT ![t] = FALSE]
  /\ UNCHANGED <<state, pending, attempts, owner, failedBy, expired, bstate, cache,
                 blobs, clientVars, workerVars, owed, faults, spoilt>>

Overdue == {t \in Task : state[t] = "running" /\ expired[t]}

\* One pass of reap_loop: the UPDATE commits by itself ...
Reap ==
  /\ owed = {}
  /\ Overdue # {}
  /\ Requeue(Overdue)
  /\ owed' = {BuildOf[t] : t \in {u \in Overdue : NextTry(u) = "failed"}}
  /\ UNCHANGED <<bstate, blobs, clientVars, workerVars, faults, spoilt>>

\* ... and maybe_finish is a later statement, one per failed row's build.
ReapVerdict(b) ==
  /\ b \in owed
  /\ bstate' = [bstate EXCEPT ![b] = MaybeFinish(b, @, state)]
  /\ owed' = owed \ {b}
  /\ UNCHANGED <<rowVars, cache, blobs, clientVars, workerVars, faults, spoilt>>

-----------------------------------------------------------------------------
(* Processes that stop and start *)

WorkerCrash(w) ==
  /\ Fault("crash")
  /\ w \in alive \cap Mortal
  /\ alive' = alive \ {w}
  /\ job' = [s \in Slot |-> IF WorkerOf[s] = w THEN NoJob ELSE job[s]]
  /\ UNCHANGED <<dbVars, blobs, clientVars, late, owed>>

WorkerRestart(w) ==
  /\ Fault("restart")
  /\ w \in Worker \ alive
  /\ alive' = alive \cup {w}
  /\ UNCHANGED <<dbVars, blobs, clientVars, job, late, owed>>

\* The coordinator keeps nothing else outside Postgres and the blob store.
CoordinatorRestart ==
  /\ Fault("coordinator")
  /\ owed # {}
  /\ owed' = {}
  /\ UNCHANGED <<dbVars, blobs, clientVars, workerVars>>

-----------------------------------------------------------------------------
SlotStep(s) == Execute(s) \/ Report(s) \/ \E t \in Task : ClaimTask(s, t)

Settled == \A b \in Build : stage[b] \in Ended

\* Nothing is left to do for a client: each is served or gone.
Idle == Settled /\ UNCHANGED vars

Next ==
  \/ \E b \in Build : Client(b) \/ HangUp(b) \/ ReapVerdict(b)
  \/ \E s \in Slot :
       \/ SlotStep(s) \/ ExecuteFails(s) \/ ExecuteDies(s)
       \/ ReportAgain(s) \/ ReportGivenUp(s)
       \/ \E t \in Task : ClaimLost(s, t)
  \/ \E r \in late : LateReport(r)
  \/ \E w \in Worker : Heartbeat(w) \/ WorkerCrash(w) \/ WorkerRestart(w)
  \/ \E t \in Task : LeaseOfDead(t) \/ LeaseOfSlow(t) \/ Cooled(t)
  \/ Reap
  \/ CoordinatorRestart
  \/ Idle

Spec == Init /\ [][Next]_vars

\* dcc, the slot threads and the reaper loop for ever; leases and cooldowns run
\* out by the clock.  Heartbeats and late results are promised nothing.
Fairness ==
  /\ \A b \in Build : WF_vars(Client(b)) /\ WF_vars(ReapVerdict(b))
  /\ \A s \in Slot : WF_vars(SlotStep(s))
  /\ \A t \in Task : WF_vars(LeaseOfDead(t)) /\ WF_vars(Cooled(t))
  /\ WF_vars(Reap)

FairSpec == Spec /\ Fairness

-----------------------------------------------------------------------------
(* Properties *)

TypeOK ==
  /\ state \in [Task -> RowState]
  /\ pending \in [Task -> Int]
  /\ attempts \in [Task -> 0 .. MaxAttempts]
  /\ owner \in [Task -> Worker \cup {NoWorker}]
  /\ failedBy \in [Task -> Worker \cup {NoWorker}]
  /\ expired \in [Task -> BOOLEAN]
  /\ cooling \in [Task -> BOOLEAN]
  /\ bstate \in [Build -> {"none", "running", "done", "failed"}]
  /\ cache \subseteq Keys
  /\ blobs \subseteq Blobs
  /\ stage \in [Build -> {"start", "checked", "uploaded", "polling", "fetching",
                          "ok", "failed", "error", "gone"}]
  /\ need \in [Build -> SUBSET Compile]
  /\ job \in [Slot -> Job \cup {NoJob}]
  /\ late \subseteq Result
  /\ alive \subseteq Worker
  /\ owed \subseteq Build
  /\ faults \in 0 .. MaxFaults
  /\ spoilt \subseteq Task

Unfinished(t) == {d \in Deps[t] : state[d] \notin Finished}

\* pending_deps counts exactly the deps without an output, whatever repeated,
\* stale and cascading completions there were, and a row leaves 'waiting' exactly
\* when the count is zero (finished, make_ready, submit).
PendingExact ==
  \A t \in Task : state[t] # "absent" =>
    /\ pending[t] = Cardinality(Unfinished(t))
    /\ state[t] = "waiting" <=> Unfinished(t) # {}

\* Every blob a claimed or claimable task will fetch is in the store: compile
\* inputs were uploaded although the upload set was computed from an earlier
\* look at the cache, and dep outputs were stored by whoever produced them.
InputsReady ==
  \A t \in Task : state[t] \in {"ready", "running"} => Inputs(t) \subseteq blobs

\* An attempt number is handed out once: no two slots hold the same attempt of
\* a task, so the attempts = $2 guard of "retry" identifies a claim.
AttemptUnique ==
  \A s, u \in Slot :
    job[s] # NoJob /\ job[u] # NoJob /\ job[s].task = job[u].task
      /\ job[s].attempt = job[u].attempt => s = u

\* A task that compiles is failed only after MaxAttempts separate faults, since no
\* attempt is burnt by a stale, repeated or late result, or because its own
\* command was failed by a machine: one such event is enough, in any attempt,
\* execute() reporting it as permanent.  No other task's bad luck counts.
FailurePaid ==
  \A t \in Task : state[t] = "failed" /\ t \notin Broken =>
    faults >= MaxAttempts \/ t \in spoilt

\* A build's verdict is what its rows say, although failed rows, cache hits and
\* completions of other builds come in any order.
VerdictSound ==
  \A b \in Build :
    /\ bstate[b] = "done" => \A t \in Rows(b) : state[t] \in Finished
    /\ bstate[b] = "failed" => \E t \in Rows(b) : state[t] = "failed"

\* A build with one sink is judged by the step that decides it, only sinks and
\* failures being looked at; while the reaper owes the verdict it may be late.
VerdictPrompt ==
  \A b \in Build \ owed :
    bstate[b] = "running" /\ Cardinality(Rows(b) \cap Sinks) = 1 =>
      /\ \E t \in Rows(b) : state[t] \notin Finished
      /\ \A t \in Rows(b) : state[t] # "failed"

\* dcc is never told that an input was not uploaded and never finds an output
\* missing, although the cache check, the upload, the submit and the download
\* are separate calls with other builds in between.
ClientServed == \A b \in Build : stage[b] # "error"

\* The results that have been or may still be reported.
Reported == late \cup {ResultOf(s) : s \in {u \in Slot : HasResult(u)}}

\* A running attempt ends without a success only because its own lease ran out,
\* its own worker reported it, or some attempt, this or an older one, was reported
\* as permanent ("fail" has no attempts guard): a stale transient failure cannot
\* cancel a newer attempt.
AttemptRevoked ==
  [][\A t \in Task : state[t] = "running" /\ state'[t] \in {"ready", "failed"} =>
       \/ expired[t]
       \/ \E r \in Reported :
            r.task = t /\ (r.attempt = attempts[t] \/ r.verdict = "fail")]_vars

\* Verdicts are final: a finished or failed row, a judged build and a cache row
\* never change again, whoever reports late.
TerminalFinal ==
  [][/\ \A t \in Task : state[t] \in Finished \cup {"failed"} => state'[t] = state[t]
     /\ \A b \in Build : bstate[b] \in {"done", "failed"} => bstate'[b] = bstate[b]
     /\ cache \subseteq cache']_vars

\* A row as the build graph sees it: somebody may run it, or it has an output.
Status ==
  [t \in Task |-> IF state[t] \in Finished THEN "finished"
                  ELSE IF state[t] \in {"ready", "running"} THEN "open" ELSE state[t]]

Abs == INSTANCE BuildGraph WITH status <- Status, verdict <- bstate

\* Workers, leases, attempts and repeated reports are invisible in the build
\* graph: every step opens, finishes or fails tasks and judges builds as
\* BuildGraph allows, or changes none of it.
RefinesBuildGraph == Abs!Spec

-----------------------------------------------------------------------------
(* What makes the above inductive *)

\* The rows of a build are inserted together, with the build.
RowsInserted == \A t \in Task : state[t] = "absent" <=> bstate[BuildOf[t]] = "none"

\* A row that has not been ready was never claimed; a ready row may be claimed.
AttemptsLeft ==
  \A t \in Task :
    /\ state[t] \in {"absent", "waiting"} => attempts[t] = 0
    /\ state[t] = "ready" => attempts[t] < MaxAttempts

\* A build exists once dcc has submitted it.
StageFits ==
  \A b \in Build : stage[b] \in {"start", "checked", "uploaded"} => bstate[b] = "none"

IInv == TypeOK /\ PendingExact /\ RowsInserted /\ AttemptsLeft /\ StageFits

-----------------------------------------------------------------------------
(* Liveness *)

\* Every submitted build is judged, also one whose client is gone, and a client
\* that keeps polling is told (the slot loops, reap_loop, maybe_finish, GetBuild).
BuildSettles ==
  \A b \in Build : bstate[b] = "running" ~>
    bstate[b] \in {"done", "failed"} /\ stage[b] \in {"ok", "failed", "gone"}
=============================================================================
