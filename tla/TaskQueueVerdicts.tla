-------------------------- MODULE TaskQueueVerdicts --------------------------
(***************************************************************************)
(* How a build comes to its verdict.  A row that compiles fails only after *)
(* MaxAttempts faults or one that hit its own command, a build is judged by*)
(* the step that decides it, and TaskQueue implements BuildGraph: seen     *)
(* through Status, a step of dcc, a slot, the coordinator, the reaper or   *)
(* the environment is one step of the build graph or none, for every graph *)
(* and every pattern of faults.                                            *)
(***************************************************************************)
EXTENDS TaskQueueProofs, WellFoundedInduction

-----------------------------------------------------------------------------
(* Failures are paid for *)

\* Every attempt of a row but the last has met a fault, and the last one may be
\* spared only while a live worker holds it under a lease that has not run out.
RowPaid(t) ==
  /\ state[t] = "ready" => attempts[t] <= faults
  /\ state[t] = "running" =>
       \/ attempts[t] <= faults
       \/ attempts[t] <= faults + 1 /\ ~expired[t] /\ owner[t] \in alive
  /\ state[t] = "failed" /\ t \notin Broken => faults >= MaxAttempts \/ t \in spoilt

\* A verdict v about attempt n of task t is true: a transient failure was a fault,
\* a success left its output in the store, and a task fails that is broken or whose
\* command was failed by a machine.
TrueOf(t, n, v) ==
  /\ v = "retry" => n <= faults
  /\ v = "ok" => Output[t] \in blobs
  /\ v = "fail" => t \in Broken \cup spoilt

\* A slot holds an attempt whose predecessors met a fault each, and can fetch all
\* it needs.
JobPaid(s) ==
  job[s] # NoJob =>
    /\ job[s].attempt <= faults + 1
    /\ Inputs(job[s].task) \subseteq blobs
    /\ TrueOf(job[s].task, job[s].attempt, job[s].step)

PaidInv ==
  /\ \A t \in Task : RowPaid(t)
  /\ \A s \in Slot : JobPaid(s)
  /\ \A r \in late : TrueOf(r.task, r.attempt, r.verdict)

\* Faults are only counted up and kept on record, and the store only grows.
LEMMA FaultsGrow ==
  ASSUME IInv, IInv', [Next]_vars
  PROVE  /\ faults \in Nat /\ faults' \in Nat /\ faults <= faults'
         /\ blobs \subseteq blobs' /\ spoilt \subseteq spoilt'
         /\ alive' = alive \/ faults' = faults + 1
<1>1. faults \in Nat /\ faults' \in Nat
  BY WorkerAssumption DEF IInv, TypeOK
<1>2. blobs \subseteq blobs'
  BY StepStored DEF Stored
<1>3. /\ spoilt \subseteq spoilt'
      /\ UNCHANGED <<faults, alive>> \/ faults' = faults + 1
  <2>1. CASE \E b \in Build : Client(b) \/ HangUp(b) \/ ReapVerdict(b)
    BY <2>1 DEF Client, CheckCache, Upload, SubmitBuild, GetBuild, FetchOutputs, HangUp,
                ReapVerdict, Fault, Counted, workerVars
  <2>2. CASE \E s \in Slot : SlotStep(s) \/ ExecuteFails(s) \/ ExecuteDies(s) \/ ReportAgain(s)
                            \/ ReportGivenUp(s) \/ \E t \in Task : ClaimLost(s, t)
    BY <2>2 DEF SlotStep, Execute, Report, ClaimTask, ExecuteFails, ExecuteDies,
                ReportAgain, ReportGivenUp, ClaimLost, Fault, Counted
  <2>3. CASE \E r \in late : LateReport(r)
    BY <2>3 DEF LateReport
  <2>4. CASE \E w \in Worker : Heartbeat(w) \/ WorkerCrash(w) \/ WorkerRestart(w)
    BY <2>4 DEF Heartbeat, WorkerCrash, WorkerRestart, Fault, Counted, workerVars
  <2>5. CASE \E t \in Task : LeaseOfDead(t) \/ LeaseOfSlow(t) \/ Cooled(t)
    BY <2>5 DEF LeaseOfDead, LeaseOfSlow, ExpireLease, Cooled, Fault, Counted, workerVars
  <2>6. CASE Reap \/ CoordinatorRestart \/ UNCHANGED vars
    BY <2>6 DEF Reap, CoordinatorRestart, Fault, Counted, vars, workerVars
  <2> QED
    BY <2>1, <2>2, <2>3, <2>4, <2>5, <2>6 DEF Next, Idle
<1> QED
  BY <1>1, <1>2, <1>3

\* What is true of an attempt stays true.
LEMMA TrueStays ==
  ASSUME NEW t, NEW n \in Nat, NEW v, TrueOf(t, n, v),
         faults \in Nat, faults' \in Nat, faults <= faults', blobs \subseteq blobs',
         spoilt \subseteq spoilt'
  PROVE  TrueOf(t, n, v)'
BY DEF TrueOf

\* A row that a step does not touch stays paid for.
LEMMA RowStays ==
  ASSUME IInv, NEW t \in Task, RowPaid(t),
         faults \in Nat, faults' \in Nat, faults <= faults', spoilt \subseteq spoilt',
         alive \subseteq alive' \/ faults' = faults + 1,
         state'[t] = state[t], attempts'[t] = attempts[t],
         owner'[t] = owner[t], expired'[t] \in {expired[t], FALSE}
  PROVE  RowPaid(t)'
<1>1. attempts[t] \in Nat /\ MaxAttempts \in Nat
  BY WorkerAssumption DEF IInv, TypeOK
<1>2. ~expired[t] => ~expired'[t]
  BY Zenon
<1>3. owner[t] \in alive => owner'[t] \in alive' \/ faults' = faults + 1
  OBVIOUS
<1>4. state'[t] = "ready" => attempts'[t] <= faults'
  BY <1>1 DEF RowPaid
<1>5. state'[t] = "failed" /\ t \notin Broken => faults' >= MaxAttempts \/ t \in spoilt'
  BY <1>1 DEF RowPaid
<1>6. ASSUME state'[t] = "running"
      PROVE  \/ attempts'[t] <= faults'
             \/ attempts'[t] <= faults' + 1 /\ ~expired'[t] /\ owner'[t] \in alive'
  <2>1. CASE attempts[t] <= faults
    BY <1>1, <2>1
  <2>2. CASE attempts[t] <= faults + 1 /\ ~expired[t] /\ owner[t] \in alive
    <3>1. attempts'[t] <= faults' + 1
      BY <1>1, <2>2
    <3>2. CASE faults' = faults + 1
      BY <2>2, <3>2
    <3> QED
      BY <1>2, <1>3, <2>2, <3>1, <3>2
  <2> QED
    BY <1>6, <2>1, <2>2 DEF RowPaid
<1> QED
  BY <1>4, <1>5, <1>6 DEF RowPaid

\* A requeued row's attempts have all met a fault, so if it has none left there
\* were MaxAttempts of them.
LEMMA RequeuePaid ==
  ASSUME IInv, \A t \in Task : RowPaid(t), NEW S \in SUBSET Task, Requeue(S),
         \A t \in S : state[t] = "running" /\ attempts[t] <= faults,
         UNCHANGED <<faults, spoilt, alive>>
  PROVE  \A t \in Task : RowPaid(t)'
<1>0. SUFFICES ASSUME NEW t \in Task PROVE RowPaid(t)'
  OBVIOUS
<1>1. attempts[t] \in Nat /\ MaxAttempts \in Nat /\ faults \in Nat
  BY WorkerAssumption DEF IInv, TypeOK
<1>2. /\ state'[t] = IF t \in S THEN NextTry(t) ELSE state[t]
      /\ owner'[t] = IF t \in S THEN NoWorker ELSE owner[t]
      /\ attempts' = attempts /\ expired' = expired
  BY DEF Requeue
<1>3. CASE t \in S
  <2>1. state'[t] = "ready" \/ (state'[t] = "failed" /\ attempts[t] >= MaxAttempts)
    <3>1. state'[t] = NextTry(t)
      BY <1>2, <1>3
    <3>2. CASE attempts[t] >= MaxAttempts
      BY <3>1, <3>2 DEF NextTry
    <3>3. CASE ~(attempts[t] >= MaxAttempts)
      BY <3>1, <3>3 DEF NextTry
    <3> QED
      BY <3>2, <3>3
  <2> QED
    BY <1>1, <1>2, <1>3, <2>1 DEF RowPaid
<1>4. CASE t \notin S
  BY <1>1, <1>2, <1>4, RowStays
<1> QED
  BY <1>3, <1>4

\* A report that is true, of whatever age, fails no row that is not paid for.
LEMMA CompletePaid ==
  ASSUME IInv, \A t \in Task : RowPaid(t), NEW r \in Result, CompleteTask(r),
         TrueOf(r.task, r.attempt, r.verdict), UNCHANGED <<faults, spoilt, alive>>
  PROVE  \A t \in Task : RowPaid(t)'
<1>d. DbInv /\ state \in [Task -> RowState]
  BY Split DEF IInv, TypeOK
<1>r. r.task \in Task /\ r.attempt \in Nat /\ faults \in Nat
  BY WorkerAssumption DEF Result, Attempt, IInv, TypeOK
<1>0. SUFFICES ASSUME NEW t \in Task PROVE RowPaid(t)'
  OBVIOUS
<1>1. CASE CompleteOk(r)
  <2>1. PICK hits \in SUBSET Rows(BuildOf[r.task]) :
          /\ hits = {u \in Released({r.task} \cup hits) : Key[u] \in cache'}
          /\ state' = [u \in Task |->
               IF u = r.task THEN "done" ELSE IF u \in hits THEN "cached"
               ELSE IF u \in Released({r.task} \cup hits) THEN "ready" ELSE state[u]]
    BY <1>1 DEF CompleteOk
  <2>2. /\ attempts' = attempts /\ expired' = expired /\ state[r.task] \in {"ready", "running"}
        /\ owner' = [owner EXCEPT ![r.task] = r.worker] /\ owner \in [Task -> Worker \cup {NoWorker}]
    BY <1>1 DEF CompleteOk, Open, IInv, TypeOK
  <2>3. CASE t \in {r.task} \cup hits
    <3>1. state'[t] \in Finished
      BY <2>1, <2>3 DEF Finished
    <3> QED
      BY <3>1 DEF RowPaid, Finished
  <2>4. CASE t \in Released({r.task} \cup hits) /\ t \notin {r.task} \cup hits
    <3>1. state'[t] = "ready"
      BY <2>1, <2>4
    <3>2. attempts[t] = 0
      <4>1. BuildOf[t] = BuildOf[r.task]
        BY <2>4, GraphAssumption DEF Released, Rows
      <4>2. bstate[BuildOf[t]] # "none"
        BY <1>r, <2>2, <4>1 DEF IInv, RowsInserted
      <4>3. state[t] # "absent"
        BY <4>2 DEF IInv, RowsInserted
      <4> QED
        BY <1>d, <2>4, <4>3, ReleasedWaits
    <3> QED
      BY <1>r, <2>2, <3>1, <3>2 DEF RowPaid
  <2>5. CASE t \notin {r.task} \cup hits /\ t \notin Released({r.task} \cup hits)
    <3>1. state'[t] = state[t]
      BY <2>1, <2>5
    <3>2. owner'[t] = owner[t] /\ attempts'[t] = attempts[t] /\ expired'[t] = expired[t]
      BY <2>2, <2>5
    <3>3. /\ faults' \in Nat /\ faults <= faults' /\ spoilt \subseteq spoilt'
          /\ alive \subseteq alive' /\ RowPaid(t)
      BY <1>r
    <3> QED
      BY ONLY IInv, t \in Task, <1>r, <3>1, <3>2, <3>3, RowStays
  <2> QED
    BY <2>3, <2>4, <2>5
<1>2. CASE EffectiveVerdict(r) = "retry" /\ CompleteRetry(r)
  <2>1. r.attempt <= faults
    BY <1>2 DEF EffectiveVerdict, TrueOf
  <2>2. state[r.task] = "running" /\ attempts[r.task] = r.attempt /\ Requeue({r.task})
    BY <1>2 DEF CompleteRetry, Current
  <2> QED
    BY <1>r, <2>1, <2>2, RequeuePaid
<1>3. CASE EffectiveVerdict(r) = "fail" /\ CompleteFail(r)
  <2>1. r.task \in Broken \cup spoilt'
    BY <1>3 DEF EffectiveVerdict, TrueOf
  <2>2. /\ state' = [state EXCEPT ![r.task] = "failed"]
        /\ attempts' = attempts /\ expired' = expired /\ owner' = owner
    BY <1>3 DEF CompleteFail
  <2>3. CASE t = r.task
    BY <1>d, <2>1, <2>2, <2>3 DEF RowPaid
  <2>4. CASE t # r.task
    BY <1>d, <1>r, <2>2, <2>4, RowStays
  <2> QED
    BY <2>3, <2>4
<1>4. CASE Duplicate(r)
  BY <1>4, <1>r, RowStays DEF Duplicate, dbVars, rowVars
<1> QED
  BY <1>1, <1>2, <1>3, <1>4 DEF CompleteTask

\* A slot that a step does not touch, or empties, stays paid for.
LEMMA JobStays ==
  ASSUME IInv, NEW s \in Slot, JobPaid(s), job'[s] \in {job[s], NoJob},
         faults \in Nat, faults' \in Nat, faults <= faults', blobs \subseteq blobs',
         spoilt \subseteq spoilt'
  PROVE  JobPaid(s)'
<1> SUFFICES ASSUME job'[s] # NoJob, job'[s] = job[s], job[s] # NoJob
             PROVE  /\ job[s].attempt <= faults' + 1
                    /\ Inputs(job[s].task) \subseteq blobs'
                    /\ TrueOf(job[s].task, job[s].attempt, job[s].step)'
  <2>1. CASE job'[s] = NoJob
    BY <2>1 DEF JobPaid
  <2>2. ASSUME job'[s] # NoJob PROVE job'[s] = job[s] /\ job[s] # NoJob
    BY <2>2
  <2> QED
    BY <2>1, <2>2 DEF JobPaid, TrueOf
<1>1. job[s] \in Job
  BY DEF IInv, TypeOK
<1>2. job[s].attempt \in Nat
  BY <1>1, WorkerAssumption DEF Job, Attempt
<1>3. /\ job[s].attempt <= faults + 1
      /\ Inputs(job[s].task) \subseteq blobs
      /\ TrueOf(job[s].task, job[s].attempt, job[s].step)
  BY DEF JobPaid
<1>4. TrueOf(job[s].task, job[s].attempt, job[s].step)'
  BY <1>2, <1>3 DEF TrueOf
<1> QED
  BY <1>2, <1>3, <1>4

\* Claims, executions and everything else leave what the slots hold true.
LEMMA StepJobs ==
  ASSUME IInv, IInv', [Next]_vars, InputsReady, PaidInv, NEW s \in Slot
  PROVE  JobPaid(s)'
<1>f. /\ faults \in Nat /\ faults' \in Nat /\ faults <= faults'
      /\ blobs \subseteq blobs' /\ spoilt \subseteq spoilt' /\ JobPaid(s)
  BY FaultsGrow DEF PaidInv
<1>t. job \in [Slot -> Job \cup {NoJob}]
  BY DEF IInv, TypeOK
<1>e. ASSUME job'[s] \in {job[s], NoJob} PROVE JobPaid(s)'
  BY <1>e, <1>f, JobStays
<1>1. CASE \E b \in Build : Client(b) \/ HangUp(b) \/ ReapVerdict(b)
  BY <1>1, <1>e DEF Client, HangUp, CheckCache, Upload, SubmitBuild, GetBuild,
     FetchOutputs, ReapVerdict, workerVars
<1>2. ASSUME NEW u \in Slot, NEW t \in Task, ClaimTask(u, t) PROVE JobPaid(s)'
  <2>1. CASE u = s
    <3>1. job'[s] = [task |-> t, attempt |-> attempts[t] + 1, step |-> "execute"]
      BY <1>t, <1>2, <2>1 DEF ClaimTask, NextAttempt
    <3>2. state[t] = "ready" /\ blobs' = blobs /\ faults' = faults
      BY <1>2 DEF ClaimTask, ClaimRow, Claimable
    <3>3. attempts[t] \in Nat /\ attempts[t] <= faults
      BY <3>2, WorkerAssumption DEF PaidInv, RowPaid, IInv, TypeOK
    <3>4. Inputs(t) \subseteq blobs'
      BY <3>2 DEF InputsReady
    <3> QED
      BY <1>f, <3>1, <3>2, <3>3, <3>4 DEF JobPaid, TrueOf
  <2>2. CASE u # s
    BY <1>t, <1>2, <1>e, <2>2 DEF ClaimTask
  <2> QED
    BY <2>1, <2>2
<1>3. ASSUME NEW u \in Slot, \E t \in Task : ClaimLost(u, t) PROVE JobPaid(s)'
  BY <1>3, <1>e DEF ClaimLost, workerVars
<1>4. ASSUME NEW u \in Slot, Execute(u) \/ ExecuteFails(u) \/ ExecuteDies(u)
      PROVE  JobPaid(s)'
  <2>0. PICK v : /\ job' = [job EXCEPT ![u].step = v] /\ job[u] # NoJob /\ job[u].step = "execute"
                 /\ \/ v = "retry" /\ faults' = faults + 1
                    \/ v = "fail" /\ job[u].task \in spoilt'
                    \/ /\ v = RunVerdict(job[u].task)
                       /\ blobs' = IF v = "ok" THEN blobs \cup {Output[job[u].task]} ELSE blobs
    BY <1>4 DEF Execute, ExecuteFails, ExecuteDies, SetStep, Fault, Counted
  <2>1. CASE u = s
    <3>1. job[s] \in Job
      BY <1>t, <2>0, <2>1
    <3>2. /\ job'[s].task = job[s].task /\ job'[s].attempt = job[s].attempt
          /\ job'[s].step = v
      BY <1>t, <2>0, <2>1, <3>1 DEF Job
    <3>3. job[s].attempt \in Nat
      BY <3>1, WorkerAssumption DEF Job, Attempt
    <3>4. job[s].attempt <= faults + 1 /\ Inputs(job[s].task) \subseteq blobs
      BY <1>f, <2>0, <2>1 DEF JobPaid
    <3>5. v = "retry" => faults' = faults + 1
      BY <2>0, <2>1, <3>4 DEF RunVerdict
    <3>6. v = "ok" => Output[job[s].task] \in blobs'
      BY <2>0, <2>1
    <3>7. v = "fail" => job[s].task \in Broken \cup spoilt'
      BY <2>0, <2>1, <3>4 DEF RunVerdict
    <3>8. TrueOf(job[s].task, job[s].attempt, job[s].step)'
      BY <1>f, <3>2, <3>3, <3>4, <3>5, <3>6, <3>7 DEF TrueOf
    <3>9. job[s].attempt <= faults' + 1 /\ Inputs(job[s].task) \subseteq blobs'
      BY <1>f, <3>3, <3>4
    <3> QED
      BY <3>2, <3>8, <3>9 DEF JobPaid, TrueOf
  <2>2. CASE u # s
    BY <1>t, <1>e, <2>0, <2>2
  <2> QED
    BY <2>1, <2>2
<1>5. ASSUME NEW u \in Slot, Report(u) \/ ReportGivenUp(u) PROVE JobPaid(s)'
  BY <1>t, <1>5, <1>e DEF Report, ReportGivenUp
<1>6. ASSUME NEW u \in Slot, ReportAgain(u) PROVE JobPaid(s)'
  BY <1>6, <1>e DEF ReportAgain
<1>7. CASE \E r \in late : LateReport(r)
  BY <1>7, <1>e DEF LateReport
<1>8. CASE \E w \in Worker : Heartbeat(w) \/ WorkerCrash(w) \/ WorkerRestart(w)
  BY <1>8, <1>e DEF Heartbeat, WorkerCrash, WorkerRestart, workerVars
<1>9. CASE \E t \in Task : LeaseOfDead(t) \/ LeaseOfSlow(t) \/ Cooled(t)
  BY <1>9, <1>e DEF LeaseOfDead, LeaseOfSlow, ExpireLease, Cooled, workerVars
<1>10. CASE Reap \/ CoordinatorRestart \/ UNCHANGED vars
  BY <1>10, <1>e DEF Reap, CoordinatorRestart, vars, workerVars
<1> QED
  BY <1>1, <1>2, <1>3, <1>4, <1>5, <1>6, <1>7, <1>8, <1>9, <1>10 DEF Next, SlotStep, Idle

\* A result on its way is a slot's, so it is as true as the slot's was.
LEMMA StepLate ==
  ASSUME IInv, IInv', [Next]_vars, PaidInv, NEW r \in late'
  PROVE  TrueOf(r.task, r.attempt, r.verdict)'
<1>f. /\ faults \in Nat /\ faults' \in Nat /\ faults <= faults' /\ blobs \subseteq blobs'
      /\ spoilt \subseteq spoilt'
  BY FaultsGrow
<1>t. r \in Result /\ r.attempt \in Nat
  BY WorkerAssumption DEF IInv, TypeOK, Result, Attempt
<1>1. CASE r \in late
  <2>1. TrueOf(r.task, r.attempt, r.verdict)
    BY <1>1 DEF PaidInv
  <2> QED
    BY <1>f, <1>t, <2>1 DEF TrueOf
<1>2. ASSUME NEW s \in Slot, HasResult(s), r = ResultOf(s)
      PROVE  TrueOf(r.task, r.attempt, r.verdict)'
  <2>1. /\ r.task = job[s].task /\ r.attempt = job[s].attempt /\ r.verdict = job[s].step
        /\ job[s] # NoJob
    BY <1>2 DEF ResultOf, HasResult
  <2>2. TrueOf(r.task, r.attempt, r.verdict)
    BY <2>1 DEF PaidInv, JobPaid
  <2> QED
    BY <1>f, <1>t, <2>2 DEF TrueOf
<1>3. late' \subseteq late \/ \E s \in Slot : HasResult(s) /\ late' = late \cup {ResultOf(s)}
  <2>1. CASE \E b \in Build : Client(b) \/ HangUp(b) \/ ReapVerdict(b)
    BY <2>1 DEF Client, HangUp, CheckCache, Upload, SubmitBuild, GetBuild,
       FetchOutputs, ReapVerdict, workerVars
  <2>2. CASE \E s \in Slot : SlotStep(s) \/ ExecuteFails(s) \/ ExecuteDies(s)
                            \/ \E t \in Task : ClaimLost(s, t)
    BY <2>2 DEF SlotStep, Execute, Report, ClaimTask, ExecuteFails, ExecuteDies, ClaimLost, workerVars
  <2>3. CASE \E s \in Slot : ReportAgain(s) \/ ReportGivenUp(s)
    BY <2>3 DEF ReportAgain, ReportGivenUp
  <2>4. CASE \E x \in late : LateReport(x)
    BY <2>4 DEF LateReport
  <2>5. CASE \E w \in Worker : Heartbeat(w) \/ WorkerCrash(w) \/ WorkerRestart(w)
    BY <2>5 DEF Heartbeat, WorkerCrash, WorkerRestart, workerVars
  <2>6. CASE \E t \in Task : LeaseOfDead(t) \/ LeaseOfSlow(t) \/ Cooled(t)
    BY <2>6 DEF LeaseOfDead, LeaseOfSlow, ExpireLease, Cooled, workerVars
  <2>7. CASE Reap \/ CoordinatorRestart \/ UNCHANGED vars
    BY <2>7 DEF Reap, CoordinatorRestart, vars, workerVars
  <2> QED
    BY <2>1, <2>2, <2>3, <2>4, <2>5, <2>6, <2>7 DEF Next, Idle
<1> QED
  BY <1>1, <1>2, <1>3

\* A claim is a row's next attempt; a lease runs out or a claim is lost for a
\* fault; every other step that touches rows is a report or the reaper's.
LEMMA StepRows ==
  ASSUME IInv, IInv', [Next]_vars, PaidInv
  PROVE  \A t \in Task : RowPaid(t)'
<1>f. /\ faults \in Nat /\ faults' \in Nat /\ faults <= faults'
      /\ spoilt \subseteq spoilt' /\ (alive' = alive \/ faults' = faults + 1)
  BY FaultsGrow
<1>p. \A t \in Task : RowPaid(t)
  BY DEF PaidInv
<1>t. /\ state \in [Task -> RowState] /\ attempts \in [Task -> 0 .. MaxAttempts]
      /\ owner \in [Task -> Worker \cup {NoWorker}] /\ expired \in [Task -> BOOLEAN]
      /\ \A t \in Task : attempts[t] \in Nat
  BY WorkerAssumption DEF IInv, TypeOK
<1>d. DbInv /\ ProcType
  BY Split
<1>s. ASSUME UNCHANGED <<state, attempts, owner>>,
             \A t \in Task : expired'[t] \in {expired[t], FALSE}
      PROVE  \A t \in Task : RowPaid(t)'
  BY <1>f, <1>p, <1>s, RowStays
<1>e. ASSUME UNCHANGED <<state, attempts, owner, expired>>
      PROVE  \A t \in Task : RowPaid(t)'
  BY <1>e, <1>s
<1>1. ASSUME NEW b \in Build, Client(b) PROVE \A t \in Task : RowPaid(t)'
  <2>1. CASE SubmitBuild(b) /\ ~Rejected(b)
    <3>1. InsertRows(b) /\ bstate[b] = "none"
      BY <2>1 DEF SubmitBuild, IInv, StageFits
    <3>2. UNCHANGED <<attempts, owner, expired>>
      BY <3>1 DEF InsertRows
    <3>3. \A t \in Task : \/ state'[t] = state[t]
                          \/ t \in Rows(b) /\ state'[t] \in {"cached", "ready", "waiting"}
      BY <3>1 DEF InsertRows
    <3>4. \A t \in Rows(b) : t \in Task /\ attempts[t] = 0
      BY <3>1 DEF IInv, RowsInserted, AttemptsLeft, Rows
    <3> SUFFICES ASSUME NEW t \in Task PROVE RowPaid(t)'
      OBVIOUS
    <3>5. CASE state'[t] = state[t]
      BY <1>f, <1>p, <3>2, <3>5, RowStays
    <3>6. CASE t \in Rows(b) /\ state'[t] \in {"cached", "ready", "waiting"}
      BY <1>f, <3>2, <3>4, <3>6 DEF RowPaid
    <3> QED
      BY <3>3, <3>5, <3>6
  <2>2. CASE ~(SubmitBuild(b) /\ ~Rejected(b))
    BY <1>1, <2>2, <1>e DEF Client, CheckCache, Upload, SubmitBuild, GetBuild, FetchOutputs,
       dbVars, rowVars
  <2> QED
    BY <2>1, <2>2
<1>2. ASSUME NEW w, NEW t \in Task, ClaimRow(w, t), w \in alive' \/ faults' = faults + 1
      PROVE  \A u \in Task : RowPaid(u)'
  <2>1. /\ state[t] = "ready" /\ state' = [state EXCEPT ![t] = "running"]
        /\ owner' = [owner EXCEPT ![t] = w] /\ expired' = [expired EXCEPT ![t] = FALSE]
        /\ attempts' = [attempts EXCEPT ![t] = attempts[t] + 1]
    BY <1>2 DEF ClaimRow, Claimable, NextAttempt
  <2> SUFFICES ASSUME NEW u \in Task PROVE RowPaid(u)'
    OBVIOUS
  <2>2. CASE u = t
    <3>1. /\ state'[t] = "running" /\ owner'[t] = w /\ expired'[t] = FALSE
          /\ attempts'[t] = attempts[t] + 1
      BY <1>t, <2>1
    <3>2. attempts[t] <= faults
      BY <1>p, <2>1 DEF RowPaid
    <3> QED
      BY <1>f, <1>t, <1>2, <2>2, <3>1, <3>2 DEF RowPaid
  <2>3. CASE u # t
    <3>1. /\ state'[u] = state[u] /\ owner'[u] = owner[u] /\ expired'[u] = expired[u]
          /\ attempts'[u] = attempts[u]
      BY <1>t, <2>1, <2>3
    <3> QED
      BY <1>f, <1>p, <3>1, RowStays
  <2> QED
    BY <2>2, <2>3
<1>3. ASSUME NEW s \in Slot, NEW t \in Task, ClaimTask(s, t) \/ ClaimLost(s, t)
      PROVE  \A u \in Task : RowPaid(u)'
  BY <1>2, <1>3 DEF ClaimTask, ClaimLost, Fault, Counted
<1>4. ASSUME NEW s \in Slot, Report(s) PROVE \A u \in Task : RowPaid(u)'
  <2>1. ResultOf(s) \in Result /\ CompleteTask(ResultOf(s)) /\ UNCHANGED <<faults, spoilt, alive>>
    BY <1>d, <1>4, ResultType DEF Report
  <2>2. TrueOf(ResultOf(s).task, ResultOf(s).attempt, ResultOf(s).verdict)
    BY <1>4 DEF Report, HasResult, ResultOf, PaidInv, JobPaid
  <2> QED
    BY <1>p, <2>1, <2>2, CompletePaid
<1>5. ASSUME NEW r \in late, LateReport(r) PROVE \A u \in Task : RowPaid(u)'
  <2>1. r \in Result /\ CompleteTask(r) /\ UNCHANGED <<faults, spoilt, alive>>
    BY <1>d, <1>5 DEF ProcType, LateReport
  <2>2. TrueOf(r.task, r.attempt, r.verdict)
    BY DEF PaidInv
  <2> QED
    BY <1>p, <2>1, <2>2, CompletePaid
<1>6. ASSUME NEW t \in Task, LeaseOfDead(t) \/ LeaseOfSlow(t)
      PROVE  \A u \in Task : RowPaid(u)'
  <2>1. /\ state[t] = "running" /\ UNCHANGED <<state, attempts, owner, alive>>
        /\ expired' = [expired EXCEPT ![t] = TRUE]
    BY <1>6 DEF LeaseOfDead, LeaseOfSlow, ExpireLease, workerVars
  <2>2. attempts[t] <= faults'
    <3>1. CASE owner[t] \notin alive
      BY <1>f, <1>p, <1>t, <2>1, <3>1 DEF RowPaid
    <3>2. CASE faults' = faults + 1
      BY <1>f, <1>p, <1>t, <2>1, <3>2 DEF RowPaid
    <3> QED
      BY <1>6, <3>1, <3>2 DEF LeaseOfDead, LeaseOfSlow, Fault, Counted
  <2> SUFFICES ASSUME NEW u \in Task PROVE RowPaid(u)'
    OBVIOUS
  <2>3. CASE u = t
    BY <1>f, <2>1, <2>2, <2>3 DEF RowPaid
  <2>4. CASE u # t
    BY <1>f, <1>p, <1>t, <2>1, <2>4, RowStays
  <2> QED
    BY <2>3, <2>4
<1>7. CASE Reap
  <2>1. /\ Overdue \in SUBSET Task /\ Requeue(Overdue) /\ UNCHANGED <<faults, spoilt, alive>>
    BY <1>7 DEF Reap, Overdue, workerVars
  <2>2. \A t \in Overdue : state[t] = "running" /\ attempts[t] <= faults
    BY <1>p DEF Overdue, RowPaid
  <2> QED
    BY <1>p, <2>1, <2>2, RequeuePaid
<1>8. ASSUME NEW w \in Worker, Heartbeat(w) PROVE \A u \in Task : RowPaid(u)'
  BY <1>8, <1>s DEF Heartbeat
<1>9. CASE \/ \E w \in Worker : WorkerCrash(w) \/ WorkerRestart(w)
           \/ \E t \in Task : Cooled(t)
           \/ \E b \in Build : HangUp(b) \/ ReapVerdict(b)
           \/ \E s \in Slot : Execute(s) \/ ExecuteFails(s) \/ ExecuteDies(s)
                             \/ ReportAgain(s) \/ ReportGivenUp(s)
           \/ CoordinatorRestart
           \/ UNCHANGED vars
  BY <1>9, <1>e DEF WorkerCrash, WorkerRestart, Cooled, HangUp, ReapVerdict, Execute,
     ExecuteFails, ExecuteDies, ReportAgain, ReportGivenUp, CoordinatorRestart, vars, dbVars, rowVars
<1> QED
  BY <1>1, <1>3, <1>4, <1>5, <1>6, <1>7, <1>8, <1>9 DEF Next, SlotStep, Idle

\* A task that compiles is failed only after MaxAttempts faults or after one in
\* which its own command was failed by a machine (a time-out, a killed compiler, a
\* failed fork: execute() takes them for compile errors), for every graph, every
\* MaxAttempts and whatever stale, repeated or late results there are.
THEOREM FailuresPaid == Spec => []FailurePaid
<1>1. Init => PaidInv
  BY DEF Init, PaidInv, RowPaid, JobPaid
<1>2. PaidInv /\ IInv /\ IInv' /\ InputsReady /\ [Next]_vars => PaidInv'
  BY StepRows, StepJobs, StepLate DEF PaidInv
<1>3. PaidInv => FailurePaid
  BY DEF PaidInv, RowPaid, FailurePaid
<1> QED
  BY <1>1, <1>2, <1>3, Invariance, InputsCorrect, PTL DEF Spec

-----------------------------------------------------------------------------
(* Verdicts are prompt *)

\* The rows st of build b decide nothing yet.
Undecided(b, st) ==
  /\ \E t \in Rows(b) : st[t] \notin Finished
  /\ \A t \in Rows(b) : st[t] # "failed"

\* A build that is not judged is undecided, however many sinks it has, unless the
\* reaper has failed one of its rows and is about to judge it.
PromptInv ==
  /\ \A b \in Build \ owed : bstate[b] = "running" => Undecided(b, state)
  /\ \A b \in owed : \E t \in Rows(b) : state[t] = "failed"

\* Of any tasks, one comes last in topo_order.
LEMMA LastInOrder ==
  ASSUME NEW S \in SUBSET Task, S # {}
  PROVE  \E t \in S : \A u \in S : ~(Rank[u] > Rank[t])
<1> DEFINE Above(t) == {u \in S : Rank[u] > Rank[t]}
           Counts == {Cardinality(Above(t)) : t \in S}
<1>0. \A t \in S : Rank[t] \in Nat
  BY GraphAssumption
<1>1. \A t \in S : IsFiniteSet(Above(t)) /\ Cardinality(Above(t)) \in Nat
  BY GraphAssumption, FS_Subset, FS_CardinalityType
<1>2. Counts \subseteq Nat /\ Counts # {}
  BY <1>1
<1>3. PICK c \in Counts : \A d \in Counts : ~(<<d, c>> \in OpToRel(<, Nat))
  BY <1>2, NatLessThanWellFounded, WFMin
<1>4. \A d \in Counts : ~(d < c)
  BY <1>2, <1>3 DEF OpToRel
<1>5. PICK t \in S : c = Cardinality(Above(t))
  OBVIOUS
<1>6. ASSUME NEW u \in S, Rank[u] > Rank[t] PROVE FALSE
  <2>1. Above(u) \subseteq Above(t) /\ u \in Above(t) /\ u \notin Above(u)
    <3>1. ~(Rank[u] > Rank[u])
      BY <1>0
    <3>2. \A v \in S : Rank[v] > Rank[u] => Rank[v] > Rank[t]
      BY <1>0, <1>6
    <3> QED
      BY <1>6, <3>1, <3>2
  <2>2. Cardinality(Above(u)) <= Cardinality(Above(t)) /\ Cardinality(Above(u)) # Cardinality(Above(t))
    BY <1>1, <2>1, FS_Subset
  <2>3. Cardinality(Above(u)) \in Counts
    OBVIOUS
  <2> HIDE DEF Above, Counts
  <2> QED
    BY <1>1, <1>2, <1>4, <1>5, <2>2, <2>3
<1> QED
  BY <1>6

\* A build with an unfinished row has an unfinished sink: looking at the build only
\* when a sink finishes overlooks nothing.
LEMMA SinkUnfinished ==
  ASSUME IInv, NEW b \in Build, bstate[b] # "none",
         \E t \in Rows(b) : state[t] \notin Finished
  PROVE  \E t \in Rows(b) \cap Sinks : state[t] \notin Finished
<1> DEFINE S == {t \in Rows(b) : state[t] \notin Finished}
<1>1. PICK t \in S : \A u \in S : ~(Rank[u] > Rank[t])
  <2>1. S \in SUBSET Task /\ S # {}
    BY DEF Rows
  <2> HIDE DEF S
  <2> QED
    BY <2>1, LastInOrder
<1>2. ASSUME NEW u \in Task, t \in Deps[u] PROVE FALSE
  <2>1. u \in Rows(b) /\ Rank[u] > Rank[t]
    BY <1>1, <1>2, GraphAssumption DEF Rows
  <2>2. state[u] # "absent"
    BY <2>1 DEF IInv, RowsInserted, Rows
  <2>3. Unfinished(u) # {}
    BY <1>2 DEF Unfinished
  <2>4. state[u] = "waiting"
    BY <2>2, <2>3, <1>2 DEF IInv, PendingExact
  <2> QED
    BY <1>1, <2>1, <2>4 DEF Finished
<1>3. t \in Sinks
  BY <1>2 DEF Sinks, Dependents, Rows
<1> QED
  BY <1>3

\* maybe_finish leaves a build running only if its rows decide nothing.
LEMMA JudgedIfDecided ==
  ASSUME NEW b, NEW st, MaybeFinish(b, "running", st) = "running"
  PROVE  Undecided(b, st)
BY DEF MaybeFinish, Undecided

\* A build is undecided as before if no row of it fails or finishes.
LEMMA UndecidedStays ==
  ASSUME NEW b, Undecided(b, state),
         \A t \in Rows(b) : /\ state'[t] \in Finished <=> state[t] \in Finished
                            /\ state'[t] = "failed" => state[t] = "failed"
  PROVE  Undecided(b, state')
BY DEF Undecided

\* A build that a report leaves running is undecided.
LEMMA CompletePrompt ==
  ASSUME IInv, IInv', NEW r \in Result, CompleteTask(r), NEW b \in Build,
         bstate[b] = "running" => Undecided(b, state), bstate'[b] = "running"
  PROVE  Undecided(b, state')
<1>d. DbInv
  BY Split
<1>r. r.task \in Task /\ BuildOf[r.task] \in Build
  BY GraphAssumption DEF Result
<1>t. /\ bstate \in [Build -> {"none", "running", "done", "failed"}]
      /\ state \in [Task -> RowState]
  BY DEF IInv, TypeOK
<1>f. bstate[b] = "running"
  <2>1. Forward
    BY <1>d, CompleteForward
  <2>2. bstate[b] # "none"
    <3>1. CASE UNCHANGED bstate
      BY <3>1
    <3>2. CASE ~UNCHANGED bstate
      <4>1. state[r.task] # "absent"
        BY <3>2 DEF CompleteTask, CompleteOk, CompleteRetry, CompleteFail, Duplicate,
                    Open, Current, dbVars
      <4>2. bstate[BuildOf[r.task]] # "none"
        BY <1>r, <4>1 DEF IInv, RowsInserted
      <4>3. BuildOf[r.task] # b => bstate'[b] = bstate[b]
        BY <1>t, <3>2 DEF CompleteTask, CompleteOk, CompleteRetry, CompleteFail, Duplicate,
                    dbVars
      <4> QED
        BY <4>2, <4>3
    <3> QED
      BY <3>1, <3>2
  <2> QED
    BY <2>1, <2>2, <1>t DEF Forward
<1>u. Undecided(b, state)
  BY <1>f
<1>1. CASE CompleteOk(r)
  <2> DEFINE c == BuildOf[r.task]
  <2>1. PICK hits \in SUBSET Rows(c) :
          LET New == {r.task} \cup hits IN
          /\ hits = {u \in Released(New) : Key[u] \in cache'}
          /\ state' = [u \in Task |->
               IF u = r.task THEN "done" ELSE IF u \in hits THEN "cached"
               ELSE IF u \in Released(New) THEN "ready" ELSE state[u]]
          /\ bstate' = [bstate EXCEPT ![c] =
               IF NeedsVerdict(r.task, New) THEN MaybeFinish(c, @, state') ELSE @]
    BY <1>1 DEF CompleteOk
  <2> DEFINE New == {r.task} \cup hits
  <2>2. state[r.task] \in {"ready", "running"}
    BY <1>1 DEF CompleteOk, Open
  <2>3. \A u \in Released(New) : BuildOf[u] = c
    BY <1>r, GraphAssumption DEF Released, Rows
  <2>4. \A u \in Released(New) : u \in Task /\ state[u] # "absent"
    BY <1>r, <2>2, <2>3 DEF Released, IInv, RowsInserted
  <2>5. \A u \in Released(New) : state[u] = "waiting"
    BY <1>d, <2>4, ReleasedWaits
  <2>6. \A u \in Task : state'[u] =
          IF u = r.task THEN "done" ELSE IF u \in hits THEN "cached"
          ELSE IF u \in Released(New) THEN "ready" ELSE state[u]
    BY <2>1
  <2>7. CASE b # c
    <3>1. \A u \in Rows(b) : u \in Task /\ state'[u] = state[u]
      BY <2>3, <2>6, <2>7 DEF Rows
    <3> QED
      BY <1>u, <3>1, UndecidedStays
  <2>8. CASE b = c /\ NeedsVerdict(r.task, New)
    <3>1. bstate'[b] = MaybeFinish(b, "running", state')
      BY <1>f, <1>t, <2>1, <2>8
    <3> QED
      BY <3>1, JudgedIfDecided
  <2>9. CASE b = c /\ ~NeedsVerdict(r.task, New)
    <3>1. PICK t \in Rows(b) \cap Sinks : state[t] \notin Finished
      BY <1>f, <1>u, SinkUnfinished DEF Undecided
    <3>2. t \in Task /\ t \notin New
      BY <2>9, <3>1 DEF NeedsVerdict, Sinks
    <3>3. state'[t] \notin Finished
      BY <2>6, <3>1, <3>2 DEF Finished
    <3>4. ASSUME NEW u \in Rows(b) PROVE state'[u] # "failed"
      <4>1. u \in Task /\ state[u] # "failed"
        BY <1>u DEF Undecided, Rows
      <4> QED
        BY <2>6, <4>1
    <3> QED
      BY <3>1, <3>3, <3>4 DEF Undecided
  <2> QED
    BY <2>7, <2>8, <2>9
<1>2. CASE CompleteRetry(r)
  <2>1. /\ state[r.task] = "running" /\ Requeue({r.task})
        /\ bstate' = [bstate EXCEPT ![BuildOf[r.task]] =
             IF NextTry(r.task) = "failed" THEN MaybeFinish(BuildOf[r.task], @, state') ELSE @]
    BY <1>2 DEF CompleteRetry, Current
  <2>2. \A u \in Task : state'[u] = IF u = r.task THEN NextTry(u) ELSE state[u]
    BY <2>1 DEF Requeue
  <2>3. NextTry(r.task) \in {"ready", "failed"}
    BY DEF NextTry
  <2>4. CASE b = BuildOf[r.task] /\ NextTry(r.task) = "failed"
    <3>1. bstate'[b] = MaybeFinish(b, "running", state')
      BY <1>f, <1>t, <2>1, <2>4
    <3> QED
      BY <3>1, JudgedIfDecided
  <2>5. CASE ~(b = BuildOf[r.task] /\ NextTry(r.task) = "failed")
    <3>1. \A u \in Rows(b) : /\ state'[u] \in Finished <=> state[u] \in Finished
                             /\ state'[u] = "failed" => state[u] = "failed"
      BY <2>1, <2>2, <2>3, <2>5 DEF Rows, Finished
    <3> QED
      BY <1>u, <3>1, UndecidedStays
  <2> QED
    BY <2>4, <2>5
<1>3. CASE CompleteFail(r)
  <2>1. /\ state' = [state EXCEPT ![r.task] = "failed"]
        /\ bstate' = [bstate EXCEPT ![BuildOf[r.task]] = MaybeFinish(BuildOf[r.task], @, state')]
    BY <1>3 DEF CompleteFail
  <2>2. CASE b = BuildOf[r.task]
    <3>1. bstate'[b] = MaybeFinish(b, "running", state')
      BY <1>f, <1>t, <2>1, <2>2
    <3> QED
      BY <3>1, JudgedIfDecided
  <2>3. CASE b # BuildOf[r.task]
    <3>1. \A u \in Rows(b) : state'[u] = state[u]
      BY <1>t, <2>1, <2>3 DEF Rows
    <3> QED
      BY <1>u, <3>1, UndecidedStays
  <2> QED
    BY <2>2, <2>3
<1>4. CASE Duplicate(r)
  BY <1>4, <1>u DEF Duplicate, dbVars, rowVars
<1> QED
  BY <1>1, <1>2, <1>3, <1>4 DEF CompleteTask

\* No step but a coordinator restart leaves a decided build unjudged.
LEMMA StepPrompt ==
  ASSUME "coordinator" \notin Faults, IInv, IInv', [Next]_vars, PromptInv
  PROVE  PromptInv'
<1>d. DbInv /\ ProcType
  BY Split
<1>t. /\ bstate \in [Build -> {"none", "running", "done", "failed"}]
      /\ state \in [Task -> RowState] /\ \A b \in Build : Rows(b) \subseteq Task
  BY DEF IInv, TypeOK, Rows
<1>o. ASSUME owed' \subseteq owed PROVE \A b \in owed' : \E t \in Rows(b) : state'[t] = "failed"
  <2>1. owed \subseteq Build
    BY <1>d DEF ProcType
  <2>2. \A t \in Task : state[t] = "failed" => state'[t] = "failed"
    BY StepForward DEF Forward
  <2> QED
    BY <1>o, <1>t, <2>1, <2>2 DEF PromptInv
<1>s. ASSUME owed' = owed,
             \A b \in Build \ owed : bstate'[b] = "running" => Undecided(b, state')
      PROVE  PromptInv'
  BY <1>o, <1>s DEF PromptInv, Undecided
<1>e. ASSUME UNCHANGED <<state, bstate, owed>> PROVE PromptInv'
  BY <1>e DEF PromptInv, Undecided
<1>1. ASSUME NEW b \in Build, Client(b) PROVE PromptInv'
  <2>1. CASE SubmitBuild(b) /\ ~Rejected(b)
    <3>1. InsertRows(b) /\ bstate[b] = "none" /\ owed' = owed
      BY <2>1 DEF SubmitBuild, IInv, StageFits
    <3>2. bstate' = [bstate EXCEPT ![b] = MaybeFinish(b, "running", state')]
      BY <3>1 DEF InsertRows
    <3>3. \A u \in Task : u \notin Rows(b) => state'[u] = state[u]
      BY <3>1 DEF InsertRows
    <3>4. ASSUME NEW c \in Build \ owed, bstate'[c] = "running" PROVE Undecided(c, state')
      <4>1. CASE c = b
        BY <1>t, <3>2, <3>4, <4>1, JudgedIfDecided
      <4>2. CASE c # b
        <5>1. \A u \in Rows(c) : state'[u] = state[u]
          BY <3>3, <4>2 DEF Rows
        <5>2. Undecided(c, state)
          BY <1>t, <3>2, <3>4, <4>2 DEF PromptInv
        <5> QED
          BY <5>1, <5>2, UndecidedStays
      <4> QED
        BY <4>1, <4>2
    <3> QED
      BY <1>s, <3>1, <3>4
  <2>2. CASE ~(SubmitBuild(b) /\ ~Rejected(b))
    BY <1>1, <2>2, <1>e DEF Client, CheckCache, Upload, SubmitBuild, GetBuild, FetchOutputs,
       dbVars, rowVars
  <2> QED
    BY <2>1, <2>2
<1>2. ASSUME NEW b \in Build, ReapVerdict(b) PROVE PromptInv'
  <2>1. /\ state' = state /\ bstate' = [bstate EXCEPT ![b] = MaybeFinish(b, @, state)]
        /\ b \in owed /\ owed' = owed \ {b}
    BY <1>2 DEF ReapVerdict, rowVars
  <2>2. ASSUME NEW c \in Build \ owed', bstate'[c] = "running" PROVE Undecided(c, state')
    <3>1. CASE c = b
      <4>1. bstate'[c] = MaybeFinish(b, bstate[b], state)
        BY <1>t, <2>1, <3>1
      <4>2. bstate[b] = "running"
        BY <2>2, <4>1 DEF MaybeFinish
      <4> QED
        BY <2>1, <2>2, <3>1, <4>1, <4>2, JudgedIfDecided
    <3>2. CASE c # b
      BY <1>t, <2>1, <2>2, <3>2 DEF PromptInv
    <3> QED
      BY <3>1, <3>2
  <2> QED
    BY <1>o, <2>1, <2>2 DEF PromptInv, Undecided
<1>3. ASSUME NEW r \in Result, CompleteTask(r), owed' = owed PROVE PromptInv'
  <2>1. \A b \in Build \ owed : bstate'[b] = "running" => Undecided(b, state')
    BY <1>3, CompletePrompt DEF PromptInv
  <2> QED
    BY <1>3, <1>s, <2>1
<1>4. CASE \/ \E s \in Slot : Report(s)
           \/ \E r \in late : LateReport(r)
  BY <1>3, <1>4, <1>d, ResultType DEF Report, LateReport, ProcType
<1>5. ASSUME NEW w, NEW t \in Task, ClaimRow(w, t), owed' = owed PROVE PromptInv'
  <2>1. /\ state[t] = "ready" /\ UNCHANGED bstate
        /\ \A u \in Task : state'[u] = IF u = t THEN "running" ELSE state[u]
    BY <1>5, <1>t DEF ClaimRow, Claimable
  <2>2. \A u \in Task : /\ state'[u] \in Finished <=> state[u] \in Finished
                        /\ state'[u] = "failed" => state[u] = "failed"
    BY <2>1 DEF Finished
  <2> QED
    BY <1>5, <1>s, <1>t, <2>1, <2>2, UndecidedStays DEF PromptInv
<1>6. CASE Reap
  <2>1. /\ Requeue(Overdue) /\ owed = {} /\ bstate' = bstate
        /\ owed' = {BuildOf[t] : t \in {u \in Overdue : NextTry(u) = "failed"}}
    BY <1>6 DEF Reap
  <2>2. \A t \in Task : /\ NextTry(t) \in {"ready", "failed"}
                        /\ state'[t] = IF t \in Overdue THEN NextTry(t) ELSE state[t]
    BY <2>1 DEF Requeue, NextTry
  <2>3. \A t \in Overdue : t \in Task /\ state[t] = "running"
    BY DEF Overdue
  <2>4. ASSUME NEW b \in owed' PROVE \E t \in Rows(b) : state'[t] = "failed"
    BY <2>1, <2>2, <2>3, <2>4 DEF Rows
  <2>5. ASSUME NEW b \in Build \ owed', bstate'[b] = "running" PROVE Undecided(b, state')
    <3>1. Undecided(b, state)
      BY <2>1, <2>5 DEF PromptInv
    <3>2. \A t \in Rows(b) : t \in Overdue => NextTry(t) = "ready"
      BY <1>t, <2>1, <2>2, <2>5 DEF Rows
    <3>3. \A t \in Rows(b) : /\ state'[t] \in Finished <=> state[t] \in Finished
                             /\ state'[t] = "failed" => state[t] = "failed"
      BY <1>t, <2>2, <2>3, <3>2 DEF Finished
    <3> QED
      BY <3>1, <3>3, UndecidedStays
  <2> QED
    BY <2>4, <2>5 DEF PromptInv, Undecided
<1>7. CASE \E s \in Slot, t \in Task : ClaimTask(s, t) \/ ClaimLost(s, t)
  BY <1>5, <1>7 DEF ClaimTask, ClaimLost
<1>8. CASE \/ \E w \in Worker : WorkerCrash(w) \/ WorkerRestart(w) \/ Heartbeat(w)
           \/ \E t \in Task : Cooled(t) \/ LeaseOfDead(t) \/ LeaseOfSlow(t)
           \/ \E b \in Build : HangUp(b)
           \/ \E s \in Slot : Execute(s) \/ ExecuteFails(s) \/ ExecuteDies(s)
                             \/ ReportAgain(s) \/ ReportGivenUp(s)
           \/ UNCHANGED vars
  BY <1>8, <1>e DEF WorkerCrash, WorkerRestart, Heartbeat, Cooled, LeaseOfDead, LeaseOfSlow,
     ExpireLease, HangUp, Execute, ExecuteFails, ExecuteDies, ReportAgain, ReportGivenUp, vars, dbVars, rowVars
<1>9. ~CoordinatorRestart
  BY DEF CoordinatorRestart, Fault, Counted
<1> QED
  BY <1>1, <1>2, <1>4, <1>6, <1>7, <1>8, <1>9 DEF Next, SlotStep, Idle

\* While the coordinator does not restart between the reaper's two statements, a
\* build is judged by the step that decides it, for every graph (also with several
\* sinks) and every pattern of the other faults.
THEOREM VerdictsPrompt ==
  ASSUME "coordinator" \notin Faults
  PROVE  Spec => []VerdictPrompt
<1>1. Init => PromptInv
  BY DEF Init, PromptInv
<1>2. PromptInv /\ IInv /\ IInv' /\ [Next]_vars => PromptInv'
  BY StepPrompt
<1>3. PromptInv => VerdictPrompt
  BY DEF PromptInv, VerdictPrompt, Undecided
<1> QED
  BY <1>1, <1>2, <1>3, Invariance, PTL DEF Spec

-----------------------------------------------------------------------------
(* The build graph is implemented *)

\* What a row's state is called in the build graph.
StatusOf(x) ==
  IF x \in Finished THEN "finished" ELSE IF x \in {"ready", "running"} THEN "open" ELSE x

\* The mapping, row by row, before and after a step.
LEMMA StatusRow ==
  /\ Status = [t \in Task |-> StatusOf(state[t])]
  /\ Status' = [t \in Task |-> StatusOf(state'[t])]
BY DEF Status, StatusOf

\* The names the mapping can produce, and what they come from.
LEMMA StatusCases ==
  ASSUME NEW x \in RowState
  PROVE  /\ StatusOf(x) = "finished" <=> x \in Finished
         /\ StatusOf(x) = "open" <=> x \in {"ready", "running"}
         /\ StatusOf(x) = "waiting" <=> x = "waiting"
         /\ StatusOf(x) = "absent" <=> x = "absent"
         /\ StatusOf(x) = "failed" <=> x = "failed"
BY DEF StatusOf, RowState, Finished

\* maybe_finish answers what the build graph allows to say of a build, for the
\* rows it looked at.
LEMMA MaybeFinishAllowed ==
  ASSUME NEW b, NEW v, state' \in [Task -> RowState]
  PROVE  MaybeFinish(b, v, state') \in Abs!Judgements(b, v, Status')
<1> DEFINE m == MaybeFinish(b, v, state')
<1>1. \A t \in Rows(b) : /\ Status'[t] = "finished" <=> state'[t] \in Finished
                         /\ Status'[t] = "failed" <=> state'[t] = "failed"
  BY StatusRow, StatusCases DEF Rows
<1>2. Abs!Rows(b) = Rows(b)
  BY DEF Abs!Rows, Rows
<1>3. \/ m = v
      \/ m = "failed" /\ v = "running" /\ \E t \in Rows(b) : state'[t] = "failed"
      \/ m = "done" /\ v = "running" /\ \A t \in Rows(b) : state'[t] \in Finished
  BY DEF MaybeFinish
<1>4. Abs!Judgements(b, v, Status') =
        {v} \cup {x \in {"done", "failed"} : v = "running"
                    /\ IF x = "done" THEN \A t \in Rows(b) : Status'[t] = "finished"
                                     ELSE \E t \in Rows(b) : Status'[t] = "failed"}
  BY <1>2 DEF Abs!Judgements
<1>5. ASSUME NEW x, x = m PROVE x \in Abs!Judgements(b, v, Status')
  <2> HIDE DEF m
  <2> QED
    BY <1>1, <1>3, <1>4, <1>5
<1> QED
  BY <1>5

\* A verdict on one build is a judgement the build graph allows.
LEMMA JudgeAllowed ==
  ASSUME NEW b \in Build, NEW c, NEW B, b \in B,
         bstate \in [Build -> {"none", "running", "done", "failed"}],
         state' \in [Task -> RowState],
         bstate' = [bstate EXCEPT ![b] = IF c THEN MaybeFinish(b, @, state') ELSE @]
  PROVE  Abs!Judge(B)
<1> DEFINE v == IF c THEN MaybeFinish(b, bstate[b], state') ELSE bstate[b]
<1>1. v \in {"none", "running", "done", "failed"}
  BY MaybeFinishType
<1>2. \A x \in Build : bstate[x] \in Abs!Judgements(x, bstate[x], Status')
  BY DEF Abs!Judgements
<1>3. v \in Abs!Judgements(b, bstate[b], Status')
  BY <1>2, MaybeFinishAllowed
<1>4. bstate' = [bstate EXCEPT ![b] = v]
  OBVIOUS
<1> HIDE DEF v
<1>5. bstate' \in [Build -> {"none", "running", "done", "failed"}]
  BY <1>1, <1>4
<1>6. ASSUME NEW x \in Build
      PROVE  bstate'[x] \in IF x \in B THEN Abs!Judgements(x, bstate[x], Status') ELSE {bstate[x]}
  <2>1. CASE x = b
    BY <1>3, <1>4, <2>1
  <2>2. CASE x # b
    BY <1>2, <1>4, <2>2
  <2> QED
    BY <2>1, <2>2
<1> QED
  BY <1>5, <1>6 DEF Abs!Judge

\* Leaving the verdicts alone is allowed too: a build may be judged later.
LEMMA NoJudgement ==
  ASSUME NEW B, bstate \in [Build -> {"none", "running", "done", "failed"}], bstate' = bstate
  PROVE  Abs!Judge(B)
<1>1. \A x \in Build : bstate[x] \in Abs!Judgements(x, bstate[x], Status')
  BY DEF Abs!Judgements
<1> QED
  BY <1>1 DEF Abs!Judge

\* A step that moves no row from one name to another is no step of the graph.
LEMMA SameStatus ==
  ASSUME \A t \in Task : StatusOf(state'[t]) = StatusOf(state[t]), UNCHANGED bstate
  PROVE  UNCHANGED Abs!vars
BY StatusRow DEF Abs!vars

\* submit() is Submit, with the cache hits as what is finished from the start.
LEMMA SubmitMaps ==
  ASSUME IInv, IInv', NEW b \in Build, bstate[b] = "none", InsertRows(b)
  PROVE  Abs!Submit(b)
<1>t. state' \in [Task -> RowState] /\ bstate \in [Build -> {"none", "running", "done", "failed"}]
  BY DEF IInv, TypeOK
<1>1. PICK hits \in SUBSET Rows(b) :
        /\ hits = CacheHits(b, hits)
        /\ state' = [t \in Task |->
             IF t \notin Rows(b) THEN state[t]
             ELSE IF t \in hits THEN "cached"
             ELSE IF Deps[t] \subseteq hits THEN "ready" ELSE "waiting"]
  BY DEF InsertRows
<1>2. \A t \in hits : Deps[t] \subseteq hits
  BY <1>1 DEF CacheHits
<1>3. Abs!Rows(b) = Rows(b)
  BY DEF Abs!Rows, Rows
<1> DEFINE row(t) == IF t \notin Rows(b) THEN Status[t]
                     ELSE IF t \in hits THEN "finished"
                     ELSE IF Deps[t] \subseteq hits THEN "open" ELSE "waiting"
<1>4. ASSUME NEW t \in Task PROVE Status'[t] = row(t)
  <2>1. state'[t] = IF t \notin Rows(b) THEN state[t]
             ELSE IF t \in hits THEN "cached"
             ELSE IF Deps[t] \subseteq hits THEN "ready" ELSE "waiting"
    BY <1>1
  <2>2. Status'[t] = StatusOf(state'[t]) /\ Status[t] = StatusOf(state[t])
    BY StatusRow
  <2>3. StatusOf("cached") = "finished" /\ StatusOf("ready") = "open" /\ StatusOf("waiting") = "waiting"
    BY DEF StatusOf, Finished
  <2> QED
    BY <2>1, <2>2, <2>3
<1>5. Status' = [t \in Task |-> row(t)]
  BY <1>4, StatusRow
<1>6. \E v \in Abs!Judgements(b, "running", Status') : bstate' = [bstate EXCEPT ![b] = v]
  <2>1. MaybeFinish(b, "running", state') \in Abs!Judgements(b, "running", Status')
    BY <1>t, MaybeFinishAllowed
  <2>2. bstate' = [bstate EXCEPT ![b] = MaybeFinish(b, "running", state')]
    BY DEF InsertRows
  <2> QED
    BY <2>1, <2>2
<1>7. \E F \in SUBSET Rows(b) :
        /\ \A t \in F : Deps[t] \subseteq F
        /\ Status' = [t \in Task |->
             IF t \notin Rows(b) THEN Status[t]
             ELSE IF t \in F THEN "finished"
             ELSE IF Deps[t] \subseteq F THEN "open" ELSE "waiting"]
  BY <1>2, <1>5
<1> QED
  BY ONLY bstate[b] = "none", <1>6, <1>7, Zenon DEF Abs!Submit, Abs!Rows, Rows

\* Open rows that fail together, whether or not their builds are judged, are Fail.
LEMMA FailMaps ==
  ASSUME IInv, NEW S \in SUBSET Task, S # {}, Abs!Judge({BuildOf[t] : t \in S}),
         \A t \in S : StatusOf(state[t]) = "open",
         \A t \in Task : StatusOf(state'[t]) = IF t \in S THEN "failed" ELSE StatusOf(state[t])
  PROVE  Abs!Fail(S)
<1>1. Status' = [t \in Task |-> IF t \in S THEN "failed" ELSE Status[t]]
  BY StatusRow
<1>2. \A t \in S : Status[t] = "open"
  BY StatusRow
<1> QED
  BY <1>1, <1>2 DEF Abs!Fail

\* "complete" and finished() are Finish: the cascade of cache hits is F, and the
\* rows whose count reaches zero are exactly those whose deps are all finished.
LEMMA FinishMaps ==
  ASSUME IInv, IInv', NEW r \in Result, CompleteOk(r)
  PROVE  Abs!Finish(r.task)
<1> DEFINE b == BuildOf[r.task]
<1>d. DbInv
  BY Split
<1>r. r.task \in Task /\ b \in Build
  BY GraphAssumption DEF Result
<1>t. /\ state \in [Task -> RowState] /\ state' \in [Task -> RowState]
      /\ bstate \in [Build -> {"none", "running", "done", "failed"}]
  BY DEF IInv, TypeOK
<1>1. PICK hits \in SUBSET Rows(b) :
        LET New == {r.task} \cup hits IN
        /\ hits = {u \in Released(New) : Key[u] \in cache'}
        /\ state' = [u \in Task |->
             IF u = r.task THEN "done" ELSE IF u \in hits THEN "cached"
             ELSE IF u \in Released(New) THEN "ready" ELSE state[u]]
        /\ bstate' = [bstate EXCEPT ![b] =
             IF NeedsVerdict(r.task, New) THEN MaybeFinish(b, @, state') ELSE @]
  BY DEF CompleteOk
<1> DEFINE New == {r.task} \cup hits
<1>2. state[r.task] \in {"ready", "running"}
  BY DEF CompleteOk, Open
<1>3. bstate[b] # "none"
  BY <1>r, <1>2 DEF IInv, RowsInserted
<1>4. \A u \in Released(New) : u \in Task /\ state[u] # "absent"
  <2> SUFFICES ASSUME NEW u \in Released(New) PROVE u \in Task /\ state[u] # "absent"
    OBVIOUS
  <2>1. u \in Task /\ Deps[u] \cap New # {}
    BY DEF Released
  <2>2. PICK d \in Deps[u] : d \in New
    BY <2>1
  <2>3. BuildOf[u] = b
    BY <2>1, <2>2, GraphAssumption DEF Rows
  <2> QED
    BY <2>1, <2>3, <1>3 DEF IInv, RowsInserted
<1>5. \A u \in Released(New) : state[u] = "waiting"
  BY <1>d, <1>4, ReleasedWaits
<1>6. hits \subseteq Released(New) /\ r.task \notin Released(New)
  BY <1>1, <1>2, <1>5
<1>7. \A u \in Task : state'[u] =
        IF u = r.task THEN "done" ELSE IF u \in hits THEN "cached"
        ELSE IF u \in Released(New) THEN "ready" ELSE state[u]
  BY <1>1
<1>8. \A d \in Task : state'[d] \in Finished <=> state[d] \in Finished \/ d \in New
  BY <1>7, <1>5, <1>6 DEF Finished
<1>9. Abs!Done = {t \in Task : state[t] \in Finished}
  BY <1>t, StatusRow, StatusCases DEF Abs!Done
<1> DEFINE ends(u) == Deps[u] \subseteq Abs!Done \cup hits \cup {r.task}
<1>10. \A u \in Task : ends(u) <=> Unfinished(u)' = {}
  BY <1>8, <1>9, GraphAssumption DEF Unfinished
<1>11. \A u \in Task : state'[u] # "absent" => (state'[u] = "waiting" <=> ~ends(u))
  BY <1>10 DEF IInv, PendingExact
<1> HIDE DEF ends
<1>12. \A u \in Task : /\ Status[u] = "waiting" <=> state[u] = "waiting"
                       /\ Status[u] = StatusOf(state[u]) /\ Status'[u] = StatusOf(state'[u])
  BY <1>t, StatusRow, StatusCases
<1>13. \A u \in hits : Status[u] = "waiting" /\ ends(u)
  BY <1>4, <1>5, <1>6, <1>7, <1>11, <1>12
<1>14. ASSUME NEW u \in Task
       PROVE  Status'[u] = IF u \in hits \cup {r.task} THEN "finished"
                           ELSE IF Status[u] = "waiting" /\ ends(u) THEN "open" ELSE Status[u]
  <2>1. CASE u \in hits \cup {r.task}
    <3>1. state'[u] \in Finished
      BY <1>8, <2>1
    <3> QED
      BY <1>12, <2>1, <3>1 DEF StatusOf
  <2>2. CASE u \notin hits \cup {r.task} /\ state[u] = "waiting"
    <3>1. state'[u] = IF ends(u) THEN "ready" ELSE "waiting"
      BY <1>7, <1>11, <2>2
    <3>2. StatusOf("ready") = "open" /\ StatusOf("waiting") = "waiting"
      BY DEF StatusOf, Finished
    <3> QED
      BY <1>12, <2>2, <3>1, <3>2
  <2>3. CASE u \notin hits \cup {r.task} /\ state[u] # "waiting"
    <3>1. state'[u] = state[u]
      BY <1>5, <1>7, <2>3
    <3> QED
      BY <1>12, <2>3, <3>1
  <2> QED
    BY <2>1, <2>2, <2>3
<1>15. Status' = [u \in Task |-> IF u \in hits \cup {r.task} THEN "finished"
                                 ELSE IF Status[u] = "waiting" /\ ends(u)
                                 THEN "open" ELSE Status[u]]
  BY <1>14, StatusRow
<1>16. Abs!Judge({b})
  BY <1>1, <1>r, <1>t, JudgeAllowed
<1>17. Status[r.task] = "open"
  BY <1>2, <1>12, <1>r DEF StatusOf, Finished
<1>18. \E F \in SUBSET Rows(b) :
         /\ \A u \in F : Status[u] = "waiting" /\ Deps[u] \subseteq Abs!Done \cup F \cup {r.task}
         /\ Status' = [u \in Task |->
              IF u \in F \cup {r.task} THEN "finished"
              ELSE IF Status[u] = "waiting" /\ Deps[u] \subseteq Abs!Done \cup F \cup {r.task}
              THEN "open" ELSE Status[u]]
  BY <1>13, <1>15 DEF ends
<1> QED
  BY ONLY <1>16, <1>17, <1>18, Zenon DEF Abs!Finish, Abs!Rows, Rows

\* A step of the graph, or none.
GraphStep == Abs!Next \/ UNCHANGED Abs!vars

\* "retry" and "reap" requeue the rows of S: a row with attempts left stays open,
\* the others fail together.
LEMMA RequeueMaps ==
  ASSUME IInv, NEW S \in SUBSET Task, \A t \in S : state[t] = "running", Requeue(S),
         Abs!Judge({BuildOf[t] : t \in {u \in S : NextTry(u) = "failed"}})
  PROVE  GraphStep
<1> DEFINE X == {u \in S : NextTry(u) = "failed"}
<1>1. \A t \in Task : NextTry(t) \in {"ready", "failed"}
  BY DEF NextTry
<1>2. /\ StatusOf("ready") = "open" /\ StatusOf("running") = "open" /\ StatusOf("failed") = "failed"
  BY DEF StatusOf, Finished
<1>3. \A t \in Task : state'[t] = IF t \in S THEN NextTry(t) ELSE state[t]
  BY DEF Requeue
<1>4. /\ \A t \in X : StatusOf(state[t]) = "open"
      /\ \A t \in Task : StatusOf(state'[t]) = IF t \in X THEN "failed" ELSE StatusOf(state[t])
  BY <1>1, <1>2, <1>3
<1>5. CASE X # {}
  <2>1. X \in SUBSET Task /\ Abs!Judge({BuildOf[t] : t \in X})
    OBVIOUS
  <2> HIDE DEF X
  <2>2. Abs!Fail(X)
    BY <1>4, <1>5, <2>1, FailMaps
  <2> QED
    BY <2>1, <2>2 DEF GraphStep, Abs!Next
<1>6. CASE X = {}
  <2>1. UNCHANGED bstate
    <3>1. Abs!Judge({BuildOf[t] : t \in X})
      OBVIOUS
    <3> HIDE DEF X
    <3>2. {BuildOf[t] : t \in X} = {}
      BY <1>6
    <3>3. Abs!Judge({})
      BY <3>1, <3>2
    <3>4. /\ bstate' \in [Build -> {"none", "running", "done", "failed"}]
          /\ \A c \in Build : bstate'[c] = bstate[c]
      BY <3>3 DEF Abs!Judge
    <3>5. bstate \in [Build -> {"none", "running", "done", "failed"}]
      BY DEF IInv, TypeOK
    <3> QED
      BY <3>4, <3>5
  <2> QED
    BY <1>4, <1>6, <2>1, SameStatus DEF GraphStep
<1> QED
  BY <1>5, <1>6

\* Whatever CompleteTask is told, it is a step of the graph or none.
LEMMA CompleteMaps ==
  ASSUME IInv, IInv', NEW r \in Result, CompleteTask(r)
  PROVE  GraphStep
<1>r. r.task \in Task /\ BuildOf[r.task] \in Build
  BY GraphAssumption DEF Result
<1>t. /\ state \in [Task -> RowState] /\ state' \in [Task -> RowState]
      /\ bstate \in [Build -> {"none", "running", "done", "failed"}]
  BY DEF IInv, TypeOK
<1>1. CASE CompleteOk(r)
  <2>1. Abs!Finish(r.task)
    BY <1>1, FinishMaps
  <2> QED
    BY <1>r, <2>1 DEF GraphStep, Abs!Next
<1>2. CASE CompleteRetry(r)
  <2>1. /\ state[r.task] = "running" /\ Requeue({r.task})
        /\ bstate' = [bstate EXCEPT ![BuildOf[r.task]] =
             IF NextTry(r.task) = "failed" THEN MaybeFinish(BuildOf[r.task], @, state') ELSE @]
    BY <1>2 DEF CompleteRetry, Current
  <2> DEFINE B == {BuildOf[t] : t \in {u \in {r.task} : NextTry(u) = "failed"}}
  <2>2. Abs!Judge(B)
    <3>1. CASE NextTry(r.task) = "failed"
      <4>1. BuildOf[r.task] \in B
        BY <3>1
      <4> HIDE DEF B
      <4> QED
        BY <1>r, <1>t, <2>1, <4>1, JudgeAllowed
    <3>2. CASE NextTry(r.task) # "failed"
      <4>1. bstate' = bstate
        BY <1>t, <2>1, <3>2
      <4> HIDE DEF B
      <4> QED
        BY <1>t, <4>1, NoJudgement
    <3> QED
      BY <3>1, <3>2
  <2> QED
    BY <1>r, <2>1, <2>2, RequeueMaps
<1>3. CASE CompleteFail(r)
  <2>1. /\ state[r.task] \in {"ready", "running"}
        /\ state' = [state EXCEPT ![r.task] = "failed"]
        /\ bstate' = [bstate EXCEPT ![BuildOf[r.task]] =
             IF TRUE THEN MaybeFinish(BuildOf[r.task], @, state') ELSE @]
    BY <1>3 DEF CompleteFail, Open
  <2>2. {BuildOf[t] : t \in {r.task}} = {BuildOf[r.task]}
    OBVIOUS
  <2>3. Abs!Judge({BuildOf[t] : t \in {r.task}})
    BY <1>r, <1>t, <2>1, <2>2, JudgeAllowed
  <2>4. StatusOf(state[r.task]) = "open" /\ StatusOf("failed") = "failed"
    BY <2>1 DEF StatusOf, Finished
  <2>5. \A t \in Task : StatusOf(state'[t]) = IF t \in {r.task} THEN "failed" ELSE StatusOf(state[t])
    BY <1>t, <2>1, <2>4
  <2>6. Abs!Fail({r.task})
    BY <1>r, <2>3, <2>4, <2>5, FailMaps
  <2> QED
    BY <1>r, <2>6 DEF GraphStep, Abs!Next
<1>4. CASE Duplicate(r)
  BY <1>4, SameStatus DEF Duplicate, dbVars, rowVars, GraphStep
<1> QED
  BY <1>1, <1>2, <1>3, <1>4 DEF CompleteTask

\* Every step of the system is a step of the build graph or changes nothing in it.
LEMMA StepMaps == IInv /\ IInv' /\ [Next]_vars => [Abs!Next]_(Abs!vars)
<1> SUFFICES ASSUME IInv, IInv', [Next]_vars PROVE GraphStep
  BY DEF GraphStep
<1>d. DbInv /\ ProcType
  BY Split
<1>t. /\ bstate \in [Build -> {"none", "running", "done", "failed"}]
      /\ state \in [Task -> RowState] /\ state' \in [Task -> RowState]
  BY DEF IInv, TypeOK
<1>s. ASSUME UNCHANGED <<state, bstate>> PROVE GraphStep
  BY <1>s, SameStatus DEF GraphStep
<1>1. ASSUME NEW b \in Build, Client(b) PROVE GraphStep
  <2>1. CASE SubmitBuild(b)
    <3>1. CASE Rejected(b)
      BY <2>1, <3>1, <1>s DEF SubmitBuild, dbVars, rowVars
    <3>2. CASE ~Rejected(b)
      <4>1. bstate[b] = "none" /\ InsertRows(b)
        BY <2>1, <3>2 DEF SubmitBuild, IInv, StageFits
      <4>2. Abs!Submit(b)
        BY <4>1, SubmitMaps
      <4> QED
        BY <4>2 DEF GraphStep, Abs!Next
    <3> QED
      BY <3>1, <3>2
  <2>2. CASE ~SubmitBuild(b)
    BY <1>1, <2>2, <1>s DEF Client, CheckCache, Upload, GetBuild, FetchOutputs, dbVars, rowVars
  <2> QED
    BY <2>1, <2>2
<1>2. ASSUME NEW b \in Build, ReapVerdict(b) PROVE GraphStep
  <2>1. bstate' = [bstate EXCEPT ![b] = IF TRUE THEN MaybeFinish(b, @, state') ELSE @]
        /\ state' = state
    BY <1>2 DEF ReapVerdict, rowVars
  <2>2. Abs!Judge(Build)
    BY <1>t, <2>1, JudgeAllowed
  <2>3. Status' = Status
    BY <2>1, StatusRow
  <2> QED
    BY <2>2, <2>3 DEF GraphStep, Abs!Next, Abs!JudgeLater
<1>3. ASSUME NEW s \in Slot, Report(s) PROVE GraphStep
  BY <1>3, <1>d, ResultType, CompleteMaps DEF Report
<1>4. ASSUME NEW r \in late, LateReport(r) PROVE GraphStep
  BY <1>4, <1>d, CompleteMaps DEF LateReport, ProcType
<1>5. ASSUME NEW w, NEW t \in Task, ClaimRow(w, t) PROVE GraphStep
  <2>1. /\ state[t] = "ready" /\ UNCHANGED bstate
        /\ \A u \in Task : state'[u] = IF u = t THEN "running" ELSE state[u]
    BY <1>5, <1>t DEF ClaimRow, Claimable
  <2>2. StatusOf("ready") = StatusOf("running")
    BY DEF StatusOf, Finished
  <2> QED
    BY <2>1, <2>2, SameStatus DEF GraphStep
<1>6. CASE Reap
  <2>1. Overdue \in SUBSET Task /\ (\A t \in Overdue : state[t] = "running") /\ Requeue(Overdue)
    BY <1>6 DEF Reap, Overdue
  <2>2. Abs!Judge({BuildOf[t] : t \in {u \in Overdue : NextTry(u) = "failed"}})
    BY <1>6, <1>t, NoJudgement DEF Reap
  <2> QED
    BY <2>1, <2>2, RequeueMaps
<1>7. ASSUME NEW s \in Slot, SlotStep(s) PROVE GraphStep
  BY <1>7, <1>3, <1>5, <1>s DEF SlotStep, ClaimTask, Execute, dbVars, rowVars
<1>8. ASSUME NEW s \in Slot,
             \/ ExecuteFails(s) \/ ExecuteDies(s) \/ ReportAgain(s) \/ ReportGivenUp(s)
             \/ \E t \in Task : ClaimLost(s, t)
      PROVE  GraphStep
  BY <1>8, <1>5, <1>s DEF ExecuteFails, ExecuteDies, ReportAgain, ReportGivenUp, ClaimLost, dbVars, rowVars
<1>9. ASSUME NEW w \in Worker, Heartbeat(w) \/ WorkerCrash(w) \/ WorkerRestart(w)
      PROVE  GraphStep
  BY <1>9, <1>s DEF Heartbeat, WorkerCrash, WorkerRestart, dbVars, rowVars
<1>10. ASSUME NEW t \in Task, LeaseOfDead(t) \/ LeaseOfSlow(t) \/ Cooled(t)
       PROVE  GraphStep
  BY <1>10, <1>s DEF LeaseOfDead, LeaseOfSlow, ExpireLease, Cooled
<1>11. CASE CoordinatorRestart \/ UNCHANGED vars
  BY <1>11, <1>s DEF CoordinatorRestart, vars, dbVars, rowVars
<1>12. ASSUME NEW b \in Build, HangUp(b) PROVE GraphStep
  BY <1>12, <1>s DEF HangUp, dbVars, rowVars
<1> QED
  BY <1>1, <1>2, <1>4, <1>6, <1>7, <1>8, <1>9, <1>10, <1>11, <1>12 DEF Next, Idle

\* The coordinator with its workers, leases, retries, crashes and repeated or late
\* reports implements the build graph, for every graph and every fault pattern.
THEOREM ImplementsBuildGraph == Spec => RefinesBuildGraph
<1>1. Init => Abs!Init
  BY DEF Init, Abs!Init, Status, Finished
<1> QED
  BY <1>1, StepMaps, Invariance, PTL DEF Spec, RefinesBuildGraph, Abs!Spec
=============================================================================
