--------------------------- MODULE TaskQueueProofs ---------------------------
(***************************************************************************)
(* Proofs about TaskQueue for every graph, every number of workers, slots, *)
(* builds and attempts, and every number of faults of every kind.          *)
(***************************************************************************)
EXTENDS TaskQueue, FiniteSetTheorems, TLAPS

-----------------------------------------------------------------------------
(* Counting dependents down *)

\* What "count_down" relies on: pending_deps and the set it counts shrink
\* together, so the count is zero exactly when nothing is missing.
LEMMA CountDownExact ==
  ASSUME NEW U, IsFiniteSet(U), NEW N, N \subseteq U
  PROVE  /\ Cardinality(U) - Cardinality(N) = Cardinality(U \ N)
         /\ Cardinality(U \ N) \in Nat
         /\ Cardinality(U \ N) = 0 <=> U \ N = {}
         /\ Cardinality(N) \in Nat
         /\ Cardinality(N) = 0 <=> N = {}
<1>1. IsFiniteSet(N) /\ IsFiniteSet(U \ N) /\ U \cap N = N
  BY FS_Subset
<1>2. /\ Cardinality(U \ N) = Cardinality(U) - Cardinality(N)
      /\ Cardinality(U) \in Nat /\ Cardinality(N) \in Nat /\ Cardinality(U \ N) \in Nat
  BY <1>1, FS_Difference, FS_CardinalityType
<1>3. (Cardinality(U \ N) = 0 <=> U \ N = {}) /\ (Cardinality(N) = 0 <=> N = {})
  BY <1>1, FS_EmptySet
<1> QED
  BY <1>2, <1>3

\* The deps of a task, and those of them that are unfinished, can be counted.
LEMMA DepsFinite ==
  ASSUME NEW t \in Task, NEW S, S \subseteq Deps[t]
  PROVE  /\ IsFiniteSet(S)
         /\ Cardinality(S) \in Nat
         /\ Cardinality(S) = 0 <=> S = {}
<1>1. IsFiniteSet(S)
  BY GraphAssumption, FS_Subset
<1> QED
  BY <1>1, FS_CardinalityType, FS_EmptySet

-----------------------------------------------------------------------------
(* The tables *)

DbType ==
  /\ state \in [Task -> RowState]
  /\ pending \in [Task -> Int]
  /\ attempts \in [Task -> 0 .. MaxAttempts]
  /\ owner \in [Task -> Worker \cup {NoWorker}]
  /\ failedBy \in [Task -> Worker \cup {NoWorker}]
  /\ expired \in [Task -> BOOLEAN]
  /\ cooling \in [Task -> BOOLEAN]
  /\ bstate \in [Build -> {"none", "running", "done", "failed"}]
  /\ cache \subseteq Keys

DbInv == DbType /\ PendingExact /\ RowsInserted /\ AttemptsLeft

\* A completion only makes rows ready or cached that were waiting: a row with
\* nothing left to count has a count that cannot reach zero again.
LEMMA ReleasedWaits ==
  ASSUME DbInv, NEW N, NEW u \in Released(N), state[u] # "absent"
  PROVE  u \in Task /\ state[u] = "waiting" /\ attempts[u] = 0
<1>1. u \in Task /\ Deps[u] \cap N # {} /\ pending[u] - Cardinality(Deps[u] \cap N) = 0
  BY DEF Released, CountDown
<1>2. Cardinality(Deps[u] \cap N) \in Nat /\ Cardinality(Deps[u] \cap N) # 0
  BY <1>1, DepsFinite
<1>3. pending[u] \in Int /\ pending[u] # 0
  BY <1>1, <1>2 DEF DbInv, DbType
<1>4. pending[u] = Cardinality(Unfinished(u)) /\ Unfinished(u) \subseteq Deps[u]
  BY <1>1 DEF DbInv, PendingExact, Unfinished
<1>5. Unfinished(u) # {}
  BY <1>1, <1>3, <1>4, DepsFinite
<1>6. state[u] = "waiting"
  BY <1>1, <1>5 DEF DbInv, PendingExact
<1> QED
  BY <1>1, <1>6 DEF DbInv, AttemptsLeft

\* maybe_finish answers with a build state, and never with 'none'.
LEMMA MaybeFinishType ==
  ASSUME NEW b, NEW st, NEW cur \in {"none", "running", "done", "failed"}
  PROVE  /\ MaybeFinish(b, cur, st) \in {"none", "running", "done", "failed"}
         /\ MaybeFinish(b, cur, st) = "none" <=> cur = "none"
BY DEF MaybeFinish

\* "complete", "cache_put" and finished() keep the counts exact, however far the
\* cache hits cascade.
LEMMA CompleteOkDb ==
  ASSUME DbInv, NEW r \in Result, CompleteOk(r)
  PROVE  DbInv'
<1> DEFINE b == BuildOf[r.task]
<1>r. r.task \in Task /\ r.worker \in Worker /\ b \in Build
  BY GraphAssumption DEF Result
<1>1. PICK hits \in SUBSET Rows(b) :
        LET New == {r.task} \cup hits IN
        /\ hits = {u \in Released(New) : Key[u] \in cache'}
        /\ state' = [u \in Task |->
             IF u = r.task THEN "done" ELSE IF u \in hits THEN "cached"
             ELSE IF u \in Released(New) THEN "ready" ELSE state[u]]
        /\ pending' = [u \in Task |-> CountDown(u, New)]
        /\ bstate' = [bstate EXCEPT ![b] =
             IF NeedsVerdict(r.task, New) THEN MaybeFinish(b, @, state') ELSE @]
  BY DEF CompleteOk
<1> DEFINE New == {r.task} \cup hits
<1>2. state[r.task] \in {"ready", "running"}
  BY DEF CompleteOk, Open
<1>3. bstate[b] # "none" /\ bstate[b] \in {"none", "running", "done", "failed"}
  BY <1>r, <1>2 DEF DbInv, DbType, RowsInserted
<1>4. \A u \in Released(New) : u \in Task /\ BuildOf[u] = b /\ state[u] # "absent"
  <2> SUFFICES ASSUME NEW u \in Released(New)
               PROVE  u \in Task /\ BuildOf[u] = b /\ state[u] # "absent"
    OBVIOUS
  <2>1. u \in Task /\ Deps[u] \cap New # {}
    BY DEF Released
  <2>2. PICK d \in Deps[u] : d \in New
    BY <2>1
  <2>3. BuildOf[d] = b
    BY <2>2, <1>1 DEF Rows
  <2>4. BuildOf[u] = b
    BY <2>1, <2>2, <2>3, GraphAssumption
  <2> QED
    BY <2>1, <2>4, <1>3 DEF DbInv, RowsInserted
<1>5. \A u \in Released(New) : state[u] = "waiting" /\ attempts[u] = 0
  BY <1>4, ReleasedWaits
<1>6. hits \subseteq Released(New) /\ r.task \notin Released(New)
  BY <1>1, <1>2, <1>5
<1>7. \A u \in New : state[u] \notin Finished
  BY <1>2, <1>5, <1>6 DEF Finished
<1>8. \A u \in Task : state'[u] =
        IF u = r.task THEN "done" ELSE IF u \in hits THEN "cached"
        ELSE IF u \in Released(New) THEN "ready" ELSE state[u]
  BY <1>1
<1>9. \A d \in Task : state'[d] \in Finished <=> state[d] \in Finished \/ d \in New
  BY <1>8, <1>5, <1>6 DEF Finished
<1>10. \A u \in Task : /\ Deps[u] \cap New \subseteq Unfinished(u)
                       /\ Unfinished(u)' = Unfinished(u) \ (Deps[u] \cap New)
  BY <1>7, <1>9, GraphAssumption DEF Unfinished
<1>11. bstate' \in [Build -> {"none", "running", "done", "failed"}]
       /\ \A c \in Build : bstate'[c] = "none" <=> bstate[c] = "none"
  <2>1. bstate \in [Build -> {"none", "running", "done", "failed"}]
    BY DEF DbInv, DbType
  <2> DEFINE v == IF NeedsVerdict(r.task, New) THEN MaybeFinish(b, bstate[b], state') ELSE bstate[b]
  <2>2. v \in {"none", "running", "done", "failed"} /\ v # "none"
    BY <1>3, MaybeFinishType
  <2>3. bstate' = [bstate EXCEPT ![b] = v]
    BY <1>1
  <2> HIDE DEF v
  <2> QED
    BY <2>1, <2>2, <2>3, <1>r, <1>3
<1>12. DbType'
  <2>1. state' \in [Task -> RowState]
    BY <1>1 DEF RowState, Finished, DbInv, DbType
  <2>2. pending' \in [Task -> Int]
    <3> SUFFICES ASSUME NEW u \in Task PROVE CountDown(u, New) \in Int
      BY <1>1
    <3>1. Cardinality(Deps[u] \cap New) \in Nat
      BY DepsFinite
    <3> QED
      BY <3>1 DEF CountDown, DbInv, DbType
  <2>3. cache' \subseteq Keys
    BY <1>r DEF CompleteOk, Keys, DbInv, DbType
  <2>4. owner' \in [Task -> Worker \cup {NoWorker}]
    BY <1>r DEF CompleteOk, DbInv, DbType
  <2> QED
    BY <2>1, <2>2, <2>3, <2>4, <1>11 DEF CompleteOk, DbInv, DbType
<1>13. PendingExact'
  <2> SUFFICES ASSUME NEW u \in Task, state'[u] # "absent"
               PROVE  /\ pending'[u] = Cardinality(Unfinished(u)')
                      /\ state'[u] = "waiting" <=> Unfinished(u)' # {}
    BY DEF PendingExact
  <2> DEFINE U == Unfinished(u)
             N == Deps[u] \cap New
  <2>1. state[u] # "absent"
    BY <1>8, <1>2, <1>4, <1>6
  <2>2. pending[u] = Cardinality(U) /\ (state[u] = "waiting" <=> U # {})
    BY <2>1 DEF DbInv, PendingExact
  <2>3. N \subseteq U /\ Unfinished(u)' = U \ N /\ IsFiniteSet(U)
    BY <1>10, DepsFinite DEF Unfinished
  <2>4. /\ Cardinality(U) - Cardinality(N) = Cardinality(U \ N)
        /\ Cardinality(U \ N) = 0 <=> U \ N = {}
        /\ Cardinality(N) = 0 <=> N = {}
    BY <2>3, CountDownExact
  <2>5. pending'[u] = pending[u] - Cardinality(N)
    BY <1>1 DEF CountDown
  <2>6. pending'[u] = Cardinality(U \ N)
    BY <2>2, <2>4, <2>5
  <2>7. u \in Released(New) <=> N # {} /\ pending'[u] = 0
    BY <2>5 DEF Released, CountDown
  <2>8. state'[u] = "waiting" <=> U \ N # {}
    <3>1. CASE u \in Released(New)
      BY <3>1, <2>6, <2>7, <2>4, <1>8, <1>6
    <3>2. CASE u = r.task
      BY <3>2, <1>2, <1>8, <2>2
    <3>3. CASE u \notin Released(New) /\ u # r.task
      <4>1. state'[u] = state[u]
        BY <3>3, <1>8, <1>6
      <4>2. CASE N = {}
        BY <4>1, <4>2, <2>2
      <4>3. CASE N # {}
        BY <4>1, <4>3, <3>3, <2>2, <2>3, <2>4, <2>6, <2>7
      <4> QED
        BY <4>2, <4>3
    <3> QED
      BY <3>1, <3>2, <3>3
  <2> QED
    BY <2>3, <2>6, <2>8
<1>14. RowsInserted'
  <2> SUFFICES ASSUME NEW u \in Task
               PROVE  state'[u] = "absent" <=> bstate'[BuildOf[u]] = "none"
    BY DEF RowsInserted
  <2>1. state'[u] = "absent" <=> state[u] = "absent"
    BY <1>8, <1>2, <1>4, <1>6
  <2> QED
    BY <2>1, <1>11, GraphAssumption DEF DbInv, RowsInserted
<1>15. AttemptsLeft'
  <2> SUFFICES ASSUME NEW u \in Task
               PROVE  /\ state'[u] \in {"absent", "waiting"} => attempts'[u] = 0
                      /\ state'[u] = "ready" => attempts'[u] < MaxAttempts
    BY DEF AttemptsLeft
  <2>1. attempts' = attempts
    BY DEF CompleteOk
  <2>2. state'[u] \in {"absent", "waiting"} => state'[u] = state[u]
    BY <1>8
  <2>3. state'[u] = "ready" => u \in Released(New) \/ state[u] = "ready"
    BY <1>8
  <2> QED
    BY <2>1, <2>2, <2>3, <1>5, WorkerAssumption DEF DbInv, AttemptsLeft
<1> QED
  BY <1>12, <1>13, <1>14, <1>15 DEF DbInv

\* The statements that move rows between 'ready', 'running' and 'failed' touch
\* neither the counts nor what they count.
LEMMA SameProgress ==
  ASSUME DbInv, pending' = pending,
         \A t \in Task : /\ state'[t] \in Finished <=> state[t] \in Finished
                         /\ state'[t] = "waiting" <=> state[t] = "waiting"
                         /\ state'[t] = "absent" <=> state[t] = "absent",
         \A b \in Build : bstate'[b] = "none" <=> bstate[b] = "none"
  PROVE  PendingExact' /\ RowsInserted'
<1>1. \A t \in Task : Unfinished(t)' = Unfinished(t)
  BY GraphAssumption DEF Unfinished
<1>2. PendingExact'
  BY <1>1 DEF PendingExact, DbInv
<1>3. RowsInserted'
  BY GraphAssumption DEF RowsInserted, DbInv
<1> QED
  BY <1>2, <1>3

\* "retry" and "reap" give a running row back or fail it, within MaxAttempts.
LEMMA RequeueDb ==
  ASSUME DbInv, NEW S, S \subseteq Task, \A t \in S : state[t] = "running", Requeue(S),
         bstate' \in [Build -> {"none", "running", "done", "failed"}],
         \A b \in Build : bstate'[b] = "none" <=> bstate[b] = "none"
  PROVE  DbInv'
<1>1. \A t \in Task : state'[t] = IF t \in S THEN NextTry(t) ELSE state[t]
  BY DEF Requeue
<1>2. \A t \in Task : /\ NextTry(t) \in {"ready", "failed"}
                      /\ NextTry(t) = "ready" => attempts[t] < MaxAttempts
  BY WorkerAssumption DEF NextTry, DbInv, DbType
<1>3. DbType'
  <2>1. state' \in [Task -> RowState]
    BY <1>2 DEF Requeue, DbInv, DbType, RowState, Finished
  <2>2. owner' \in [Task -> Worker \cup {NoWorker}]
    BY DEF Requeue, DbInv, DbType
  <2>3. failedBy' \in [Task -> Worker \cup {NoWorker}]
    BY DEF Requeue, DbInv, DbType
  <2>4. cooling' \in [Task -> BOOLEAN]
    BY DEF Requeue, DbInv, DbType
  <2> QED
    BY <2>1, <2>2, <2>3, <2>4 DEF Requeue, DbInv, DbType
<1>4. PendingExact' /\ RowsInserted'
  <2>1. pending' = pending
    BY DEF Requeue
  <2>2. \A t \in Task : /\ state'[t] \in Finished <=> state[t] \in Finished
                        /\ state'[t] = "waiting" <=> state[t] = "waiting"
                        /\ state'[t] = "absent" <=> state[t] = "absent"
    BY <1>1, <1>2 DEF Finished
  <2> QED
    BY <2>1, <2>2, SameProgress
<1>5. AttemptsLeft'
  <2>1. attempts' = attempts
    BY DEF Requeue
  <2> QED
    BY <1>1, <1>2, <2>1 DEF AttemptsLeft, DbInv
<1> QED
  BY <1>3, <1>4, <1>5 DEF DbInv

\* A verdict on a build that exists leaves the others alone.
LEMMA VerdictType ==
  ASSUME DbInv, NEW t \in Task, state[t] # "absent", NEW c, NEW st,
         bstate' = [bstate EXCEPT ![BuildOf[t]] = IF c THEN MaybeFinish(BuildOf[t], @, st) ELSE @]
  PROVE  /\ bstate' \in [Build -> {"none", "running", "done", "failed"}]
         /\ \A b \in Build : bstate'[b] = "none" <=> bstate[b] = "none"
<1> DEFINE b == BuildOf[t]
           v == IF c THEN MaybeFinish(b, bstate[b], st) ELSE bstate[b]
<1>1. bstate \in [Build -> {"none", "running", "done", "failed"}] /\ b \in Build
  BY GraphAssumption DEF DbInv, DbType
<1>2. bstate[b] # "none"
  BY DEF DbInv, RowsInserted
<1>3. v \in {"none", "running", "done", "failed"} /\ v # "none"
  BY <1>1, <1>2, MaybeFinishType
<1>4. bstate' = [bstate EXCEPT ![b] = v]
  OBVIOUS
<1> HIDE DEF v
<1> QED
  BY <1>1, <1>2, <1>3, <1>4

\* Whatever CompleteTask is told, and however often, the tables stay consistent.
LEMMA CompleteTaskDb ==
  ASSUME DbInv, NEW r \in Result, CompleteTask(r)
  PROVE  DbInv'
<1>r. r.task \in Task
  BY DEF Result
<1>1. CASE CompleteOk(r)
  BY <1>1, CompleteOkDb
<1>2. CASE CompleteRetry(r)
  <2>1. state[r.task] = "running" /\ Requeue({r.task})
    BY <1>2 DEF CompleteRetry, Current
  <2>2. /\ bstate' \in [Build -> {"none", "running", "done", "failed"}]
        /\ \A b \in Build : bstate'[b] = "none" <=> bstate[b] = "none"
    BY <1>2, <1>r, <2>1, VerdictType DEF CompleteRetry
  <2> QED
    BY <1>r, <2>1, <2>2, RequeueDb
<1>3. CASE CompleteFail(r)
  <2>1. /\ state[r.task] \in {"ready", "running"}
        /\ state' = [state EXCEPT ![r.task] = "failed"]
        /\ UNCHANGED <<pending, attempts, owner, failedBy, expired, cooling, cache>>
    BY <1>3 DEF CompleteFail, Open
  <2>2. bstate' = [bstate EXCEPT ![BuildOf[r.task]] =
                     IF TRUE THEN MaybeFinish(BuildOf[r.task], @, state') ELSE @]
    BY <1>3 DEF CompleteFail
  <2>3. /\ bstate' \in [Build -> {"none", "running", "done", "failed"}]
        /\ \A b \in Build : bstate'[b] = "none" <=> bstate[b] = "none"
    BY <1>r, <2>1, <2>2, VerdictType
  <2>4. \A t \in Task : state'[t] = IF t = r.task THEN "failed" ELSE state[t]
    BY <2>1 DEF DbInv, DbType
  <2>5. DbType'
    BY <2>1, <2>3 DEF DbInv, DbType, RowState
  <2>6. PendingExact' /\ RowsInserted'
    <3>1. \A t \in Task : /\ state'[t] \in Finished <=> state[t] \in Finished
                          /\ state'[t] = "waiting" <=> state[t] = "waiting"
                          /\ state'[t] = "absent" <=> state[t] = "absent"
      BY <2>1, <2>4 DEF Finished
    <3> QED
      BY <2>1, <2>3, <3>1, SameProgress
  <2>7. AttemptsLeft'
    BY <2>1, <2>4 DEF DbInv, AttemptsLeft
  <2> QED
    BY <2>5, <2>6, <2>7 DEF DbInv
<1>4. CASE Duplicate(r)
  BY <1>4 DEF Duplicate, dbVars, rowVars, DbInv, DbType, PendingExact, Unfinished,
              RowsInserted, AttemptsLeft
<1> QED
  BY <1>1, <1>2, <1>3, <1>4 DEF CompleteTask

\* submit() starts the counts off: what it resolved from the cache is finished,
\* everything else waits for exactly the deps that are not.
LEMMA InsertRowsDb ==
  ASSUME DbInv, NEW b \in Build, bstate[b] = "none", InsertRows(b)
  PROVE  DbInv'
<1>1. PICK hits \in SUBSET Rows(b) :
        /\ hits = CacheHits(b, hits)
        /\ state' = [t \in Task |->
             IF t \notin Rows(b) THEN state[t]
             ELSE IF t \in hits THEN "cached"
             ELSE IF Deps[t] \subseteq hits THEN "ready" ELSE "waiting"]
        /\ pending' = [t \in Task |->
             IF t \in Rows(b) THEN Cardinality(Deps[t] \ hits) ELSE pending[t]]
  BY DEF InsertRows
<1>2. \A t \in hits : t \in Rows(b) /\ Deps[t] \subseteq hits
  BY <1>1 DEF CacheHits
<1>3. \A t \in Task : state'[t] = IF t \notin Rows(b) THEN state[t]
             ELSE IF t \in hits THEN "cached"
             ELSE IF Deps[t] \subseteq hits THEN "ready" ELSE "waiting"
  BY <1>1
<1>4. \A t \in Task : Deps[t] \subseteq Task
                      /\ \A d \in Deps[t] : d \in Rows(b) <=> t \in Rows(b)
  BY GraphAssumption DEF Rows
<1>5. \A t \in Rows(b) : attempts[t] = 0
  BY DEF DbInv, RowsInserted, AttemptsLeft, Rows
<1>6. bstate' \in [Build -> {"none", "running", "done", "failed"}]
      /\ bstate'[b] # "none" /\ \A c \in Build \ {b} : bstate'[c] = bstate[c]
  <2>1. MaybeFinish(b, "running", state') \in {"none", "running", "done", "failed"} \ {"none"}
    BY MaybeFinishType
  <2> QED
    BY <2>1 DEF InsertRows, DbInv, DbType
<1>7. DbType'
  <2>1. state' \in [Task -> RowState]
    BY <1>1 DEF DbInv, DbType, RowState, Finished
  <2>2. pending' \in [Task -> Int]
    <3>1. \A t \in Task : Cardinality(Deps[t] \ hits) \in Nat
      BY DepsFinite
    <3> QED
      BY <1>1, <3>1 DEF DbInv, DbType
  <2> QED
    BY <2>1, <2>2, <1>6 DEF InsertRows, DbInv, DbType
<1>8. PendingExact'
  <2> SUFFICES ASSUME NEW t \in Task, state'[t] # "absent"
               PROVE  /\ pending'[t] = Cardinality(Unfinished(t)')
                      /\ state'[t] = "waiting" <=> Unfinished(t)' # {}
    BY DEF PendingExact
  <2>1. CASE t \in Rows(b)
    <3>1. Unfinished(t)' = Deps[t] \ hits
      BY <1>3, <1>4, <2>1 DEF Unfinished, Finished
    <3>2. state'[t] = "waiting" <=> ~(Deps[t] \subseteq hits)
      BY <1>2, <1>3, <2>1
    <3> QED
      BY <1>1, <2>1, <3>1, <3>2
  <2>2. CASE t \notin Rows(b)
    <3>1. Unfinished(t)' = Unfinished(t) /\ state'[t] = state[t]
      BY <1>3, <1>4, <2>2 DEF Unfinished
    <3> QED
      BY <1>1, <2>2, <3>1 DEF DbInv, PendingExact
  <2> QED
    BY <2>1, <2>2
<1>9. RowsInserted'
  BY <1>3, <1>6, GraphAssumption DEF DbInv, RowsInserted, Rows
<1>10. AttemptsLeft'
  <2>1. attempts' = attempts
    BY DEF InsertRows
  <2> QED
    BY <1>3, <1>5, <2>1, WorkerAssumption DEF DbInv, AttemptsLeft
<1> QED
  BY <1>7, <1>8, <1>9, <1>10 DEF DbInv

\* A claim takes a ready row, and its attempt number is within MaxAttempts.
LEMMA ClaimRowDb ==
  ASSUME DbInv, NEW w \in Worker, NEW t \in Task, ClaimRow(w, t)
  PROVE  DbInv' /\ NextAttempt(t) \in Attempt
<1>1. state[t] = "ready" /\ attempts[t] < MaxAttempts
  BY DEF ClaimRow, Claimable, DbInv, AttemptsLeft
<1>2. NextAttempt(t) \in 1 .. MaxAttempts
  BY <1>1, WorkerAssumption DEF NextAttempt, DbInv, DbType
<1>3. \A u \in Task : /\ state'[u] = IF u = t THEN "running" ELSE state[u]
                      /\ attempts'[u] = IF u = t THEN NextAttempt(t) ELSE attempts[u]
  BY DEF ClaimRow, DbInv, DbType
<1>4. DbType'
  BY <1>2, WorkerAssumption DEF ClaimRow, DbInv, DbType, RowState
<1>5. PendingExact' /\ RowsInserted'
  <2>1. \A u \in Task : /\ state'[u] \in Finished <=> state[u] \in Finished
                        /\ state'[u] = "waiting" <=> state[u] = "waiting"
                        /\ state'[u] = "absent" <=> state[u] = "absent"
    BY <1>1, <1>3 DEF Finished
  <2>2. pending' = pending /\ bstate' = bstate
    BY DEF ClaimRow
  <2> QED
    BY <2>1, <2>2, SameProgress
<1>6. AttemptsLeft'
  BY <1>1, <1>3 DEF DbInv, AttemptsLeft
<1> QED
  BY <1>2, <1>4, <1>5, <1>6 DEF DbInv, Attempt

-----------------------------------------------------------------------------
(* The whole system *)

ProcType ==
  /\ blobs \subseteq Blobs
  /\ stage \in [Build -> {"start", "checked", "uploaded", "polling", "fetching",
                          "ok", "failed", "error", "gone"}]
  /\ need \in [Build -> SUBSET Compile]
  /\ job \in [Slot -> Job \cup {NoJob}]
  /\ late \subseteq Result
  /\ alive \subseteq Worker
  /\ owed \subseteq Build
  /\ faults \in 0 .. MaxFaults
  /\ spoilt \subseteq Task

\* The inductive invariant splits into the tables and the processes.
LEMMA Split == IInv <=> DbInv /\ ProcType /\ StageFits
BY DEF IInv, DbInv, TypeOK, DbType, ProcType

\* The same of the next state.
LEMMA SplitNext == IInv' <=> DbInv' /\ ProcType' /\ StageFits'
BY DEF IInv, DbInv, TypeOK, DbType, ProcType

\* Processes that leave the tables alone leave them consistent.
LEMMA DbStutter == ASSUME DbInv, UNCHANGED dbVars PROVE DbInv'
BY DEF DbInv, DbType, PendingExact, Unfinished, RowsInserted, AttemptsLeft, dbVars, rowVars

\* A fault is counted.
LEMMA FaultType ==
  ASSUME faults \in 0 .. MaxFaults, NEW k, Counted(k) PROVE faults' \in 0 .. MaxFaults
BY WorkerAssumption DEF Counted

\* What a slot has to report is a result.
LEMMA ResultType ==
  ASSUME ProcType, NEW s \in Slot, HasResult(s) PROVE ResultOf(s) \in Result
BY WorkerAssumption DEF ProcType, HasResult, ResultOf, Result, Job, Verdicts

\* The empty database and idle processes satisfy the invariant.
LEMMA InitInv == Init => IInv
<1> SUFFICES ASSUME Init PROVE IInv
  OBVIOUS
<1>1. TypeOK
  BY WorkerAssumption DEF Init, TypeOK, RowState, Finished
<1>2. PendingExact /\ RowsInserted /\ AttemptsLeft /\ StageFits
  BY GraphAssumption, WorkerAssumption DEF Init, PendingExact, RowsInserted, AttemptsLeft, StageFits
<1> QED
  BY <1>1, <1>2 DEF IInv

\* A client that goes away leaves the tables as they are.
LEMMA HangUpInv ==
  ASSUME IInv, NEW b \in Build, HangUp(b) PROVE IInv'
<1>1. DbInv /\ ProcType /\ StageFits
  BY Split
<1>2. ProcType' /\ StageFits'
  BY <1>1, WorkerAssumption DEF HangUp, Fault, Counted, ProcType, StageFits, dbVars, workerVars
<1> QED
  BY <1>1, <1>2, DbStutter, SplitNext DEF HangUp

\* dcc keeps the invariant.
LEMMA ClientInv ==
  ASSUME IInv, NEW b \in Build, Client(b) PROVE IInv'
<1>1. DbInv /\ ProcType /\ StageFits
  BY Split
<1>2. CASE CheckCache(b)
  <2>1. ProcType' /\ StageFits'
    BY <1>1, <1>2 DEF CheckCache, ProcType, StageFits, dbVars, workerVars
  <2> QED
    BY <1>1, <1>2, <2>1, DbStutter, SplitNext DEF CheckCache
<1>3. CASE Upload(b)
  <2>1. UploadSet(b) \subseteq Blobs
    BY <1>1 DEF UploadSet, Blobs, ProcType
  <2>2. ProcType' /\ StageFits'
    BY <1>1, <1>3, <2>1 DEF Upload, ProcType, StageFits, dbVars, workerVars
  <2> QED
    BY <1>1, <1>3, <2>2, DbStutter, SplitNext DEF Upload
<1>4. CASE SubmitBuild(b)
  <2>1. bstate[b] = "none"
    BY <1>1, <1>4 DEF SubmitBuild, StageFits
  <2>2. ProcType'
    BY <1>1, <1>4 DEF SubmitBuild, ProcType, workerVars
  <2>3. DbInv'
    <3>1. CASE Rejected(b)
      BY <1>1, <1>4, <3>1, DbStutter DEF SubmitBuild
    <3>2. CASE ~Rejected(b)
      BY <1>1, <1>4, <2>1, <3>2, InsertRowsDb DEF SubmitBuild
    <3> QED
      BY <3>1, <3>2
  <2>4. \A c \in Build \ {b} : bstate'[c] = bstate[c] /\ stage'[c] = stage[c]
    BY <1>1, <1>4 DEF SubmitBuild, InsertRows, ProcType, DbInv, DbType, dbVars
  <2>5. stage'[b] \in {"error", "polling"}
    BY <1>1, <1>4 DEF SubmitBuild, ProcType
  <2>6. StageFits'
    BY <1>1, <2>4, <2>5 DEF StageFits
  <2> QED
    BY <2>2, <2>3, <2>6, SplitNext
<1>5. CASE GetBuild(b)
  <2>1. ProcType' /\ StageFits'
    BY <1>1, <1>5 DEF GetBuild, ProcType, StageFits, dbVars, workerVars
  <2> QED
    BY <1>1, <1>5, <2>1, DbStutter, SplitNext DEF GetBuild
<1>6. CASE FetchOutputs(b)
  <2>1. ProcType' /\ StageFits'
    BY <1>1, <1>6 DEF FetchOutputs, ProcType, StageFits, dbVars, workerVars
  <2> QED
    BY <1>1, <1>6, <2>1, DbStutter, SplitNext DEF FetchOutputs
<1> QED
  BY <1>2, <1>3, <1>4, <1>5, <1>6 DEF Client

\* A completion leaves a build's existence alone, and so StageFits.
LEMMA CompleteStage ==
  ASSUME IInv, NEW r \in Result, CompleteTask(r), UNCHANGED stage
  PROVE  StageFits'
<1>1. DbInv /\ ProcType /\ StageFits
  BY Split
<1>2. \A c \in Build : bstate[c] = "none" => bstate'[c] = "none"
  <2> SUFFICES ASSUME NEW c \in Build, bstate[c] = "none" PROVE bstate'[c] = "none"
    OBVIOUS
  <2>1. CASE UNCHANGED bstate
    BY <2>1
  <2>2. CASE ~ UNCHANGED bstate
    <3>1. state[r.task] # "absent"
      BY <2>2 DEF CompleteTask, CompleteOk, CompleteRetry, CompleteFail, Duplicate,
                  Open, Current, dbVars
    <3>2. BuildOf[r.task] # c
      BY <1>1, <3>1 DEF DbInv, RowsInserted, Result
    <3> QED
      BY <1>1, <2>2, <3>2 DEF CompleteTask, CompleteOk, CompleteRetry, CompleteFail,
                  Duplicate, dbVars, DbInv, DbType
  <2> QED
    BY <2>1, <2>2
<1> QED
  BY <1>1, <1>2 DEF StageFits

\* The slot threads, and what the network does to their reports.
LEMMA SlotInv ==
  ASSUME IInv, NEW s \in Slot,
         SlotStep(s) \/ ExecuteFails(s) \/ ExecuteDies(s) \/ ReportAgain(s) \/ ReportGivenUp(s)
           \/ \E t \in Task : ClaimLost(s, t)
  PROVE  IInv'
<1>1. DbInv /\ ProcType /\ StageFits
  BY Split
<1>w. WorkerOf[s] \in Worker
  BY WorkerAssumption
<1>2. ASSUME NEW t \in Task, ClaimTask(s, t) PROVE IInv'
  <2>1. DbInv' /\ NextAttempt(t) \in Attempt
    BY <1>1, <1>2, <1>w, ClaimRowDb DEF ClaimTask
  <2>2. ProcType'
    BY <1>1, <1>2, <2>1 DEF ClaimTask, ProcType, clientVars, Job
  <2>3. StageFits'
    BY <1>1, <1>2 DEF ClaimTask, ClaimRow, StageFits, clientVars
  <2> QED
    BY <2>1, <2>2, <2>3, SplitNext
<1>3. ASSUME NEW t \in Task, ClaimLost(s, t) PROVE IInv'
  <2>1. DbInv'
    BY <1>1, <1>3, <1>w, ClaimRowDb DEF ClaimLost
  <2>2. ProcType'
    BY <1>1, <1>3, FaultType DEF ClaimLost, Fault, ProcType, clientVars, workerVars
  <2>3. StageFits'
    BY <1>1, <1>3 DEF ClaimLost, ClaimRow, StageFits, clientVars
  <2> QED
    BY <2>1, <2>2, <2>3, SplitNext
<1>4. CASE Execute(s)
  <2> DEFINE t == job[s].task
             v == RunVerdict(t)
  <2>1. t \in Task /\ job[s] \in Job
    BY <1>1, <1>4 DEF Execute, ProcType, Job
  <2>2. v \in Verdicts
    BY DEF RunVerdict, Verdicts
  <2>3. blobs' \subseteq Blobs
    BY <1>1, <1>4, <2>1 DEF Execute, ProcType, Blobs
  <2>4. job' \in [Slot -> Job \cup {NoJob}]
    <3>1. job' = [job EXCEPT ![s].step = v]
      BY <1>4 DEF Execute, SetStep
    <3> HIDE DEF v
    <3> QED
      BY <1>1, <2>1, <2>2, <3>1 DEF ProcType, Job
  <2>5. ProcType' /\ StageFits'
    BY <1>1, <1>4, <2>3, <2>4 DEF Execute, ProcType, StageFits, clientVars, dbVars
  <2> QED
    BY <1>1, <1>4, <2>5, DbStutter, SplitNext DEF Execute
<1>5. CASE ExecuteFails(s)
  <2>1. job[s] \in Job
    BY <1>1, <1>5 DEF ExecuteFails, ProcType
  <2>2. job' \in [Slot -> Job \cup {NoJob}]
    BY <1>1, <1>5, <2>1 DEF ExecuteFails, SetStep, ProcType, Job, Verdicts
  <2>3. ProcType' /\ StageFits'
    BY <1>1, <1>5, <2>2, FaultType DEF ExecuteFails, Fault, ProcType, StageFits, clientVars, dbVars
  <2> QED
    BY <1>1, <1>5, <2>3, DbStutter, SplitNext DEF ExecuteFails
<1>6. CASE Report(s)
  <2>1. ResultOf(s) \in Result /\ CompleteTask(ResultOf(s))
    BY <1>1, <1>6, ResultType DEF Report
  <2>2. DbInv'
    BY <1>1, <2>1, CompleteTaskDb
  <2>3. StageFits'
    BY <1>6, <2>1, CompleteStage DEF Report, clientVars
  <2>4. ProcType'
    BY <1>1, <1>6 DEF Report, ProcType, clientVars
  <2> QED
    BY <2>2, <2>3, <2>4, SplitNext
<1>7. CASE ReportAgain(s)
  <2>1. ProcType' /\ StageFits'
    BY <1>1, <1>7, ResultType, FaultType DEF ReportAgain, Fault, ProcType, StageFits, clientVars, dbVars
  <2> QED
    BY <1>1, <1>7, <2>1, DbStutter, SplitNext DEF ReportAgain
<1>8. CASE ReportGivenUp(s)
  <2>1. ProcType' /\ StageFits'
    BY <1>1, <1>8, ResultType, FaultType DEF ReportGivenUp, Fault, ProcType, StageFits, clientVars, dbVars
  <2> QED
    BY <1>1, <1>8, <2>1, DbStutter, SplitNext DEF ReportGivenUp
<1>9. CASE ExecuteDies(s)
  <2>1. job[s] \in Job /\ job[s].task \in Task
    BY <1>1, <1>9 DEF ExecuteDies, ProcType, Job
  <2>2. job' \in [Slot -> Job \cup {NoJob}]
    BY <1>1, <1>9, <2>1 DEF ExecuteDies, SetStep, ProcType, Job, Verdicts
  <2>3. ProcType' /\ StageFits'
    BY <1>1, <1>9, <2>1, <2>2, FaultType DEF ExecuteDies, ProcType, StageFits, clientVars, dbVars
  <2> QED
    BY <1>1, <1>9, <2>3, DbStutter, SplitNext DEF ExecuteDies
<1> QED
  BY <1>2, <1>3, <1>4, <1>5, <1>6, <1>7, <1>8, <1>9 DEF SlotStep

\* The reaper, the clock, and processes that stop and start.
LEMMA LeaseInv ==
  ASSUME IInv,
         \/ \E b \in Build : ReapVerdict(b)
         \/ \E r \in late : LateReport(r)
         \/ \E w \in Worker : Heartbeat(w) \/ WorkerCrash(w) \/ WorkerRestart(w)
         \/ \E t \in Task : LeaseOfDead(t) \/ LeaseOfSlow(t) \/ Cooled(t)
         \/ Reap
         \/ CoordinatorRestart
  PROVE  IInv'
<1>1. DbInv /\ ProcType /\ StageFits
  BY Split
<1>2. ASSUME NEW b \in Build, ReapVerdict(b) PROVE IInv'
  <2>1. bstate[b] \in {"none", "running", "done", "failed"}
    BY <1>1 DEF DbInv, DbType
  <2>2. /\ bstate' \in [Build -> {"none", "running", "done", "failed"}]
        /\ \A c \in Build : bstate'[c] = "none" <=> bstate[c] = "none"
    BY <1>1, <1>2, <2>1, MaybeFinishType DEF ReapVerdict, DbInv, DbType
  <2>3. DbType' /\ AttemptsLeft'
    BY <1>1, <1>2, <2>2 DEF ReapVerdict, rowVars, DbInv, DbType, AttemptsLeft
  <2>4. PendingExact' /\ RowsInserted'
    BY <1>1, <1>2, <2>2, SameProgress DEF ReapVerdict, rowVars
  <2>5. ProcType'
    BY <1>1, <1>2 DEF ReapVerdict, ProcType, clientVars, workerVars
  <2>6. StageFits'
    BY <1>1, <1>2, <2>2 DEF ReapVerdict, StageFits, clientVars
  <2> QED
    BY <2>3, <2>4, <2>5, <2>6, SplitNext DEF DbInv
<1>3. ASSUME NEW r \in late, LateReport(r) PROVE IInv'
  <2>1. r \in Result /\ CompleteTask(r)
    BY <1>1, <1>3 DEF ProcType, LateReport
  <2>2. DbInv'
    BY <1>1, <2>1, CompleteTaskDb
  <2>3. StageFits'
    BY <1>3, <2>1, CompleteStage DEF LateReport, clientVars
  <2>4. ProcType'
    BY <1>1, <1>3 DEF LateReport, ProcType, clientVars
  <2> QED
    BY <2>2, <2>3, <2>4, SplitNext
<1>4. ASSUME UNCHANGED <<state, pending, attempts, owner, failedBy, bstate, cache>>,
             expired' \in [Task -> BOOLEAN], cooling' \in [Task -> BOOLEAN],
             UNCHANGED stage, ProcType'
      PROVE  IInv'
  <2>1. DbInv'
    <3>1. DbType'
      BY <1>1, <1>4 DEF DbInv, DbType
    <3>2. PendingExact' /\ RowsInserted'
      BY <1>1, <1>4, SameProgress
    <3>3. AttemptsLeft'
      BY <1>1, <1>4 DEF DbInv, AttemptsLeft
    <3> QED
      BY <3>1, <3>2, <3>3 DEF DbInv
  <2>2. StageFits'
    BY <1>1, <1>4 DEF StageFits
  <2> QED
    BY <1>4, <2>1, <2>2, SplitNext
<1>5. ASSUME NEW w \in Worker, Heartbeat(w) PROVE IInv'
  <2>1. ProcType'
    BY <1>1, <1>5 DEF Heartbeat, ProcType, clientVars, workerVars
  <2>2. expired' \in [Task -> BOOLEAN] /\ cooling' \in [Task -> BOOLEAN]
    BY <1>1, <1>5 DEF Heartbeat, DbInv, DbType
  <2> QED
    BY <1>4, <1>5, <2>1, <2>2 DEF Heartbeat, clientVars
<1>6. ASSUME NEW t \in Task, LeaseOfDead(t) \/ LeaseOfSlow(t) PROVE IInv'
  <2>1. ExpireLease(t) /\ faults' \in 0 .. MaxFaults /\ UNCHANGED spoilt
    BY <1>1, <1>6, FaultType DEF LeaseOfDead, LeaseOfSlow, Fault, ProcType
  <2>2. ProcType'
    BY <1>1, <2>1 DEF ExpireLease, ProcType, clientVars, workerVars
  <2>3. expired' \in [Task -> BOOLEAN] /\ cooling' \in [Task -> BOOLEAN]
    BY <1>1, <2>1 DEF ExpireLease, DbInv, DbType
  <2> QED
    BY <1>4, <2>1, <2>2, <2>3 DEF ExpireLease, clientVars
<1>7. ASSUME NEW t \in Task, Cooled(t) PROVE IInv'
  <2>1. ProcType'
    BY <1>1, <1>7 DEF Cooled, ProcType, clientVars, workerVars
  <2>2. expired' \in [Task -> BOOLEAN] /\ cooling' \in [Task -> BOOLEAN]
    BY <1>1, <1>7 DEF Cooled, DbInv, DbType
  <2> QED
    BY <1>4, <1>7, <2>1, <2>2 DEF Cooled, clientVars
<1>8. CASE Reap
  <2>1. Overdue \subseteq Task /\ (\A t \in Overdue : state[t] = "running") /\ Requeue(Overdue)
    BY <1>8 DEF Reap, Overdue
  <2>2. DbInv'
    BY <1>1, <1>8, <2>1, RequeueDb DEF Reap, DbInv, DbType
  <2>3. owed' \subseteq Build
    BY <1>8, <2>1, GraphAssumption DEF Reap
  <2>4. ProcType' /\ StageFits'
    BY <1>1, <1>8, <2>3 DEF Reap, ProcType, StageFits, clientVars, workerVars
  <2> QED
    BY <2>2, <2>4, SplitNext
<1>9. ASSUME NEW w \in Worker, WorkerCrash(w) \/ WorkerRestart(w) PROVE IInv'
  <2>1. faults' \in 0 .. MaxFaults /\ UNCHANGED spoilt
    BY <1>1, <1>9, FaultType DEF WorkerCrash, WorkerRestart, Fault, ProcType
  <2>2. ProcType'
    BY <1>1, <1>9, <2>1 DEF WorkerCrash, WorkerRestart, ProcType, clientVars
  <2>3. UNCHANGED <<dbVars, stage>>
    BY <1>9 DEF WorkerCrash, WorkerRestart, clientVars
  <2>4. StageFits'
    BY <1>1, <2>3 DEF StageFits, dbVars
  <2> QED
    BY <1>1, <2>2, <2>3, <2>4, DbStutter, SplitNext
<1>10. CASE CoordinatorRestart
  <2>1. ProcType' /\ StageFits'
    BY <1>1, <1>10, FaultType DEF CoordinatorRestart, Fault, ProcType, StageFits, clientVars,
                                  workerVars, dbVars
  <2> QED
    BY <1>1, <1>10, <2>1, DbStutter, SplitNext DEF CoordinatorRestart
<1> QED
  BY <1>2, <1>3, <1>5, <1>6, <1>7, <1>8, <1>9, <1>10

\* Every step of the system keeps the invariant.
LEMMA StepInv == IInv /\ [Next]_vars => IInv'
<1> SUFFICES ASSUME IInv, [Next]_vars PROVE IInv'
  OBVIOUS
<1>1. CASE UNCHANGED vars
  <2>1. DbInv'
    BY <1>1, Split, DbStutter DEF vars
  <2>2. ProcType' /\ StageFits'
    BY <1>1, Split DEF vars, dbVars, clientVars, workerVars, ProcType, StageFits
  <2> QED
    BY <2>1, <2>2, SplitNext
<1>2. CASE Next
  BY <1>1, <1>2, ClientInv, HangUpInv, SlotInv, LeaseInv DEF Next, Idle
<1> QED
  BY <1>1, <1>2

\* The inductive invariant holds of every behaviour.
THEOREM Invariance == Spec => []IInv
BY InitInv, StepInv, PTL DEF Spec

\* In particular every variable stays in its type: no row's attempts exceed
\* --max-attempts, and no claim is handed out beyond it.
THEOREM TypeCorrect == Spec => []TypeOK
<1>1. IInv => TypeOK
  BY DEF IInv
<1> QED
  BY <1>1, Invariance, PTL

\* pending_deps is exact in every reachable state, for every graph and whatever
\* repeated, late and stale completions there are.
THEOREM PendingCorrect == Spec => []PendingExact
<1>1. IInv => PendingExact
  BY DEF IInv
<1> QED
  BY <1>1, Invariance, PTL

-----------------------------------------------------------------------------
(* Verdicts *)

\* What a step may do to the verdicts: ended rows stay as they are, a build is
\* judged once and by the rows the step leaves, and no cache row goes away.
Forward ==
  /\ \A t \in Task : state[t] \in Finished \cup {"failed"} => state'[t] = state[t]
  /\ \A b \in Build : bstate'[b] # bstate[b] =>
       /\ bstate[b] \in {"none", "running"}
       /\ bstate'[b] = MaybeFinish(b, "running", state')
  /\ cache \subseteq cache'

\* maybe_finish says nothing new of a build that is judged or does not exist.
LEMMA JudgeForward ==
  ASSUME NEW b \in Build, NEW c, bstate \in [Build -> {"none", "running", "done", "failed"}],
         bstate' = [bstate EXCEPT ![b] = IF c THEN MaybeFinish(b, @, state') ELSE @]
  PROVE  \A x \in Build : bstate'[x] # bstate[x] =>
           /\ bstate[x] \in {"none", "running"}
           /\ bstate'[x] = MaybeFinish(x, "running", state')
<1> DEFINE v == IF c THEN MaybeFinish(b, bstate[b], state') ELSE bstate[b]
<1>1. v # bstate[b] => bstate[b] = "running" /\ v = MaybeFinish(b, "running", state')
  BY DEF MaybeFinish
<1>2. bstate' = [bstate EXCEPT ![b] = v]
  OBVIOUS
<1> HIDE DEF v
<1> QED
  BY <1>1, <1>2

\* A report of any age moves rows and verdicts forward.
LEMMA CompleteForward ==
  ASSUME DbInv, NEW r \in Result, CompleteTask(r)
  PROVE  Forward
<1>r. r.task \in Task /\ BuildOf[r.task] \in Build
  BY GraphAssumption DEF Result
<1>t. bstate \in [Build -> {"none", "running", "done", "failed"}]
  BY DEF DbInv, DbType
<1>1. CASE CompleteOk(r)
  <2> DEFINE b == BuildOf[r.task]
  <2>1. PICK hits \in SUBSET Rows(b) :
          LET New == {r.task} \cup hits IN
          /\ hits = {u \in Released(New) : Key[u] \in cache'}
          /\ state' = [u \in Task |->
               IF u = r.task THEN "done" ELSE IF u \in hits THEN "cached"
               ELSE IF u \in Released(New) THEN "ready" ELSE state[u]]
          /\ bstate' = [bstate EXCEPT ![b] =
               IF NeedsVerdict(r.task, New) THEN MaybeFinish(b, @, state') ELSE @]
    BY <1>1 DEF CompleteOk
  <2> DEFINE New == {r.task} \cup hits
  <2>2. \A u \in Released(New) : state[u] # "absent" => state[u] = "waiting"
    BY ReleasedWaits
  <2>3. state[r.task] \in {"ready", "running"} /\ cache \subseteq cache'
    BY <1>1 DEF CompleteOk, Open
  <2>4. ASSUME NEW t \in Task, state[t] \in Finished \cup {"failed"}
        PROVE  state'[t] = state[t]
    BY <2>1, <2>2, <2>3, <2>4 DEF Finished
  <2>5. \A x \in Build : bstate'[x] # bstate[x] =>
          bstate[x] \in {"none", "running"} /\ bstate'[x] = MaybeFinish(x, "running", state')
    BY <1>r, <1>t, <2>1, JudgeForward
  <2> QED
    BY <2>3, <2>4, <2>5 DEF Forward
<1>2. CASE CompleteRetry(r)
  <2>1. \A t \in Task : state[t] \in Finished \cup {"failed"} => state'[t] = state[t]
    BY <1>2 DEF CompleteRetry, Current, Requeue, Finished
  <2>2. cache' = cache
    BY <1>2 DEF CompleteRetry, Requeue
  <2> QED
    BY <1>2, <1>r, <1>t, <2>1, <2>2, JudgeForward DEF Forward, CompleteRetry
<1>3. CASE CompleteFail(r)
  <2>1. \A t \in Task : state[t] \in Finished \cup {"failed"} => state'[t] = state[t]
    BY <1>3, <1>r DEF CompleteFail, Open, Finished, DbInv, DbType
  <2>2. cache' = cache
    BY <1>3 DEF CompleteFail
  <2>3. bstate' = [bstate EXCEPT ![BuildOf[r.task]] =
                     IF TRUE THEN MaybeFinish(BuildOf[r.task], @, state') ELSE @]
    BY <1>3 DEF CompleteFail
  <2> QED
    BY <1>r, <1>t, <2>1, <2>2, <2>3, JudgeForward DEF Forward
<1>4. CASE Duplicate(r)
  BY <1>4 DEF Duplicate, dbVars, rowVars, Forward
<1> QED
  BY <1>1, <1>2, <1>3, <1>4 DEF CompleteTask

\* The rows of a build being submitted did not exist before.
LEMMA SubmitForward ==
  ASSUME IInv, NEW b \in Build, SubmitBuild(b)
  PROVE  Forward
<1>1. CASE Rejected(b)
  BY <1>1 DEF SubmitBuild, dbVars, rowVars, Forward
<1>2. CASE ~Rejected(b)
  <2>1. bstate[b] = "none" /\ InsertRows(b)
    BY <1>2 DEF SubmitBuild, IInv, StageFits
  <2>2. \A t \in Rows(b) : state[t] = "absent"
    BY <2>1 DEF IInv, RowsInserted, Rows
  <2>3. \A t \in Task \ Rows(b) : state'[t] = state[t]
    BY <2>1 DEF InsertRows
  <2>4. bstate' = [bstate EXCEPT ![b] = MaybeFinish(b, "running", state')] /\ cache' = cache
    BY <2>1 DEF InsertRows
  <2>5. bstate \in [Build -> {"none", "running", "done", "failed"}]
    BY DEF IInv, TypeOK
  <2> QED
    BY <2>1, <2>2, <2>3, <2>4, <2>5 DEF Forward, Finished
<1> QED
  BY <1>1, <1>2

\* No step takes a verdict back.
LEMMA StepForward == IInv /\ [Next]_vars => Forward
<1> SUFFICES ASSUME IInv, [Next]_vars PROVE Forward
  OBVIOUS
<1>d. DbInv /\ ProcType
  BY Split
<1>t. bstate \in [Build -> {"none", "running", "done", "failed"}]
      /\ state \in [Task -> RowState]
  BY DEF IInv, TypeOK
<1>s. ASSUME UNCHANGED <<state, bstate, cache>> PROVE Forward
  BY <1>s DEF Forward
<1>1. ASSUME NEW b \in Build, Client(b) PROVE Forward
  <2>1. CASE SubmitBuild(b)
    BY <2>1, SubmitForward
  <2>2. CASE ~SubmitBuild(b)
    BY <1>1, <2>2, <1>s DEF Client, CheckCache, Upload, GetBuild, FetchOutputs, dbVars, rowVars
  <2> QED
    BY <2>1, <2>2
<1>2. ASSUME NEW b \in Build, ReapVerdict(b) PROVE Forward
  <2>1. bstate' = [bstate EXCEPT ![b] = IF TRUE THEN MaybeFinish(b, @, state') ELSE @]
        /\ state' = state /\ cache' = cache
    BY <1>2 DEF ReapVerdict, rowVars
  <2> QED
    BY <1>t, <2>1, JudgeForward DEF Forward
<1>3. ASSUME NEW s \in Slot, Report(s) PROVE Forward
  BY <1>3, <1>d, ResultType, CompleteForward DEF Report
<1>4. ASSUME NEW r \in late, LateReport(r) PROVE Forward
  BY <1>4, <1>d, CompleteForward DEF LateReport, ProcType
<1>5. ASSUME NEW w, NEW t \in Task, ClaimRow(w, t) PROVE Forward
  BY <1>5, <1>t DEF ClaimRow, Claimable, Forward, Finished
<1>6. CASE Reap
  BY <1>6 DEF Reap, Requeue, Overdue, Forward, Finished
<1>7. ASSUME NEW s \in Slot, SlotStep(s) PROVE Forward
  BY <1>7, <1>3, <1>5, <1>s DEF SlotStep, ClaimTask, Execute, dbVars, rowVars
<1>8. ASSUME NEW s \in Slot,
             \/ ExecuteFails(s) \/ ExecuteDies(s) \/ ReportAgain(s) \/ ReportGivenUp(s)
             \/ \E t \in Task : ClaimLost(s, t)
      PROVE  Forward
  BY <1>8, <1>5, <1>s DEF ExecuteFails, ExecuteDies, ReportAgain, ReportGivenUp, ClaimLost,
     dbVars, rowVars
<1>9. ASSUME NEW w \in Worker, Heartbeat(w) \/ WorkerCrash(w) \/ WorkerRestart(w)
      PROVE  Forward
  BY <1>9, <1>s DEF Heartbeat, WorkerCrash, WorkerRestart, dbVars, rowVars
<1>10. ASSUME NEW t \in Task, LeaseOfDead(t) \/ LeaseOfSlow(t) \/ Cooled(t)
       PROVE  Forward
  BY <1>10, <1>s DEF LeaseOfDead, LeaseOfSlow, ExpireLease, Cooled
<1>11. CASE CoordinatorRestart \/ UNCHANGED vars
  BY <1>11, <1>s DEF CoordinatorRestart, vars, dbVars, rowVars
<1>12. ASSUME NEW b \in Build, HangUp(b) PROVE Forward
  BY <1>12, <1>s DEF HangUp, dbVars, rowVars
<1> QED
  BY <1>1, <1>2, <1>4, <1>6, <1>7, <1>8, <1>9, <1>10, <1>11, <1>12 DEF Next, Idle

\* Verdicts are final for every graph and fault pattern: no late, repeated or
\* stale report reopens a row or a build, or takes a cache row away.
THEOREM FinalityCorrect == Spec => TerminalFinal
<1>1. IInv /\ [Next]_vars =>
        [/\ \A t \in Task : state[t] \in Finished \cup {"failed"} => state'[t] = state[t]
         /\ \A b \in Build : bstate[b] \in {"done", "failed"} => bstate'[b] = bstate[b]
         /\ cache \subseteq cache']_vars
  BY StepForward DEF Forward
<1> QED
  BY <1>1, Invariance, PTL DEF Spec, TerminalFinal

\* A step that judges a build judges it by its rows, and judged rows stay.
LEMMA StepVerdict == VerdictSound /\ IInv /\ IInv' /\ [Next]_vars => VerdictSound'
<1> SUFFICES ASSUME VerdictSound, IInv, IInv', [Next]_vars, NEW b \in Build
             PROVE  /\ bstate'[b] = "done" => \A t \in Rows(b) : state'[t] \in Finished
                    /\ bstate'[b] = "failed" => \E t \in Rows(b) : state'[t] = "failed"
  BY DEF VerdictSound
<1>1. Forward
  BY StepForward
<1>2. Rows(b) \subseteq Task
  BY DEF Rows
<1>3. CASE bstate'[b] = bstate[b]
  BY <1>1, <1>2, <1>3 DEF Forward, VerdictSound
<1>4. CASE bstate'[b] # bstate[b]
  BY <1>1, <1>4 DEF Forward, MaybeFinish
<1> QED
  BY <1>3, <1>4

\* A build is called done only with every output there, and failed only with a
\* failed row, in every reachable state and for every graph.
THEOREM VerdictCorrect == Spec => []VerdictSound
<1>1. Init => VerdictSound
  BY DEF Init, VerdictSound
<1> QED
  BY <1>1, StepVerdict, Invariance, PTL DEF Spec

-----------------------------------------------------------------------------
(* The blob store *)

\* A cache row and a finished row promise their output in the store, and an open
\* compile task its input.
StoreInv ==
  /\ \A t \in Task : Key[t] \in cache => Output[t] \in blobs
  /\ \A t \in Task : state[t] \in Finished => Output[t] \in blobs
  /\ \A t \in Compile : state[t] \in {"ready", "running"} => Input[t] \in blobs

\* What dcc has done for build b so far still holds when it makes its next call.
Served(b) ==
  /\ stage[b] = "checked" =>
       \A t \in Rows(b) \cap Compile : t \in need[b] \/ Key[t] \in cache
  /\ stage[b] = "uploaded" =>
       \A t \in Rows(b) \cap Compile : Input[t] \in blobs \/ Key[t] \in cache
  /\ stage[b] = "polling" => bstate[b] # "none"
  /\ stage[b] = "fetching" => bstate[b] = "done"
  /\ stage[b] # "error"

ServedInv == \A b \in Build : Served(b)

\* What a step may do to the store: nothing is lost, a cache row is added for an
\* output that is there, and a row finishes with a cache row for its key.
Stored ==
  /\ blobs \subseteq blobs'
  /\ \A t \in Task : Key[t] \in cache' => Key[t] \in cache \/ Output[t] \in blobs
  /\ \A t \in Task : state'[t] \in Finished => state[t] \in Finished \/ Key[t] \in cache'
  /\ \A t \in Compile : state'[t] \in {"ready", "running"} =>
       state[t] \in {"ready", "running"} \/ Input[t] \in blobs

\* CompleteTask accepts a success only if its output is in the store.
LEMMA CompleteStored ==
  ASSUME DbInv, NEW r \in Result, CompleteTask(r), UNCHANGED blobs
  PROVE  Stored
<1>r. r.task \in Task /\ Compile \subseteq Task
  BY GraphAssumption DEF Result
<1>1. CASE EffectiveVerdict(r) = "ok" /\ CompleteOk(r)
  <2> DEFINE b == BuildOf[r.task]
  <2>1. PICK hits \in SUBSET Rows(b) :
          LET New == {r.task} \cup hits IN
          /\ hits = {u \in Released(New) : Key[u] \in cache'}
          /\ state' = [u \in Task |->
               IF u = r.task THEN "done" ELSE IF u \in hits THEN "cached"
               ELSE IF u \in Released(New) THEN "ready" ELSE state[u]]
    BY <1>1 DEF CompleteOk
  <2> DEFINE New == {r.task} \cup hits
  <2>2. Output[r.task] \in blobs /\ cache' = cache \cup {Key[r.task]}
    BY <1>1 DEF EffectiveVerdict, CompleteOk
  <2>3. \A t \in Task : Key[t] \in cache' => Key[t] \in cache \/ Output[t] \in blobs
    BY <1>r, <2>2, KeyAssumption
  <2>4. ASSUME NEW t \in Task, state'[t] \in Finished
        PROVE  state[t] \in Finished \/ Key[t] \in cache'
    BY <2>1, <2>2, <2>4 DEF Finished
  <2>5. \A t \in Compile : t \notin Released(New)
    BY GraphAssumption DEF Released
  <2>6. ASSUME NEW t \in Compile, state'[t] \in {"ready", "running"}
        PROVE  state[t] \in {"ready", "running"}
    BY <1>r, <2>1, <2>5, <2>6
  <2> QED
    BY <2>3, <2>4, <2>6 DEF Stored
<1>2. CASE CompleteRetry(r)
  <2>1. \A t \in Task : \/ state'[t] = state[t]
                        \/ state[t] = "running" /\ state'[t] \in {"ready", "failed"}
    <3>1. \A t \in Task : NextTry(t) \in {"ready", "failed"}
      BY DEF NextTry
    <3> QED
      BY <1>2, <3>1 DEF CompleteRetry, Current, Requeue
  <2> QED
    BY <1>2, <1>r, <2>1 DEF CompleteRetry, Requeue, Stored, Finished
<1>3. CASE CompleteFail(r)
  <2>1. \A t \in Task : state'[t] = state[t] \/ state'[t] = "failed"
    BY <1>3 DEF CompleteFail, DbInv, DbType
  <2> QED
    BY <1>3, <1>r, <2>1 DEF CompleteFail, Stored, Finished
<1>4. CASE Duplicate(r)
  BY <1>4 DEF Duplicate, dbVars, rowVars, Stored
<1> QED
  BY <1>1, <1>2, <1>3, <1>4 DEF CompleteTask

\* submit() resolves a row from a cache row, and refuses a compile task with
\* neither a cache row nor an uploaded input.
LEMMA SubmitStored ==
  ASSUME IInv, NEW b \in Build, SubmitBuild(b)
  PROVE  Stored
<1>r. Compile \subseteq Task /\ blobs' = blobs
  BY GraphAssumption DEF SubmitBuild
<1>1. CASE Rejected(b)
  BY <1>1 DEF SubmitBuild, dbVars, rowVars, Stored
<1>2. CASE ~Rejected(b)
  <2>0. InsertRows(b)
    BY <1>2 DEF SubmitBuild
  <2>1. PICK hits \in SUBSET Rows(b) :
          /\ hits = CacheHits(b, hits)
          /\ state' = [t \in Task |->
               IF t \notin Rows(b) THEN state[t]
               ELSE IF t \in hits THEN "cached"
               ELSE IF Deps[t] \subseteq hits THEN "ready" ELSE "waiting"]
    BY <2>0 DEF InsertRows
  <2>2. cache' = cache
    BY <2>0 DEF InsertRows
  <2>3. \A t \in hits : Key[t] \in cache
    BY <2>1 DEF CacheHits
  <2>4. ASSUME NEW t \in Compile, t \in Rows(b), t \notin hits PROVE Input[t] \in blobs
    <3>1. Deps[t] \subseteq hits
      BY GraphAssumption
    <3>2. Key[t] \notin cache
      BY <2>1, <2>4, <3>1 DEF CacheHits
    <3> QED
      BY <1>2, <2>4, <3>2 DEF Rejected
  <2>5. ASSUME NEW t \in Task, state'[t] \in Finished
        PROVE  state[t] \in Finished \/ Key[t] \in cache'
    BY <2>1, <2>2, <2>3, <2>5 DEF Finished
  <2>6. ASSUME NEW t \in Compile, state'[t] \in {"ready", "running"}
        PROVE  state[t] \in {"ready", "running"} \/ Input[t] \in blobs
    BY <1>r, <2>1, <2>4, <2>6
  <2> QED
    BY <1>r, <2>2, <2>5, <2>6 DEF Stored
<1> QED
  BY <1>1, <1>2

\* No step makes a promise about a blob that the store does not keep.
LEMMA StepStored == IInv /\ [Next]_vars => Stored
<1> SUFFICES ASSUME IInv, [Next]_vars PROVE Stored
  OBVIOUS
<1>d. DbInv /\ ProcType /\ state \in [Task -> RowState] /\ Compile \subseteq Task
  BY Split, GraphAssumption DEF IInv, TypeOK
<1>s. ASSUME UNCHANGED <<state, cache>>, blobs \subseteq blobs' PROVE Stored
  BY <1>s DEF Stored
<1>1. ASSUME NEW b \in Build, Client(b) PROVE Stored
  <2>1. CASE SubmitBuild(b)
    BY <2>1, SubmitStored
  <2>2. CASE ~SubmitBuild(b)
    BY <1>1, <2>2, <1>s DEF Client, CheckCache, Upload, GetBuild, FetchOutputs, dbVars, rowVars
  <2> QED
    BY <2>1, <2>2
<1>2. ASSUME NEW s \in Slot, Report(s) PROVE Stored
  BY <1>2, <1>d, ResultType, CompleteStored DEF Report
<1>3. ASSUME NEW r \in late, LateReport(r) PROVE Stored
  BY <1>3, <1>d, CompleteStored DEF LateReport, ProcType
<1>4. ASSUME NEW w, NEW t \in Task, ClaimRow(w, t), UNCHANGED blobs PROVE Stored
  BY <1>4, <1>d DEF ClaimRow, Claimable, Stored, Finished
<1>5. CASE Reap
  <2>1. \A t \in Task : \/ state'[t] = state[t]
                        \/ state[t] = "running" /\ state'[t] \in {"ready", "failed"}
    <3>1. \A t \in Task : NextTry(t) \in {"ready", "failed"}
      BY DEF NextTry
    <3> QED
      BY <1>5, <3>1 DEF Reap, Requeue, Overdue
  <2> QED
    BY <1>5, <1>d, <2>1 DEF Reap, Requeue, Stored, Finished
<1>6. ASSUME NEW s \in Slot, SlotStep(s) PROVE Stored
  BY <1>6, <1>2, <1>4, <1>s DEF SlotStep, ClaimTask, Execute, dbVars, rowVars
<1>7. ASSUME NEW s \in Slot,
             \/ ExecuteFails(s) \/ ExecuteDies(s) \/ ReportAgain(s) \/ ReportGivenUp(s)
             \/ \E t \in Task : ClaimLost(s, t)
      PROVE  Stored
  BY <1>7, <1>4, <1>s DEF ExecuteFails, ExecuteDies, ReportAgain, ReportGivenUp, ClaimLost,
     dbVars, rowVars
<1>8. ASSUME NEW w \in Worker, Heartbeat(w) \/ WorkerCrash(w) \/ WorkerRestart(w)
      PROVE  Stored
  BY <1>8, <1>s DEF Heartbeat, WorkerCrash, WorkerRestart, dbVars, rowVars
<1>9. ASSUME NEW t \in Task, LeaseOfDead(t) \/ LeaseOfSlow(t) \/ Cooled(t)
      PROVE  Stored
  BY <1>9, <1>s DEF LeaseOfDead, LeaseOfSlow, ExpireLease, Cooled
<1>10. ASSUME NEW b \in Build, ReapVerdict(b) PROVE Stored
  BY <1>10, <1>s DEF ReapVerdict, rowVars
<1>11. CASE CoordinatorRestart \/ UNCHANGED vars
  BY <1>11, <1>s DEF CoordinatorRestart, vars, dbVars, rowVars
<1>12. ASSUME NEW b \in Build, HangUp(b) PROVE Stored
  BY <1>12, <1>s DEF HangUp, dbVars, rowVars
<1> QED
  BY <1>12, <1>1, <1>3, <1>5, <1>6, <1>7, <1>8, <1>9, <1>10, <1>11 DEF Next, Idle

\* The store keeps its promises from step to step.
LEMMA StepStoreInv == StoreInv /\ IInv /\ [Next]_vars => StoreInv'
<1> SUFFICES ASSUME StoreInv, IInv, [Next]_vars PROVE StoreInv'
  OBVIOUS
<1>1. Stored
  BY StepStored
<1>2. \A t \in Task : Key[t] \in cache' => Output[t] \in blobs'
  BY <1>1 DEF Stored, StoreInv
<1>3. \A t \in Task : state'[t] \in Finished => Output[t] \in blobs'
  BY <1>1, <1>2 DEF Stored, StoreInv
<1>4. \A t \in Compile : state'[t] \in {"ready", "running"} => Input[t] \in blobs'
  BY <1>1 DEF Stored, StoreInv
<1> QED
  BY <1>2, <1>3, <1>4 DEF StoreInv

\* Steps of others do not undo what a client relies on between two calls.
LEMMA OthersServed ==
  ASSUME NEW b \in Build, Served(b), Forward, Stored,
         stage'[b] = stage[b], need'[b] = need[b]
  PROVE  Served(b)'
<1>1. cache \subseteq cache' /\ blobs \subseteq blobs'
  BY DEF Forward, Stored
<1>2. bstate[b] # "none" => bstate'[b] # "none"
  BY DEF Forward, MaybeFinish
<1>3. bstate[b] = "done" => bstate'[b] = "done"
  BY DEF Forward
<1> QED
  BY <1>1, <1>2, <1>3 DEF Served

\* Each of dcc's own calls finds what the earlier ones left.
LEMMA ClientServedStep ==
  ASSUME IInv, VerdictSound, StoreInv, NEW b \in Build, Served(b), Client(b)
  PROVE  Served(b)'
<1>t. /\ stage \in [Build -> {"start", "checked", "uploaded", "polling", "fetching",
                              "ok", "failed", "error", "gone"}]
      /\ need \in [Build -> SUBSET Compile]
      /\ bstate \in [Build -> {"none", "running", "done", "failed"}]
  BY DEF IInv, TypeOK
<1>1. CASE CheckCache(b)
  <2>1. stage'[b] = "checked" /\ cache' = cache
        /\ need'[b] = {t \in Rows(b) \cap Compile : Key[t] \notin cache}
    BY <1>1, <1>t DEF CheckCache, dbVars
  <2> QED
    BY <2>1 DEF Served
<1>2. CASE Upload(b)
  <2>1. stage[b] = "checked" /\ stage'[b] = "uploaded" /\ cache' = cache
        /\ \A t \in need[b] : Input[t] \in blobs'
    BY <1>2, <1>t DEF Upload, UploadSet, dbVars
  <2> QED
    BY <2>1 DEF Served
<1>3. CASE SubmitBuild(b)
  <2>1. ~Rejected(b)
    BY <1>3 DEF SubmitBuild, Served, Rejected
  <2>2. stage'[b] = "polling" /\ InsertRows(b)
    BY <1>3, <1>t, <2>1 DEF SubmitBuild
  <2>3. bstate'[b] = MaybeFinish(b, "running", state')
    BY <1>t, <2>2 DEF InsertRows
  <2>4. bstate'[b] # "none"
    BY <2>3, MaybeFinishType
  <2> QED
    BY <2>2, <2>4 DEF Served
<1>4. CASE GetBuild(b)
  <2>1. stage[b] = "polling" /\ bstate' = bstate /\ bstate[b] # "none"
        /\ stage' = [stage EXCEPT ![b] = CASE bstate[b] = "running" -> "polling"
                                           [] bstate[b] = "failed" -> "failed"
                                           [] OTHER -> "fetching"]
    BY <1>4 DEF GetBuild, dbVars, Served
  <2>2. CASE bstate[b] = "running"
    <3>1. stage'[b] = "polling"
      BY <1>t, <2>1, <2>2
    <3> QED
      BY <2>1, <3>1 DEF Served
  <2>3. CASE bstate[b] = "failed"
    <3>1. stage'[b] = "failed"
      BY <1>t, <2>1, <2>3
    <3> QED
      BY <3>1 DEF Served
  <2>4. CASE bstate[b] = "done"
    <3>1. stage'[b] = "fetching"
      BY <1>t, <2>1, <2>4
    <3> QED
      BY <2>1, <2>4, <3>1 DEF Served
  <2> QED
    BY <1>t, <2>1, <2>2, <2>3, <2>4
<1>5. CASE FetchOutputs(b)
  <2>1. \A t \in Rows(b) : state[t] \in Finished
    BY <1>5 DEF FetchOutputs, Served, VerdictSound
  <2>2. \A t \in Rows(b) : Output[t] \in blobs
    BY <2>1 DEF StoreInv, Rows
  <2>3. stage'[b] = "ok"
    BY <1>5, <1>t, <2>1, <2>2 DEF FetchOutputs
  <2> QED
    BY <2>3 DEF Served
<1> QED
  BY <1>1, <1>2, <1>3, <1>4, <1>5 DEF Client

\* A step moves at most one client on, and only by that client's own call.
LEMMA OneClient ==
  ASSUME IInv, [Next]_vars
  PROVE  \/ \E b \in Build : /\ Client(b) \/ HangUp(b)
                             /\ \A c \in Build \ {b} : stage'[c] = stage[c] /\ need'[c] = need[c]
         \/ UNCHANGED clientVars
<1>1. ASSUME NEW b \in Build, Client(b) \/ HangUp(b), NEW c \in Build \ {b}
      PROVE  stage'[c] = stage[c] /\ need'[c] = need[c]
  BY <1>1 DEF Client, CheckCache, Upload, SubmitBuild, GetBuild, FetchOutputs, HangUp, IInv, TypeOK
<1>2. CASE \E b \in Build : Client(b) \/ HangUp(b)
  BY <1>1, <1>2
<1>3. CASE ~ \E b \in Build : Client(b) \/ HangUp(b)
  BY <1>3 DEF Next, SlotStep, ClaimTask, Execute, Report, ExecuteFails, ExecuteDies, ReportAgain,
     ReportGivenUp, ClaimLost, LateReport, Heartbeat, WorkerCrash, WorkerRestart, LeaseOfDead,
     LeaseOfSlow, ExpireLease, Cooled, Reap, ReapVerdict, CoordinatorRestart, Idle, vars
<1> QED
  BY <1>2, <1>3

\* The calls of any number of clients and the steps of the workers interleave
\* without harm.
LEMMA StepServed ==
  ServedInv /\ IInv /\ VerdictSound /\ StoreInv /\ [Next]_vars => ServedInv'
<1> SUFFICES ASSUME ServedInv, IInv, VerdictSound, StoreInv, [Next]_vars, NEW b \in Build
             PROVE  Served(b)'
  BY DEF ServedInv
<1>1. Served(b) /\ Forward /\ Stored
  BY StepForward, StepStored DEF ServedInv
<1>2. CASE Client(b)
  BY <1>1, <1>2, ClientServedStep
<1>4. CASE HangUp(b)
  <2>1. stage'[b] = "gone"
    BY <1>4 DEF HangUp, IInv, TypeOK
  <2> QED
    BY <2>1 DEF Served
<1>3. CASE ~Client(b) /\ ~HangUp(b)
  <2>1. stage'[b] = stage[b] /\ need'[b] = need[b]
    BY <1>3, OneClient DEF clientVars
  <2> QED
    BY <1>1, <2>1, OthersServed
<1> QED
  BY <1>2, <1>3, <1>4

\* The store and the clients start out empty.
LEMMA InitServed == Init => StoreInv /\ ServedInv
BY GraphAssumption DEF Init, StoreInv, ServedInv, Served, Finished

\* The two invariants about the store hold of every behaviour.
THEOREM StoreInvariance == Spec => [](StoreInv /\ ServedInv)
BY InitServed, StepStoreInv, StepServed, Invariance, VerdictCorrect, PTL DEF Spec

\* Whoever claims a task finds everything it fetches in the store, for every
\* graph and however cache checks, uploads and completions interleave.
THEOREM InputsCorrect == Spec => []InputsReady
<1>1. IInv /\ StoreInv => InputsReady
  <2> SUFFICES ASSUME IInv, StoreInv, NEW t \in Task, state[t] \in {"ready", "running"}
               PROVE  Inputs(t) \subseteq blobs
    BY DEF InputsReady
  <2>1. Unfinished(t) = {}
    BY DEF IInv, PendingExact
  <2>2. \A d \in Deps[t] : Output[d] \in blobs
    BY <2>1, GraphAssumption DEF Unfinished, StoreInv
  <2> QED
    BY <2>2 DEF StoreInv, Inputs
<1> QED
  BY <1>1, Invariance, StoreInvariance, PTL

\* dcc never meets an error that is not the compiler's: submit() has every input
\* and the download every output, with any number of other builds in between.
THEOREM ClientCorrect == Spec => []ClientServed
<1>1. ServedInv => ClientServed
  BY DEF ServedInv, Served, ClientServed
<1> QED
  BY <1>1, StoreInvariance, PTL

-----------------------------------------------------------------------------
(* Attempts *)

\* A slot holds an attempt that has been handed out.
HeldInv == \A s \in Slot : job[s] # NoJob => job[s].attempt <= attempts[job[s].task]

\* What a step may do to the slots: a new job is the attempt the step hands out,
\* and attempts are counted up only.
Handed ==
  /\ \A t \in Task : attempts'[t] >= attempts[t]
  /\ \/ \A s \in Slot : job'[s] # NoJob =>
          /\ job[s] # NoJob
          /\ job'[s].task = job[s].task
          /\ job'[s].attempt = job[s].attempt
     \/ \E s \in Slot, t \in Task :
          /\ attempts'[t] = attempts[t] + 1
          /\ job' = [job EXCEPT ![s] =
                       [task |-> t, attempt |-> attempts[t] + 1, step |-> "execute"]]

\* Only a claim hands out an attempt; reports, crashes and leases only drop jobs.
LEMMA StepHanded == IInv /\ [Next]_vars => Handed
<1> SUFFICES ASSUME IInv, [Next]_vars PROVE Handed
  OBVIOUS
<1>t. attempts \in [Task -> 0 .. MaxAttempts] /\ job \in [Slot -> Job \cup {NoJob}]
  BY DEF IInv, TypeOK
<1>a. \A t \in Task : attempts[t] \in Int
  BY <1>t, WorkerAssumption
<1>j. \A s \in Slot : job[s] # NoJob => job[s] \in Job
  BY <1>t
<1>s. ASSUME attempts' = attempts,
             \A s \in Slot : job'[s] # NoJob =>
               /\ job[s] # NoJob
               /\ job'[s].task = job[s].task
               /\ job'[s].attempt = job[s].attempt
      PROVE  Handed
  BY <1>a, <1>s DEF Handed
<1>e. ASSUME attempts' = attempts, job' = job PROVE Handed
  BY <1>e, <1>s
<1>u. ASSUME attempts' = attempts, NEW s \in Slot, job' = [job EXCEPT ![s] = NoJob]
      PROVE  Handed
  BY <1>t, <1>u, <1>s
<1>v. ASSUME attempts' = attempts, NEW s \in Slot, job[s] # NoJob, NEW v, SetStep(s, v)
      PROVE  Handed
  BY <1>t, <1>j, <1>v, <1>s DEF SetStep, Job
<1>c. ASSUME NEW r, CompleteTask(r) PROVE attempts' = attempts
  BY <1>c DEF CompleteTask, CompleteOk, CompleteRetry, CompleteFail, Duplicate, Requeue,
              dbVars, rowVars
<1>1. ASSUME NEW b \in Build, Client(b) \/ HangUp(b) \/ ReapVerdict(b) PROVE Handed
  BY <1>1, <1>e DEF Client, HangUp, CheckCache, Upload, SubmitBuild, InsertRows, GetBuild,
     FetchOutputs, ReapVerdict, dbVars, rowVars, workerVars
<1>2. ASSUME NEW s \in Slot, NEW t \in Task, ClaimTask(s, t) PROVE Handed
  <2>1. attempts' = [attempts EXCEPT ![t] = attempts[t] + 1]
        /\ job' = [job EXCEPT ![s] =
                     [task |-> t, attempt |-> attempts[t] + 1, step |-> "execute"]]
    BY <1>2 DEF ClaimTask, ClaimRow, NextAttempt
  <2>2. attempts'[t] = attempts[t] + 1 /\ \A u \in Task : attempts'[u] >= attempts[u]
    BY <1>t, <1>a, <2>1
  <2> QED
    BY <2>1, <2>2 DEF Handed
<1>3. ASSUME NEW s \in Slot, NEW t \in Task, ClaimLost(s, t) PROVE Handed
  <2>1. attempts' = [attempts EXCEPT ![t] = attempts[t] + 1] /\ job' = job
    BY <1>3 DEF ClaimLost, ClaimRow, NextAttempt, workerVars
  <2>2. \A u \in Task : attempts'[u] >= attempts[u]
    BY <1>t, <1>a, <2>1
  <2> QED
    BY <2>1, <2>2 DEF Handed
<1>4. ASSUME NEW s \in Slot, Execute(s) \/ ExecuteFails(s) \/ ExecuteDies(s) PROVE Handed
  BY <1>4, <1>v DEF Execute, ExecuteFails, ExecuteDies, dbVars, rowVars
<1>5. ASSUME NEW s \in Slot, Report(s) \/ ReportGivenUp(s) PROVE Handed
  BY <1>5, <1>c, <1>u DEF Report, ReportGivenUp, dbVars, rowVars
<1>6. ASSUME NEW s \in Slot, ReportAgain(s) PROVE Handed
  BY <1>6, <1>e DEF ReportAgain, dbVars, rowVars
<1>7. ASSUME NEW r \in late, LateReport(r) PROVE Handed
  BY <1>7, <1>c, <1>e DEF LateReport
<1>8. ASSUME NEW w \in Worker, WorkerCrash(w) PROVE Handed
  BY <1>t, <1>8, <1>s DEF WorkerCrash, dbVars, rowVars
<1>9. ASSUME NEW w \in Worker, Heartbeat(w) \/ WorkerRestart(w) PROVE Handed
  BY <1>9, <1>e DEF Heartbeat, WorkerRestart, dbVars, rowVars, workerVars
<1>10. ASSUME NEW t \in Task, LeaseOfDead(t) \/ LeaseOfSlow(t) \/ Cooled(t) PROVE Handed
  BY <1>10, <1>e DEF LeaseOfDead, LeaseOfSlow, ExpireLease, Cooled, workerVars
<1>11. CASE Reap \/ CoordinatorRestart \/ UNCHANGED vars
  BY <1>11, <1>e DEF Reap, Requeue, CoordinatorRestart, vars, dbVars, rowVars, workerVars
<1> QED
  BY <1>1, <1>2, <1>3, <1>4, <1>5, <1>6, <1>7, <1>8, <1>9, <1>10, <1>11
     DEF Next, SlotStep, Idle

\* A new attempt is larger than every one held, so no two slots share one.
LEMMA StepUnique ==
  HeldInv /\ AttemptUnique /\ IInv /\ [Next]_vars => HeldInv' /\ AttemptUnique'
<1> SUFFICES ASSUME HeldInv, AttemptUnique, IInv, [Next]_vars PROVE HeldInv' /\ AttemptUnique'
  OBVIOUS
<1>t. /\ attempts \in [Task -> 0 .. MaxAttempts] /\ attempts' \in [Task -> 0 .. MaxAttempts]
      /\ job \in [Slot -> Job \cup {NoJob}] /\ job' \in [Slot -> Job \cup {NoJob}]
  BY StepInv DEF IInv, TypeOK
<1>a. \A t \in Task : attempts[t] \in Int /\ attempts'[t] \in Int
  BY <1>t, WorkerAssumption
<1>j. \A s \in Slot : job[s] # NoJob => job[s].task \in Task /\ job[s].attempt \in Int
  BY <1>t, WorkerAssumption DEF Job, Attempt
<1>h. Handed
  BY StepHanded
<1>m. \A t \in Task : attempts'[t] >= attempts[t]
  BY <1>h DEF Handed
<1>1. CASE \A s \in Slot : job'[s] # NoJob =>
             /\ job[s] # NoJob
             /\ job'[s].task = job[s].task
             /\ job'[s].attempt = job[s].attempt
  <2>1. HeldInv'
    <3> SUFFICES ASSUME NEW s \in Slot, job'[s] # NoJob
                 PROVE  job'[s].attempt <= attempts'[job'[s].task]
      BY DEF HeldInv
    <3> QED
      BY <1>1, <1>a, <1>j, <1>m DEF HeldInv
  <2>2. AttemptUnique'
    BY <1>1 DEF AttemptUnique
  <2> QED
    BY <2>1, <2>2
<1>2. ASSUME NEW s \in Slot, NEW t \in Task,
             attempts'[t] = attempts[t] + 1,
             job' = [job EXCEPT ![s] =
                       [task |-> t, attempt |-> attempts[t] + 1, step |-> "execute"]]
      PROVE  HeldInv' /\ AttemptUnique'
  <2>1. job'[s].task = t /\ job'[s].attempt = attempts[t] + 1
    BY <1>t, <1>2
  <2>2. \A u \in Slot \ {s} : job'[u] = job[u]
    BY <1>t, <1>2
  <2>3. HeldInv'
    <3> SUFFICES ASSUME NEW u \in Slot, job'[u] # NoJob
                 PROVE  job'[u].attempt <= attempts'[job'[u].task]
      BY DEF HeldInv
    <3>1. CASE u = s
      BY <1>2, <1>a, <2>1, <3>1
    <3>2. CASE u # s
      BY <1>a, <1>j, <1>m, <2>2, <3>2 DEF HeldInv
    <3> QED
      BY <3>1, <3>2
  <2>4. \A u \in Slot \ {s} : job'[u] # NoJob /\ job'[u].task = t =>
          job'[u].attempt # attempts[t] + 1
    BY <1>a, <1>j, <2>2 DEF HeldInv
  <2>5. AttemptUnique'
    <3> SUFFICES ASSUME NEW x \in Slot, NEW y \in Slot, job'[x] # NoJob, job'[y] # NoJob,
                        job'[x].task = job'[y].task, job'[x].attempt = job'[y].attempt
                 PROVE  x = y
      BY DEF AttemptUnique
    <3>1. CASE x # s /\ y # s
      BY <2>2, <3>1 DEF AttemptUnique
    <3>2. CASE x = s \/ y = s
      BY <2>1, <2>4, <3>2
    <3> QED
      BY <3>1, <3>2
  <2> QED
    BY <2>3, <2>5
<1> QED
  BY <1>1, <1>2, <1>h DEF Handed

\* An attempt of a task is held by one slot at most, for any number of workers,
\* expired leases, lost claims and restarts.
THEOREM AttemptCorrect == Spec => []AttemptUnique
<1>1. Init => HeldInv /\ AttemptUnique
  BY DEF Init, HeldInv, AttemptUnique
<1> QED
  BY <1>1, StepUnique, Invariance, PTL DEF Spec

\* The step taken by a report ends an attempt for a reason the result states.
LEMMA ReportRevokes ==
  ASSUME IInv, NEW r \in Result, CompleteTask(r), NEW t \in Task,
         state[t] = "running", state'[t] \in {"ready", "failed"}
  PROVE  r.task = t /\ (r.attempt = attempts[t] \/ r.verdict = "fail")
<1>d. DbInv /\ state \in [Task -> RowState]
  BY Split DEF IInv, TypeOK
<1>1. CASE CompleteOk(r)
  <2>1. PICK hits \in SUBSET Rows(BuildOf[r.task]) :
          state' = [u \in Task |->
               IF u = r.task THEN "done" ELSE IF u \in hits THEN "cached"
               ELSE IF u \in Released({r.task} \cup hits) THEN "ready" ELSE state[u]]
    BY <1>1 DEF CompleteOk
  <2>2. t \notin Released({r.task} \cup hits)
    BY <1>d, ReleasedWaits
  <2> QED
    BY <2>1, <2>2
<1>2. CASE CompleteRetry(r)
  BY <1>2 DEF CompleteRetry, Current, Requeue
<1>3. CASE EffectiveVerdict(r) = "fail" /\ CompleteFail(r)
  BY <1>3, <1>d DEF CompleteFail, EffectiveVerdict
<1>4. CASE Duplicate(r)
  BY <1>4 DEF Duplicate, dbVars, rowVars
<1> QED
  BY <1>1, <1>2, <1>3, <1>4 DEF CompleteTask

\* Nobody but the reaper and the row's own reports ends a running attempt.
THEOREM RevokedCorrect == Spec => AttemptRevoked
<1>1. ASSUME IInv, [Next]_vars, NEW t \in Task,
             state[t] = "running", state'[t] \in {"ready", "failed"}
      PROVE  \/ expired[t]
             \/ \E r \in Reported :
                  r.task = t /\ (r.attempt = attempts[t] \/ r.verdict = "fail")
  <2>d. DbInv /\ ProcType /\ state \in [Task -> RowState]
    BY <1>1, Split DEF IInv, TypeOK
  <2>s. state' # state
    BY <1>1
  <2>1. ASSUME NEW b \in Build, Client(b) PROVE FALSE
    <3>1. SubmitBuild(b) /\ ~Rejected(b)
      BY <2>1, <2>s DEF Client, CheckCache, Upload, SubmitBuild, GetBuild, FetchOutputs, dbVars, rowVars
    <3>2. InsertRows(b) /\ bstate[b] = "none"
      BY <1>1, <3>1 DEF SubmitBuild, IInv, StageFits
    <3>3. t \notin Rows(b)
      BY <1>1, <3>2 DEF Rows, IInv, RowsInserted
    <3> QED
      BY <1>1, <3>2, <3>3 DEF InsertRows
  <2>2. ASSUME NEW s \in Slot, Report(s)
        PROVE  \E r \in Reported :
                 r.task = t /\ (r.attempt = attempts[t] \/ r.verdict = "fail")
    <3>1. ResultOf(s) \in Result /\ CompleteTask(ResultOf(s)) /\ ResultOf(s) \in Reported
      BY <2>d, <2>2, ResultType DEF Report, Reported
    <3> QED
      BY <1>1, <3>1, ReportRevokes
  <2>3. ASSUME NEW r \in late, LateReport(r)
        PROVE  r \in Reported /\ r.task = t /\ (r.attempt = attempts[t] \/ r.verdict = "fail")
    BY <1>1, <2>d, <2>3, ReportRevokes DEF LateReport, ProcType, Reported
  <2>4. ASSUME NEW w, NEW u \in Task, ClaimRow(w, u) PROVE FALSE
    BY <1>1, <2>d, <2>4 DEF ClaimRow
  <2>5. CASE Reap
    BY <1>1, <2>5 DEF Reap, Requeue, Overdue
  <2>6. ASSUME NEW s \in Slot,
               \/ Execute(s) \/ ExecuteFails(s) \/ ExecuteDies(s)
               \/ ReportAgain(s) \/ ReportGivenUp(s)
        PROVE  FALSE
    BY <2>6, <2>s DEF Execute, ExecuteFails, ExecuteDies, ReportAgain, ReportGivenUp, dbVars, rowVars
  <2>7. ASSUME NEW s \in Slot, NEW u \in Task, ClaimTask(s, u) \/ ClaimLost(s, u) PROVE FALSE
    BY <2>4, <2>7 DEF ClaimTask, ClaimLost
  <2>8. ASSUME NEW w \in Worker, Heartbeat(w) \/ WorkerCrash(w) \/ WorkerRestart(w)
        PROVE  FALSE
    BY <2>8, <2>s DEF Heartbeat, WorkerCrash, WorkerRestart, dbVars, rowVars
  <2>9. ASSUME NEW u \in Task, LeaseOfDead(u) \/ LeaseOfSlow(u) \/ Cooled(u) PROVE FALSE
    BY <2>9, <2>s DEF LeaseOfDead, LeaseOfSlow, ExpireLease, Cooled
  <2>10. ~(\E b \in Build : ReapVerdict(b) \/ HangUp(b)) /\ ~CoordinatorRestart /\ ~UNCHANGED vars
    BY <2>s DEF ReapVerdict, HangUp, CoordinatorRestart, vars, dbVars, rowVars
  <2> QED
    <3>1. (\E s \in Slot : Report(s)) \/ (\E r \in late : LateReport(r)) \/ Reap
      BY <1>1, <2>1, <2>6, <2>7, <2>8, <2>9, <2>10 DEF Next, SlotStep, Idle
    <3> QED
      BY <3>1, <2>2, <2>3, <2>5
<1>2. IInv /\ [Next]_vars =>
        [\A t \in Task : state[t] = "running" /\ state'[t] \in {"ready", "failed"} =>
           \/ expired[t]
           \/ \E r \in Reported :
                r.task = t /\ (r.attempt = attempts[t] \/ r.verdict = "fail")]_vars
  BY <1>1
<1> QED
  BY <1>2, Invariance, PTL DEF Spec, AttemptRevoked
=============================================================================
