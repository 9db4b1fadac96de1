------------------------------ MODULE LongPoll ------------------------------
(***************************************************************************)
(* claim_task's long poll: a handler reads ready_gen_, looks for a row, and*)
(* if there is none waits until the generation has changed or 250 ms are   *)
(* over.  Whoever makes rows ready (submit_build, CompleteTask, reap_loop) *)
(* commits first and calls wake_workers afterwards; a row whose three      *)
(* seconds of cooling end is announced by nobody.                          *)
(*                                                                         *)
(* A handler first finds the worker's partition, in worker_part_ or in the *)
(* workers table, and prefers rows of that partition to others.            *)
(*                                                                         *)
(* A Claimer is a worker with one slot, together with the handlers that    *)
(* serve it; the Submitter is the handler of one SubmitBuild.              *)
(***************************************************************************)
EXTENDS Integers, FiniteSetsExt

CONSTANTS
  Claimer, Submitter,
  Mortal,        \* the claimers whose worker may go away
  Row, Wish,     \* what partition() would choose of many partitions
  None,
  MaxRequeues,   \* bound on transient failures
  MaxRestarts    \* bound on restarts of the coordinator

Thread == Claimer \cup {Submitter}

ASSUME PollAssumption ==
  /\ IsFiniteSet(Claimer) /\ Submitter \notin Claimer
  /\ MaxRequeues \in Nat /\ MaxRestarts \in Nat

VARIABLES
  rows,       \* waiting, ready, running, done
  failedBy,   \* last_failed_by
  cooling,    \* ready_at is less than three seconds old
  silent,     \* rows made ready by a reaper that failed before its wake_workers
  behind,     \* the handlers whose seen is not ready_gen_ any more
  pc,         \* where each thread is
  mine,       \* the row each claimer runs
  rowPart,    \* part of each row
  workers,    \* part of each worker in its table, -1 before it registers
  workerPart, \* worker_part_, -2 for a worker it does not have
  counted,    \* count(*) as each register_worker sees it
  requeues,   \* transient failures so far
  restarts    \* restarts of the coordinator so far

vars == <<rows, failedBy, cooling, silent, behind, pc, mine, rowPart, workers, workerPart,
          counted, requeues, restarts>>
table == <<rows, failedBy, cooling, silent>>
parts == <<rowPart, workers, workerPart, counted>>

Init ==
  /\ rows = [r \in Row |-> "waiting"]
  /\ failedBy = [r \in Row |-> None]
  /\ cooling = [r \in Row |-> FALSE]
  /\ silent = {}
  /\ behind = {}
  /\ pc = [t \in Thread |-> IF t = Submitter THEN "submit" ELSE "register"]
  /\ mine = [c \in Claimer |-> None]
  /\ rowPart = [r \in Row |-> 0]
  /\ workers = [c \in Claimer |-> -1]
  /\ workerPart = [c \in Claimer |-> -2]
  /\ counted = [c \in Claimer |-> 0]
  /\ requeues = 0 /\ restarts = 0

Goto(t, l) == pc' = [pc EXCEPT ![t] = l]

-----------------------------------------------------------------------------
(* register_worker and partition_of *)

\* The INSERT counts the workers that are committed when it begins ...
CountWorkers(c) ==
  /\ pc[c] = "register"
  /\ counted' = [counted EXCEPT ![c] = Cardinality({d \in Claimer : workers[d] >= 0})]
  /\ Goto(c, "insert")
  /\ UNCHANGED <<table, behind, mine, rowPart, workers, workerPart, requeues, restarts>>

\* ... and a worker that is there already keeps its partition.
InsertWorker(c) ==
  /\ pc[c] = "insert"
  /\ workers' = [workers EXCEPT ![c] = IF @ >= 0 THEN @ ELSE counted[c]]
  /\ workerPart' = [workerPart EXCEPT ![c] = workers'[c]]
  /\ counted' = [counted EXCEPT ![c] = 0]
  /\ Goto(c, "part")
  /\ UNCHANGED <<table, behind, mine, rowPart, requeues, restarts>>

\* Mutation: a worker that is not in the map has no partition.
KnownPartForgotten(c) == IF workerPart[c] # -2 THEN workerPart[c] ELSE -1

\* The map, or the table when the coordinator has restarted.
KnownPart(c) == IF workerPart[c] # -2 THEN workerPart[c] ELSE workers[c]

PartitionOf(c) ==
  /\ pc[c] = "part"
  /\ workerPart' = [workerPart EXCEPT ![c] = KnownPart(c)]
  /\ Goto(c, "read")
  /\ UNCHANGED <<table, behind, mine, rowPart, workers, counted, requeues, restarts>>

\* live_partitions, of the workers that were seen lately; any of them may have been
\* out of reach for 30 seconds.
LivePartitions == {Max({0} \cup {workers[c] : c \in Seen}) + 1 : Seen \in SUBSET Claimer}

-----------------------------------------------------------------------------
(* claim_task *)

ReadGen(c) ==
  /\ pc[c] = "read"
  /\ behind' = behind \ {c}
  /\ Goto(c, "own")
  /\ UNCHANGED <<table, mine, parts, requeues, restarts>>

Claimable(c, r) == rows[r] = "ready" /\ (failedBy[r] # c \/ ~cooling[r])

Claim(c, r) ==
  /\ rows' = [rows EXCEPT ![r] = "running"]
  /\ silent' = silent \ {r}
  /\ mine' = [mine EXCEPT ![c] = r]
  /\ Goto(c, "execute")
  /\ UNCHANGED <<failedBy, cooling>>

\* claim_own
ClaimOwn(c) ==
  /\ pc[c] = "own"
  /\ LET Own == {r \in Row : Claimable(c, r) /\ rowPart[r] = workerPart[c]} IN
     \/ \E r \in Own : Claim(c, r)
     \/ Own = {} /\ Goto(c, "steal") /\ UNCHANGED <<table, mine>>
  /\ UNCHANGED <<behind, parts, requeues, restarts>>

\* claim_steal, a statement of its own
ClaimSteal(c) ==
  /\ pc[c] = "steal"
  /\ \/ \E r \in Row : Claimable(c, r) /\ Claim(c, r)
     \/ /\ \A r \in Row : ~Claimable(c, r)
        /\ Goto(c, "wait")
        /\ UNCHANGED <<table, mine>>
  /\ UNCHANGED <<behind, parts, requeues, restarts>>

\* Mutation: wait_for without a predicate.
ChangedNever(c) == FALSE

\* ready_gen_ != seen
Changed(c) == c \in behind

\* wait_for looks at the predicate under the lock, before it sleeps and whenever
\* it is woken.
Wait(c) ==
  /\ pc[c] = "wait"
  /\ Goto(c, IF Changed(c) THEN "read" ELSE "asleep")
  /\ UNCHANGED <<table, behind, mine, parts, requeues, restarts>>

\* Mutation: a wait that times out is taken up again.
AfterTimeoutWait == {"wait"}

\* The loop, or the worker's next call.
AfterTimeout == {"read", "part"}

\* 250 ms are over, or wait_ms and the worker calls again.
Timeout(c) ==
  /\ pc[c] = "asleep"
  /\ \E l \in AfterTimeout : Goto(c, l)
  /\ UNCHANGED <<table, behind, mine, parts, requeues, restarts>>

\* The worker is gone: its handler returns when it looks, or finds nobody.
Leave(c) ==
  /\ c \in Mortal
  /\ pc[c] \in {"part", "asleep"}
  /\ Goto(c, "off")
  /\ UNCHANGED <<table, behind, mine, parts, requeues, restarts>>

-----------------------------------------------------------------------------
(* Making rows ready, and wake_workers *)

\* A transaction commits that makes the rows of R ready.
Release(R) == rows' = [r \in Row |-> IF r \in R THEN "ready" ELSE rows[r]]

Waiting == {r \in Row : rows[r] = "waiting"}

\* Some rows wait for others of the build.
SubmitBuild ==
  /\ pc[Submitter] = "submit"
  /\ \E R \in SUBSET Waiting \ {{}} : Release(R)
  /\ \E n \in LivePartitions : rowPart' = [r \in Row |-> Wish[r] % n]
  /\ Goto(Submitter, "bump")
  /\ UNCHANGED <<failedBy, cooling, silent, behind, mine, workers, workerPart, counted,
                 requeues, restarts>>

\* The row is done; the last running row releases what is left.
CompleteOk(c) ==
  /\ pc[c] = "execute"
  /\ \E R \in SUBSET Waiting :
       /\ (\A r \in Row \ {mine[c]} : rows[r] \in {"waiting", "done"}) => R = Waiting
       /\ rows' = [r \in Row |-> IF r = mine[c] THEN "done"
                                 ELSE IF r \in R THEN "ready" ELSE rows[r]]
  /\ mine' = [mine EXCEPT ![c] = None]
  /\ Goto(c, "bump")
  /\ UNCHANGED <<failedBy, cooling, silent, behind, parts, requeues, restarts>>

Requeue(c) ==
  /\ pc[c] = "execute"
  /\ requeues < MaxRequeues
  /\ requeues' = requeues + 1
  /\ Release({mine[c]})
  /\ failedBy' = [failedBy EXCEPT ![mine[c]] = c]
  /\ cooling' = [cooling EXCEPT ![mine[c]] = TRUE]
  /\ mine' = [mine EXCEPT ![c] = None]
  /\ UNCHANGED <<behind, parts, restarts>>

\* A transient failure, or the reaper in the worker's place.
CompleteRetry(c) ==
  /\ Requeue(c)
  /\ Goto(c, "bump")
  /\ UNCHANGED silent

\* The reaper whose maybe_finish, for another row, throws: it does not get as far as
\* wake_workers.
ReapUnannounced(c) ==
  /\ Requeue(c)
  /\ Goto(c, "part")
  /\ silent' = silent \cup {mine[c]}

Cooled(r) ==
  /\ cooling[r]
  /\ cooling' = [cooling EXCEPT ![r] = FALSE]
  /\ UNCHANGED <<rows, failedBy, silent, behind, pc, mine, parts, requeues, restarts>>

\* ready_gen_++ ...
Bump(t) ==
  /\ pc[t] = "bump"
  /\ behind' = Claimer
  /\ silent' = {}
  /\ Goto(t, "notify")
  /\ UNCHANGED <<rows, failedBy, cooling, mine, parts, requeues, restarts>>

\* ... and notify_all, outside the lock.
Notify(t) ==
  /\ pc[t] = "notify"
  /\ pc' = [u \in Thread |->
       IF u = t THEN IF t = Submitter THEN "off" ELSE "part"
       ELSE IF pc[u] = "asleep" THEN "wait" ELSE pc[u]]
  /\ UNCHANGED <<table, behind, mine, parts, requeues, restarts>>

\* The worker is started again, under the same id.
Return(c) ==
  /\ c \in Mortal
  /\ pc[c] = "off"
  /\ Goto(c, "register")
  /\ UNCHANGED <<table, behind, mine, parts, requeues, restarts>>

\* The coordinator restarts: handlers are gone and with them what they were about
\* to do; workers call again, and those that run a task go on with it.
Restart ==
  /\ restarts < MaxRestarts
  /\ restarts' = restarts + 1
  /\ behind' = {}
  /\ workerPart' = [c \in Claimer |-> -2]
  /\ counted' = [c \in Claimer |-> 0]
  /\ pc' = [t \in Thread |->
       CASE pc[t] \in {"submit", "execute", "off"} -> pc[t]
         [] pc[t] \in {"register", "insert"} -> "register"
         [] OTHER -> IF t = Submitter THEN "off" ELSE "part"]
  /\ UNCHANGED <<table, mine, rowPart, workers, requeues>>

-----------------------------------------------------------------------------
Step(t) ==
  \/ t \in Claimer /\
       \/ CountWorkers(t) \/ InsertWorker(t) \/ ReadGen(t) \/ PartitionOf(t)
       \/ ClaimOwn(t) \/ ClaimSteal(t) \/ Wait(t) \/ Timeout(t) \/ CompleteOk(t)
  \/ t = Submitter /\ SubmitBuild
  \/ Bump(t) \/ Notify(t)

Next ==
  \/ \E t \in Thread : Step(t)
  \/ \E c \in Claimer : CompleteRetry(c) \/ ReapUnannounced(c) \/ Leave(c) \/ Return(c)
  \/ Restart
  \/ \E r \in Row : Cooled(r)

Fairness ==
  /\ \A t \in Thread : WF_vars(Step(t))
  /\ \A r \in Row : WF_vars(Cooled(r))

Spec == Init /\ [][Next]_vars /\ Fairness

-----------------------------------------------------------------------------
(* Properties *)

\* No handler sleeps through a wake-up: while it sleeps, a row it did not fail
\* itself is ready only if whoever released it is about to call wake_workers, and
\* a generation it has not seen means that its notify_all is still to come.  Rows
\* that a failing reaper has not announced wait for the next wake-up or the timeout.
NoMissedWakeup ==
  \A c \in Claimer : pc[c] = "asleep" =>
    /\ c \in behind => \E t \in Thread : pc[t] = "notify"
    /\ c \notin behind =>
         \A r \in Row \ silent : rows[r] = "ready" /\ failedBy[r] # c =>
           \E t \in Thread : pc[t] = "bump"

\* Every ready row is claimed, also one that only the worker that failed it is
\* left to run: the timed wait looks again when the cooling is over.
ReadyIsClaimed == \A r \in Row : rows[r] = "ready" ~> rows[r] = "running"

\* The coordinator knows the partition a worker has in the table, after its own
\* restart and the worker's, once the worker has called.
PartAgrees ==
  \A c \in Claimer : workerPart[c] # -2 => workerPart[c] = workers[c] /\ workers[c] >= 0
=============================================================================
