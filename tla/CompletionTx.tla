---------------------------- MODULE CompletionTx ----------------------------
(***************************************************************************)
(* The transactions of CompleteTask, statement by statement, as Postgres   *)
(* runs them under READ COMMITTED: a statement sees what is committed when *)
(* it starts plus the transaction's own writes, an UPDATE or a SELECT ...  *)
(* FOR UPDATE queues for a row another transaction has locked, locks are   *)
(* kept until the end, and a cycle of waits costs one transaction a        *)
(* rollback, after which transaction() or the worker runs it again.        *)
(*                                                                         *)
(* One build that has been submitted; a transaction x reports task         *)
(* TaskOf[x], and two transactions may report the same task (a slow worker *)
(* and its successor).  Rows hold the state and pending_deps; "open" is    *)
(* 'ready' or 'running', "finished" is 'done' or 'cached'.  A transient    *)
(* failure either leaves the row open or, on the last attempt, fails it    *)
(* like a compile error does.  The cache is left out: whether make_ready   *)
(* finds a key is a choice, and waits for rows of the cache table are not  *)
(* modelled.                                                               *)
(***************************************************************************)
EXTENDS Integers, Sequences, FiniteSets, SequencesExt

CONSTANTS
  Task,        \* the ids of the build's tasks, numbers
  Deps,        \* task_deps
  MayHit,      \* tasks whose key may be found in the cache by make_ready
  MayFail,     \* tasks some attempt of which may report a permanent failure
  Tx, TaskOf,
  BuildRow,    \* the build's row, as something to lock
  None,
  MaxAborts    \* bound on connections lost in the middle of a transaction

Row == [st : {"waiting", "open", "finished", "failed"}, pend : Int]

ASSUME TxAssumption ==
  /\ Task \subseteq Nat /\ IsFiniteSet(Task)
  /\ Deps \in [Task -> SUBSET Task]
  /\ \A t \in Task : \A d \in Deps[t] : d < t
  /\ TaskOf \in [Tx -> Task]
  /\ BuildRow \notin Task
  /\ None \notin Row \cup {"done", "failed"}
  /\ MaxAborts \in Nat

VARIABLES
  row,      \* committed rows of tasks: state and pending count
  build,    \* committed state of the build
  tx,       \* the transactions
  queue,    \* for each row, the transactions that wait for it, in order
  aborts    \* connections lost so far

vars == <<row, build, tx, queue, aborts>>

\* A frame is a call of finished(): rows still to lock, then to count down.
Frame == [task : Task, lock : SUBSET Task, todo : SUBSET Task]

Dependents(t) == {u \in Task : t \in Deps[u]}

\* SELECT ... FOR UPDATE
Call(t) == [task |-> t, lock |-> Dependents(t), todo |-> Dependents(t)]

\* ORDER BY t.id
First(S) == {u \in S : \A v \in S : u <= v}

\* A transaction that has not begun: nothing written, nothing locked.
Fresh == [pc |-> "idle", stack |-> <<>>, mine |-> [t \in Task |-> None],
          holds |-> {}, want |-> None, verdict |-> None]

Init ==
  /\ row = [t \in Task |-> [st |-> IF Deps[t] = {} THEN "open" ELSE "waiting",
                            pend |-> Cardinality(Deps[t])]]
  /\ build = "running"
  /\ tx = [x \in Tx |-> Fresh]
  /\ queue = [k \in Task \cup {BuildRow} |-> <<>>]
  /\ aborts = 0

\* What a statement of x reads.
View(x, t) == IF tx[x].mine[t] = None THEN row[t] ELSE tx[x].mine[t]

\* Mutation: rows are written without waiting for each other.
FreeAlways(x, k) == TRUE

\* x has the row already, or nobody has it or has waited longer for it.
Free(x, k) ==
  \/ k \in tx[x].holds
  \/ /\ \A y \in Tx : k \notin tx[y].holds
     /\ IF queue[k] = <<>> THEN TRUE ELSE Head(queue[k]) = x

\* x no longer waits.
Dequeue(x) == queue' = [k \in DOMAIN queue |-> SelectSeq(queue[k], LAMBDA y : y # x)]

Top(x) == Head(tx[x].stack)

\* finished() returns; outside any call the transaction is ready to commit.
After(stack) == IF stack = <<>> THEN "commit" ELSE "walk"

-----------------------------------------------------------------------------
Begin(x) ==
  /\ tx[x].pc = "idle"
  /\ row[TaskOf[x]].st # "waiting"
  /\ tx' = [tx EXCEPT ![x].pc = "update"]
  /\ UNCHANGED <<row, build, queue, aborts>>

\* Mutation: the WHERE of "complete" has no state.
AcceptAlways(t) == TRUE

\* WHERE ... state IN ('ready', 'running')
Accept(t) == row[t].st = "open"

\* "complete" or "fail".  A row that no longer matches is not waited for.
Update(x) ==
  LET t == TaskOf[x] IN
  /\ tx[x].pc = "update"
  /\ \/ /\ ~Accept(t)
        /\ tx' = [tx EXCEPT ![x].pc = "commit"]
     \/ /\ Accept(t) /\ Free(x, t)
        /\ tx' = [tx EXCEPT ![x].pc = "walk", ![x].stack = <<Call(t)>>,
                            ![x].mine[t] = [row[t] EXCEPT !.st = "finished"],
                            ![x].holds = @ \cup {t}]
     \/ /\ Accept(t) /\ Free(x, t) /\ t \in MayFail
        /\ tx' = [tx EXCEPT ![x].pc = "judge",
                            ![x].mine[t] = [row[t] EXCEPT !.st = "failed"],
                            ![x].holds = @ \cup {t}]
  /\ Dequeue(x)
  /\ UNCHANGED <<row, build, aborts>>

\* One row of the SELECT ... FOR UPDATE.
LockDependent(x) ==
  /\ tx[x].pc = "walk"
  /\ \E u \in First(Top(x).lock) :
       /\ Free(x, u)
       /\ tx' = [tx EXCEPT ![x].holds = @ \cup {u}, ![x].stack[1].lock = @ \ {u}]
  /\ Dequeue(x)
  /\ UNCHANGED <<row, build, aborts>>

\* Mutation: make_ready is called with one dep still to come.
ZeroOrOne(n) == n <= 1

Zero(n) == n = 0

\* "count_down", and make_ready when it reaches zero: the deps' outputs are read
\* and the row becomes 'ready', or 'cached' and is finished() in turn.
CountDown(x) ==
  /\ tx[x].pc = "walk"
  /\ Top(x).lock = {}
  /\ \E u \in First(Top(x).todo) :
     LET n == View(x, u).pend - 1
         rest == [tx[x].stack EXCEPT ![1].todo = @ \ {u}] IN
     \E hit \in IF Zero(n) /\ u \in MayHit THEN BOOLEAN ELSE {FALSE} :
       tx' = [tx EXCEPT
         ![x].mine[u] = [st |-> IF ~Zero(n) THEN View(x, u).st
                                ELSE IF hit THEN "finished" ELSE "open",
                         pend |-> n],
         ![x].stack = IF hit THEN <<Call(u)>> \o rest ELSE rest]
  /\ UNCHANGED <<row, build, queue, aborts>>

\* Mutation: only the reported task is asked.
AsksReported(x, t) == Dependents(t) = {} /\ t = TaskOf[x]

\* if (deps.size() == 0)
Asks(x, t) == Dependents(t) = {}

\* The call is over; only a sink asks whether the build is.
Return(x) ==
  /\ tx[x].pc = "walk"
  /\ Top(x).lock = {} /\ Top(x).todo = {}
  /\ LET rest == Tail(tx[x].stack) IN
     tx' = [tx EXCEPT ![x].stack = rest,
                      ![x].pc = IF Asks(x, Top(x).task) THEN "judge" ELSE After(rest)]
  /\ UNCHANGED <<row, build, queue, aborts>>

\* "progress"
Verdict(x) ==
  IF \E t \in Task : View(x, t).st = "failed" THEN "failed"
  ELSE IF \A t \in Task : View(x, t).st = "finished" THEN "done" ELSE None

\* maybe_finish counts ...
Judge(x) ==
  /\ tx[x].pc = "judge"
  /\ tx' = [tx EXCEPT ![x].want = Verdict(x),
                      ![x].pc = IF Verdict(x) = None THEN After(tx[x].stack) ELSE "verdict"]
  /\ UNCHANGED <<row, build, queue, aborts>>

\* ... and then updates the build's row if it is still 'running'.
SetVerdict(x) ==
  /\ tx[x].pc = "verdict"
  /\ build # "running" \/ Free(x, BuildRow)
  /\ tx' = [tx EXCEPT
       ![x].verdict = IF build = "running" /\ @ = None THEN tx[x].want ELSE @,
       ![x].holds = IF build = "running" THEN @ \cup {BuildRow} ELSE @,
       ![x].pc = After(tx[x].stack)]
  /\ Dequeue(x)
  /\ UNCHANGED <<row, build, aborts>>

Commit(x) ==
  /\ tx[x].pc = "commit"
  /\ row' = [t \in Task |-> View(x, t)]
  /\ build' = IF tx[x].verdict = None THEN build ELSE tx[x].verdict
  /\ tx' = [tx EXCEPT ![x] = [Fresh EXCEPT !.pc = "done"]]
  /\ UNCHANGED <<queue, aborts>>

-----------------------------------------------------------------------------
(* Waiting *)

\* The rows x would have to lock next.
Wants(x) ==
  CASE tx[x].pc = "update" -> {t \in {TaskOf[x]} : Accept(t)}
    [] tx[x].pc = "walk" -> First(Top(x).lock)
    [] tx[x].pc = "verdict" /\ build = "running" -> {BuildRow}
    [] OTHER -> {}

\* A statement whose row is taken queues for it.
Wait(x) ==
  \E k \in Wants(x) :
    /\ ~Free(x, k)
    /\ ~Contains(queue[k], x)
    /\ queue' = [queue EXCEPT ![k] = Append(@, x)]
    /\ UNCHANGED <<row, build, tx, aborts>>

WaitsFor(x, y) == x # y /\ \E k \in tx[y].holds : Contains(queue[k], x)

Blocked == {x \in Tx : \E y \in Tx : WaitsFor(x, y)}

\* x waits in a ring: everybody in it waits for one and is waited for by one.
Deadlocked(x) ==
  /\ x \in Blocked
  /\ \E ring \in SUBSET Blocked :
       /\ x \in ring
       /\ \A y \in ring : (\E z \in ring : WaitsFor(y, z)) /\ (\E z \in ring : WaitsFor(z, y))

\* Mutation: no ROLLBACK before the transaction is run again.
RolledBackNot(x) == [Fresh EXCEPT !.holds = tx[x].holds]

\* ROLLBACK: what x has written and locked is gone.
RolledBack(x) == Fresh

\* SQLSTATE 40P01: rolled back by Postgres and run again, by transaction() or, after
\* its sixth run, by with_retry.  How often with_retry does so is not counted.
DeadlockVictim(x) ==
  /\ Deadlocked(x)
  /\ tx' = [tx EXCEPT ![x] = RolledBack(x)]
  /\ Dequeue(x)
  /\ UNCHANGED <<row, build, aborts>>

\* The connection is lost before COMMIT; the worker's with_retry reports again.
ConnectionLost(x) ==
  /\ aborts < MaxAborts
  /\ tx[x].pc \notin {"idle", "done"}
  /\ aborts' = aborts + 1
  /\ tx' = [tx EXCEPT ![x] = RolledBack(x)]
  /\ Dequeue(x)
  /\ UNCHANGED <<row, build>>

Statement(x) ==
  \/ Begin(x) \/ Update(x) \/ LockDependent(x) \/ CountDown(x) \/ Return(x)
  \/ Judge(x) \/ SetVerdict(x) \/ Commit(x) \/ Wait(x)

\* Every report is in; what waits on a failed task is never reported.
AllIn ==
  \A x \in Tx : tx[x].pc = "done" \/ (tx[x].pc = "idle" /\ row[TaskOf[x]].st = "waiting")

Quiet == AllIn /\ UNCHANGED vars

Next ==
  \/ \E x \in Tx : Statement(x) \/ DeadlockVictim(x) \/ ConnectionLost(x)
  \/ Quiet

\* Handlers run on, and Postgres looks for deadlocks.
Fairness == \A x \in Tx : WF_vars(Statement(x)) /\ WF_vars(DeadlockVictim(x))

Spec == Init /\ [][Next]_vars /\ Fairness

-----------------------------------------------------------------------------
(* Properties *)

\* In the committed table pending_deps is exact although completions that touch
\* the same dependent overlap: each waits for the other's row.
CountExact ==
  \A t \in Task :
    LET left == {d \in Deps[t] : row[d].st # "finished"} IN
    row[t].pend = Cardinality(left) /\ (row[t].st = "waiting" <=> left # {})

\* When make_ready computes a key, every dep's output is visible to it: the SELECT
\* of the outputs never reads a NULL that would become part of the key.
OutputsVisible ==
  \A x \in Tx : \A u \in Task :
    row[u].st = "waiting" /\ View(x, u).st # "waiting" =>
      \A d \in Deps[u] : View(x, d).st = "finished"

\* Once every report is in, the build has its verdict.
VerdictReached ==
  AllIn =>
    /\ (\A t \in Task : row[t].st = "finished") => build = "done"
    /\ (\E t \in Task : row[t].st = "failed") => build = "failed"

Abs == INSTANCE BuildGraph WITH
         Build <- {BuildRow}, BuildOf <- [t \in Task |-> BuildRow],
         status <- [t \in Task |-> row[t].st],
         verdict <- [b \in {BuildRow} |-> build]

\* Seen from outside, a committed completion is one step of the build graph: the
\* overlapping transactions are as good as one after the other.
AtomicSteps == [][Abs!Next]_(Abs!vars)

\* A report that began is answered, also through deadlocks and lost connections.
AllReported == \A x \in Tx : tx[x].pc = "update" ~> tx[x].pc = "done"
=============================================================================
