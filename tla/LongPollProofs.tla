--------------------------- MODULE LongPollProofs ---------------------------
(***************************************************************************)
(* Proofs about LongPoll for any number of workers and rows, and any number*)
(* of transient failures and restarts: no wake-up is missed, and a worker  *)
(* keeps its partition.                                                    *)
(***************************************************************************)
EXTENDS LongPoll, FiniteSetTheorems, TLAPS

Label == {"submit", "register", "insert", "part", "read", "own", "steal", "wait", "asleep",
          "execute", "bump", "notify", "off"}

PollType ==
  /\ pc \in [Thread -> Label]
  /\ behind \subseteq Claimer
  /\ rows \in [Row -> {"waiting", "ready", "running", "done"}]
  /\ failedBy \in [Row -> Claimer \cup {None}]
  /\ workers \in [Claimer -> Int]
  /\ workerPart \in [Claimer -> Int]
  /\ counted \in [Claimer -> Nat]

\* Handler c may go to sleep, or sleep on: if it has seen the current generation,
\* every row it could take is about to be announced, but the silent ones.
Alert(c) ==
  /\ pc[c] \in {"wait", "asleep"} /\ c \notin behind =>
       \A r \in Row \ silent : rows[r] = "ready" /\ failedBy[r] # c =>
         \E t \in Thread : pc[t] = "bump"
  /\ pc[c] = "asleep" /\ c \in behind => \E t \in Thread : pc[t] = "notify"

\* A worker whose registration has committed is in the table, and the coordinator's
\* map agrees with the table.
Placed(c) ==
  /\ pc[c] \notin {"register", "insert"} => workers[c] >= 0
  /\ workerPart[c] # -2 => workerPart[c] = workers[c] /\ workers[c] >= 0

PollInv == PollType /\ \A c \in Claimer : Alert(c) /\ Placed(c)

\* Nothing is ready and nobody is registered at the start.
LEMMA InitPoll == Init => PollInv
<1> SUFFICES ASSUME Init PROVE PollInv
  OBVIOUS
<1>1. \A c \in Claimer : c \in Thread /\ c # Submitter
  BY PollAssumption DEF Thread
<1>2. PollType
  BY DEF Init, PollType, Label
<1>3. \A c \in Claimer : pc[c] = "register"
  BY <1>1 DEF Init
<1> QED
  BY <1>2, <1>3 DEF Init, PollInv, Alert, Placed

\* count(*) is a number.
LEMMA CountType == Cardinality({d \in Claimer : workers[d] >= 0}) \in Nat
BY PollAssumption, FS_Subset, FS_CardinalityType

\* Steps stay within the types.
LEMMA StepType == PollType /\ [Next]_vars => PollType'
<1> SUFFICES ASSUME PollType, [Next]_vars PROVE PollType'
  OBVIOUS
<1>t. Claimer \subseteq Thread /\ Submitter \in Thread
  BY DEF Thread
<1>g. ASSUME NEW t \in Thread, NEW l \in Label, Goto(t, l) PROVE pc' \in [Thread -> Label]
  BY <1>g DEF Goto, PollType
<1>1. ASSUME NEW c \in Claimer, CountWorkers(c) PROVE PollType'
  BY <1>1, <1>t, <1>g, CountType DEF CountWorkers, PollType, Label, table
<1>2. ASSUME NEW c \in Claimer, InsertWorker(c) PROVE PollType'
  <2>1. pc' \in [Thread -> Label]
    BY <1>2, <1>t, <1>g DEF InsertWorker, Label
  <2>2. workers' \in [Claimer -> Int]
    BY <1>2 DEF InsertWorker, PollType
  <2> QED
    BY <1>2, <2>1, <2>2 DEF InsertWorker, PollType, table
<1>3. ASSUME NEW c \in Claimer, PartitionOf(c) PROVE PollType'
  <2>1. pc' \in [Thread -> Label]
    BY <1>3, <1>t, <1>g DEF PartitionOf, Label
  <2>2. KnownPart(c) \in Int
    BY DEF KnownPart, PollType
  <2> QED
    BY <1>3, <2>1, <2>2 DEF PartitionOf, PollType, table
<1>4. ASSUME NEW c \in Claimer, NEW r \in Row, Claim(c, r)
      PROVE  pc' \in [Thread -> Label] /\ rows' \in [Row -> {"waiting", "ready", "running", "done"}]
  BY <1>4, <1>t, <1>g DEF Claim, PollType, Label
<1>5. ASSUME NEW c \in Claimer, ClaimOwn(c) \/ ClaimSteal(c) PROVE PollType'
  <2>1. pc' \in [Thread -> Label] /\ rows' \in [Row -> {"waiting", "ready", "running", "done"}]
    BY <1>4, <1>5, <1>t, <1>g DEF ClaimOwn, ClaimSteal, PollType, Label, table
  <2> QED
    BY <1>5, <2>1 DEF ClaimOwn, ClaimSteal, Claim, PollType, parts, table
<1>6. ASSUME NEW c \in Claimer, ReadGen(c) \/ Wait(c) \/ Timeout(c) \/ Leave(c) \/ Return(c)
      PROVE  PollType'
  <2>1. pc' \in [Thread -> Label]
    BY <1>6, <1>t, <1>g DEF ReadGen, Wait, Timeout, AfterTimeout, Leave, Return, Label
  <2> QED
    BY <1>6, <2>1 DEF ReadGen, Wait, Timeout, Leave, Return, PollType, table, parts
<1>7. ASSUME NEW c \in Claimer, CompleteOk(c) \/ CompleteRetry(c) \/ ReapUnannounced(c)
      PROVE  PollType'
  <2>1. pc' \in [Thread -> Label]
    BY <1>7, <1>t, <1>g DEF CompleteOk, CompleteRetry, ReapUnannounced, Label
  <2>2. rows' \in [Row -> {"waiting", "ready", "running", "done"}]
    BY <1>7 DEF CompleteOk, CompleteRetry, ReapUnannounced, Requeue, Release, PollType
  <2>3. failedBy' \in [Row -> Claimer \cup {None}]
    BY <1>7 DEF CompleteOk, CompleteRetry, ReapUnannounced, Requeue, PollType
  <2> QED
    BY <1>7, <2>1, <2>2, <2>3
    DEF CompleteOk, CompleteRetry, ReapUnannounced, Requeue, PollType, parts
<1>8. CASE SubmitBuild
  <2>1. pc' \in [Thread -> Label]
    BY <1>8, <1>t, <1>g DEF SubmitBuild, Label
  <2>2. rows' \in [Row -> {"waiting", "ready", "running", "done"}]
    BY <1>8 DEF SubmitBuild, Release, PollType
  <2> QED
    BY <1>8, <2>1, <2>2 DEF SubmitBuild, PollType
<1>9. ASSUME NEW t \in Thread, Bump(t) PROVE PollType'
  BY <1>9, <1>g DEF Bump, PollType, Label, table, parts
<1>10. ASSUME NEW t \in Thread, Notify(t) PROVE PollType'
  BY <1>10 DEF Notify, PollType, Label, table, parts
<1>11. CASE Restart
  <2>1. pc' \in [Thread -> Label]
    BY <1>11 DEF Restart, PollType, Label
  <2> QED
    BY <1>11, <2>1 DEF Restart, PollType, table
<1>12. CASE UNCHANGED vars \/ \E r \in Row : Cooled(r)
  BY <1>12 DEF vars, table, Cooled, PollType, parts
<1> QED
  BY <1>1, <1>2, <1>3, <1>5, <1>6, <1>7, <1>8, <1>9, <1>10, <1>11, <1>12 DEF Next, Step

\* A step that takes no thread from its wake-up, releases no row and lets c fall
\* asleep only on a generation it has seen keeps c alert.
LEMMA AlertStays ==
  ASSUME NEW c \in Claimer, Alert(c),
         pc'[c] = pc[c] \/ pc'[c] \notin {"wait", "asleep"}
           \/ (pc[c] = "wait" /\ pc'[c] = "asleep" /\ c \notin behind),
         c \in behind' <=> c \in behind,
         \A t \in Thread : pc[t] \in {"bump", "notify"} => pc'[t] = pc[t],
         \A r \in Row \ silent' : rows'[r] = "ready" /\ failedBy'[r] # c =>
                                    r \notin silent /\ rows[r] = "ready" /\ failedBy[r] # c
  PROVE  Alert(c)'
<1>1. ASSUME pc'[c] \in {"wait", "asleep"}, c \notin behind',
             NEW r \in Row \ silent', rows'[r] = "ready", failedBy'[r] # c
      PROVE  \E t \in Thread : pc'[t] = "bump"
  <2>1. pc[c] \in {"wait", "asleep"} /\ c \notin behind
    BY <1>1
  <2>2. PICK t \in Thread : pc[t] = "bump"
    BY <1>1, <2>1 DEF Alert
  <2> QED
    BY <2>2
<1>2. ASSUME pc'[c] = "asleep", c \in behind' PROVE \E t \in Thread : pc'[t] = "notify"
  <2>1. pc[c] = "asleep" /\ c \in behind
    BY <1>2
  <2>2. PICK t \in Thread : pc[t] = "notify"
    BY <2>1 DEF Alert
  <2> QED
    BY <2>2
<1> QED
  BY <1>1, <1>2 DEF Alert

\* A thread that has released rows announces them, so nobody need be alert to them
\* by himself.
LEMMA AlertReleased ==
  ASSUME NEW c \in Claimer, NEW t \in Thread, pc[t] \notin {"bump", "notify", "asleep"},
         pc' = [pc EXCEPT ![t] = "bump"], PollType, Alert(c), behind' = behind
  PROVE  Alert(c)'
<1>0. c \in Thread
  BY DEF Thread
<1>1. pc'[t] = "bump" /\ \A u \in Thread \ {t} : pc'[u] = pc[u]
  BY DEF PollType
<1>2. ASSUME pc'[c] = "asleep", c \in behind' PROVE \E u \in Thread : pc'[u] = "notify"
  <2>1. pc[c] = "asleep"
    BY <1>0, <1>1, <1>2
  <2>2. PICK u \in Thread : pc[u] = "notify"
    BY <1>2, <2>1 DEF Alert
  <2> QED
    BY <1>1, <2>2
<1> QED
  BY <1>1, <1>2 DEF Alert

\* Handlers stay alert.
LEMMA StepAlert ==
  ASSUME PollType, [Next]_vars, NEW c \in Claimer, Alert(c)
  PROVE  Alert(c)'
<1>t. Claimer \subseteq Thread /\ Submitter \in Thread /\ c \in Thread /\ pc \in [Thread -> Label]
  BY DEF Thread, PollType
<1>g. ASSUME NEW t \in Thread, pc[t] \notin {"bump", "notify"},
             NEW l, l \notin {"wait", "asleep"}, pc' = [pc EXCEPT ![t] = l],
             behind' \in {behind, behind \ {t}},
             behind' = behind \/ l = "own",
             \A r \in Row \ silent' : rows'[r] = "ready" =>
               r \notin silent /\ rows[r] = "ready" /\ failedBy'[r] = failedBy[r]
      PROVE  Alert(c)'
  <2>1. pc'[t] = l /\ \A u \in Thread \ {t} : pc'[u] = pc[u]
    BY <1>g, <1>t
  <2>2. CASE c = t
    BY <1>g, <2>1, <2>2 DEF Alert
  <2>3. CASE c # t
    <3>1. c \in behind' <=> c \in behind
      BY <1>g, <2>3
    <3>2. pc'[c] = pc[c] /\ \A u \in Thread : pc[u] \in {"bump", "notify"} => pc'[u] = pc[u]
      BY <1>g, <1>t, <2>1, <2>3
    <3>3. \A r \in Row \ silent' : rows'[r] = "ready" /\ failedBy'[r] # c =>
                                     r \notin silent /\ rows[r] = "ready" /\ failedBy[r] # c
      BY <1>g
    <3> QED
      BY <3>1, <3>2, <3>3, AlertStays
  <2> QED
    BY <2>2, <2>3
<1>1. ASSUME NEW d \in Claimer, CountWorkers(d) \/ InsertWorker(d) \/ PartitionOf(d)
      PROVE  Alert(c)'
  BY <1>1, <1>t, <1>g DEF CountWorkers, InsertWorker, PartitionOf, Goto, table
<1>2. ASSUME NEW d \in Claimer, ReadGen(d) PROVE Alert(c)'
  BY <1>2, <1>t, <1>g DEF ReadGen, Goto, table
<1>3. ASSUME NEW d \in Claimer, NEW r \in Row, pc[d] \in {"own", "steal"}, Claim(d, r),
             behind' = behind
      PROVE  Alert(c)'
  <2>1. rows' = [rows EXCEPT ![r] = "running"] /\ failedBy' = failedBy
        /\ silent' = silent \ {r} /\ pc' = [pc EXCEPT ![d] = "execute"]
    BY <1>3 DEF Claim, Goto
  <2>2. \A x \in Row \ silent' : rows'[x] = "ready" => x \notin silent /\ rows[x] = "ready"
    BY <2>1 DEF PollType
  <2> QED
    BY <1>3, <1>t, <1>g, <2>1, <2>2
<1>4. ASSUME NEW d \in Claimer, ClaimOwn(d) PROVE Alert(c)'
  <2>1. CASE \E r \in Row : Claim(d, r)
    BY <1>3, <1>4, <2>1 DEF ClaimOwn
  <2>2. CASE Goto(d, "steal") /\ UNCHANGED <<table, mine>>
    BY <1>4, <1>t, <1>g, <2>2 DEF ClaimOwn, Goto, table
  <2> QED
    BY <1>4, <2>1, <2>2 DEF ClaimOwn
<1>5. ASSUME NEW d \in Claimer, ClaimSteal(d) PROVE Alert(c)'
  <2>1. CASE \E r \in Row : Claim(d, r)
    BY <1>3, <1>5, <2>1 DEF ClaimSteal
  <2>2. CASE (\A r \in Row : ~Claimable(d, r)) /\ Goto(d, "wait") /\ UNCHANGED <<table, mine>>
    <3>1. /\ pc[d] = "steal" /\ behind' = behind /\ rows' = rows /\ failedBy' = failedBy
          /\ silent' = silent /\ pc'[d] = "wait" /\ \A u \in Thread \ {d} : pc'[u] = pc[u]
      BY <1>5, <1>t, <2>2 DEF ClaimSteal, Goto, table
    <3>2. CASE d = c
      <4>1. \A r \in Row : ~(rows'[r] = "ready" /\ failedBy'[r] # c)
        BY <2>2, <3>1, <3>2 DEF Claimable
      <4> QED
        BY <3>1, <3>2, <4>1 DEF Alert
    <3>3. CASE d # c
      BY <1>t, <3>1, <3>3, AlertStays
    <3> QED
      BY <3>2, <3>3
  <2> QED
    BY <1>5, <2>1, <2>2 DEF ClaimSteal
<1>6. ASSUME NEW d \in Claimer, Wait(d) PROVE Alert(c)'
  <2>1. CASE Changed(d)
    BY <1>6, <1>t, <1>g, <2>1 DEF Wait, Goto, table
  <2>2. CASE ~Changed(d)
    <3>1. /\ pc[d] = "wait" /\ d \notin behind /\ behind' = behind /\ rows' = rows
          /\ failedBy' = failedBy /\ silent' = silent /\ pc'[d] = "asleep"
          /\ \A u \in Thread \ {d} : pc'[u] = pc[u]
      BY <1>6, <1>t, <2>2 DEF Wait, Changed, Goto, table
    <3> QED
      BY <1>t, <3>1, AlertStays
  <2> QED
    BY <2>1, <2>2
<1>7. ASSUME NEW d \in Claimer, Timeout(d) \/ Leave(d) \/ Return(d) PROVE Alert(c)'
  <2>1. PICK l : l \notin {"wait", "asleep"} /\ pc' = [pc EXCEPT ![d] = l]
    BY <1>7 DEF Timeout, AfterTimeout, Leave, Return, Goto
  <2>2. /\ pc[d] \notin {"bump", "notify"} /\ behind' = behind
        /\ rows' = rows /\ failedBy' = failedBy /\ silent' = silent
    BY <1>7 DEF Timeout, Leave, Return, table
  <2> QED
    BY <1>g, <1>t, <2>1, <2>2
<1>8. ASSUME NEW d \in Claimer, CompleteOk(d) \/ CompleteRetry(d) PROVE Alert(c)'
  BY <1>8, <1>t, AlertReleased DEF CompleteOk, CompleteRetry, Requeue, Goto
<1>r. ASSUME NEW d \in Claimer, ReapUnannounced(d) PROVE Alert(c)'
  <2>1. /\ pc[d] = "execute" /\ pc' = [pc EXCEPT ![d] = "part"] /\ behind' = behind
        /\ failedBy' = [failedBy EXCEPT ![mine[d]] = d] /\ silent' = silent \cup {mine[d]}
        /\ rows' = [r \in Row |-> IF r \in {mine[d]} THEN "ready" ELSE rows[r]]
    BY <1>r DEF ReapUnannounced, Requeue, Release, Goto
  <2>2. \A r \in Row \ silent' : rows'[r] = "ready" =>
          r \notin silent /\ rows[r] = "ready" /\ failedBy'[r] = failedBy[r]
    BY <2>1 DEF PollType
  <2> QED
    BY <1>t, <1>g, <2>1, <2>2
<1>9. CASE SubmitBuild
  BY <1>9, <1>t, AlertReleased DEF SubmitBuild, Goto
<1>10. ASSUME NEW t \in Thread, Bump(t) PROVE Alert(c)'
  BY <1>10, <1>t DEF Bump, Goto, Alert
<1>11. ASSUME NEW t \in Thread, Notify(t) PROVE Alert(c)'
  <2>0. /\ pc[t] = "notify" /\ behind' = behind
        /\ rows' = rows /\ failedBy' = failedBy /\ silent' = silent
    BY <1>11 DEF Notify, table
  <2>1. \A u \in Thread : /\ pc'[u] # "asleep"
                          /\ pc'[u] = "wait" => pc[u] \in {"wait", "asleep"}
                          /\ pc[u] = "bump" => pc'[u] = "bump"
    BY <1>11 DEF Notify
  <2> QED
    BY <1>t, <2>0, <2>1 DEF Alert
<1>12. CASE Restart
  <2>1. pc'[c] \notin {"wait", "asleep"}
    BY <1>12, <1>t DEF Restart
  <2> QED
    BY <2>1 DEF Alert
<1>13. CASE UNCHANGED vars \/ \E r \in Row : Cooled(r)
  BY <1>13, AlertStays DEF vars, Cooled
<1> QED
  BY <1>1, <1>2, <1>4, <1>5, <1>6, <1>7, <1>8, <1>r, <1>9, <1>10, <1>11, <1>12, <1>13
  DEF Next, Step

\* A worker is in the table before it calls claim_task, and keeps its partition.
LEMMA StepPlaced ==
  ASSUME PollType, [Next]_vars, NEW c \in Claimer, Placed(c)
  PROVE  Placed(c)'
<1>t. /\ Claimer \subseteq Thread /\ Submitter \in Thread /\ c \in Thread /\ c # Submitter
      /\ pc \in [Thread -> Label]
      /\ workers \in [Claimer -> Int] /\ workerPart \in [Claimer -> Int] /\ counted \in [Claimer -> Nat]
  BY PollAssumption DEF Thread, PollType
<1>s. ASSUME UNCHANGED <<workers, workerPart>>,
             pc'[c] \in {"register", "insert"} \/ pc[c] \notin {"register", "insert"}
      PROVE  Placed(c)'
  BY <1>s DEF Placed
<1>1. ASSUME NEW d \in Claimer, CountWorkers(d) PROVE Placed(c)'
  BY <1>1, <1>s, <1>t DEF CountWorkers, Goto
<1>2. ASSUME NEW d \in Claimer, InsertWorker(d) PROVE Placed(c)'
  <2>1. CASE c = d
    <3>1. workers'[c] = IF workers[c] >= 0 THEN workers[c] ELSE counted[c]
      BY <1>2, <1>t, <2>1 DEF InsertWorker
    <3>2. workers'[c] >= 0 /\ workerPart'[c] = workers'[c]
      BY <1>2, <1>t, <2>1, <3>1 DEF InsertWorker
    <3> QED
      BY <3>2 DEF Placed
  <2>2. CASE c # d
    BY <1>2, <1>t, <2>2 DEF InsertWorker, Goto, Placed
  <2> QED
    BY <2>1, <2>2
<1>3. ASSUME NEW d \in Claimer, PartitionOf(d) PROVE Placed(c)'
  <2>1. workers' = workers /\ pc[d] = "part"
    BY <1>3 DEF PartitionOf
  <2>2. CASE c = d
    <3>1. workers[c] >= 0
      BY <2>1, <2>2 DEF Placed
    <3>2. workerPart'[c] = workers[c]
      BY <1>3, <1>t, <2>2 DEF PartitionOf, KnownPart, Placed
    <3> QED
      BY <2>1, <3>1, <3>2 DEF Placed
  <2>3. CASE c # d
    BY <1>3, <1>t, <2>1, <2>3 DEF PartitionOf, Goto, Placed
  <2> QED
    BY <2>2, <2>3
<1>4. ASSUME NEW d \in Claimer,
             ReadGen(d) \/ ClaimOwn(d) \/ ClaimSteal(d) \/ Wait(d) \/ Timeout(d) \/ Leave(d)
               \/ Return(d) \/ CompleteOk(d) \/ CompleteRetry(d) \/ ReapUnannounced(d)
      PROVE  Placed(c)'
  <2>1. PICK l : pc' = [pc EXCEPT ![d] = l]
    BY <1>4 DEF ReadGen, ClaimOwn, ClaimSteal, Claim, Wait, Timeout, Leave, Return,
                CompleteOk, CompleteRetry, ReapUnannounced, Goto
  <2>2. pc[d] \notin {"register", "insert"} /\ UNCHANGED <<workers, workerPart>>
    BY <1>4 DEF ReadGen, ClaimOwn, ClaimSteal, Wait, Timeout, Leave, Return,
                CompleteOk, CompleteRetry, ReapUnannounced, Requeue, parts
  <2> QED
    BY <1>s, <1>t, <2>1, <2>2
<1>5. CASE SubmitBuild
  BY <1>5, <1>s, <1>t DEF SubmitBuild, Goto
<1>6. ASSUME NEW t \in Thread, Bump(t) PROVE Placed(c)'
  BY <1>6, <1>s, <1>t DEF Bump, Goto, parts
<1>7. ASSUME NEW t \in Thread, Notify(t) PROVE Placed(c)'
  BY <1>7, <1>s, <1>t DEF Notify, parts
<1>8. CASE Restart
  BY <1>8, <1>t DEF Restart, Placed
<1>9. CASE UNCHANGED vars \/ \E r \in Row : Cooled(r)
  BY <1>9, <1>s, <1>t DEF vars, Cooled, parts
<1> QED
  BY <1>1, <1>2, <1>3, <1>4, <1>5, <1>6, <1>7, <1>8, <1>9 DEF Next, Step

\* The long poll's invariant holds of every behaviour.
THEOREM PollInvariant == Spec => []PollInv
<1>1. PollInv /\ [Next]_vars => PollInv'
  BY StepType, StepAlert, StepPlaced DEF PollInv
<1> QED
  BY <1>1, InitPoll, PTL DEF Spec

\* No handler sleeps through a wake-up, with any number of workers that complete,
\* fail, leave and return, and across restarts of the coordinator.
THEOREM NoWakeupMissed == Spec => []NoMissedWakeup
<1>1. PollInv => NoMissedWakeup
  BY DEF PollInv, Alert, NoMissedWakeup
<1> QED
  BY <1>1, PollInvariant, PTL

\* The partition the coordinator prefers for a worker is the one in the table, with
\* registrations racing each other and restarts on both sides.
THEOREM PartsAgree == Spec => []PartAgrees
<1>1. PollInv => PartAgrees
  BY DEF PollInv, Placed, PartAgrees
<1> QED
  BY <1>1, PollInvariant, PTL
=============================================================================
