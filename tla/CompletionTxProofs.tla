------------------------- MODULE CompletionTxProofs -------------------------
(***************************************************************************)
(* Proofs about CompletionTx for every graph, every set of transactions    *)
(* and every number of lost connections.                                   *)
(*                                                                         *)
(* The invariant is stated of one transaction at a time, as operators of   *)
(* its record r, the committed rows R and the committed build state B: a   *)
(* statement changes only its own transaction's record, and COMMIT is the  *)
(* one step that changes what the others read.                             *)
(***************************************************************************)
EXTENDS CompletionTx, FiniteSetTheorems, WellFoundedInduction, TLAPS

-----------------------------------------------------------------------------
(* The invariant *)

Opinion == {None, "done", "failed"}

TxRecord ==
  [pc : {"idle", "update", "walk", "judge", "verdict", "commit", "done"},
   stack : Seq(Frame), mine : [Task -> Row \cup {None}],
   holds : SUBSET (Task \cup {BuildRow}), want : Opinion, verdict : Opinion]

\* What a transaction with record r reads.
See(r, R, t) == IF r.mine[t] = None THEN R[t] ELSE r.mine[t]

Wrote(r, t) == r.mine[t] # None
Finished(r, t) == r.mine[t] # None /\ r.mine[t].st = "finished"

\* Some call of finished(d) has not counted u down yet.
Owed(r, d, u) == \E i \in 1 .. Len(r.stack) : r.stack[i].task = d /\ u \in r.stack[i].todo

\* The deps that u's count stands for in r's eyes.
Left(r, R, u) == {d \in Deps[u] : See(r, R, d).st # "finished" \/ Owed(r, d, u)}

\* Nothing is written, counted or decided without its lock.
Locked(r, B) ==
  /\ \A t \in Task : Wrote(r, t) => t \in r.holds
  /\ \A i \in 1 .. Len(r.stack) : r.stack[i].todo \subseteq r.stack[i].lock \cup r.holds
  /\ r.verdict # None => BuildRow \in r.holds /\ B = "running"

\* Written rows: the reported task was open, all others were waiting.
Origin(r, k, R) ==
  /\ \A t \in Task : Wrote(r, t) =>
       IF t = k THEN R[t].st = "open" /\ r.mine[t].st \in {"finished", "failed"}
                ELSE R[t].st = "waiting" /\ r.mine[t].st \in {"waiting", "open", "finished"}
  /\ ~Finished(r, k) => r.stack = <<>> /\ \A t \in Task : t # k => ~Wrote(r, t)

\* The calls of finished() in progress, one per task at most.
Calls(r) ==
  /\ \A i \in 1 .. Len(r.stack) :
       Finished(r, r.stack[i].task) /\ r.stack[i].todo \subseteq Dependents(r.stack[i].task)
  /\ \A i, j \in 1 .. Len(r.stack) : r.stack[i].task = r.stack[j].task => i = j

\* Where the calls and the writes happen.
Phase(r) ==
  /\ r.pc = "walk" => r.stack # <<>>
  /\ r.pc \in {"idle", "update", "commit", "done"} => r.stack = <<>>
  /\ r.pc \in {"idle", "update", "done"} =>
       r.verdict = None /\ \A t \in Task : ~Wrote(r, t)

\* A row is counted down once for each dep that r finished, or still owed it.
Covered(r) ==
  \A d, u \in Task : Finished(r, d) /\ d \in Deps[u] => Wrote(r, u) \/ Owed(r, d, u)

Counted(r, R) ==
  \A u \in Task :
    /\ See(r, R, u).pend = Cardinality(Left(r, R, u))
    /\ See(r, R, u).st = "waiting" <=> Left(r, R, u) # {}

\* A verdict, or the wish to give one, is right for what r sees.
Judged(r, R) ==
  \A v \in {"done", "failed"} :
    r.verdict = v \/ (r.pc = "verdict" /\ r.want = v) =>
      IF v = "done" THEN \A t \in Task : See(r, R, t).st = "finished"
                    ELSE \E t \in Task : See(r, R, t).st = "failed"

\* The rows of R count their unfinished deps.
Exact(R) ==
  \A u \in Task :
    LET left == {d \in Deps[u] : R[d].st # "finished"} IN
    R[u].pend = Cardinality(left) /\ (R[u].st = "waiting" <=> left # {})

TxInv(r, k, R, B) ==
  /\ r \in TxRecord
  /\ Locked(r, B) /\ Origin(r, k, R) /\ Calls(r) /\ Phase(r)
  /\ Covered(r) /\ Counted(r, R) /\ Judged(r, R)

\* Two transactions never hold the same row.
Exclusive == \A x, y \in Tx : x # y => tx[x].holds \cap tx[y].holds = {}

TypeOK ==
  /\ row \in [Task -> Row]
  /\ build \in {"running", "done", "failed"}
  /\ tx \in [Tx -> TxRecord]
  /\ aborts \in 0 .. MaxAborts

IInv ==
  /\ TypeOK /\ CountExact /\ Exclusive
  /\ \A x \in Tx : TxInv(tx[x], TaskOf[x], row, build)

-----------------------------------------------------------------------------
(* The stack of calls, and counting *)

\* The call on top is changed in place.
LEMMA TopChanged ==
  ASSUME NEW s \in Seq(Frame), s # <<>>, NEW f \in Frame
  PROVE  /\ [s EXCEPT ![1] = f] \in Seq(Frame)
         /\ [s EXCEPT ![1] = f] # <<>>
         /\ Len([s EXCEPT ![1] = f]) = Len(s)
         /\ 1 \in 1 .. Len(s)
         /\ Head(s) = s[1] /\ s[1] \in Frame
         /\ \A i \in 1 .. Len(s) : [s EXCEPT ![1] = f][i] = IF i = 1 THEN f ELSE s[i]
OBVIOUS

\* A call is pushed.
LEMMA CallPushed ==
  ASSUME NEW s \in Seq(Frame), NEW f \in Frame
  PROVE  /\ <<f>> \o s \in Seq(Frame)
         /\ <<f>> \o s # <<>>
         /\ Len(<<f>> \o s) = Len(s) + 1 /\ Len(s) \in Nat
         /\ (<<f>> \o s)[1] = f
         /\ \A i \in 1 .. Len(s) : (<<f>> \o s)[i + 1] = s[i]
         /\ \A i \in 1 .. Len(s) + 1 : (<<f>> \o s)[i] = IF i = 1 THEN f ELSE s[i - 1]
OBVIOUS

\* A call returns.
LEMMA CallPopped ==
  ASSUME NEW s \in Seq(Frame), s # <<>>
  PROVE  /\ Tail(s) \in Seq(Frame)
         /\ Len(Tail(s)) = Len(s) - 1 /\ Len(s) \in Nat \ {0}
         /\ \A i \in 1 .. Len(Tail(s)) : Tail(s)[i] = s[i + 1] /\ i + 1 \in 1 .. Len(s)
         /\ \A i \in 1 .. Len(s) : i = 1 \/ i - 1 \in 1 .. Len(Tail(s))
OBVIOUS

\* Deps can be counted, and a dep that is struck off lowers the count by one.
LEMMA DepsCounted ==
  ASSUME NEW u \in Task, NEW S, S \subseteq Deps[u]
  PROVE  /\ Cardinality(S) \in Nat
         /\ Cardinality(S) = 0 <=> S = {}
         /\ \A d \in S : Cardinality(S \ {d}) = Cardinality(S) - 1
<1>1. IsFiniteSet(S)
  BY TxAssumption, FS_Subset
<1> QED
  BY <1>1, FS_CardinalityType, FS_EmptySet, FS_RemoveElement

-----------------------------------------------------------------------------
(* One transaction's steps *)

\* A statement of x that leaves the table alone keeps the invariant if x's new
\* record has it and the rows x has locked anew were free.
LEMMA OwnStep ==
  ASSUME IInv, NEW x \in Tx, NEW s, tx' = [tx EXCEPT ![x] = s],
         UNCHANGED <<row, build>>, aborts' \in 0 .. MaxAborts,
         TxInv(s, TaskOf[x], row, build),
         \A y \in Tx : y # x => s.holds \cap tx[y].holds = {}
  PROVE  IInv'
<1>1. /\ tx'[x] = s
      /\ \A y \in Tx : y # x => tx'[y] = tx[y]
      /\ row' = row /\ build' = build
  BY DEF IInv, TypeOK
<1>2. TypeOK'
  BY <1>1 DEF IInv, TypeOK, TxInv
<1>3. CountExact'
  BY <1>1 DEF IInv, CountExact
<1>4. Exclusive'
  BY <1>1 DEF IInv, Exclusive
<1>5. ASSUME NEW y \in Tx PROVE TxInv(tx'[y], TaskOf[y], row', build')
  <2>1. CASE y = x
    BY <1>1, <2>1
  <2>2. CASE y # x
    <3>1. TxInv(tx[y], TaskOf[y], row, build)
      BY DEF IInv
    <3> QED
      BY <1>1, <2>2, <3>1
  <2> QED
    BY <2>1, <2>2
<1>6. \A y \in Tx : TxInv(tx[y], TaskOf[y], row, build)'
  BY <1>5
<1> QED
  BY <1>2, <1>3, <1>4, <1>6 DEF IInv

\* A lock that is granted was held by nobody else.
LEMMA LockGranted ==
  ASSUME IInv, NEW x \in Tx, NEW k, Free(x, k), NEW y \in Tx, y # x
  PROVE  (tx[x].holds \cup {k}) \cap tx[y].holds = {}
BY DEF IInv, Exclusive, Free

\* A transaction that has not begun has the invariant when the table has.
LEMMA FreshInv ==
  ASSUME NEW k \in Task, NEW R, NEW B, Exact(R),
         NEW r, r = Fresh \/ r = [Fresh EXCEPT !.pc = "done"]
  PROVE  TxInv(r, k, R, B)
<1>1. /\ r.pc \in {"idle", "done"} /\ r.stack = <<>> /\ r.holds = {}
      /\ r.want = None /\ r.verdict = None
      /\ r.mine = [t \in Task |-> None]
      /\ r \in TxRecord
  <2>1. Fresh \in TxRecord
    <3>1. <<>> \in Seq(Frame) /\ [t \in Task |-> None] \in [Task -> Row \cup {None}]
      OBVIOUS
    <3> QED
      BY <3>1 DEF Fresh, TxRecord, Opinion
  <2>2. [Fresh EXCEPT !.pc = "done"] \in TxRecord
    BY <2>1 DEF TxRecord
  <2>3. CASE r = Fresh
    BY <2>1, <2>3 DEF Fresh
  <2>4. CASE r = [Fresh EXCEPT !.pc = "done"]
    BY <2>2, <2>4 DEF Fresh
  <2> QED
    BY <2>3, <2>4
<1>2. \A t \in Task : r.mine[t] = None
  BY <1>1
<1>3. Len(r.stack) = 0
  BY <1>1
<1>4. \A d, u \in Task : ~Owed(r, d, u)
  BY <1>3 DEF Owed
<1>5. \A t \in Task : See(r, R, t) = R[t]
  BY <1>2 DEF See
<1>6. \A u \in Task : Left(r, R, u) = {d \in Deps[u] : R[d].st # "finished"}
  BY <1>4, <1>5, TxAssumption DEF Left
<1>7. Counted(r, R)
  BY <1>5, <1>6 DEF Counted, Exact
<1>8. Locked(r, B) /\ Origin(r, k, R) /\ Calls(r) /\ Phase(r) /\ Covered(r) /\ Judged(r, R)
  BY <1>1, <1>2, <1>3, TxAssumption DEF Locked, Origin, Calls, Phase, Covered, Judged, Wrote, Finished
<1> QED
  BY <1>1, <1>7, <1>8 DEF TxInv

\* A statement that writes no row and leaves the calls alone.
LEMMA SameWrites ==
  ASSUME NEW r, NEW k, NEW R, NEW B, TxInv(r, k, R, B),
         NEW s \in TxRecord, s.mine = r.mine, s.stack = r.stack, r.holds \subseteq s.holds,
         s.verdict # None => BuildRow \in s.holds /\ B = "running",
         Phase(s), Judged(s, R)
  PROVE  TxInv(s, k, R, B)
<1>1. Locked(s, B)
  BY DEF TxInv, Locked, Wrote
<1>2. Origin(s, k, R) /\ Calls(s)
  BY DEF TxInv, Origin, Calls, Wrote, Finished
<1>3. Covered(s)
  BY DEF TxInv, Covered, Wrote, Finished, Owed
<1>4. \A t : See(s, R, t) = See(r, R, t)
  BY DEF See
<1>5. \A u : Left(s, R, u) = Left(r, R, u)
  BY <1>4 DEF Left, Owed
<1>6. Counted(s, R)
  BY <1>4, <1>5 DEF TxInv, Counted
<1> QED
  BY <1>1, <1>2, <1>3, <1>6 DEF TxInv

\* BEGIN.
LEMMA BeginInv ==
  ASSUME IInv, NEW x \in Tx, Begin(x)
  PROVE  IInv'
<1> DEFINE r == tx[x]
           s == [r EXCEPT !.pc = "update"]
<1>1. TxInv(r, TaskOf[x], row, build) /\ r \in TxRecord /\ r.pc = "idle"
  BY DEF IInv, TxInv, Begin
<1>2. s \in TxRecord /\ s.mine = r.mine /\ s.stack = r.stack /\ s.holds = r.holds
      /\ s.verdict = r.verdict /\ s.pc = "update"
  BY <1>1 DEF TxRecord
<1>3. Phase(s) /\ Judged(s, row) /\ r.verdict = None
  BY <1>1, <1>2 DEF TxInv, Phase, Judged, Wrote, See
<1>4. TxInv(s, TaskOf[x], row, build)
  <2> HIDE DEF s, r
  <2> QED
    BY <1>1, <1>2, <1>3, SameWrites
<1>5. tx' = [tx EXCEPT ![x] = s] /\ UNCHANGED <<row, build>> /\ aborts' \in 0 .. MaxAborts
  BY DEF Begin, IInv, TypeOK
<1>6. \A y \in Tx : y # x => s.holds \cap tx[y].holds = {}
  BY <1>2 DEF IInv, Exclusive
<1> HIDE DEF s
<1> QED
  BY <1>4, <1>5, <1>6, OwnStep

\* "progress": the verdict looked for is the one the rows r sees call for.
LEMMA JudgeInv ==
  ASSUME IInv, NEW x \in Tx, Judge(x)
  PROVE  IInv'
<1> DEFINE r == tx[x]
           v == Verdict(x)
           s == [r EXCEPT !.want = v, !.pc = IF v = None THEN After(r.stack) ELSE "verdict"]
<1>1. TxInv(r, TaskOf[x], row, build) /\ r \in TxRecord /\ r.pc = "judge"
  BY DEF IInv, TxInv, Judge
<1>2. /\ v \in Opinion
      /\ v = "done" => \A t \in Task : See(r, row, t).st = "finished"
      /\ v = "failed" => \E t \in Task : See(r, row, t).st = "failed"
  BY TxAssumption DEF Verdict, View, See, Opinion
<1> HIDE DEF v
<1>3. s \in TxRecord /\ s.mine = r.mine /\ s.stack = r.stack /\ s.holds = r.holds
      /\ s.verdict = r.verdict /\ s.want = v
      /\ s.pc = IF v = None THEN After(r.stack) ELSE "verdict"
  BY <1>1, <1>2 DEF TxRecord, After
<1>4. Phase(s)
  BY <1>3 DEF Phase, After
<1>5. Judged(s, row)
  BY <1>1, <1>2, <1>3, TxAssumption DEF TxInv, Judged, See
<1>6. r.verdict # None => BuildRow \in r.holds /\ build = "running"
  BY <1>1 DEF TxInv, Locked
<1>7. tx' = [tx EXCEPT ![x] = s] /\ UNCHANGED <<row, build>> /\ aborts' \in 0 .. MaxAborts
  BY DEF Judge, IInv, TypeOK, v
<1> HIDE DEF s
<1>8. TxInv(s, TaskOf[x], row, build)
  BY <1>1, <1>3, <1>4, <1>5, <1>6, SameWrites
<1>9. \A y \in Tx : y # x => s.holds \cap tx[y].holds = {}
  BY <1>3 DEF IInv, Exclusive
<1> QED
  BY <1>7, <1>8, <1>9, OwnStep

\* "build_failed" or "build_done".
LEMMA SetVerdictInv ==
  ASSUME IInv, NEW x \in Tx, SetVerdict(x)
  PROVE  IInv'
<1> DEFINE r == tx[x]
           v == IF build = "running" /\ r.verdict = None THEN r.want ELSE r.verdict
           h == IF build = "running" THEN r.holds \cup {BuildRow} ELSE r.holds
           s == [r EXCEPT !.verdict = v, !.holds = h, !.pc = After(r.stack)]
<1>1. TxInv(r, TaskOf[x], row, build) /\ r \in TxRecord /\ r.pc = "verdict"
  BY DEF IInv, TxInv, SetVerdict
<1>2. v \in Opinion /\ h \in SUBSET (Task \cup {BuildRow}) /\ After(r.stack) \in {"walk", "commit"}
  BY <1>1 DEF TxRecord, After
<1>3. s \in TxRecord /\ s.mine = r.mine /\ s.stack = r.stack /\ s.holds = h
      /\ s.verdict = v /\ s.pc = After(r.stack)
  BY <1>1, <1>2 DEF TxRecord
<1>4. Phase(s)
  BY <1>3 DEF Phase, After
<1>5. Judged(s, row)
  <2>1. \A t : See(s, row, t) = See(r, row, t)
    BY <1>3 DEF See
  <2>2. s.pc # "verdict"
    BY <1>3, <1>2
  <2>3. v = r.want \/ v = r.verdict
    OBVIOUS
  <2> QED
    BY <1>1, <1>3, <2>1, <2>2, <2>3 DEF TxInv, Judged
<1>6. v # None => BuildRow \in h /\ build = "running"
  BY <1>1 DEF TxInv, Locked
<1>7. tx' = [tx EXCEPT ![x] = s] /\ UNCHANGED <<row, build>> /\ aborts' \in 0 .. MaxAborts
  BY DEF SetVerdict, IInv, TypeOK
<1>8. \A y \in Tx : y # x => h \cap tx[y].holds = {}
  <2>1. CASE build = "running"
    BY <2>1, LockGranted DEF SetVerdict
  <2>2. CASE build # "running"
    BY <2>2 DEF IInv, Exclusive
  <2> QED
    BY <2>1, <2>2
<1>9. r.holds \subseteq h
  OBVIOUS
<1> HIDE DEF s, v, h
<1>10. TxInv(s, TaskOf[x], row, build)
  BY <1>1, <1>3, <1>4, <1>5, <1>6, <1>9, SameWrites
<1> QED
  BY <1>3, <1>7, <1>8, <1>10, OwnStep, ZenonT(30)

\* A call of finished() returns when it owes nothing any more.
LEMMA ReturnInv ==
  ASSUME IInv, NEW x \in Tx, Return(x)
  PROVE  IInv'
<1> DEFINE r == tx[x]
           rest == Tail(r.stack)
           c == IF Asks(x, Top(x).task) THEN "judge" ELSE After(rest)
           s == [r EXCEPT !.stack = rest, !.pc = c]
<1>1. TxInv(r, TaskOf[x], row, build) /\ r \in TxRecord /\ r.pc = "walk"
  BY DEF IInv, TxInv, Return
<1>2. r.stack \in Seq(Frame) /\ r.stack # <<>>
  BY <1>1 DEF TxInv, Phase, TxRecord
<1>3. /\ rest \in Seq(Frame)
      /\ Len(rest) = Len(r.stack) - 1 /\ Len(r.stack) \in Nat \ {0}
      /\ \A i \in 1 .. Len(rest) : rest[i] = r.stack[i + 1] /\ i + 1 \in 1 .. Len(r.stack)
      /\ \A i \in 1 .. Len(r.stack) : i = 1 \/ i - 1 \in 1 .. Len(rest)
  BY <1>2, CallPopped
<1>4. Top(x) = r.stack[1] /\ r.stack[1].lock = {} /\ r.stack[1].todo = {}
  BY <1>2 DEF Return, Top
<1>5. tx' = [tx EXCEPT ![x] = s] /\ UNCHANGED <<row, build>> /\ aborts' \in 0 .. MaxAborts
  BY DEF Return, IInv, TypeOK
<1>6. c \in {"judge", "walk", "commit"} /\ (c = "walk" => rest # <<>>) /\ (c = "commit" => rest = <<>>)
  BY DEF After
<1> HIDE DEF rest, c
<1>7. s \in TxRecord /\ s.mine = r.mine /\ s.stack = rest /\ s.holds = r.holds
      /\ s.verdict = r.verdict /\ s.want = r.want /\ s.pc = c
  BY <1>1, <1>3, <1>6 DEF TxRecord
<1> HIDE DEF s
<1>8. \A t : See(s, row, t) = See(r, row, t) /\ Wrote(s, t) = Wrote(r, t) /\ Finished(s, t) = Finished(r, t)
  BY <1>7 DEF See, Wrote, Finished
<1>9. \A d, u : Owed(s, d, u) <=> Owed(r, d, u)
  <2> TAKE d, u
  <2>1. ASSUME Owed(r, d, u) PROVE Owed(s, d, u)
    <3>1. PICK i \in 1 .. Len(r.stack) : r.stack[i].task = d /\ u \in r.stack[i].todo
      BY <2>1 DEF Owed
    <3>2. i - 1 \in 1 .. Len(rest) /\ rest[i - 1] = r.stack[i]
      BY <1>3, <1>4, <3>1
    <3> QED
      BY <1>7, <3>1, <3>2 DEF Owed
  <2>2. ASSUME Owed(s, d, u) PROVE Owed(r, d, u)
    BY <1>3, <1>7, <2>2 DEF Owed
  <2> QED
    BY <2>1, <2>2
<1>10. Locked(s, build) /\ Phase(s) /\ Judged(s, row) /\ Covered(s)
  BY <1>1, <1>3, <1>6, <1>7, <1>8, <1>9 DEF TxInv, Locked, Phase, Judged, Covered
<1>11. Origin(s, TaskOf[x], row)
  <2>1. r.stack # <<>> => Finished(r, TaskOf[x])
    BY <1>1 DEF TxInv, Origin
  <2> QED
    BY <1>1, <1>2, <1>7, <1>8, <2>1 DEF TxInv, Origin
<1>12. Calls(s)
  <2>1. \A i \in 1 .. Len(rest) :
          Finished(s, rest[i].task) /\ rest[i].todo \subseteq Dependents(rest[i].task)
    BY <1>1, <1>3, <1>8 DEF TxInv, Calls
  <2>2. ASSUME NEW i \in 1 .. Len(rest), NEW j \in 1 .. Len(rest), rest[i].task = rest[j].task
        PROVE  i = j
    <3>1. i + 1 \in 1 .. Len(r.stack) /\ j + 1 \in 1 .. Len(r.stack)
          /\ r.stack[i + 1].task = r.stack[j + 1].task
      BY <1>3, <2>2
    <3>2. \A a, b \in 1 .. Len(r.stack) : r.stack[a].task = r.stack[b].task => a = b
      BY <1>1 DEF TxInv, Calls
    <3>3. i + 1 = j + 1
      BY <3>1, <3>2
    <3> QED
      BY <3>3
  <2> QED
    BY <1>7, <2>1, <2>2 DEF Calls
<1>13. Counted(s, row)
  <2>1. \A u : Left(s, row, u) = Left(r, row, u)
    BY <1>8, <1>9 DEF Left
  <2> QED
    BY <1>1, <1>8, <2>1 DEF TxInv, Counted
<1>14. TxInv(s, TaskOf[x], row, build)
  BY <1>7, <1>10, <1>11, <1>12, <1>13 DEF TxInv
<1>15. \A y \in Tx : y # x => s.holds \cap tx[y].holds = {}
  BY <1>7 DEF IInv, Exclusive
<1> QED
  BY <1>5, <1>14, <1>15, OwnStep

\* One dependent of the call on top is locked.
LEMMA LockDependentInv ==
  ASSUME IInv, NEW x \in Tx, LockDependent(x)
  PROVE  IInv'
<1> DEFINE r == tx[x]
<1>1. TxInv(r, TaskOf[x], row, build) /\ r \in TxRecord /\ r.pc = "walk"
  BY DEF IInv, TxInv, LockDependent
<1>2. r.stack \in Seq(Frame) /\ r.stack # <<>>
  BY <1>1 DEF TxInv, Phase, TxRecord
<1>3. PICK u \in First(Top(x).lock) :
        /\ Free(x, u)
        /\ tx' = [tx EXCEPT ![x].holds = @ \cup {u}, ![x].stack[1].lock = @ \ {u}]
  BY DEF LockDependent
<1>4. Top(x) = r.stack[1] /\ r.stack[1] \in Frame /\ 1 \in 1 .. Len(r.stack)
  BY <1>2 DEF Top
<1>5. u \in r.stack[1].lock /\ u \in Task
  BY <1>3, <1>4 DEF First, Frame
<1> DEFINE f == [r.stack[1] EXCEPT !.lock = @ \ {u}]
           q == [r.stack EXCEPT ![1] = f]
           s == [r EXCEPT !.holds = @ \cup {u}, !.stack = q]
<1>6. f \in Frame /\ f.task = r.stack[1].task /\ f.todo = r.stack[1].todo
      /\ f.lock = r.stack[1].lock \ {u}
  BY <1>4 DEF Frame
<1>7. tx' = [tx EXCEPT ![x] = s] /\ UNCHANGED <<row, build>> /\ aborts' \in 0 .. MaxAborts
  <2>1. tx' = [tx EXCEPT ![x] = s]
    BY <1>1, <1>3 DEF IInv, TypeOK, TxRecord
  <2> QED
    BY <2>1 DEF LockDependent, IInv, TypeOK
<1> HIDE DEF f
<1>8. /\ q \in Seq(Frame) /\ q # <<>> /\ Len(q) = Len(r.stack)
      /\ \A i \in 1 .. Len(q) : q[i] = IF i = 1 THEN f ELSE r.stack[i]
  BY <1>2, <1>6, TopChanged
<1> HIDE DEF q
<1>9. s \in TxRecord /\ s.mine = r.mine /\ s.stack = q /\ s.holds = r.holds \cup {u}
      /\ s.verdict = r.verdict /\ s.want = r.want /\ s.pc = "walk"
  BY <1>1, <1>5, <1>8 DEF TxRecord
<1> HIDE DEF s
<1>10. \A t : See(s, row, t) = See(r, row, t) /\ Wrote(s, t) = Wrote(r, t) /\ Finished(s, t) = Finished(r, t)
  BY <1>9 DEF See, Wrote, Finished
<1>11. \A i \in 1 .. Len(q) : q[i].task = r.stack[i].task /\ q[i].todo = r.stack[i].todo
                              /\ r.stack[i].lock \subseteq q[i].lock \cup {u}
  BY <1>6, <1>8
<1>12. \A d, v : Owed(s, d, v) <=> Owed(r, d, v)
  BY <1>8, <1>9, <1>11 DEF Owed
<1>13. Locked(s, build)
  BY <1>1, <1>8, <1>9, <1>10, <1>11 DEF TxInv, Locked
<1>14. Phase(s) /\ Judged(s, row) /\ Covered(s)
  BY <1>1, <1>8, <1>9, <1>10, <1>12 DEF TxInv, Phase, Judged, Covered
<1>15. Origin(s, TaskOf[x], row)
  <2>1. r.stack # <<>> => Finished(r, TaskOf[x])
    BY <1>1 DEF TxInv, Origin
  <2> QED
    BY <1>1, <1>2, <1>9, <1>10, <2>1 DEF TxInv, Origin
<1>16. Calls(s)
  BY <1>1, <1>8, <1>9, <1>10, <1>11 DEF TxInv, Calls
<1>17. Counted(s, row)
  <2>1. \A v : Left(s, row, v) = Left(r, row, v)
    BY <1>10, <1>12 DEF Left
  <2> QED
    BY <1>1, <1>10, <2>1 DEF TxInv, Counted
<1>18. TxInv(s, TaskOf[x], row, build)
  BY <1>9, <1>13, <1>14, <1>15, <1>16, <1>17 DEF TxInv
<1>19. \A y \in Tx : y # x => s.holds \cap tx[y].holds = {}
  BY <1>3, <1>9, LockGranted
<1> QED
  BY <1>7, <1>18, <1>19, OwnStep

\* A report that no longer matches a row writes nothing.
LEMMA UpdateMisses ==
  ASSUME IInv, NEW x \in Tx, tx[x].pc = "update", tx' = [tx EXCEPT ![x].pc = "commit"],
         UNCHANGED <<row, build, aborts>>
  PROVE  IInv'
<1> DEFINE r == tx[x]
           s == [r EXCEPT !.pc = "commit"]
<1>1. TxInv(r, TaskOf[x], row, build) /\ r \in TxRecord
  BY DEF IInv, TxInv
<1>2. s \in TxRecord /\ s.mine = r.mine /\ s.stack = r.stack /\ s.holds = r.holds
      /\ s.verdict = r.verdict /\ s.pc = "commit"
  BY <1>1 DEF TxRecord
<1>3. Phase(s) /\ Judged(s, row) /\ r.verdict = None
  BY <1>1, <1>2 DEF TxInv, Phase, Judged, Wrote, See
<1>4. tx' = [tx EXCEPT ![x] = s] /\ UNCHANGED <<row, build>> /\ aborts' \in 0 .. MaxAborts
  BY DEF IInv, TypeOK
<1>5. \A y \in Tx : y # x => s.holds \cap tx[y].holds = {}
  BY <1>2 DEF IInv, Exclusive
<1> HIDE DEF s
<1>6. TxInv(s, TaskOf[x], row, build)
  BY <1>1, <1>2, <1>3, SameWrites
<1> QED
  BY <1>4, <1>5, <1>6, OwnStep

\* The reported row is locked and written: an open row becomes finished, and
\* finished() is called, or failed, and the build is judged.
LEMMA UpdateWrites ==
  ASSUME IInv, NEW x \in Tx, NEW k, k = TaskOf[x], NEW r, r = tx[x], r.pc = "update",
         row[k].st = "open", Free(x, k),
         UNCHANGED <<row, build, aborts>>,
         NEW m, NEW c, NEW q,
         \/ /\ m = [row[k] EXCEPT !.st = "finished"]
            /\ c = "walk" /\ q = <<Call(k)>>
         \/ /\ m = [row[k] EXCEPT !.st = "failed"]
            /\ c = "judge" /\ q = <<>>,
         NEW s, s = [r EXCEPT !.pc = c, !.stack = q, !.mine = [r.mine EXCEPT ![k] = m],
                              !.holds = r.holds \cup {k}],
         tx' = [tx EXCEPT ![x] = s]
  PROVE  IInv'
<1>1. TxInv(r, TaskOf[x], row, build) /\ r \in TxRecord /\ k \in Task /\ row[k] \in Row
  BY TxAssumption DEF IInv, TxInv, TypeOK
<1>2. r.stack = <<>> /\ r.verdict = None /\ \A t \in Task : r.mine[t] = None
  BY <1>1 DEF TxInv, Phase, Wrote
<1>3. /\ m \in Row /\ m # None /\ m.pend = row[k].pend
      /\ m.st = IF c = "walk" THEN "finished" ELSE "failed"
  BY <1>1, TxAssumption DEF Row
<1>4. /\ Call(k) \in Frame /\ Call(k).task = k
      /\ Call(k).lock = Dependents(k) /\ Call(k).todo = Dependents(k)
  BY <1>1 DEF Call, Frame, Dependents
<1>5. q \in Seq(Frame) /\ Len(q) = (IF c = "walk" THEN 1 ELSE 0) /\ (c = "walk" => q[1] = Call(k))
  <2>1. CASE c = "walk"
    <3>1. q = <<Call(k)>>
      BY <2>1
    <3> HIDE DEF Call
    <3> QED
      BY <1>4, <2>1, <3>1
  <2>2. CASE c = "judge"
    <3>1. q = <<>>
      BY <2>2
    <3> QED
      BY <2>2, <3>1
  <2> QED
    BY <2>1, <2>2
<1>6. [r.mine EXCEPT ![k] = m] \in [Task -> Row \cup {None}]
  BY <1>1, <1>3 DEF TxRecord
<1>7. /\ s \in TxRecord /\ s.stack = q /\ s.holds = r.holds \cup {k}
      /\ s.pc = c /\ s.verdict = None
      /\ s.mine = [r.mine EXCEPT ![k] = m]
  BY <1>1, <1>2, <1>5, <1>6 DEF TxRecord
<1>8. \A t \in Task : s.mine[t] = IF t = k THEN m ELSE None
  BY <1>1, <1>2, <1>7 DEF TxRecord
<1>9. /\ \A t \in Task : See(s, row, t) = IF t = k THEN m ELSE row[t]
      /\ \A t \in Task : Wrote(s, t) <=> t = k
      /\ \A t \in Task : Finished(s, t) <=> t = k /\ c = "walk"
  BY <1>3, <1>8 DEF See, Wrote, Finished
<1>10. \A d, u \in Task : Owed(s, d, u) <=> c = "walk" /\ d = k /\ k \in Deps[u]
  BY <1>4, <1>5, <1>7 DEF Owed, Dependents
<1>11. Locked(s, build) /\ Phase(s)
  BY <1>1, <1>4, <1>5, <1>7, <1>9 DEF Locked, Phase
<1>12. Origin(s, k, row)
  BY <1>1, <1>3, <1>5, <1>7, <1>8, <1>9 DEF Origin
<1>13. Calls(s)
  BY <1>1, <1>4, <1>5, <1>7, <1>9 DEF Calls
<1>14. Covered(s)
  BY <1>9, <1>10 DEF Covered
<1>15. Judged(s, row)
  BY <1>7, TxAssumption DEF Judged
<1>16. Counted(s, row)
  <2> SUFFICES ASSUME NEW u \in Task
               PROVE  /\ See(s, row, u).pend = Cardinality(Left(s, row, u))
                      /\ See(s, row, u).st = "waiting" <=> Left(s, row, u) # {}
    BY DEF Counted
  <2>1. Left(s, row, u) = {d \in Deps[u] : row[d].st # "finished"}
    BY <1>1, <1>3, <1>9, <1>10, TxAssumption DEF Left
  <2>2. See(s, row, u).pend = row[u].pend
    BY <1>3, <1>9
  <2>3. See(s, row, u).st = "waiting" <=> row[u].st = "waiting"
    BY <1>3, <1>9
  <2>4. /\ row[u].pend = Cardinality({d \in Deps[u] : row[d].st # "finished"})
        /\ row[u].st = "waiting" <=> {d \in Deps[u] : row[d].st # "finished"} # {}
    BY DEF IInv, CountExact
  <2> QED
    BY <2>1, <2>2, <2>3, <2>4
<1>17. TxInv(s, TaskOf[x], row, build)
  BY <1>7, <1>11, <1>12, <1>13, <1>14, <1>15, <1>16 DEF TxInv
<1>18. \A y \in Tx : y # x => s.holds \cap tx[y].holds = {}
  BY <1>7, LockGranted
<1>19. aborts' \in 0 .. MaxAborts /\ UNCHANGED <<row, build>>
  BY DEF IInv, TypeOK
<1> QED
  BY ONLY IInv, x \in Tx, tx' = [tx EXCEPT ![x] = s], <1>17, <1>18, <1>19, OwnStep

\* "complete" and "fail".
LEMMA UpdateInv ==
  ASSUME IInv, NEW x \in Tx, Update(x)
  PROVE  IInv'
<1> DEFINE k == TaskOf[x]
           r == tx[x]
<1>1. r.pc = "update" /\ UNCHANGED <<row, build, aborts>> /\ r \in TxRecord
  BY DEF Update, IInv, TypeOK
<1>2. CASE tx' = [tx EXCEPT ![x].pc = "commit"]
  BY <1>1, <1>2, UpdateMisses
<1>3. CASE /\ Accept(k) /\ Free(x, k)
           /\ tx' = [tx EXCEPT ![x].pc = "walk", ![x].stack = <<Call(k)>>,
                               ![x].mine[k] = [row[k] EXCEPT !.st = "finished"],
                               ![x].holds = @ \cup {k}]
  <2> DEFINE m == [row[k] EXCEPT !.st = "finished"]
             s == [r EXCEPT !.pc = "walk", !.stack = <<Call(k)>>,
                            !.mine = [r.mine EXCEPT ![k] = m], !.holds = r.holds \cup {k}]
  <2>1. tx' = [tx EXCEPT ![x] = s]
    BY <1>1, <1>3 DEF IInv, TypeOK, TxRecord
  <2>2. row[k].st = "open" /\ Free(x, k)
    BY <1>3 DEF Accept
  <2> QED
    BY <1>1, <2>1, <2>2, UpdateWrites
<1>4. CASE /\ Accept(k) /\ Free(x, k)
           /\ tx' = [tx EXCEPT ![x].pc = "judge",
                               ![x].mine[k] = [row[k] EXCEPT !.st = "failed"],
                               ![x].holds = @ \cup {k}]
  <2> DEFINE m == [row[k] EXCEPT !.st = "failed"]
             s == [r EXCEPT !.pc = "judge", !.stack = <<>>,
                            !.mine = [r.mine EXCEPT ![k] = m], !.holds = r.holds \cup {k}]
  <2>1. r.stack = <<>>
    BY <1>1 DEF IInv, TxInv, Phase
  <2>2. tx' = [tx EXCEPT ![x] = s]
    BY <1>1, <1>4, <2>1, ZenonT(30) DEF IInv, TypeOK, TxRecord
  <2>3. row[k].st = "open" /\ Free(x, k)
    BY <1>4 DEF Accept
  <2> QED
    BY <1>1, <2>2, <2>3, UpdateWrites
<1> QED
  BY <1>2, <1>3, <1>4 DEF Update

\* "count_down": the row is written once for the dep that finished, and when the
\* count reaches zero it is ready, or cached and finished() in turn.
LEMMA CountDownInv ==
  ASSUME IInv, NEW x \in Tx, CountDown(x)
  PROVE  IInv'
<1>0. PICK r, k : r = tx[x] /\ k = TaskOf[x]
  OBVIOUS
<1>1. TxInv(r, k, row, build) /\ r \in TxRecord /\ r.pc = "walk" /\ k \in Task
  BY <1>0, TxAssumption DEF IInv, TxInv, CountDown
<1>2. r.stack \in Seq(Frame) /\ r.stack # <<>> /\ Finished(r, k)
  BY <1>1 DEF TxInv, Phase, TxRecord, Origin
<1>3. PICK u \in First(Top(x).todo) :
     LET n == View(x, u).pend - 1
         rest == [tx[x].stack EXCEPT ![1].todo = @ \ {u}] IN
     \E hit \in IF Zero(n) /\ u \in MayHit THEN BOOLEAN ELSE {FALSE} :
       tx' = [tx EXCEPT
         ![x].mine[u] = [st |-> IF ~Zero(n) THEN View(x, u).st
                                ELSE IF hit THEN "finished" ELSE "open",
                         pend |-> n],
         ![x].stack = IF hit THEN <<Call(u)>> \o rest ELSE rest]
  BY DEF CountDown
<1>4. Top(x) = r.stack[1] /\ r.stack[1] \in Frame /\ 1 \in 1 .. Len(r.stack)
  BY <1>0, <1>2 DEF Top
<1>5. u \in r.stack[1].todo /\ u \in Task /\ r.stack[1].lock = {} /\ r.stack[1].task \in Task
  BY <1>3, <1>4 DEF First, Frame, CountDown
<1>6. PICK d \in Task : d = r.stack[1].task
  BY <1>5
<1>7. d \in Deps[u] /\ Finished(r, d) /\ Owed(r, d, u)
  BY <1>1, <1>4, <1>5, <1>6 DEF TxInv, Calls, Dependents, Owed
<1>8. d \in Left(r, row, u) /\ d # u /\ u \notin Deps[u] /\ Deps[u] \subseteq Task
  BY <1>6, <1>5, <1>7, TxAssumption DEF Left
<1>9. See(r, row, u).st = "waiting" /\ See(r, row, u).pend = Cardinality(Left(r, row, u))
  BY <1>1, <1>5, <1>8 DEF TxInv, Counted
<1>10. Cardinality(Left(r, row, u)) \in Nat
       /\ Cardinality(Left(r, row, u) \ {d}) = Cardinality(Left(r, row, u)) - 1
       /\ (Cardinality(Left(r, row, u) \ {d}) = 0 <=> Left(r, row, u) \ {d} = {})
  BY <1>5, <1>8, DepsCounted DEF Left
<1>11. u \in r.holds /\ u # k /\ row[u].st = "waiting" /\ ~Finished(r, u)
  BY <1>1, <1>2, <1>4, <1>5, <1>9 DEF TxInv, Locked, Origin, Finished, Wrote, See
<1>12. PICK n, hit, m, f, q, s :
        /\ n = See(r, row, u).pend - 1
        /\ hit \in BOOLEAN /\ (hit => n = 0)
        /\ m = [st |-> IF n # 0 THEN See(r, row, u).st ELSE IF hit THEN "finished" ELSE "open",
                pend |-> n]
        /\ f = [r.stack[1] EXCEPT !.todo = @ \ {u}]
        /\ q = IF hit THEN <<Call(u)>> \o [r.stack EXCEPT ![1] = f] ELSE [r.stack EXCEPT ![1] = f]
        /\ s = [r EXCEPT !.mine = [r.mine EXCEPT ![u] = m], !.stack = q]
        /\ tx' = [tx EXCEPT ![x] = s]
  <2> DEFINE n == See(r, row, u).pend - 1
             rest == [r.stack EXCEPT ![1].todo = @ \ {u}]
  <2>1. PICK hit \in IF Zero(n) /\ u \in MayHit THEN BOOLEAN ELSE {FALSE} :
       tx' = [tx EXCEPT
         ![x].mine[u] = [st |-> IF ~Zero(n) THEN See(r, row, u).st
                                ELSE IF hit THEN "finished" ELSE "open",
                         pend |-> n],
         ![x].stack = IF hit THEN <<Call(u)>> \o rest ELSE rest]
    BY <1>0, <1>3 DEF View, See
  <2>2. hit \in BOOLEAN /\ (hit => n = 0)
    BY <2>1 DEF Zero
  <2> DEFINE m == [st |-> IF n # 0 THEN See(r, row, u).st ELSE IF hit THEN "finished" ELSE "open",
                   pend |-> n]
             f == [r.stack[1] EXCEPT !.todo = @ \ {u}]
             q == IF hit THEN <<Call(u)>> \o [r.stack EXCEPT ![1] = f]
                  ELSE [r.stack EXCEPT ![1] = f]
             s == [r EXCEPT !.mine = [r.mine EXCEPT ![u] = m], !.stack = q]
  <2>3. tx' = [tx EXCEPT ![x] = s]
    <3>1. rest = [r.stack EXCEPT ![1] = f]
      BY <1>2
    <3>2. m = [st |-> IF ~Zero(n) THEN See(r, row, u).st ELSE IF hit THEN "finished" ELSE "open",
                      pend |-> n]
      BY DEF Zero
    <3> HIDE DEF rest, m, f, n
    <3> QED
      BY <1>0, <1>1, <2>1, <3>1, <3>2 DEF IInv, TypeOK, TxRecord
  <2> QED
    BY <2>2, <2>3
<1>13. m \in Row /\ m # None /\ n \in Nat /\ m.pend = n
       /\ m.st = IF n # 0 THEN "waiting" ELSE IF hit THEN "finished" ELSE "open"
  <2>1. n = Cardinality(Left(r, row, u)) - 1 /\ n \in Nat
    <3>1. Cardinality(Left(r, row, u)) # 0
      BY <1>5, <1>8, DepsCounted DEF Left
    <3> QED
      BY <1>9, <1>10, <1>12, <3>1
  <2>2. m.pend = n /\ m.st = IF n # 0 THEN "waiting" ELSE IF hit THEN "finished" ELSE "open"
    BY <1>9, <1>12
  <2>3. m \in Row
    BY <1>9, <1>12, <2>1 DEF Row
  <2> QED
    BY <2>1, <2>2, <2>3, TxAssumption
<1>14. f \in Frame /\ f.task = d /\ f.todo = r.stack[1].todo \ {u} /\ f.lock = {}
  BY <1>4, <1>5, <1>6, <1>12 DEF Frame
<1> DEFINE rest == [r.stack EXCEPT ![1] = f]
<1>15. /\ rest \in Seq(Frame) /\ rest # <<>> /\ Len(rest) = Len(r.stack) /\ Len(rest) \in Nat
       /\ \A i \in 1 .. Len(rest) : rest[i] = IF i = 1 THEN f ELSE r.stack[i]
  BY <1>2, <1>14, TopChanged
<1>16. /\ Call(u) \in Frame /\ Call(u).task = u
       /\ Call(u).lock = Dependents(u) /\ Call(u).todo = Dependents(u)
  BY <1>5 DEF Call, Frame, Dependents
<1>17. q = IF hit THEN <<Call(u)>> \o rest ELSE rest
  BY <1>12
<1> HIDE DEF rest
<1>18. /\ q \in Seq(Frame) /\ q # <<>>
       /\ Len(q) = IF hit THEN Len(rest) + 1 ELSE Len(rest)
       /\ hit => q[1] = Call(u)
       /\ hit => \A i \in 1 .. Len(rest) : q[i + 1] = rest[i]
       /\ \A i \in 1 .. Len(q) : q[i] = IF hit THEN (IF i = 1 THEN Call(u) ELSE rest[i - 1]) ELSE rest[i]
  <2>1. CASE hit
    BY <1>15, <1>16, <1>17, <2>1, CallPushed
  <2>2. CASE ~hit
    BY <1>12, <1>15, <1>17, <2>2
  <2> QED
    BY <2>1, <2>2
<1>19. \A i \in 1 .. Len(q) : hit /\ i # 1 => i - 1 \in 1 .. Len(rest) /\ q[i] = rest[i - 1]
  BY <1>15, <1>18
<1>20. [r.mine EXCEPT ![u] = m] \in [Task -> Row \cup {None}]
  BY <1>1, <1>13 DEF TxRecord
<1>21. /\ s \in TxRecord /\ s.stack = q /\ s.holds = r.holds
       /\ s.pc = "walk" /\ s.verdict = r.verdict
       /\ s.mine = [r.mine EXCEPT ![u] = m]
  BY <1>1, <1>12, <1>18, <1>20 DEF TxRecord
<1>22. \A t \in Task : s.mine[t] = IF t = u THEN m ELSE r.mine[t]
  BY <1>1, <1>21 DEF TxRecord
<1>23. /\ \A t \in Task : See(s, row, t) = IF t = u THEN m ELSE See(r, row, t)
       /\ \A t \in Task : Wrote(s, t) <=> t = u \/ Wrote(r, t)
       /\ \A t \in Task : Finished(s, t) <=> IF t = u THEN hit ELSE Finished(r, t)
  BY <1>12, <1>13, <1>22 DEF See, Wrote, Finished

\* What the frames owe: (d, u) is struck off, and u's own dependents are added.
<1>24. \A e, v \in Task :
         Owed(s, e, v) <=> \/ hit /\ e = u /\ u \in Deps[v]
                           \/ Owed(r, e, v) /\ ~(e = d /\ v = u)
  <2>1. \A i \in 1 .. Len(rest) : rest[i].task = r.stack[i].task
                                  /\ rest[i].todo = IF i = 1 THEN r.stack[i].todo \ {u} ELSE r.stack[i].todo
    BY <1>6, <1>14, <1>15
  <2>2. \A i \in 1 .. Len(rest) : r.stack[i].task = d => i = 1
    BY <1>1, <1>4, <1>6, <1>15 DEF TxInv, Calls
  <2> SUFFICES ASSUME NEW e \in Task, NEW v \in Task
               PROVE  Owed(s, e, v) <=> \/ hit /\ e = u /\ u \in Deps[v]
                                        \/ Owed(r, e, v) /\ ~(e = d /\ v = u)
    OBVIOUS
  <2>3. (\E i \in 1 .. Len(rest) : rest[i].task = e /\ v \in rest[i].todo)
          <=> Owed(r, e, v) /\ ~(e = d /\ v = u)
    BY <1>6, <1>15, <2>1, <2>2 DEF Owed
  <2>4. CASE ~hit
    BY <1>18, <1>21, <1>15, <1>17, <2>3, <2>4 DEF Owed
  <2>5. CASE hit
    <3>1. Owed(s, e, v) <=>
            \/ Call(u).task = e /\ v \in Call(u).todo
            \/ \E i \in 1 .. Len(rest) : rest[i].task = e /\ v \in rest[i].todo
      <4>1. ASSUME Owed(s, e, v), ~(Call(u).task = e /\ v \in Call(u).todo)
            PROVE  \E i \in 1 .. Len(rest) : rest[i].task = e /\ v \in rest[i].todo
        <5>1. PICK i \in 1 .. Len(q) : q[i].task = e /\ v \in q[i].todo
          BY <1>21, <4>1 DEF Owed
        <5>2. i # 1 /\ i - 1 \in 1 .. Len(rest) /\ q[i] = rest[i - 1]
          BY <1>16, <1>18, <1>19, <2>5, <4>1, <5>1
        <5> QED
          BY <5>1, <5>2
      <4>2. ASSUME NEW i \in 1 .. Len(rest), rest[i].task = e /\ v \in rest[i].todo
            PROVE  Owed(s, e, v)
        <5>1. i + 1 \in 1 .. Len(q) /\ q[i + 1] = rest[i]
          BY <1>15, <1>18, <2>5, <4>2
        <5> QED
          BY <1>21, <4>2, <5>1 DEF Owed
      <4>3. ASSUME Call(u).task = e /\ v \in Call(u).todo
            PROVE  Owed(s, e, v)
        <5>1. 1 \in 1 .. Len(q) /\ q[1] = Call(u)
          BY <1>15, <1>18, <2>5
        <5> QED
          BY <1>21, <4>3, <5>1 DEF Owed
      <4> QED
        BY <4>1, <4>2, <4>3
    <3>2. (Call(u).task = e /\ v \in Call(u).todo) <=> e = u /\ u \in Deps[v]
      BY <1>16 DEF Dependents
    <3> QED
      BY <2>3, <2>5, <3>1, <3>2
  <2> QED
    BY <1>12, <2>4, <2>5
<1>25. Locked(s, build)
  <2>1. \A t \in Task : Wrote(s, t) => t \in s.holds
    BY <1>1, <1>11, <1>21, <1>23 DEF TxInv, Locked
  <2>2. \A i \in 1 .. Len(rest) : rest[i].todo \subseteq rest[i].lock \cup r.holds
    BY <1>1, <1>5, <1>14, <1>15 DEF TxInv, Locked
  <2>3. \A i \in 1 .. Len(q) : q[i].todo \subseteq q[i].lock \cup r.holds
    <3> TAKE i \in 1 .. Len(q)
    <3>1. CASE hit /\ i = 1
      BY <1>16, <1>18, <3>1
    <3>2. CASE hit /\ i # 1
      BY <1>19, <2>2, <3>2
    <3>3. CASE ~hit
      BY <1>18, <2>2, <3>3
    <3> QED
      BY <1>12, <3>1, <3>2, <3>3
  <2> QED
    BY <1>1, <1>21, <2>1, <2>3 DEF TxInv, Locked
<1>26. Origin(s, k, row)
  <2>1. \A t \in Task : Wrote(s, t) =>
          IF t = k THEN row[t].st = "open" /\ s.mine[t].st \in {"finished", "failed"}
                   ELSE row[t].st = "waiting" /\ s.mine[t].st \in {"waiting", "open", "finished"}
    BY <1>1, <1>11, <1>13, <1>22, <1>23 DEF TxInv, Origin
  <2>2. Finished(s, k)
    BY <1>1, <1>2, <1>11, <1>23
  <2> QED
    BY <2>1, <2>2 DEF Origin
<1>27. Phase(s)
  BY <1>18, <1>21 DEF Phase
<1>28. Calls(s)
  <2>1. \A i \in 1 .. Len(rest) :
          /\ rest[i].task \in Task /\ Finished(r, rest[i].task) /\ rest[i].task # u
          /\ rest[i].todo \subseteq Dependents(rest[i].task)
    <3> TAKE i \in 1 .. Len(rest)
    <3>1. r.stack[i].task = rest[i].task /\ rest[i].todo \subseteq r.stack[i].todo
      BY <1>6, <1>14, <1>15
    <3>2. Finished(r, r.stack[i].task) /\ r.stack[i].todo \subseteq Dependents(r.stack[i].task)
      BY <1>1, <1>15 DEF TxInv, Calls
    <3>3. rest[i] \in Frame
      BY <1>15
    <3> QED
      BY <1>11, <3>1, <3>2, <3>3 DEF Frame
  <2>2. \A i, j \in 1 .. Len(rest) : rest[i].task = rest[j].task => i = j
    <3>1. \A i \in 1 .. Len(rest) : rest[i].task = r.stack[i].task
      BY <1>6, <1>14, <1>15
    <3> QED
      BY <1>1, <1>15, <3>1 DEF TxInv, Calls
  <2>3. \A i \in 1 .. Len(q) : Finished(s, q[i].task) /\ q[i].todo \subseteq Dependents(q[i].task)
    <3> TAKE i \in 1 .. Len(q)
    <3>1. CASE hit /\ i = 1
      BY <1>5, <1>16, <1>18, <1>23, <3>1
    <3>2. CASE hit /\ i # 1
      BY <1>23, <1>19, <2>1, <3>2
    <3>3. CASE ~hit
      BY <1>18, <1>23, <2>1, <3>3
    <3> QED
      BY <1>12, <3>1, <3>2, <3>3
  <2>4. ASSUME NEW i \in 1 .. Len(q), NEW j \in 1 .. Len(q), q[i].task = q[j].task
        PROVE  i = j
    <3>1. CASE ~hit
      BY <1>18, <2>2, <2>4, <3>1
    <3>2. CASE hit /\ i # 1 /\ j # 1
      <4>1. i - 1 \in 1 .. Len(rest) /\ j - 1 \in 1 .. Len(rest)
            /\ q[i] = rest[i - 1] /\ q[j] = rest[j - 1]
        BY <1>15, <1>18, <3>2
      <4>2. i - 1 = j - 1
        BY <2>2, <2>4, <4>1
      <4> QED
        BY <4>2
    <3>3. CASE hit /\ (i = 1 \/ j = 1)
      <4>1. \A a \in 1 .. Len(q) : a # 1 => q[a].task # u
        BY <1>19, <2>1, <3>3
      <4>2. q[1].task = u
        BY <1>16, <1>18, <3>3
      <4> QED
        BY <2>4, <3>3, <4>1, <4>2
    <3> QED
      BY <1>12, <3>1, <3>2, <3>3
  <2> QED
    BY <1>21, <2>3, <2>4 DEF Calls
<1>29. Covered(s)
  <2> SUFFICES ASSUME NEW e \in Task, NEW v \in Task, Finished(s, e), e \in Deps[v]
               PROVE  Wrote(s, v) \/ Owed(s, e, v)
    BY DEF Covered
  <2>1. CASE e = u
    BY <1>23, <1>24, <2>1
  <2>2. CASE e # u
    BY <1>1, <1>23, <1>24, <2>2 DEF TxInv, Covered
  <2> QED
    BY <2>1, <2>2
<1>30. Counted(s, row)
  <2> SUFFICES ASSUME NEW v \in Task
               PROVE  /\ See(s, row, v).pend = Cardinality(Left(s, row, v))
                      /\ See(s, row, v).st = "waiting" <=> Left(s, row, v) # {}
    BY DEF Counted
  <2>1. CASE v = u
    <3>1. Left(s, row, u) = Left(r, row, u) \ {d}
      <4>1. ASSUME NEW e \in Deps[u] PROVE e \in Left(s, row, u) <=> e \in Left(r, row, u) /\ e # d
        <5>1. e \in Task /\ e # u
          BY <1>8
        <5>2. CASE e = d
          <6>1. See(s, row, d).st = "finished" /\ ~Owed(s, d, u)
            BY <1>5, <1>7, <1>8, <1>23, <1>24 DEF See, Finished
          <6> QED
            BY <5>2, <6>1 DEF Left
        <5>3. CASE e # d
          BY <1>5, <1>23, <1>24, <5>1, <5>3 DEF Left
        <5> QED
          BY <5>2, <5>3
      <4> QED
        BY <4>1 DEF Left
    <3> QED
      BY <1>5, <1>9, <1>10, <1>12, <1>13, <1>23, <2>1, <3>1
  <2>2. CASE v # u
    <3>1. Left(s, row, v) = Left(r, row, v)
      <4>1. ASSUME NEW e \in Deps[v] PROVE e \in Left(s, row, v) <=> e \in Left(r, row, v)
        <5>1. e \in Task
          BY TxAssumption
        <5>2. CASE e = u
          BY <1>5, <1>9, <1>13, <1>23, <1>24, <5>2 DEF Left
        <5>3. CASE e # u
          BY <1>5, <1>23, <1>24, <2>2, <5>1, <5>3 DEF Left
        <5> QED
          BY <5>2, <5>3
      <4> QED
        BY <4>1 DEF Left
    <3> QED
      BY <1>1, <1>23, <2>2, <3>1 DEF TxInv, Counted
  <2> QED
    BY <2>1, <2>2
<1>31. Judged(s, row)
  <2>1. r.verdict # "done"
    BY <1>1, <1>5, <1>9 DEF TxInv, Judged
  <2>2. r.verdict = "failed" => \E t \in Task : See(s, row, t).st = "failed"
    BY <1>1, <1>9, <1>23 DEF TxInv, Judged
  <2> QED
    BY <1>21, <2>1, <2>2 DEF Judged
<1>32. TxInv(s, TaskOf[x], row, build)
  BY <1>0, <1>21, <1>25, <1>26, <1>27, <1>28, <1>29, <1>30, <1>31 DEF TxInv
<1>33. \A y \in Tx : y # x => s.holds \cap tx[y].holds = {}
  BY <1>0, <1>21 DEF IInv, Exclusive
<1>34. UNCHANGED <<row, build>> /\ aborts' \in 0 .. MaxAborts
  BY DEF CountDown, IInv, TypeOK
<1>35. tx' = [tx EXCEPT ![x] = s]
  BY <1>12
<1> QED
  BY ONLY IInv, x \in Tx, <1>32, <1>33, <1>34, <1>35, OwnStep

-----------------------------------------------------------------------------
(* COMMIT *)

\* What a transaction that is about to commit knows: its calls have returned, so
\* every dependent of a task it finished has been counted down by it.
LEMMA ReadyToCommit ==
  ASSUME IInv, NEW y \in Tx, tx[y].pc = "commit"
  PROVE  /\ TxInv(tx[y], TaskOf[y], row, build)
         /\ \A d, u \in Task : ~Owed(tx[y], d, u)
         /\ \A d, u \in Task : Finished(tx[y], d) /\ d \in Deps[u] => Wrote(tx[y], u)
         /\ \A u \in Task : Left(tx[y], row, u) = {d \in Deps[u] : View(y, d).st # "finished"}
         /\ \A t \in Task : View(y, t) = See(tx[y], row, t) /\ View(y, t) \in Row
         /\ \A t \in Task : row[t].st \in {"finished", "failed"} => ~Wrote(tx[y], t)
         /\ \A t \in Task : ~Wrote(tx[y], t) => View(y, t) = row[t]
         /\ \A t \in Task : Wrote(tx[y], t) => t \in tx[y].holds
<1>1. TxInv(tx[y], TaskOf[y], row, build)
  BY DEF IInv
<1>2. tx[y].stack = <<>>
  BY <1>1 DEF TxInv, Phase
<1>3. \A d, u \in Task : ~Owed(tx[y], d, u)
  BY <1>2 DEF Owed
<1>4. \A t \in Task : View(y, t) = See(tx[y], row, t)
  BY DEF View, See
<1>5. \A t \in Task : View(y, t) \in Row
  BY <1>1 DEF View, TxInv, TxRecord, IInv, TypeOK
<1>6. \A u \in Task : Left(tx[y], row, u) = {d \in Deps[u] : View(y, d).st # "finished"}
  BY <1>3, <1>4, TxAssumption DEF Left
<1>7. \A d, u \in Task : Finished(tx[y], d) /\ d \in Deps[u] => Wrote(tx[y], u)
  BY <1>1, <1>3 DEF TxInv, Covered
<1>8. \A t \in Task : row[t].st \in {"finished", "failed"} => ~Wrote(tx[y], t)
  BY <1>1 DEF TxInv, Origin
<1>9. \A t \in Task : ~Wrote(tx[y], t) => View(y, t) = row[t]
  BY DEF View, Wrote
<1>10. \A t \in Task : Wrote(tx[y], t) => t \in tx[y].holds
  BY <1>1 DEF TxInv, Locked
<1> QED
  BY <1>1, <1>3, <1>4, <1>5, <1>6, <1>7, <1>8, <1>9, <1>10

\* A commit of y changes nothing that an overlapping transaction x relies on: the
\* rows x wrote are locked, and a row x has only read is exact for it again.
LEMMA CommitElsewhere ==
  ASSUME IInv, NEW y \in Tx, Commit(y), NEW x \in Tx, x # y
  PROVE  TxInv(tx[x], TaskOf[x], row', build')
<1>0. PICK r, p, k : r = tx[x] /\ p = tx[y] /\ k = TaskOf[x]
  OBVIOUS
<1>1. TxInv(r, k, row, build) /\ r \in TxRecord
  BY <1>0 DEF IInv, TxInv
<1>2. tx[y].pc = "commit"
  BY DEF Commit
<1>3. \A t \in Task : row'[t] = View(y, t)
  BY DEF Commit
<1>4. \A t \in Task : Wrote(r, t) => ~Wrote(p, t) /\ row'[t] = row[t]
  <2>1. \A t \in Task : Wrote(r, t) => t \in r.holds
    BY <1>1 DEF TxInv, Locked
  <2>2. r.holds \cap p.holds = {}
    BY <1>0 DEF IInv, Exclusive
  <2> QED
    BY <1>0, <1>2, <1>3, <2>1, <2>2, ReadyToCommit
<1>5. Locked(r, build')
  <2>1. r.verdict # None => build' = "running"
    <3>1. r.verdict # None => BuildRow \notin p.holds /\ build = "running"
      BY <1>0, <1>1 DEF TxInv, Locked, IInv, Exclusive
    <3>2. p.verdict # None => BuildRow \in p.holds
      BY <1>0, <1>2, ReadyToCommit DEF TxInv, Locked
    <3> QED
      BY <1>0, <3>1, <3>2 DEF Commit
  <2> QED
    BY <1>1, <2>1 DEF TxInv, Locked
<1>6. Origin(r, k, row')
  BY <1>1, <1>4 DEF TxInv, Origin
<1>7. \A t \in Task : See(r, row', t) = IF Wrote(r, t) THEN See(r, row, t) ELSE View(y, t)
  BY <1>3 DEF See, Wrote
<1>8. \A t \in Task : row[t].st \in {"finished", "failed"} => row'[t] = row[t]
  BY <1>0, <1>2, <1>3, ReadyToCommit
<1>9. Judged(r, row')
  <2>1. \A t \in Task : See(r, row, t).st \in {"finished", "failed"} => See(r, row', t) = See(r, row, t)
    BY <1>8 DEF See
  <2> QED
    BY <1>1, <2>1 DEF TxInv, Judged

\* A dep that one of the two wrote was unfinished before, for both.
<1>10. \A d \in Task : Wrote(r, d) \/ Wrote(p, d) => row[d].st # "finished"
  BY <1>0, <1>1, <1>2, ReadyToCommit DEF TxInv, Origin
<1>11. \A d, u \in Task : Owed(r, d, u) => Finished(r, d)
  BY <1>1 DEF TxInv, Calls, Owed
<1>12. ASSUME NEW u \in Task, Wrote(r, u)
       PROVE  Left(r, row', u) = Left(r, row, u)
  <2>1. ASSUME NEW d \in Deps[u]
        PROVE  See(r, row', d).st # "finished" <=> See(r, row, d).st # "finished"
    <3>1. d \in Task
      BY TxAssumption
    <3>2. CASE Wrote(r, d) \/ ~Wrote(p, d)
      <4>1. row'[d] = row[d]
        BY <1>0, <1>2, <1>3, <1>4, <3>1, <3>2, ReadyToCommit
      <4> QED
        BY <4>1 DEF See
    <3>3. CASE ~Wrote(r, d) /\ Wrote(p, d)
      <4>1. ~Finished(p, d)
        BY <1>0, <1>2, <1>4, <1>12, <3>1, ReadyToCommit
      <4>2. View(y, d).st # "finished"
        BY <1>0, <3>3, <4>1 DEF View, Finished, Wrote
      <4> QED
        BY <1>3, <1>10, <3>1, <3>3, <4>2 DEF See, Wrote
    <3> QED
      BY <3>2, <3>3
  <2> QED
    BY <2>1 DEF Left
<1>13. ASSUME NEW u \in Task, ~Wrote(r, u)
       PROVE  Left(r, row', u) = Left(p, row, u)
  <2>1. ASSUME NEW d \in Deps[u]
        PROVE  See(r, row', d).st # "finished" \/ Owed(r, d, u) <=> View(y, d).st # "finished"
    <3>1. d \in Task
      BY TxAssumption
    <3>2. CASE Wrote(r, d)
      <4>1. View(y, d).st # "finished"
        BY <1>0, <1>2, <1>4, <1>10, <3>1, <3>2, ReadyToCommit
      <4>2. See(r, row', d).st # "finished" \/ Owed(r, d, u)
        BY <1>1, <1>7, <1>13, <3>1, <3>2 DEF TxInv, Covered, Finished, Wrote, See
      <4> QED
        BY <4>1, <4>2
    <3>3. CASE ~Wrote(r, d)
      BY <1>7, <1>11, <3>1, <3>3 DEF Finished, Wrote
    <3> QED
      BY <3>2, <3>3
  <2>2. Left(p, row, u) = {d \in Deps[u] : View(y, d).st # "finished"}
    BY <1>0, <1>2, ReadyToCommit
  <2> QED
    BY <2>1, <2>2 DEF Left
<1>14. Counted(r, row')
  <2> SUFFICES ASSUME NEW u \in Task
               PROVE  /\ See(r, row', u).pend = Cardinality(Left(r, row', u))
                      /\ See(r, row', u).st = "waiting" <=> Left(r, row', u) # {}
    BY DEF Counted
  <2>1. CASE Wrote(r, u)
    BY <1>1, <1>7, <1>12, <2>1 DEF TxInv, Counted
  <2>2. CASE ~Wrote(r, u)
    <3>1. See(r, row', u) = See(p, row, u)
      BY <1>0, <1>2, <1>7, <2>2, ReadyToCommit
    <3>2. Counted(p, row)
      BY <1>0, <1>2, ReadyToCommit DEF TxInv
    <3> QED
      BY <1>13, <2>2, <3>1, <3>2 DEF Counted
  <2> QED
    BY <2>1, <2>2
<1> QED
  BY <1>0, <1>1, <1>5, <1>6, <1>9, <1>14 DEF TxInv

\* COMMIT: the rows become what the transaction saw.
LEMMA CommitInv ==
  ASSUME IInv, NEW y \in Tx, Commit(y)
  PROVE  IInv'
<1>1. tx[y].pc = "commit" /\ aborts' = aborts
  BY DEF Commit
<1>2. row' = [t \in Task |-> View(y, t)] /\ row' \in [Task -> Row]
  BY <1>1, ReadyToCommit DEF Commit
<1>3. build' \in {"running", "done", "failed"}
  BY <1>1, ReadyToCommit DEF Commit, TxInv, TxRecord, Opinion, IInv, TypeOK
<1>4. /\ tx' = [tx EXCEPT ![y] = [Fresh EXCEPT !.pc = "done"]]
      /\ tx'[y] = [Fresh EXCEPT !.pc = "done"]
      /\ \A x \in Tx : x # y => tx'[x] = tx[x]
  BY DEF Commit, IInv, TypeOK
<1>5. CountExact'
  <2> SUFFICES ASSUME NEW t \in Task
               PROVE  LET left == {d \in Deps[t] : row'[d].st # "finished"} IN
                      /\ row'[t].pend = Cardinality(left)
                      /\ row'[t].st = "waiting" <=> left # {}
    BY DEF CountExact
  <2>1. {d \in Deps[t] : row'[d].st # "finished"} = Left(tx[y], row, t)
    BY <1>1, <1>2, ReadyToCommit, TxAssumption
  <2>2. /\ row'[t].pend = Cardinality(Left(tx[y], row, t))
        /\ row'[t].st = "waiting" <=> Left(tx[y], row, t) # {}
    <3>1. row'[t] = See(tx[y], row, t)
      BY <1>1, <1>2, ReadyToCommit
    <3>2. Counted(tx[y], row)
      BY <1>1, ReadyToCommit DEF TxInv
    <3> QED
      BY <3>1, <3>2 DEF Counted
  <2> QED
    BY <2>1, <2>2
<1>6. TxInv(tx'[y], TaskOf[y], row', build')
  BY <1>4, <1>5, FreshInv, TxAssumption DEF CountExact, Exact
<1>7. \A x \in Tx : TxInv(tx'[x], TaskOf[x], row', build')
  BY <1>4, <1>6, CommitElsewhere
<1>8. Exclusive'
  <2>1. tx'[y].holds = {}
    <3>1. [Fresh EXCEPT !.pc = "done"].holds = {}
      BY DEF Fresh
    <3> QED
      BY ONLY <1>4, <3>1
  <2> QED
    BY <1>4, <2>1 DEF IInv, Exclusive
<1>9. TypeOK'
  <2>1. \A x \in Tx : tx'[x] \in TxRecord
    BY <1>7 DEF TxInv
  <2>2. tx' \in [Tx -> TxRecord]
    BY <1>4, <2>1 DEF IInv, TypeOK
  <2> QED
    BY <1>1, <1>2, <1>3, <2>2 DEF IInv, TypeOK
<1> QED
  BY <1>5, <1>7, <1>8, <1>9 DEF IInv

-----------------------------------------------------------------------------
(* All steps *)

\* The rows as submit leaves them.
LEMMA InitInv ==
  ASSUME Init
  PROVE  IInv
<1>1. \A t \in Task : row[t] = [st |-> IF Deps[t] = {} THEN "open" ELSE "waiting",
                                pend |-> Cardinality(Deps[t])]
  BY DEF Init
<1>2. \A t \in Task : Cardinality(Deps[t]) \in Nat /\ Deps[t] \subseteq Task
  BY DepsCounted, TxAssumption
<1>3. row \in [Task -> Row]
  <2>1. \A t \in Task : [st |-> IF Deps[t] = {} THEN "open" ELSE "waiting",
                         pend |-> Cardinality(Deps[t])] \in Row
    BY <1>2 DEF Row
  <2> QED
    BY <2>1 DEF Init
<1>4. Exact(row)
  <2>1. ASSUME NEW t \in Task
        PROVE  row[t].st = (IF Deps[t] = {} THEN "open" ELSE "waiting")
               /\ row[t].pend = Cardinality(Deps[t])
    <3>1. row[t] = [st |-> IF Deps[t] = {} THEN "open" ELSE "waiting",
                    pend |-> Cardinality(Deps[t])]
      BY <1>1
    <3> QED
      BY ONLY <3>1
  <2>2. ASSUME NEW t \in Task
        PROVE  row[t].st # "finished" /\ (row[t].st = "waiting" <=> Deps[t] # {})
    <3>1. CASE Deps[t] = {}
      BY <2>1, <3>1
    <3>2. CASE Deps[t] # {}
      BY <2>1, <3>2
    <3> QED
      BY <3>1, <3>2
  <2>3. \A u \in Task : {d \in Deps[u] : row[d].st # "finished"} = Deps[u]
    BY <1>2, <2>2
  <2> QED
    BY <2>1, <2>2, <2>3 DEF Exact
<1>5. \A x \in Tx : tx[x] = Fresh
  BY DEF Init
<1>6. \A x \in Tx : TxInv(tx[x], TaskOf[x], row, build)
  BY <1>4, <1>5, FreshInv, TxAssumption
<1>7. TypeOK
  <2>1. \A x \in Tx : Fresh \in TxRecord
    BY <1>5, <1>6 DEF TxInv
  <2> QED
    BY <1>3, <2>1, TxAssumption DEF Init, TypeOK
<1>8. Exclusive
  BY <1>5 DEF Exclusive, Fresh
<1> QED
  BY <1>4, <1>6, <1>7, <1>8 DEF IInv, Exact, CountExact

\* ROLLBACK, for a deadlock or a lost connection.
LEMMA RollbackInv ==
  ASSUME IInv, NEW x \in Tx, tx' = [tx EXCEPT ![x] = RolledBack(x)],
         UNCHANGED <<row, build>>, aborts' \in 0 .. MaxAborts
  PROVE  IInv'
<1>1. Exact(row)
  BY DEF IInv, CountExact, Exact
<1>2. TxInv(Fresh, TaskOf[x], row, build)
  BY <1>1, FreshInv, TxAssumption
<1>3. \A y \in Tx : y # x => Fresh.holds \cap tx[y].holds = {}
  BY DEF Fresh
<1>4. tx' = [tx EXCEPT ![x] = Fresh]
  BY DEF RolledBack
<1> QED
  BY <1>2, <1>3, <1>4, OwnStep

\* A step that changes queues only.
LEMMA WaitInv ==
  ASSUME IInv, UNCHANGED <<row, build, tx, aborts>>
  PROVE  IInv'
<1>1. row' = row /\ build' = build /\ tx' = tx /\ aborts' = aborts
  OBVIOUS
<1>2. TypeOK'
  BY <1>1 DEF IInv, TypeOK
<1>3. CountExact'
  BY <1>1 DEF IInv, CountExact
<1>4. Exclusive'
  BY <1>1 DEF IInv, Exclusive
<1>5. \A x \in Tx : TxInv(tx[x], TaskOf[x], row, build)
  BY DEF IInv
<1>6. \A x \in Tx : TxInv(tx'[x], TaskOf[x], row', build')
  BY <1>1, <1>5
<1> QED
  BY <1>2, <1>3, <1>4, <1>6 DEF IInv

\* Every step keeps the invariant.
LEMMA NextInv ==
  ASSUME IInv, [Next]_vars
  PROVE  IInv'
<1>1. ASSUME NEW x \in Tx, Statement(x) PROVE IInv'
  <2>1. CASE Wait(x)
    BY <2>1, WaitInv DEF Wait
  <2> QED
    BY <1>1, <2>1, BeginInv, UpdateInv, LockDependentInv, CountDownInv, ReturnInv, JudgeInv,
       SetVerdictInv, CommitInv
    DEF Statement
<1>2. ASSUME NEW x \in Tx, DeadlockVictim(x) PROVE IInv'
  BY <1>2, RollbackInv DEF DeadlockVictim, IInv, TypeOK
<1>3. ASSUME NEW x \in Tx, ConnectionLost(x) PROVE IInv'
  <2>1. aborts' \in 0 .. MaxAborts
    BY <1>3, TxAssumption DEF ConnectionLost, IInv, TypeOK
  <2> QED
    BY <1>3, <2>1, RollbackInv DEF ConnectionLost
<1>4. CASE UNCHANGED vars
  BY <1>4, WaitInv DEF vars
<1> QED
  BY <1>1, <1>2, <1>3, <1>4 DEF Next, Quiet

\* The inductive invariant holds of every run.
THEOREM TxInvariant == Spec => []IInv
<1>1. Init => IInv
  BY InitInv
<1>2. IInv /\ [Next]_vars => IInv'
  BY NextInv
<1> QED
  BY <1>1, <1>2, PTL DEF Spec

\* pending_deps is exact in the committed table, whatever overlaps.
THEOREM CountsExact == Spec => []CountExact
<1>1. IInv => CountExact
  BY DEF IInv
<1> QED
  BY <1>1, TxInvariant, PTL

\* make_ready computes a key only from outputs that its transaction sees.
THEOREM KeysFromOutputs == Spec => []OutputsVisible
<1>1. IInv => OutputsVisible
  <2> SUFFICES ASSUME IInv, NEW x \in Tx, NEW u \in Task, View(x, u).st # "waiting", NEW d \in Deps[u]
               PROVE  View(x, d).st = "finished"
    BY DEF OutputsVisible
  <2>1. d \in Task
    BY TxAssumption
  <2>2. Left(tx[x], row, u) = {}
    BY DEF IInv, TxInv, Counted, View, See
  <2> QED
    BY <2>1, <2>2 DEF Left, View, See
<1> QED
  BY <1>1, TxInvariant, PTL

-----------------------------------------------------------------------------
(* Commits are steps of the build graph *)

\* What the committed verdict may become.
LEMMA VerdictAllowed ==
  ASSUME IInv, NEW y \in Tx, Commit(y), NEW b, b = BuildRow
  PROVE  build' \in Abs!Judgements(b, build, [t \in Task |-> row'[t].st])
<1>1. tx[y].pc = "commit"
  BY DEF Commit
<1>2. TxInv(tx[y], TaskOf[y], row, build) /\ \A t \in Task : row'[t] = See(tx[y], row, t)
  BY <1>1, ReadyToCommit DEF Commit
<1>3. Abs!Rows(b) = Task
  BY DEF Abs!Rows
<1>4. CASE tx[y].verdict = None
  BY <1>4 DEF Commit, Abs!Judgements
<1>5. CASE tx[y].verdict # None
  <2>1. build = "running" /\ build' = tx[y].verdict /\ build' \in {"done", "failed"}
    BY <1>2, <1>5 DEF TxInv, Locked, Commit, TxRecord, Opinion
  <2>2. IF build' = "done" THEN \A t \in Task : row'[t].st = "finished"
                           ELSE \E t \in Task : row'[t].st = "failed"
    BY <1>2, <2>1 DEF TxInv, Judged
  <2> QED
    BY <1>3, <2>1, <2>2 DEF Abs!Judgements
<1> QED
  BY <1>4, <1>5

\* A commit that finished its task is Finish: F are the dependents the cache had.
LEMMA CommitFinishes ==
  ASSUME IInv, NEW y \in Tx, Commit(y), Finished(tx[y], TaskOf[y])
  PROVE  Abs!Finish(TaskOf[y])
<1>0. PICK k, p : k = TaskOf[y] /\ p = tx[y]
  OBVIOUS
<1>1. p.pc = "commit" /\ k \in Task
  BY <1>0, TxAssumption DEF Commit
<1>2. TxInv(p, k, row, build) /\ (\A t \in Task : row'[t] = See(p, row, t))
  BY <1>0, <1>1, ReadyToCommit DEF Commit
<1>3. row[k].st = "open" /\ row'[k].st = "finished"
  BY <1>0, <1>1, <1>2 DEF TxInv, Origin, Finished, Wrote, See
<1> DEFINE F == {u \in Task : u # k /\ Finished(p, u)}
           Fin == {t \in Task : row[t].st = "finished"}
<1>4. \A u \in Task : row'[u].st = "finished" <=> u \in Fin \cup F \cup {k}
  BY <1>2, <1>3 DEF TxInv, Origin, Finished, Wrote, See
<1>5. \A u \in Task : row'[u].st = "waiting" <=> ~(Deps[u] \subseteq Fin \cup F \cup {k})
  <2> TAKE u \in Task
  <2>1. row'[u].st = "waiting" <=> Left(p, row, u) # {}
    BY <1>2 DEF TxInv, Counted
  <2>2. Left(p, row, u) = {d \in Deps[u] : row'[d].st # "finished"}
    <3>1. tx[y].pc = "commit"
      BY <1>0, <1>1
    <3>2. /\ Left(p, row, u) = {d \in Deps[u] : View(y, d).st # "finished"}
          /\ \A t \in Task : View(y, t) = See(p, row, t)
      BY <1>0, <3>1, ReadyToCommit
    <3>3. \A d \in Deps[u] : d \in Task
      BY TxAssumption
    <3>4. \A d \in Deps[u] : View(y, d) = row'[d]
      BY <1>2, <3>2, <3>3
    <3> QED
      BY <3>2, <3>4
  <2>3. Left(p, row, u) # {} <=> ~(Deps[u] \subseteq Fin \cup F \cup {k})
    BY <1>4, <2>2, TxAssumption
  <2> QED
    BY <2>1, <2>3
<1>6. \A u \in F : row[u].st = "waiting" /\ Deps[u] \subseteq Fin \cup F \cup {k}
  BY <1>2, <1>4, <1>5 DEF TxInv, Origin, Finished, Wrote
<1>7. \A u \in Task : row'[u].st = IF u \in F \cup {k} THEN "finished"
                                   ELSE IF row[u].st = "waiting" /\ Deps[u] \subseteq Fin \cup F \cup {k}
                                   THEN "open" ELSE row[u].st
  <2> TAKE u \in Task
  <2>1. CASE u \in F \cup {k}
    BY <1>4, <2>1
  <2>2. CASE u \notin F \cup {k} /\ ~Wrote(p, u)
    <3>1. row'[u] = row[u]
      BY <1>2, <2>2 DEF See, Wrote
    <3> QED
      BY <1>5, <2>2, <3>1
  <2>3. CASE u \notin F \cup {k} /\ Wrote(p, u)
    <3>1. row[u].st = "waiting" /\ row'[u].st \in {"waiting", "open", "finished"}
      BY <1>2, <2>3 DEF TxInv, Origin, Wrote, See
    <3>2. row'[u].st # "finished"
      BY <1>4, <2>3, <3>1
    <3> QED
      BY <1>5, <2>3, <3>1, <3>2
  <2> QED
    BY <2>1, <2>2, <2>3
<1>8. build' \in Abs!Judgements(BuildRow, build, [t \in Task |-> row'[t].st])
  BY VerdictAllowed
<1>9. build' \in {"running", "done", "failed"}
  BY <1>0, <1>2 DEF Commit, TxInv, TxRecord, Opinion, IInv, TypeOK
<1>10. Abs!Judge({BuildRow})
  BY <1>8, <1>9 DEF Abs!Judge
<1>11. Abs!Done = Fin /\ Abs!Rows(BuildRow) = Task
  BY DEF Abs!Done, Abs!Rows
<1>12. [t \in Task |-> row'[t].st] = [u \in Task |->
          IF u \in F \cup {k} THEN "finished"
          ELSE IF row[u].st = "waiting" /\ Deps[u] \subseteq Fin \cup F \cup {k}
          THEN "open" ELSE row[u].st]
  BY <1>7
<1>13. F \in SUBSET Task
  OBVIOUS
<1> DEFINE status == [t \in Task |-> row[t].st]
<1> HIDE DEF F, Fin
<1>14. \A u \in Task : status[u] = row[u].st
  OBVIOUS
<1>15. status' = [u \in Task |->
          IF u \in F \cup {k} THEN "finished"
          ELSE IF status[u] = "waiting" /\ Deps[u] \subseteq Abs!Done \cup F \cup {k}
          THEN "open" ELSE status[u]]
  BY <1>11, <1>12, <1>14
<1>16. \A u \in F : status[u] = "waiting" /\ Deps[u] \subseteq Abs!Done \cup F \cup {k}
  BY <1>6, <1>11, <1>13, <1>14
<1>17. status[k] = "open" /\ [t \in Task |-> BuildRow][k] = BuildRow
  BY <1>1, <1>3
<1>18. F \in SUBSET Abs!Rows([t \in Task |-> BuildRow][k])
  BY <1>11, <1>13, <1>17
<1>19. Abs!Judge({[t \in Task |-> BuildRow][k]})
  BY <1>10, <1>17
<1>20. Abs!Finish(k)
  BY ONLY <1>15, <1>16, <1>17, <1>18, <1>19, Zenon DEF Abs!Finish
<1> QED
  BY <1>0, <1>20

\* A commit that failed its task is Fail of that one task.
LEMMA CommitFails ==
  ASSUME IInv, NEW y \in Tx, Commit(y), Wrote(tx[y], TaskOf[y]), ~Finished(tx[y], TaskOf[y])
  PROVE  Abs!Fail({TaskOf[y]})
<1>0. PICK k, p : k = TaskOf[y] /\ p = tx[y]
  OBVIOUS
<1>1. p.pc = "commit" /\ k \in Task
  BY <1>0, TxAssumption DEF Commit
<1>2. TxInv(p, k, row, build) /\ (\A t \in Task : row'[t] = See(p, row, t))
  BY <1>0, <1>1, ReadyToCommit DEF Commit
<1>3. row[k].st = "open" /\ row'[k].st = "failed"
  BY <1>0, <1>1, <1>2 DEF TxInv, Origin, Finished, Wrote, See
<1>4. \A t \in Task : t # k => row'[t] = row[t]
  BY <1>0, <1>2 DEF TxInv, Origin, Wrote, See
<1>5. build' \in Abs!Judgements(BuildRow, build, [t \in Task |-> row'[t].st])
  BY VerdictAllowed
<1>6. build' \in {"running", "done", "failed"}
  BY <1>0, <1>2 DEF Commit, TxInv, TxRecord, Opinion, IInv, TypeOK
<1>7. Abs!Judge({BuildRow})
  BY <1>5, <1>6 DEF Abs!Judge
<1> DEFINE status == [t \in Task |-> row[t].st]
<1>8. status' = [t \in Task |-> IF t \in {k} THEN "failed" ELSE status[t]]
  BY <1>1, <1>3, <1>4
<1>9. \A t \in {k} : status[t] = "open"
  BY <1>1, <1>3
<1>10. {[t \in Task |-> BuildRow][u] : u \in {k}} = {BuildRow}
  BY <1>1
<1>11. Abs!Fail({k})
  BY ONLY <1>7, <1>8, <1>9, <1>10 DEF Abs!Fail
<1> QED
  BY <1>0, <1>11

\* A commit that wrote no row.
LEMMA CommitNothing ==
  ASSUME IInv, NEW y \in Tx, Commit(y), ~Wrote(tx[y], TaskOf[y])
  PROVE  Abs!JudgeLater
<1>0. PICK k, p : k = TaskOf[y] /\ p = tx[y]
  OBVIOUS
<1>1. p.pc = "commit" /\ k \in Task
  BY <1>0, TxAssumption DEF Commit
<1>2. TxInv(p, k, row, build) /\ (\A t \in Task : row'[t] = See(p, row, t))
  BY <1>0, <1>1, ReadyToCommit DEF Commit
<1>3. \A t \in Task : row'[t] = row[t]
  BY <1>0, <1>2 DEF TxInv, Origin, Finished, Wrote, See
<1>4. build' \in Abs!Judgements(BuildRow, build, [t \in Task |-> row'[t].st])
  BY VerdictAllowed
<1>5. build' \in {"running", "done", "failed"}
  BY <1>0, <1>2 DEF Commit, TxInv, TxRecord, Opinion, IInv, TypeOK
<1>6. Abs!Judge({BuildRow})
  BY <1>4, <1>5 DEF Abs!Judge
<1>7. [t \in Task |-> row'[t].st] = [t \in Task |-> row[t].st]
  BY <1>3, Zenon
<1> QED
  BY <1>6, <1>7 DEF Abs!JudgeLater

\* Only COMMIT changes the committed tables.
LEMMA OnlyCommit ==
  ASSUME [Next]_vars, \A y \in Tx : ~Commit(y)
  PROVE  row' = row /\ build' = build
BY DEF Next, Statement, Quiet, vars, Begin, Update, LockDependent, CountDown, Return, Judge,
       SetVerdict, Wait, DeadlockVictim, ConnectionLost

\* Overlapping completions are as good as one after the other: what is committed
\* moves by steps of the build graph.
THEOREM CommitsAreSteps == Spec => AtomicSteps
<1>1. ASSUME IInv, [Next]_vars
      PROVE  [Abs!Next]_(Abs!vars)
  <2>1. ASSUME NEW y \in Tx, Commit(y) PROVE Abs!Next
    <3>1. CASE Finished(tx[y], TaskOf[y])
      BY <1>1, <2>1, <3>1, CommitFinishes, TxAssumption DEF Abs!Next
    <3>2. CASE Wrote(tx[y], TaskOf[y]) /\ ~Finished(tx[y], TaskOf[y])
      <4>1. {TaskOf[y]} \in SUBSET Task
        BY TxAssumption
      <4> QED
        BY <1>1, <2>1, <3>2, <4>1, CommitFails DEF Abs!Next
    <3>3. CASE ~Wrote(tx[y], TaskOf[y])
      BY <1>1, <2>1, <3>3, CommitNothing DEF Abs!Next
    <3> QED
      BY <3>1, <3>2, <3>3
  <2>2. CASE \A y \in Tx : ~Commit(y)
    <3>1. row' = row /\ build' = build
      BY <1>1, <2>2, OnlyCommit
    <3> QED
      BY <3>1 DEF Abs!vars
  <2> QED
    BY <2>1, <2>2
<1> QED
  BY <1>1, TxInvariant, PTL DEF Spec, AtomicSteps

-----------------------------------------------------------------------------
(* The verdict of a build with one binary *)

\* Everything else goes into s.
OneSink(s) == \A t \in Task : Dependents(t) = {} <=> t = s

\* Once r has failed its task or finished the sink, it is on its way to judge the
\* build, or it has, or the build has been judged before.
Judging(r, k, s, B) ==
  /\ r.pc = "verdict" => r.want # None
  /\ (Wrote(r, k) /\ ~Finished(r, k)) \/ Finished(r, s) =>
       \/ \E i \in 1 .. Len(r.stack) : r.stack[i].task = s
       \/ r.pc \in {"judge", "verdict"}
       \/ r.verdict # None
       \/ B # "running"

VerdictInv(s) ==
  /\ build = "done" => \A t \in Task : row[t].st = "finished"
  /\ build = "failed" => \E t \in Task : row[t].st = "failed"
  /\ (\E t \in Task : row[t].st = "failed") \/ row[s].st = "finished" => build # "running"
  /\ \A x \in Tx : Judging(tx[x], TaskOf[x], s, build)

\* A finite set of numbers has a largest.
LEMMA Largest ==
  ASSUME NEW S \in SUBSET Nat, IsFiniteSet(S), S # {}
  PROVE  \E m \in S : \A n \in S : n <= m
<1> DEFINE Above(m) == {n \in S : n > m}
           Counts == {Cardinality(Above(m)) : m \in S}
<1>1. \A m \in S : IsFiniteSet(Above(m)) /\ Cardinality(Above(m)) \in Nat
  BY FS_Subset, FS_CardinalityType
<1>2. Counts \subseteq Nat /\ Counts # {}
  BY <1>1
<1>3. PICK c \in Counts : \A d \in Counts : ~(<<d, c>> \in OpToRel(<, Nat))
  BY <1>2, NatLessThanWellFounded, WFMin
<1>4. \A d \in Counts : ~(d < c)
  BY <1>2, <1>3 DEF OpToRel
<1>5. PICK m \in S : c = Cardinality(Above(m))
  OBVIOUS
<1>6. ASSUME NEW n \in S, n > m PROVE FALSE
  <2>1. Above(n) \subseteq Above(m) /\ n \in Above(m) /\ n \notin Above(n)
    <3>1. m \in Nat /\ n \in Nat /\ ~(n > n)
      OBVIOUS
    <3>2. \A v \in S : v > n => v > m
      BY <1>6
    <3> QED
      BY <1>6, <3>1, <3>2
  <2>2. Cardinality(Above(n)) <= Cardinality(Above(m)) /\ Cardinality(Above(n)) # Cardinality(Above(m))
    BY <1>1, <2>1, FS_Subset
  <2>3. Cardinality(Above(n)) \in Counts
    OBVIOUS
  <2> HIDE DEF Above, Counts
  <2> QED
    BY <1>1, <1>2, <1>4, <1>5, <2>2, <2>3
<1> QED
  BY <1>6

\* When the sink is finished, so is everything.
LEMMA SinkLast ==
  ASSUME NEW s \in Task, OneSink(s), NEW G \in SUBSET Task, s \in G,
         \A t \in G : Deps[t] \subseteq G
  PROVE  G = Task
<1> SUFFICES ASSUME Task \ G # {} PROVE FALSE
  OBVIOUS
<1>1. IsFiniteSet(Task \ G) /\ Task \ G \in SUBSET Nat
  BY TxAssumption, FS_Subset
<1>2. PICK m \in Task \ G : \A n \in Task \ G : n <= m
  BY <1>1, Largest
<1>3. PICK u \in Task : m \in Deps[u]
  BY <1>2 DEF OneSink, Dependents
<1>4. u \notin G /\ m < u
  BY <1>2, <1>3, TxAssumption
<1> QED
  BY <1>2, <1>4, TxAssumption

\* So a transaction that finished the sink finds the build done.
LEMMA AllSeenFinished ==
  ASSUME IInv, NEW x \in Tx, NEW s \in Task, OneSink(s), Finished(tx[x], s)
  PROVE  \A t \in Task : View(x, t).st = "finished"
<1>1. TxInv(tx[x], TaskOf[x], row, build) /\ \A t \in Task : View(x, t) = See(tx[x], row, t)
  BY DEF IInv, View, See
<1> DEFINE G == {t \in Task : View(x, t).st = "finished"}
<1>2. s \in G
  BY DEF Finished, View
<1>3. \A t \in G : Deps[t] \subseteq G
  <2> TAKE t \in G
  <2>1. Left(tx[x], row, t) = {}
    BY <1>1 DEF TxInv, Counted
  <2> QED
    BY <1>1, <2>1, TxAssumption DEF Left
<1>4. G = Task
  <2> HIDE DEF G
  <2>1. G \in SUBSET Task
    BY DEF G
  <2> QED
    BY <1>2, <1>3, <2>1, SinkLast
<1> QED
  BY <1>4

\* Nothing is written before "update" is over.
LEMMA NothingToJudge ==
  ASSUME NEW r, NEW k \in Task, NEW s \in Task, NEW B, Phase(r),
         r.pc \in {"idle", "update", "done"}
  PROVE  Judging(r, k, s, B)
BY DEF Judging, Phase, Finished, Wrote

\* A statement of x alone keeps VerdictInv if x is still on its way.
LEMMA VerdictOwnStep ==
  ASSUME NEW s \in Task, VerdictInv(s), IInv, NEW x \in Tx, NEW q, tx' = [tx EXCEPT ![x] = q],
         UNCHANGED <<row, build>>, Judging(q, TaskOf[x], s, build)
  PROVE  VerdictInv(s)'
<1>1. row' = row /\ build' = build /\ tx'[x] = q /\ \A y \in Tx : y # x => tx'[y] = tx[y]
  BY DEF IInv, TypeOK
<1>2. \A y \in Tx : Judging(tx'[y], TaskOf[y], s, build')
  BY <1>1 DEF VerdictInv
<1> QED
  BY <1>1, <1>2 DEF VerdictInv

\* A row that is about to be counted down is waiting, and not the reported one.
LEMMA CountsWaiting ==
  ASSUME IInv, NEW x \in Tx, tx[x].pc = "walk", NEW u \in Top(x).todo
  PROVE  View(x, u).st = "waiting" /\ u \in Task /\ u # TaskOf[x]
<1>0. PICK r, k : r = tx[x] /\ k = TaskOf[x]
  OBVIOUS
<1>1. TxInv(r, k, row, build) /\ r.stack \in Seq(Frame) /\ r.stack # <<>> /\ Finished(r, k)
  BY <1>0 DEF IInv, TxInv, Phase, TxRecord, Origin
<1>2. 1 \in 1 .. Len(r.stack) /\ r.stack[1] \in Frame /\ u \in r.stack[1].todo
  BY <1>0, <1>1 DEF Top
<1>3. u \in Task /\ r.stack[1].task \in Deps[u] /\ Owed(r, r.stack[1].task, u)
  BY <1>1, <1>2 DEF TxInv, Calls, Dependents, Owed, Frame
<1>4. See(r, row, u).st = "waiting"
  BY <1>1, <1>3 DEF TxInv, Counted, Left
<1> QED
  BY <1>0, <1>1, <1>3, <1>4 DEF See, View, Finished

\* A statement that leaves tx[x] on its way.
LEMMA VerdictStatement ==
  ASSUME NEW s \in Task, OneSink(s), VerdictInv(s), IInv, IInv', NEW x \in Tx,
         Begin(x) \/ Update(x) \/ LockDependent(x) \/ CountDown(x) \/ Return(x)
           \/ Judge(x) \/ SetVerdict(x)
  PROVE  VerdictInv(s)'
<1>0. PICK r, q, k : r = tx[x] /\ q = tx'[x] /\ k = TaskOf[x]
  OBVIOUS
<1>1. /\ TxInv(r, k, row, build) /\ r \in TxRecord /\ k \in Task
      /\ Judging(r, k, s, build)
  BY <1>0, TxAssumption DEF IInv, TxInv, VerdictInv
<1>2. UNCHANGED <<row, build>>
  BY DEF Begin, Update, LockDependent, CountDown, Return, Judge, SetVerdict
<1>3. TxInv(q, k, row, build) /\ q \in TxRecord
  BY <1>0, <1>2 DEF IInv, TxInv
<1>4. tx' = [tx EXCEPT ![x] = q]
  BY <1>0 DEF Begin, Update, LockDependent, CountDown, Return, Judge, SetVerdict, IInv, TypeOK
<1>5. Judging(q, k, s, build)
  <2>1. CASE Begin(x)
    <3>1. q.pc = "update"
      BY <1>0, <1>1, <2>1 DEF Begin, IInv, TypeOK, TxRecord
    <3> QED
      BY <1>1, <1>3, <3>1, NothingToJudge DEF TxInv
  <2>2. CASE Update(x)
    <3>1. r.pc = "update" /\ (\A t \in Task : r.mine[t] = None)
      BY <1>0, <1>1, <2>2 DEF Update, TxInv, Phase, Wrote
    <3>2. CASE tx' = [tx EXCEPT ![x].pc = "commit"]
      <4>1. q.pc = "commit" /\ q.mine = r.mine
        BY <1>0, <1>1, <3>2 DEF IInv, TypeOK, TxRecord
      <4> QED
        BY <1>1, <3>1, <4>1 DEF Judging, Finished, Wrote
    <3>3. CASE tx' = [tx EXCEPT ![x].pc = "walk", ![x].stack = <<Call(k)>>,
                               ![x].mine[k] = [row[k] EXCEPT !.st = "finished"],
                               ![x].holds = @ \cup {k}]
      <4>1. q.pc = "walk" /\ q.stack = <<Call(k)>>
            /\ q.mine = [r.mine EXCEPT ![k] = [row[k] EXCEPT !.st = "finished"]]
        BY <1>0, <1>1, <3>3 DEF IInv, TypeOK, TxRecord
      <4>2. Finished(q, k)
        <5>1. row[k] \in Row
          BY <1>1 DEF IInv, TypeOK
        <5>2. [row[k] EXCEPT !.st = "finished"] \in Row /\ [row[k] EXCEPT !.st = "finished"].st = "finished"
          BY <5>1 DEF Row
        <5>3. q.mine[k] = [row[k] EXCEPT !.st = "finished"]
          BY <1>1, <4>1 DEF TxRecord
        <5> QED
          BY <5>2, <5>3, TxAssumption DEF Finished
      <4>3. \A t \in Task : t # k => ~Finished(q, t)
        BY <1>1, <3>1, <4>1 DEF Finished, TxRecord
      <4>4. Len(q.stack) = 1 /\ q.stack[1].task = k
        BY <4>1 DEF Call
      <4> QED
        BY <4>1, <4>2, <4>3, <4>4 DEF Judging
    <3>4. CASE tx' = [tx EXCEPT ![x].pc = "judge",
                               ![x].mine[k] = [row[k] EXCEPT !.st = "failed"],
                               ![x].holds = @ \cup {k}]
      <4>1. q.pc = "judge"
        BY <1>0, <1>1, <3>4 DEF IInv, TypeOK, TxRecord
      <4> QED
        BY <4>1 DEF Judging
    <3> QED
      BY <1>0, <2>2, <3>2, <3>3, <3>4 DEF Update
  <2>3. CASE LockDependent(x)
    <3>1. PICK u : tx' = [tx EXCEPT ![x].holds = @ \cup {u}, ![x].stack[1].lock = @ \ {u}]
      BY <2>3 DEF LockDependent
    <3>2. r.stack \in Seq(Frame) /\ r.stack # <<>> /\ r.pc = "walk"
      BY <1>0, <1>1, <2>3 DEF LockDependent, TxInv, Phase, TxRecord
    <3>3. q.pc = r.pc /\ q.mine = r.mine /\ q.verdict = r.verdict
          /\ q.stack = [r.stack EXCEPT ![1].lock = @ \ {u}]
      BY <1>0, <1>1, <3>1 DEF IInv, TypeOK, TxRecord
    <3>4. Len(q.stack) = Len(r.stack) /\ \A i \in 1 .. Len(r.stack) : q.stack[i].task = r.stack[i].task
      <4>1. [r.stack[1] EXCEPT !.lock = @ \ {u}] \in Frame
            /\ [r.stack[1] EXCEPT !.lock = @ \ {u}].task = r.stack[1].task
        <5>1. r.stack[1] \in Frame
          BY <3>2
        <5> QED
          BY <5>1 DEF Frame
      <4>2. q.stack = [r.stack EXCEPT ![1] = [r.stack[1] EXCEPT !.lock = @ \ {u}]]
        BY <3>3
      <4> QED
        BY <3>2, <4>1, <4>2, TopChanged
    <3> QED
      BY <1>1, <3>2, <3>3, <3>4 DEF Judging, Wrote, Finished
  <2>4. CASE CountDown(x)
    <3>1. r.stack \in Seq(Frame) /\ r.stack # <<>> /\ r.pc = "walk" /\ Finished(r, k)
      <4>1. r.pc = "walk"
        BY <1>0, <2>4 DEF CountDown
      <4>2. r \in TxRecord /\ Phase(r) /\ Origin(r, k, row)
        BY <1>1 DEF TxInv
      <4>3. r.stack \in Seq(Frame)
        BY <4>2 DEF TxRecord
      <4>4. r.stack # <<>>
        BY <4>1, <4>2 DEF Phase
      <4>5. Finished(r, k)
        BY <4>2, <4>4, Zenon DEF Origin
      <4> QED
        BY <4>1, <4>3, <4>4, <4>5, Zenon
    <3>2. PICK u \in First(Top(x).todo) :
         LET m == View(x, u).pend - 1
             after == [tx[x].stack EXCEPT ![1].todo = @ \ {u}] IN
         \E hit \in IF Zero(m) /\ u \in MayHit THEN BOOLEAN ELSE {FALSE} :
           tx' = [tx EXCEPT
             ![x].mine[u] = [st |-> IF ~Zero(m) THEN View(x, u).st
                                    ELSE IF hit THEN "finished" ELSE "open",
                             pend |-> m],
             ![x].stack = IF hit THEN <<Call(u)>> \o after ELSE after]
      BY <2>4 DEF CountDown
    <3> DEFINE n == View(x, u).pend - 1
    <3>3. PICK hit \in BOOLEAN :
            tx' = [tx EXCEPT
              ![x].mine[u] = [st |-> IF n # 0 THEN View(x, u).st
                                     ELSE IF hit THEN "finished" ELSE "open",
                              pend |-> n],
              ![x].stack = IF hit THEN <<Call(u)>> \o [r.stack EXCEPT ![1].todo = @ \ {u}]
                           ELSE [r.stack EXCEPT ![1].todo = @ \ {u}]]
      BY <1>0, <3>2 DEF Zero
    <3> HIDE DEF n
    <3>4. View(x, u).st = "waiting" /\ u \in Task /\ u # k
      BY <1>0, <3>1, <3>2, CountsWaiting DEF First
    <3> DEFINE rest == [r.stack EXCEPT ![1].todo = @ \ {u}]
    <3>5. Len(rest) = Len(r.stack) /\ rest \in Seq(Frame)
          /\ \A i \in 1 .. Len(r.stack) : rest[i].task = r.stack[i].task
      <4>1. [r.stack[1] EXCEPT !.todo = @ \ {u}] \in Frame
            /\ [r.stack[1] EXCEPT !.todo = @ \ {u}].task = r.stack[1].task
        <5>1. r.stack[1] \in Frame
          BY <3>1
        <5> QED
          BY <5>1 DEF Frame
      <4>2. rest = [r.stack EXCEPT ![1] = [r.stack[1] EXCEPT !.todo = @ \ {u}]]
        BY Zenon
      <4> HIDE DEF rest
      <4> QED
        BY <3>1, <4>1, <4>2, TopChanged
    <3> HIDE DEF rest
    <3>6. q.pc = "walk" /\ q.verdict = r.verdict
          /\ q.stack = (IF hit THEN <<Call(u)>> \o rest ELSE rest)
          /\ q.mine = [r.mine EXCEPT ![u] = [st |-> IF n # 0 THEN View(x, u).st
                                     ELSE IF hit THEN "finished" ELSE "open",
                              pend |-> n]]
      BY <1>0, <1>1, <3>1, <3>3 DEF IInv, TypeOK, TxRecord, rest
    <3>7. Finished(q, k) /\ (Finished(q, s) => (s = u /\ hit) \/ Finished(r, s))
      BY <1>1, <3>1, <3>4, <3>6 DEF Finished, TxRecord
    <3>8. CASE ~hit
      BY <1>1, <3>1, <3>5, <3>6, <3>7, <3>8 DEF Judging
    <3>9. CASE hit
      <4>1. Call(u) \in Frame /\ Call(u).task = u
        BY <3>4 DEF Call, Frame, Dependents
      <4>2. Len(q.stack) = Len(rest) + 1 /\ Len(rest) \in Nat /\ q.stack[1] = Call(u)
            /\ \A i \in 1 .. Len(rest) : q.stack[i + 1] = rest[i]
        BY <3>5, <3>6, <3>9, <4>1, CallPushed
      <4>3. (\E i \in 1 .. Len(r.stack) : r.stack[i].task = s)
              => \E i \in 1 .. Len(q.stack) : q.stack[i].task = s
        <5> SUFFICES ASSUME NEW i \in 1 .. Len(r.stack), r.stack[i].task = s
                     PROVE  \E j \in 1 .. Len(q.stack) : q.stack[j].task = s
          OBVIOUS
        <5>1. i + 1 \in 1 .. Len(q.stack) /\ q.stack[i + 1].task = s
          BY <3>5, <4>2
        <5> QED
          BY <5>1
      <4>4. s = u => \E i \in 1 .. Len(q.stack) : q.stack[i].task = s
        BY <4>1, <4>2
      <4> QED
        BY <1>1, <3>1, <3>6, <3>7, <4>3, <4>4 DEF Judging
    <3> QED
      BY <3>8, <3>9, Zenon
  <2>5. CASE Return(x)
    <3>1. r.stack \in Seq(Frame) /\ r.stack # <<>> /\ r.pc = "walk"
      BY <1>0, <1>1, <2>5 DEF Return, TxInv, Phase, TxRecord
    <3>2. q.mine = r.mine /\ q.verdict = r.verdict /\ q.stack = Tail(r.stack)
          /\ q.pc = (IF Asks(x, Top(x).task) THEN "judge" ELSE After(Tail(r.stack)))
      BY <1>0, <1>1, <2>5 DEF Return, IInv, TypeOK, TxRecord
    <3>3. Top(x) = r.stack[1] /\ q.pc # "verdict"
      BY <1>0, <3>1, <3>2 DEF Top, After
    <3>4. CASE r.stack[1].task = s
      BY <3>2, <3>3, <3>4 DEF Asks, OneSink, Judging
    <3>5. CASE r.stack[1].task # s
      <4>1. ASSUME NEW i \in 1 .. Len(r.stack), r.stack[i].task = s
            PROVE  \E j \in 1 .. Len(q.stack) : q.stack[j].task = s
        <5>1. i - 1 \in 1 .. Len(Tail(r.stack)) /\ Tail(r.stack)[i - 1] = r.stack[i]
          BY <3>1, <3>5, <4>1, CallPopped
        <5> QED
          BY <3>2, <4>1, <5>1
      <4> QED
        BY <1>1, <3>1, <3>2, <3>3, <4>1 DEF Judging, Wrote, Finished
    <3> QED
      BY <3>4, <3>5
  <2>6. CASE Judge(x)
    <3>1. q.mine = r.mine /\ q.verdict = r.verdict /\ q.stack = r.stack /\ q.want = Verdict(x)
          /\ q.pc = (IF Verdict(x) = None THEN After(r.stack) ELSE "verdict")
      BY <1>0, <1>1, <2>6 DEF Judge, IInv, TypeOK, TxRecord
    <3>2. ASSUME (Wrote(r, k) /\ ~Finished(r, k)) \/ Finished(r, s) PROVE Verdict(x) # None
      <4>1. CASE Wrote(r, k) /\ ~Finished(r, k)
        <5>1. View(x, k).st = "failed"
          BY <1>0, <1>1, <4>1 DEF TxInv, Origin, View, Wrote, Finished
        <5> QED
          BY <1>1, <5>1, TxAssumption DEF Verdict
      <4>2. CASE Finished(r, s)
        BY <1>0, <4>2, AllSeenFinished, TxAssumption DEF Verdict
      <4> QED
        BY <3>2, <4>1, <4>2
    <3> QED
      BY <3>1, <3>2 DEF Judging, Wrote, Finished, After
  <2>7. CASE SetVerdict(x)
    <3>1. r.pc = "verdict" /\ q.mine = r.mine /\ q.stack = r.stack /\ q.pc = After(r.stack)
          /\ q.verdict = (IF build = "running" /\ r.verdict = None THEN r.want ELSE r.verdict)
      BY <1>0, <1>1, <2>7 DEF SetVerdict, IInv, TypeOK, TxRecord
    <3>2. q.pc # "verdict" /\ (q.verdict # None \/ build # "running")
      BY <1>1, <3>1 DEF After, Judging
    <3> QED
      BY <3>2 DEF Judging
  <2> QED
    BY <2>1, <2>2, <2>3, <2>4, <2>5, <2>6, <2>7
<1> QED
  BY <1>0, <1>2, <1>4, <1>5, VerdictOwnStep

\* COMMIT: a row that fails, or the sink when it finishes, brings the verdict along.
LEMMA VerdictCommit ==
  ASSUME NEW s \in Task, OneSink(s), VerdictInv(s), IInv, IInv', NEW y \in Tx, Commit(y)
  PROVE  VerdictInv(s)'
<1>0. PICK p, k : p = tx[y] /\ k = TaskOf[y]
  OBVIOUS
<1>1. p.pc = "commit" /\ k \in Task /\ Judging(p, k, s, build)
  BY <1>0, TxAssumption DEF Commit, VerdictInv
<1>2. /\ TxInv(p, k, row, build)
      /\ \A t \in Task : row'[t] = See(p, row, t)
      /\ \A t \in Task : row[t].st \in {"finished", "failed"} => row'[t] = row[t]
  BY <1>0, <1>1, ReadyToCommit DEF Commit
<1>3. build' = (IF p.verdict = None THEN build ELSE p.verdict) /\ build \in {"running", "done", "failed"}
  BY <1>0 DEF Commit, IInv, TypeOK
<1>4. p.verdict \in {None, "done", "failed"} /\ p.stack = <<>> /\ (p.verdict # None => build = "running")
  BY <1>1, <1>2 DEF TxInv, TxRecord, Opinion, Phase, Locked
<1>5. build # "running" \/ p.verdict # None => build' # "running"
  BY <1>3, <1>4
<1>6. build' = "done" => \A t \in Task : row'[t].st = "finished"
  <2>1. CASE p.verdict = None
    BY <1>2, <1>3, <2>1 DEF VerdictInv
  <2>2. CASE p.verdict # None
    BY <1>2, <1>3, <2>2 DEF TxInv, Judged
  <2> QED
    BY <2>1, <2>2
<1>7. build' = "failed" => \E t \in Task : row'[t].st = "failed"
  <2>1. CASE p.verdict = None
    BY <1>2, <1>3, <2>1 DEF VerdictInv
  <2>2. CASE p.verdict # None
    BY <1>2, <1>3, <2>2 DEF TxInv, Judged
  <2> QED
    BY <2>1, <2>2
<1>8. ASSUME (Wrote(p, k) /\ ~Finished(p, k)) \/ Finished(p, s)
      PROVE  build' # "running"
  <2>1. ~\E i \in 1 .. Len(p.stack) : p.stack[i].task = s
    BY <1>4
  <2> QED
    BY <1>1, <1>5, <1>8, <2>1 DEF Judging
<1>9. ASSUME NEW t \in Task, row'[t].st = "failed" PROVE build' # "running"
  <2>1. CASE Wrote(p, t)
    BY <1>2, <1>8, <1>9, <2>1 DEF TxInv, Origin, Wrote, Finished, See
  <2>2. CASE ~Wrote(p, t)
    <3>1. row[t].st = "failed"
      BY <1>2, <1>9, <2>2 DEF See, Wrote
    <3> QED
      BY <1>5, <3>1 DEF VerdictInv
  <2> QED
    BY <2>1, <2>2
<1>10. ASSUME row'[s].st = "finished" PROVE build' # "running"
  <2>1. CASE Finished(p, s)
    BY <1>8, <2>1
  <2>2. CASE ~Finished(p, s)
    <3>1. row[s].st = "finished"
      BY <1>2, <1>10, <2>2 DEF See, Finished
    <3> QED
      BY <1>5, <3>1 DEF VerdictInv
  <2> QED
    BY <2>1, <2>2
<1>11. ASSUME NEW x \in Tx PROVE Judging(tx'[x], TaskOf[x], s, build')
  <2>1. CASE x = y
    <3>1. tx'[y] = [Fresh EXCEPT !.pc = "done"]
      BY DEF Commit, IInv, TypeOK
    <3>2. [Fresh EXCEPT !.pc = "done"].pc = "done"
      BY DEF Fresh
    <3>3. tx'[y].pc = "done"
      BY ONLY <3>1, <3>2
    <3>4. Phase(tx'[y])
      BY DEF IInv, TxInv
    <3>5. TaskOf[y] \in Task
      BY TxAssumption
    <3> QED
      BY <2>1, <3>3, <3>4, <3>5, NothingToJudge
  <2>2. CASE x # y
    <3>1. tx'[x] = tx[x] /\ Judging(tx[x], TaskOf[x], s, build)
      BY <2>2 DEF Commit, IInv, TypeOK, VerdictInv
    <3>2. build # "running" => build' # "running"
      BY <1>5
    <3> QED
      BY <3>1, <3>2 DEF Judging
  <2> QED
    BY <2>1, <2>2
<1> QED
  BY <1>6, <1>7, <1>9, <1>10, <1>11 DEF VerdictInv

\* A build whose tasks all go into one binary has its verdict as soon as the rows
\* say so, without anybody looking again.
THEOREM OneBinaryJudged ==
  ASSUME NEW s \in Task, OneSink(s)
  PROVE  Spec => []VerdictReached
<1>1. ASSUME Init PROVE VerdictInv(s)
  <2>1. IInv
    BY <1>1, InitInv
  <2>2. \A t \in Task : row[t].st \in {"open", "waiting"}
    BY <1>1 DEF Init
  <2>3. \A x \in Tx : tx[x] = Fresh
    BY <1>1 DEF Init
  <2>4. \A x \in Tx : tx[x].pc = "idle" /\ Phase(tx[x]) /\ TaskOf[x] \in Task
    BY <2>1, <2>3, TxAssumption DEF IInv, TxInv, Fresh
  <2> QED
    BY <1>1, <2>2, <2>4, NothingToJudge DEF Init, VerdictInv
<1>2. ASSUME VerdictInv(s), IInv, IInv', [Next]_vars PROVE VerdictInv(s)'
  <2>1. ASSUME NEW x \in Tx, tx' = [tx EXCEPT ![x] = Fresh], UNCHANGED <<row, build>>
        PROVE  VerdictInv(s)'
    <3>1. tx'[x] = Fresh /\ Fresh.pc = "idle"
      BY <1>2, <2>1 DEF IInv, TypeOK, Fresh
    <3>2. Phase(Fresh) /\ TaskOf[x] \in Task
      BY <1>2, <3>1, TxAssumption DEF IInv, TxInv
    <3>3. Judging(Fresh, TaskOf[x], s, build)
      BY <3>1, <3>2, NothingToJudge
    <3> QED
      BY <1>2, <2>1, <3>3, VerdictOwnStep
  <2>2. ASSUME UNCHANGED <<row, build, tx>> PROVE VerdictInv(s)'
    BY <1>2, <2>2 DEF VerdictInv
  <2>3. ASSUME NEW x \in Tx, Statement(x) PROVE VerdictInv(s)'
    <3>1. CASE Wait(x)
      BY <2>2, <3>1 DEF Wait
    <3> QED
      BY <1>2, <2>3, <3>1, VerdictStatement, VerdictCommit DEF Statement
  <2>4. ASSUME NEW x \in Tx, DeadlockVictim(x) \/ ConnectionLost(x) PROVE VerdictInv(s)'
    BY <2>1, <2>4 DEF DeadlockVictim, ConnectionLost, RolledBack
  <2>5. CASE UNCHANGED vars
    BY <2>2, <2>5 DEF vars
  <2> QED
    BY <1>2, <2>3, <2>4, <2>5 DEF Next, Quiet
<1>3. IInv /\ VerdictInv(s) => VerdictReached
  BY DEF IInv, TypeOK, VerdictInv, VerdictReached
<1>4. Init /\ [][Next]_vars /\ []IInv => []VerdictInv(s)
  BY <1>1, <1>2, PTL
<1> QED
  BY <1>3, <1>4, TxInvariant, PTL DEF Spec
=============================================================================
