-------------------------------- MODULE Graph --------------------------------
(***************************************************************************)
(* The pure algorithms of graph.cpp: the order in which submit() resolves  *)
(* tasks, the priority of a task, and the partition it is meant for.       *)
(*                                                                         *)
(* A graph is a sequence of tasks [id, kind, cost, deps], deps being a     *)
(* sequence that may repeat a number.  Tasks are numbered from 1 (from 0 in*)
(* the code), partitions from 0 as in the code.  A loop of the code is a   *)
(* function of the number of rounds done, the form the proofs of           *)
(* BuildSpecProofs can reason about.                                       *)
(***************************************************************************)
EXTENDS Integers, FiniteSets, SequencesExt

Occurrences(x, s) == Cardinality({k \in DOMAIN s : s[k] = x})

\* The members of S among 1 .. n, rising: a loop that pushes the ones it wants.
Ascending(n, S) ==
  LET Up[k \in 0 .. n] ==
        IF k = 0 THEN <<>> ELSE IF k \in S THEN Append(Up[k - 1], k) ELSE Up[k - 1]
  IN Up[n]

\* The sum of f over the members of S among 1 .. n.
SumOver(n, f, S) ==
  LET Sum[k \in 0 .. n] ==
        IF k = 0 THEN 0 ELSE Sum[k - 1] + (IF k \in S THEN f[k] ELSE 0)
  IN Sum[n]

\* What the algorithms are called with: deps may be any numbers.
IsGraph(g) ==
  /\ g \in Seq(ToSet(g))
  /\ \A i \in DOMAIN g : g[i].cost \in Int /\ g[i].deps \in Seq(Int)

WellFormed(g) ==
  \A i \in DOMAIN g :
    g[i].id = i /\ ToSet(g[i].deps) \subseteq DOMAIN g \ {i}

\* Mutation: a task is put in order at its first finished dep.
CountedDownFirst(left, c) == left >= 1 /\ c >= 1

\* --indeg[s] == 0 at one of the c times the visited task has s as successor.
CountedDown(left, c) == left \in 1 .. c

\* All successors of task t: succ[t] has them in rising order.
Visit(g, r, t) ==
  LET c == [s \in DOMAIN g |-> Occurrences(t, g[s].deps)] IN
  [order |-> r.order \o Ascending(Len(g), {s \in DOMAIN g : CountedDown(r.indeg[s], c[s])}),
   indeg |-> [s \in DOMAIN g |-> r.indeg[s] - c[s]]]

\* Before the first visit.
KahnStart(g) ==
  [order |-> Ascending(Len(g), {i \in DOMAIN g : Len(g[i].deps) = 0}),
   indeg |-> [i \in DOMAIN g |-> Len(g[i].deps)]]

\* The k-th visit, if there is a k-th task in order by then.
KahnStep(g, r, k) == IF k > Len(r.order) THEN r ELSE Visit(g, r, r.order[k])

Kahn(g) ==
  LET After[k \in 0 .. Len(g)] == IF k = 0 THEN KahnStart(g) ELSE KahnStep(g, After[k - 1], k)
  IN After[Len(g)].order

\* Empty when an id or a dep is bad or the graph has a cycle.
TopoOrder(g) ==
  IF WellFormed(g) /\ Len(Kahn(g)) = Len(g) THEN Kahn(g) ELSE <<>>

-----------------------------------------------------------------------------
Dependents(g, i) == {s \in DOMAIN g : i \in ToSet(g[s].deps)}

\* Mutation: ranks are computed front to back.
RankOrderForward(g) == Reverse(TopoOrder(g))

\* Visited from its end: dependents first.
RankOrder(g) == TopoOrder(g)

\* Cost of the task plus the highest rank among its dependents.
RankStep(g, rank, i) ==
  [rank EXCEPT ![i] = g[i].cost + Max({0} \cup {rank[s] : s \in Dependents(g, i)})]

UpwardRank(g) ==
  LET n == Len(RankOrder(g))
      Rank[k \in 0 .. n] ==
        IF k = 0 THEN [i \in DOMAIN g |-> 0] ELSE RankStep(g, Rank[k - 1], RankOrder(g)[n + 1 - k])
  IN Rank[n]

-----------------------------------------------------------------------------
\* Mutation: an object is claimed by the last archive that has it.
FreeObjectAny(g, unit, d) == g[d].kind = "compile"

\* An object nobody has claimed yet.
FreeObject(g, unit, d) == g[d].kind = "compile" /\ unit[d] = 0

\* unit[i] is 0 until task i has a unit; c is the number of units so far.
ClaimUnit(g, r, i) ==
  [c |-> r.c + 1,
   unit |-> [j \in DOMAIN g |->
     IF j = i \/ (j \in ToSet(g[i].deps) /\ FreeObject(g, r.unit, j))
     THEN r.c + 1 ELSE r.unit[j]]]

ClaimStep(g, r, kind, i) ==
  IF g[i].kind # kind \/ r.unit[i] # 0 THEN r ELSE ClaimUnit(g, r, i)

\* claim(kind)
Claim(g, r, kind) ==
  LET After[k \in 0 .. Len(g)] == IF k = 0 THEN r ELSE ClaimStep(g, After[k - 1], kind, k)
  IN After[Len(g)]

\* What is left is a unit of its own.
RestStep(r, i) ==
  IF r.unit[i] # 0 THEN r ELSE [c |-> r.c + 1, unit |-> [r.unit EXCEPT ![i] = r.c + 1]]

ClaimRest(g, r) ==
  LET After[k \in 0 .. Len(g)] == IF k = 0 THEN r ELSE RestStep(After[k - 1], k)
  IN After[Len(g)]

NoUnits(g) == [c |-> 0, unit |-> [i \in DOMAIN g |-> 0]]

Units(g) == ClaimRest(g, Claim(g, Claim(g, NoUnits(g), "archive"), "link"))

\* A task costs at least 1.
Weights(g) == [i \in DOMAIN g |-> IF g[i].cost > 1 THEN g[i].cost ELSE 1]

UnitCost(g, unit, u) == SumOver(Len(g), Weights(g), {i \in DOMAIN g : unit[i] = u})

\* Mutation: units are dealt out in the order they were found.
BeforeUnsorted(cost, u, v) == u < v

\* stable_sort by falling cost.
Before(cost, u, v) == cost[u] > cost[v] \/ (cost[u] = cost[v] /\ u < v)

ByCost(cost) ==
  [k \in DOMAIN cost |->
    CHOOSE u \in DOMAIN cost : Cardinality({v \in DOMAIN cost : Before(cost, v, u)}) = k - 1]

\* min_element: the first of the lightest partitions.
Lightest(load) ==
  CHOOSE p \in DOMAIN load : \A q \in DOMAIN load : load[p] < load[q] \/ (load[p] = load[q] /\ p <= q)

\* LPT: the next unit goes to the lightest partition.
Assign(cost, r, u) ==
  LET p == Lightest(r.load) IN
  [load |-> [r.load EXCEPT ![p] = @ + cost[u]], part |-> [r.part EXCEPT ![u] = p]]

NoLoads(cost, parts) ==
  [load |-> [p \in 0 .. parts - 1 |-> 0], part |-> [u \in DOMAIN cost |-> 0]]

Deal(cost, parts) ==
  LET After[k \in 0 .. Len(cost)] ==
        IF k = 0 THEN NoLoads(cost, parts) ELSE Assign(cost, After[k - 1], ByCost(cost)[k])
  IN After[Len(cost)].part

Partition(g, parts) ==
  IF parts <= 1 \/ g = <<>> THEN [i \in DOMAIN g |-> 0]
  ELSE LET r == Units(g)
           cost == [u \in 1 .. r.c |-> UnitCost(g, r.unit, u)]
       IN [i \in DOMAIN g |-> Deal(cost, parts)[r.unit[i]]]
=============================================================================
