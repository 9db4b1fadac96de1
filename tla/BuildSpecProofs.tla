--------------------------- MODULE BuildSpecProofs ---------------------------
(***************************************************************************)
(* What the loops of manifest.cpp, graph.cpp and make_config compute, for  *)
(* every manifest and every graph, and that BuildSpec keeps its invariants.*)
(*                                                                         *)
(* A loop is a recursive function of the number of rounds.  Induction goes *)
(* over sets of numbers (Induct), so no theorem takes an operator: the     *)
(* rounds with the invariant form a set that has 0 and is closed under + 1.*)
(***************************************************************************)
EXTENDS BuildSpec, FiniteSetTheorems, SequenceTheorems, WellFoundedInduction, TLAPS

-----------------------------------------------------------------------------
(* Induction and recursion *)

\* Numbers have a smallest.
LEMMA Smallest ==
  ASSUME NEW S \in SUBSET Nat, S # {}
  PROVE  \E x \in S : \A y \in S : x <= y
<1>1. PICK x \in S : \A y \in S : ~(<<y, x>> \in OpToRel(<, Nat))
  BY NatLessThanWellFounded, WFMin
<1>2. ASSUME NEW y \in S PROVE x <= y
  <2>1. x \in Nat /\ y \in Nat
    OBVIOUS
  <2>2. ~(y < x)
    BY <1>1, <2>1 DEF OpToRel
  <2> QED
    BY <2>1, <2>2
<1> QED
  BY <1>2

\* Induction up to n, over a set of numbers.
LEMMA Induct ==
  ASSUME NEW n \in Nat, NEW P, 0 \in P, \A k \in 1 .. n : k - 1 \in P => k \in P
  PROVE  \A k \in 0 .. n : k \in P
<1> SUFFICES ASSUME NEW q \in 0 .. n, q \notin P
             PROVE  FALSE
  OBVIOUS
<1> DEFINE S == {k \in 0 .. n : k \notin P}
<1>1. PICK x \in S : \A y \in S : x <= y
  <2>1. S \in SUBSET Nat /\ S # {}
    OBVIOUS
  <2> QED
    BY <2>1, Smallest
<1>2. x \in 1 .. n /\ x - 1 \in 0 .. n /\ x - 1 \notin S
  BY <1>1
<1> QED
  BY <1>2

\* f is what n rounds of s make of b, all of it in T.
Run(f, T, n, b, s) ==
  f \in [0 .. n -> T] /\ f[0] = b /\ \A k \in 1 .. n : f[k] = s[k][f[k - 1]]

\* A loop has a result after every round.
LEMMA Recursion ==
  ASSUME NEW T, NEW n \in Nat, NEW b \in T, NEW s \in [1 .. n -> [T -> T]]
  PROVE  \E f : Run(f, T, n, b, s)
<1> DEFINE P == {q \in 0 .. n : \E f : Run(f, T, q, b, s)}
<1>1. 0 \in P
  <2> DEFINE f == [k \in 0 .. 0 |-> b]
  <2>1. Run(f, T, 0, b, s)
    BY DEF Run
  <2> QED
    BY <2>1
<1>2. ASSUME NEW q \in 1 .. n, q - 1 \in P
      PROVE  q \in P
  <2>1. PICK f : Run(f, T, q - 1, b, s)
    BY <1>2
  <2> DEFINE h == [k \in 0 .. q |-> IF k = q THEN s[q][f[q - 1]] ELSE f[k]]
  <2>2. s[q] \in [T -> T] /\ f[q - 1] \in T
    BY <2>1 DEF Run
  <2>3. h \in [0 .. q -> T] /\ h[0] = b
    BY <2>1, <2>2 DEF Run
  <2>4. \A k \in 1 .. q : h[k] = s[k][h[k - 1]]
    BY <2>1 DEF Run
  <2>5. Run(h, T, q, b, s)
    BY <2>3, <2>4 DEF Run
  <2> QED
    BY <2>5
<1>3. \A k \in 1 .. n : k - 1 \in P => k \in P
  BY <1>2
<1> HIDE DEF P
<1>4. \A k \in 0 .. n : k \in P
  BY <1>1, <1>3, Induct, Zenon
<1>5. n \in P
  BY <1>4
<1> QED
  BY <1>5 DEF P

\* What every round keeps in T is in T after every round.
LEMMA Typed ==
  ASSUME NEW T, NEW n \in Nat, NEW f, f[0] \in T,
         \A k \in 1 .. n : f[k - 1] \in T => f[k] \in T
  PROVE  \A k \in 0 .. n : f[k] \in T
<1> DEFINE P == {k \in 0 .. n : f[k] \in T}
<1>1. 0 \in P /\ \A k \in 1 .. n : k - 1 \in P => k \in P
  OBVIOUS
<1> HIDE DEF P
<1>2. \A k \in 0 .. n : k \in P
  BY <1>1, Induct, Zenon
<1> QED
  BY <1>2 DEF P

-----------------------------------------------------------------------------
(* The loops that pick, add up and join *)

UpStep(S, r, k) == IF k \in S THEN Append(r, k) ELSE r

\* The rounds of Ascending.
LEMMA AscendingRun ==
  ASSUME NEW n \in Nat, NEW S
  PROVE  \E f : /\ f[0] = <<>> /\ \A k \in 1 .. n : f[k] = UpStep(S, f[k - 1], k)
                /\ Ascending(n, S) = f[n]
<1> DEFINE T == Seq(Nat)
           Def(f) == [k \in 0 .. n |-> IF k = 0 THEN <<>> ELSE UpStep(S, f[k - 1], k)]
           s == [k \in 1 .. n |-> [r \in T |-> UpStep(S, r, k)]]
<1>1. PICK f : Run(f, T, n, <<>>, s)
  <2>1. s \in [1 .. n -> [T -> T]] /\ <<>> \in T
    BY DEF UpStep
  <2> HIDE DEF s, T
  <2> QED
    BY <2>1, Recursion
<1>2. f \in [0 .. n -> T] /\ f[0] = <<>>
  BY <1>1 DEF Run
<1>3. ASSUME NEW k \in 1 .. n PROVE f[k] = UpStep(S, f[k - 1], k)
  <2>1. f[k] = s[k][f[k - 1]] /\ f[k - 1] \in T
    <3> HIDE DEF s, T
    <3> QED
      BY <1>1 DEF Run
  <2> QED
    BY <2>1
<1>4. f = Def(f)
  BY <1>2, <1>3
<1>5. Ascending(n, S) = (CHOOSE F : F = Def(F))[n]
  BY Zenon DEF Ascending, UpStep
<1>6. PICK F : F = Def(F) /\ Ascending(n, S) = F[n]
  BY <1>4, <1>5, Zenon
<1>7. F[0] = <<>> /\ \A k \in 1 .. n : F[k] = UpStep(S, F[k - 1], k)
  BY <1>6
<1> QED
  BY <1>6, <1>7

\* a lists the members of S among 1 .. n, rising.
Lists(a, n, S) ==
  /\ a \in Seq(1 .. n)
  /\ \A i \in 1 .. Len(a) : a[i] \in S
  /\ \A x \in 1 .. n : x \in S => \E i \in 1 .. Len(a) : a[i] = x
  /\ \A i, j \in 1 .. Len(a) : i < j => a[i] < a[j]

\* One round of Ascending.
LEMMA UpLists ==
  ASSUME NEW k \in Nat \ {0}, NEW S, NEW a, Lists(a, k - 1, S)
  PROVE  Lists(UpStep(S, a, k), k, S)
<1>1. CASE k \in S
  <2>1. PICK b : b = Append(a, k)
    OBVIOUS
  <2>2. a \in Seq(1 .. k - 1) /\ \A i \in 1 .. Len(a) : a[i] \in 1 .. k - 1
    BY DEF Lists
  <2>3. /\ Len(b) = Len(a) + 1 /\ b[Len(b)] = k
        /\ \A i \in 1 .. Len(a) : b[i] = a[i]
    BY <2>1, <2>2
  <2>4. a \in Seq(1 .. k)
    BY <2>2, SeqMonotonic, 1 .. k - 1 \subseteq 1 .. k
  <2>5. b \in Seq(1 .. k)
    BY <2>1, <2>4
  <2>6. \A i \in 1 .. Len(b) : b[i] \in S
    <3>1. \A i \in 1 .. Len(a) : a[i] \in S
      BY DEF Lists
    <3>2. Len(a) \in Nat
      BY <2>2
    <3> QED
      BY ONLY <1>1, <2>3, <3>1, <3>2
  <2>7. ASSUME NEW i \in 1 .. Len(b), NEW j \in 1 .. Len(b), i < j PROVE b[i] < b[j]
    <3>1. i \in 1 .. Len(a) /\ b[i] = a[i] /\ a[i] \in 1 .. k - 1
      BY <2>2, <2>3, <2>7
    <3>2. CASE j = Len(b)
      BY <3>1, <3>2, <2>3
    <3>3. CASE j # Len(b)
      <4>1. j \in 1 .. Len(a) /\ b[j] = a[j]
        BY <3>3, <2>2, <2>3
      <4> QED
        BY <3>1, <4>1, <2>7 DEF Lists
    <3> QED
      BY <3>2, <3>3
  <2>8. ASSUME NEW x \in 1 .. k, x \in S PROVE \E i \in 1 .. Len(b) : b[i] = x
    <3>1. CASE x = k
      BY <3>1, <2>2, <2>3
    <3>2. CASE x # k
      <4>1. PICK i \in 1 .. Len(a) : a[i] = x
        BY <3>2, <2>8 DEF Lists
      <4> QED
        BY <4>1, <2>2, <2>3
    <3> QED
      BY <3>1, <3>2
  <2> QED
    BY <1>1, <2>1, <2>5, <2>6, <2>7, <2>8 DEF Lists, UpStep
<1>2. CASE k \notin S
  <2>1. a \in Seq(1 .. k)
    BY SeqMonotonic, 1 .. k - 1 \subseteq 1 .. k DEF Lists
  <2> QED
    BY <1>2, <2>1 DEF Lists, UpStep
<1> QED
  BY <1>1, <1>2

\* Ascending lists what it is asked for.
LEMMA AscendingLists ==
  ASSUME NEW n \in Nat, NEW S
  PROVE  Lists(Ascending(n, S), n, S)
<1>1. PICK f : /\ f[0] = <<>> /\ \A k \in 1 .. n : f[k] = UpStep(S, f[k - 1], k)
               /\ Ascending(n, S) = f[n]
  BY AscendingRun
<1> DEFINE P == {k \in 0 .. n : Lists(f[k], k, S)}
<1>2. 0 \in P
  <2>1. Lists(<<>>, 0, S)
    BY DEF Lists
  <2> QED
    BY <1>1, <2>1
<1>3. ASSUME NEW k \in 1 .. n, k - 1 \in P PROVE k \in P
  <2>1. Lists(f[k - 1], k - 1, S) /\ f[k] = UpStep(S, f[k - 1], k)
    BY <1>1, <1>3
  <2>2. Lists(f[k], k, S)
    BY <2>1, UpLists
  <2> QED
    BY <2>2
<1> HIDE DEF P
<1>4. \A k \in 0 .. n : k \in P
  BY <1>2, <1>3, Induct
<1>5. n \in P
  BY <1>4
<1> QED
  BY <1>1, <1>5 DEF P

\* What is listed is listed once.
LEMMA ListsOnce ==
  ASSUME NEW a, NEW n \in Nat, NEW S, Lists(a, n, S)
  PROVE  /\ IsInjective(a) /\ DOMAIN a = 1 .. Len(a) /\ Len(a) \in Nat
         /\ ToSet(a) = (1 .. n) \cap S
<1>1. a \in Seq(1 .. n)
  BY DEF Lists
<1>2. PICK k \in Nat : k = Len(a) /\ DOMAIN a = 1 .. k /\ \A i \in 1 .. k : a[i] \in 1 .. n
  BY <1>1
<1>3. ASSUME NEW i \in 1 .. k, NEW j \in 1 .. k, i < j PROVE a[i] # a[j]
  <2>1. a[i] < a[j]
    BY <1>2, <1>3 DEF Lists
  <2> QED
    BY <1>2, <2>1
<1>4. \A i, j \in 1 .. k : a[i] = a[j] => i = j
  BY <1>3
<1>5. ToSet(a) \subseteq (1 .. n) \cap S
  BY <1>2 DEF Lists, ToSet
<1>6. (1 .. n) \cap S \subseteq ToSet(a)
  BY <1>2 DEF Lists, ToSet
<1> QED
  BY <1>2, <1>4, <1>5, <1>6 DEF IsInjective

SumStep(h, S, r, k) == r + (IF k \in S THEN h[k] ELSE 0)

SumRounds(f, n, h, S) ==
  /\ f \in [0 .. n -> Nat]
  /\ f[0] = 0 /\ \A k \in 1 .. n : f[k] = SumStep(h, S, f[k - 1], k)
  /\ SumOver(n, h, S) = f[n]

\* The rounds of SumOver.
LEMMA SumRun ==
  ASSUME NEW n \in Nat, NEW h \in [1 .. n -> Nat], NEW S
  PROVE  \E f : SumRounds(f, n, h, S)
<1> DEFINE Def(f) == [k \in 0 .. n |-> IF k = 0 THEN 0 ELSE SumStep(h, S, f[k - 1], k)]
           s == [k \in 1 .. n |-> [r \in Nat |-> SumStep(h, S, r, k)]]
<1>1. PICK f : Run(f, Nat, n, 0, s)
  <2>1. s \in [1 .. n -> [Nat -> Nat]]
    BY DEF SumStep
  <2> HIDE DEF s
  <2> QED
    BY <2>1, Recursion
<1>2. f \in [0 .. n -> Nat] /\ f[0] = 0
  BY <1>1 DEF Run
<1>3. ASSUME NEW k \in 1 .. n PROVE f[k] = SumStep(h, S, f[k - 1], k)
  <2>1. f[k] = s[k][f[k - 1]] /\ f[k - 1] \in Nat
    <3> HIDE DEF s
    <3> QED
      BY <1>1 DEF Run
  <2> QED
    BY <2>1
<1>4. f = Def(f)
  BY <1>2, <1>3
<1>5. SumOver(n, h, S) = (CHOOSE F : F = Def(F))[n]
  BY Zenon DEF SumOver, SumStep
<1>6. PICK F : F = Def(F) /\ SumOver(n, h, S) = F[n]
  BY <1>4, <1>5, Zenon
<1>7. F[0] = 0 /\ \A k \in 1 .. n : F[k] = SumStep(h, S, F[k - 1], k)
  BY <1>6
<1>8. \A k \in 0 .. n : F[k] \in Nat
  <2>1. ASSUME NEW k \in 1 .. n, F[k - 1] \in Nat PROVE F[k] \in Nat
    <3>1. F[k] = SumStep(h, S, F[k - 1], k) /\ h[k] \in Nat
      BY <1>7
    <3> QED
      BY <2>1, <3>1 DEF SumStep
  <2>2. F[0] \in Nat
    BY <1>7
  <2> QED
    BY <2>1, <2>2, Typed
<1>9. F \in [0 .. n -> Nat]
  BY <1>6, <1>8
<1> QED
  BY <1>6, <1>7, <1>9 DEF SumRounds

\* A sum of naturals is one.
LEMMA SumType ==
  ASSUME NEW n \in Nat, NEW h \in [1 .. n -> Nat], NEW S
  PROVE  SumOver(n, h, S) \in Nat
<1>1. PICK f : SumRounds(f, n, h, S)
  BY SumRun
<1> QED
  BY <1>1 DEF SumRounds

\* U is S and R, which have no number in common.
Parted(U, S, R) == U = S \cup R /\ \A i \in S : i \notin R

Adds(n, h, U, S, R) == SumOver(n, h, U) = SumOver(n, h, S) + SumOver(n, h, R)

\* A sum over two sets without a common number is the sum of their sums.
LEMMA SumUnion ==
  ASSUME NEW n \in Nat, NEW h \in [1 .. n -> Nat], NEW S, NEW R, NEW U, Parted(U, S, R)
  PROVE  Adds(n, h, U, S, R)
<1>1. PICK a : SumRounds(a, n, h, S)
  BY SumRun, Zenon
<1>2. PICK b : SumRounds(b, n, h, R)
  BY SumRun, Zenon
<1>3. PICK c : SumRounds(c, n, h, U)
  BY SumRun, Zenon
<1> DEFINE P == {k \in 0 .. n : c[k] = a[k] + b[k]}
<1>4. 0 \in P
  BY <1>1, <1>2, <1>3 DEF SumRounds
<1>5. ASSUME NEW k \in 1 .. n, k - 1 \in P PROVE k \in P
  <2>1. h[k] \in Nat /\ a[k - 1] \in Nat /\ b[k - 1] \in Nat /\ c[k - 1] = a[k - 1] + b[k - 1]
    BY <1>1, <1>2, <1>5 DEF SumRounds
  <2>2. /\ a[k] = a[k - 1] + (IF k \in S THEN h[k] ELSE 0)
        /\ b[k] = b[k - 1] + (IF k \in R THEN h[k] ELSE 0)
        /\ c[k] = c[k - 1] + (IF k \in U THEN h[k] ELSE 0)
    BY <1>1, <1>2, <1>3 DEF SumRounds, SumStep
  <2>3. c[k] = a[k] + b[k]
    BY <2>1, <2>2 DEF Parted
  <2> QED
    BY <2>3
<1> HIDE DEF P
<1>6. \A k \in 0 .. n : k \in P
  BY <1>4, <1>5, Induct
<1>7. n \in P
  BY <1>6
<1> QED
  BY <1>1, <1>2, <1>3, <1>7 DEF P, SumRounds, Adds

\* The sum over no number is 0.
LEMMA SumNone ==
  ASSUME NEW n \in Nat, NEW h \in [1 .. n -> Nat], NEW S, \A k \in 1 .. n : k \notin S
  PROVE  SumOver(n, h, S) = 0
<1>1. PICK f : SumRounds(f, n, h, S)
  BY SumRun, Zenon
<1> DEFINE T == {0}
<1>2. f[0] \in T /\ \A k \in 1 .. n : f[k - 1] \in T => f[k] \in T
  BY <1>1 DEF SumRounds, SumStep
<1> HIDE DEF T
<1>3. \A k \in 0 .. n : f[k] \in T
  BY <1>2, Typed, Zenon
<1> QED
  BY <1>1, <1>3 DEF T, SumRounds

\* Joining two lists joins their entries.
LEMMA ConcatEntries ==
  ASSUME NEW A, NEW a \in Seq(A), NEW b \in Seq(A)
  PROVE  ToSet(a \o b) = ToSet(a) \cup ToSet(b)
<1>1. PICK c : c = a \o b
  OBVIOUS
<1>2. c \in Seq(A) /\ Len(c) = Len(a) + Len(b)
  BY <1>1
<1>3. PICK x \in Nat, y \in Nat : x = Len(a) /\ y = Len(b)
  OBVIOUS
<1>4. DOMAIN a = 1 .. x /\ DOMAIN b = 1 .. y /\ DOMAIN c = 1 .. x + y
  BY <1>2, <1>3
<1>5. \A i \in 1 .. x + y : c[i] = IF i <= x THEN a[i] ELSE b[i - x]
  BY <1>1, <1>3
<1>6. ASSUME NEW i \in 1 .. x PROVE a[i] = c[i] /\ i \in 1 .. x + y
  BY <1>5
<1>7. ASSUME NEW i \in 1 .. y PROVE b[i] = c[i + x] /\ i + x \in 1 .. x + y
  BY <1>5
<1>8. ASSUME NEW i \in 1 .. x + y, i > x PROVE c[i] = b[i - x] /\ i - x \in 1 .. y
  BY <1>5, <1>8
<1>9. ToSet(c) \subseteq ToSet(a) \cup ToSet(b)
  BY <1>4, <1>5, <1>8 DEF ToSet
<1>10. ToSet(a) \subseteq ToSet(c)
  BY <1>4, <1>6 DEF ToSet
<1>11. ToSet(b) \subseteq ToSet(c)
  BY <1>4, <1>7 DEF ToSet
<1> QED
  BY <1>1, <1>9, <1>10, <1>11

\* c is a of length x followed by b of length y.
Spliced(c, a, b, x, y) ==
  /\ Len(c) = x + y /\ DOMAIN c = 1 .. x + y
  /\ \A i \in 1 .. x : c[i] = a[i]
  /\ \A i \in 1 .. y : c[i + x] = b[i]
  /\ \A i \in 1 .. x + y : i > x => c[i] = b[i - x]

\* Where the entries of two joined lists are.
LEMMA ConcatSpliced ==
  ASSUME NEW A, NEW a \in Seq(A), NEW b \in Seq(A), NEW x \in Nat, NEW y \in Nat,
         x = Len(a), y = Len(b)
  PROVE  a \o b \in Seq(A) /\ Spliced(a \o b, a, b, x, y)
<1>1. PICK c : c = a \o b
  OBVIOUS
<1>2. c \in Seq(A) /\ Len(c) = x + y
  BY <1>1
<1>3. DOMAIN c = 1 .. x + y
  BY <1>2
<1>4. \A i \in 1 .. x + y : c[i] = IF i <= x THEN a[i] ELSE b[i - x]
  BY <1>1
<1>5. ASSUME NEW i \in 1 .. x PROVE c[i] = a[i]
  BY <1>4
<1>6. ASSUME NEW i \in 1 .. y PROVE c[i + x] = b[i]
  BY <1>4
<1>7. ASSUME NEW i \in 1 .. x + y, i > x PROVE c[i] = b[i - x]
  BY <1>4, <1>7
<1> QED
  BY <1>1, <1>2, <1>3, <1>5, <1>6, <1>7 DEF Spliced

JoinStep(lists, r, k) == r \o lists[k]

JoinRounds(f, A, n, lists) ==
  /\ f \in [0 .. n -> Seq(A)]
  /\ f[0] = <<>> /\ \A k \in 1 .. n : f[k] = JoinStep(lists, f[k - 1], k)
  /\ Joined(lists) = f[n]

\* The rounds of Joined.
LEMMA JoinRun ==
  ASSUME NEW A, NEW lists \in Seq(Seq(A)), NEW n \in Nat, n = Len(lists)
  PROVE  \E f : JoinRounds(f, A, n, lists)
<1> DEFINE T == Seq(A)
           Def(f) == [k \in 0 .. n |-> IF k = 0 THEN <<>> ELSE JoinStep(lists, f[k - 1], k)]
           s == [k \in 1 .. n |-> [r \in T |-> JoinStep(lists, r, k)]]
<1>0. <<>> \in T /\ \A k \in 1 .. n : \A r \in T : JoinStep(lists, r, k) \in T
  BY DEF JoinStep
<1> HIDE DEF T
<1>1. PICK f : Run(f, T, n, <<>>, s)
  <2>1. s \in [1 .. n -> [T -> T]]
    BY <1>0
  <2> HIDE DEF s
  <2> QED
    BY <1>0, <2>1, Recursion
<1>2. f \in [0 .. n -> T] /\ f[0] = <<>>
  BY <1>1 DEF Run
<1>3. ASSUME NEW k \in 1 .. n PROVE f[k] = JoinStep(lists, f[k - 1], k)
  <2>1. f[k] = s[k][f[k - 1]] /\ f[k - 1] \in T
    <3> HIDE DEF s
    <3> QED
      BY <1>0, <1>1 DEF Run
  <2> QED
    BY <2>1
<1>4. f = Def(f)
  BY <1>0, <1>2, <1>3
<1>5. Joined(lists) = (CHOOSE F : F = Def(F))[n]
  BY Zenon DEF Joined, JoinStep
<1>6. PICK F : F = Def(F) /\ Joined(lists) = F[n]
  BY <1>4, <1>5, Zenon
<1>7. F[0] = <<>> /\ \A k \in 1 .. n : F[k] = JoinStep(lists, F[k - 1], k)
  <2>1. 0 \in 0 .. n /\ \A k \in 1 .. n : k \in 0 .. n /\ k # 0
    OBVIOUS
  <2> QED
    BY ONLY <1>6, <2>1, Zenon
<1>8. \A k \in 0 .. n : F[k] \in T
  <2>1. \A k \in 1 .. n : F[k - 1] \in T => F[k] \in T
    BY <1>0, <1>7
  <2> QED
    BY <1>0, <1>7, <2>1, Typed
<1>9. F \in [0 .. n -> T]
  BY <1>6, <1>8
<1> QED
  BY <1>6, <1>7, <1>9 DEF JoinRounds, T

\* Lists joined are a list, with exactly the entries of the lists.
LEMMA JoinedEntries ==
  ASSUME NEW A, NEW lists \in Seq(Seq(A))
  PROVE  /\ Joined(lists) \in Seq(A)
         /\ ToSet(Joined(lists)) = UNION {ToSet(lists[k]) : k \in DOMAIN lists}
<1>1. PICK n \in Nat : n = Len(lists) /\ DOMAIN lists = 1 .. n
  OBVIOUS
<1>2. PICK f : JoinRounds(f, A, n, lists)
  BY <1>1, JoinRun
<1> DEFINE Upto(k) == UNION {ToSet(lists[i]) : i \in 1 .. k}
           P == {k \in 0 .. n : ToSet(f[k]) = Upto(k)}
<1>3. 0 \in P
  BY <1>2 DEF ToSet, JoinRounds
<1>4. ASSUME NEW k \in 1 .. n, k - 1 \in P PROVE k \in P
  <2>1. PICK a \in Seq(A) : a = f[k - 1]
    BY <1>2 DEF JoinRounds
  <2>2. PICK b \in Seq(A) : b = lists[k]
    BY <1>1
  <2>3. f[k] = a \o b
    BY <1>2, <2>1, <2>2 DEF JoinRounds, JoinStep
  <2>4. ToSet(a \o b) = ToSet(a) \cup ToSet(b)
    BY ConcatEntries
  <2>5. Upto(k) = Upto(k - 1) \cup ToSet(b)
    <3>1. \A i : i \in 1 .. k <=> (i \in 1 .. k - 1 \/ i = k)
      OBVIOUS
    <3> QED
      BY <3>1, <2>2, Zenon
  <2>6. ToSet(f[k]) = Upto(k)
    BY <1>4, <2>1, <2>3, <2>4, <2>5
  <2> QED
    BY <2>6
<1> HIDE DEF P
<1>5. \A k \in 0 .. n : k \in P
  BY <1>3, <1>4, Induct
<1>6. n \in P
  BY <1>5
<1> QED
  BY <1>1, <1>2, <1>6 DEF P, JoinRounds

\* c has the entries of s at the positions that a lists.
Picks(c, a, A, s, K) ==
  /\ Lists(a, Len(s), K)
  /\ c \in Seq(A) /\ Len(c) = Len(a)
  /\ \A j \in 1 .. Len(a) : c[j] = s[a[j]]

\* Chosen picks, in order, the entries it is asked for.
LEMMA ChosenPicks ==
  ASSUME NEW A, NEW s \in Seq(A), NEW K
  PROVE  Picks(Chosen(s, K), Ascending(Len(s), K), A, s, K)
<1>1. PICK n \in Nat : n = Len(s) /\ \A i \in 1 .. n : s[i] \in A
  OBVIOUS
<1>2. PICK a : a = Ascending(n, K)
  OBVIOUS
<1>3. Lists(a, n, K)
  BY <1>2, AscendingLists
<1>4. PICK k \in Nat : k = Len(a) /\ DOMAIN a = 1 .. k /\ \A j \in 1 .. k : a[j] \in 1 .. n
  <2>1. a \in Seq(1 .. n)
    BY <1>3 DEF Lists
  <2> QED
    BY <2>1
<1>5. PICK c : c = [j \in 1 .. k |-> s[a[j]]]
  OBVIOUS
<1>6. Chosen(s, K) = c
  BY <1>1, <1>2, <1>4, <1>5 DEF Chosen
<1>7. c \in Seq(A) /\ Len(c) = k /\ \A j \in 1 .. k : c[j] = s[a[j]]
  BY <1>1, <1>4, <1>5
<1> QED
  BY <1>1, <1>2, <1>3, <1>4, <1>6, <1>7 DEF Picks

\* The entries that Chosen has.
LEMMA ChosenEntries ==
  ASSUME NEW A, NEW s \in Seq(A), NEW K
  PROVE  /\ Chosen(s, K) \in Seq(A)
         /\ ToSet(Chosen(s, K)) = {s[k] : k \in DOMAIN s \cap K}
<1>1. PICK c, a : c = Chosen(s, K) /\ Picks(c, a, A, s, K)
  BY ChosenPicks
<1>2. PICK n \in Nat : n = Len(s) /\ DOMAIN s = 1 .. n
  OBVIOUS
<1>3. PICK k \in Nat : k = Len(a) /\ DOMAIN c = 1 .. k /\ a \in Seq(1 .. n)
  BY <1>1, <1>2 DEF Picks, Lists
<1>4. \A j \in 1 .. k : c[j] = s[a[j]] /\ a[j] \in 1 .. n /\ a[j] \in K
  BY <1>1, <1>2, <1>3 DEF Picks, Lists
<1>5. \A x \in 1 .. n : x \in K => \E j \in 1 .. k : a[j] = x
  BY <1>1, <1>2, <1>3 DEF Picks, Lists
<1>6. ToSet(c) \subseteq {s[x] : x \in DOMAIN s \cap K}
  BY <1>2, <1>3, <1>4 DEF ToSet
<1>7. {s[x] : x \in DOMAIN s \cap K} \subseteq ToSet(c)
  <2> SUFFICES ASSUME NEW x \in 1 .. n, x \in K PROVE \E j \in 1 .. k : c[j] = s[x]
    BY <1>2, <1>3 DEF ToSet
  <2> QED
    BY <1>4, <1>5
<1> QED
  BY <1>1, <1>6, <1>7 DEF Picks

\* Dedup keeps every entry, once.
LEMMA DedupEntries ==
  ASSUME NEW A, NEW s \in Seq(A)
  PROVE  Dedup(s) \in Seq(A) /\ ToSet(Dedup(s)) = ToSet(s) /\ IsInjective(Dedup(s))
<1> DEFINE K == {k \in DOMAIN s : \A j \in 1 .. k - 1 : s[j] # s[k]}
<1>1. PICK n \in Nat : n = Len(s) /\ DOMAIN s = 1 .. n
  OBVIOUS
<1>2. Dedup(s) = Chosen(s, K)
  BY DEF Dedup
<1>3. Chosen(s, K) \in Seq(A) /\ ToSet(Chosen(s, K)) = {s[k] : k \in DOMAIN s \cap K}
  BY ChosenEntries
<1>4. ToSet(s) \subseteq {s[k] : k \in DOMAIN s \cap K}
  <2> SUFFICES ASSUME NEW x \in 1 .. n PROVE \E k \in DOMAIN s \cap K : s[k] = s[x]
    BY <1>1 DEF ToSet
  <2> DEFINE S == {k \in 1 .. n : s[k] = s[x]}
  <2>1. PICK k \in S : \A y \in S : k <= y
    <3>1. x \in S /\ S \in SUBSET Nat
      OBVIOUS
    <3> HIDE DEF S
    <3> QED
      BY <3>1, Smallest
  <2>2. k \in K
    BY <1>1, <2>1
  <2> QED
    BY <1>1, <2>2
<1>5. {s[k] : k \in DOMAIN s \cap K} \subseteq ToSet(s)
  BY DEF ToSet
<1>6. IsInjective(Chosen(s, K))
  <2>1. PICK c, a : c = Chosen(s, K) /\ Picks(c, a, A, s, K)
    BY ChosenPicks
  <2>2. PICK k \in Nat : k = Len(a) /\ DOMAIN c = 1 .. k /\ a \in Seq(1 .. n)
    <3>1. a \in Seq(1 .. n) /\ c \in Seq(A) /\ Len(c) = Len(a)
      BY <1>1, <2>1 DEF Picks, Lists
    <3> QED
      BY <3>1
  <2>3. \A j \in 1 .. k : c[j] = s[a[j]] /\ a[j] \in 1 .. n /\ a[j] \in K
    BY <1>1, <2>1, <2>2 DEF Picks, Lists
  <2>4. \A i, j \in 1 .. k : i < j => a[i] < a[j]
    BY <2>1, <2>2 DEF Picks, Lists
  <2>5. \A i, j \in 1 .. k : i < j => c[i] # c[j]
    <3> SUFFICES ASSUME NEW i \in 1 .. k, NEW j \in 1 .. k, i < j PROVE s[a[i]] # s[a[j]]
      BY <2>3
    <3>1. a[i] < a[j] /\ a[i] \in 1 .. n /\ a[j] \in 1 .. n /\ a[j] \in K
      BY <2>3, <2>4
    <3>2. a[i] \in 1 .. a[j] - 1
      BY <3>1
    <3> QED
      BY <3>1, <3>2
  <2>6. \A i, j \in 1 .. k : c[i] = c[j] => i = j
    BY <2>5
  <2> QED
    BY <2>1, <2>2, <2>6 DEF IsInjective
<1> QED
  BY <1>2, <1>3, <1>4, <1>5, <1>6

-----------------------------------------------------------------------------
(* make_config *)

\* Word i of f is the argument of the flag before it: the closed form.
IsArgument(f, i) ==
  \E a \in 1 .. i - 1 :
    /\ \A k \in a .. i - 1 : f[k] \in Separate
    /\ a > 1 => f[a - 1] \notin Separate
    /\ (i - a) % 2 = 1

\* The word after one that takes an argument is an argument, unless that one is.
LEMMA ArgumentNext ==
  ASSUME NEW f, NEW k \in Nat \ {0}
  PROVE  IsArgument(f, k + 1) <=> (~IsArgument(f, k) /\ f[k] \in Separate)
<1>1. ASSUME IsArgument(f, k + 1)
      PROVE  ~IsArgument(f, k) /\ f[k] \in Separate
  <2>1. PICK a \in 1 .. k : /\ \A j \in a .. k : f[j] \in Separate
                            /\ a > 1 => f[a - 1] \notin Separate
                            /\ (k + 1 - a) % 2 = 1
    BY <1>1 DEF IsArgument
  <2>2. f[k] \in Separate
    BY <2>1
  <2>3. ASSUME IsArgument(f, k) PROVE FALSE
    <3>1. PICK b \in 1 .. k - 1 : /\ \A j \in b .. k - 1 : f[j] \in Separate
                                  /\ b > 1 => f[b - 1] \notin Separate
                                  /\ (k - b) % 2 = 1
      BY <2>3 DEF IsArgument
    <3>2. CASE a < b
      <4>1. b - 1 \in a .. k /\ b > 1
        BY <3>2
      <4> QED
        BY <4>1, <2>1, <3>1
    <3>3. CASE b < a
      <4>1. a - 1 \in b .. k - 1 /\ a > 1
        BY <3>3
      <4> QED
        BY <4>1, <2>1, <3>1
    <3>4. CASE a = b
      BY <3>4, <2>1, <3>1
    <3> QED
      BY <3>2, <3>3, <3>4
  <2> QED
    BY <2>2, <2>3
<1>2. ASSUME ~IsArgument(f, k), f[k] \in Separate
      PROVE  IsArgument(f, k + 1)
  <2> DEFINE S == {a \in 1 .. k : \A j \in a .. k : f[j] \in Separate}
  <2>1. PICK a \in S : \A y \in S : a <= y
    <3>1. k \in S
      BY <1>2
    <3>2. S \in SUBSET Nat
      OBVIOUS
    <3> QED
      BY <3>1, <3>2, Smallest
  <2>2. a > 1 => f[a - 1] \notin Separate
    <3> SUFFICES ASSUME a > 1, f[a - 1] \in Separate PROVE FALSE
      OBVIOUS
    <3>1. a - 1 \in S
      <4>1. \A j \in a - 1 .. k : j = a - 1 \/ j \in a .. k
        BY <2>1
      <4> QED
        BY <4>1, <2>1
    <3> QED
      BY <3>1, <2>1
  <2>3. CASE (k + 1 - a) % 2 = 1
    BY <2>1, <2>2, <2>3 DEF IsArgument
  <2>4. CASE (k + 1 - a) % 2 # 1
    <3>1. (k - a) % 2 = 1 /\ a \in 1 .. k - 1
      BY <2>4, <2>1
    <3>2. IsArgument(f, k)
      BY <3>1, <2>1, <2>2 DEF IsArgument
    <3> QED
      BY <3>2, <1>2
  <2> QED
    BY <2>3, <2>4
<1> QED
  BY <1>1, <1>2

PpRounds(F, n, f) ==
  /\ F[0] = [pos |-> {}, take |-> FALSE]
  /\ \A k \in 1 .. n : F[k] = PpStep(f, F[k - 1], k)
  /\ PpPositions(f) = F[n].pos

\* The rounds of make_config.
LEMMA PpRun ==
  ASSUME NEW f, NEW n \in Nat, n = Len(f)
  PROVE  \E F : PpRounds(F, n, f)
<1> DEFINE T == [pos : SUBSET (1 .. n), take : BOOLEAN]
           b == [pos |-> {}, take |-> FALSE]
           Def(F) == [k \in 0 .. n |-> IF k = 0 THEN b ELSE PpStep(f, F[k - 1], k)]
           s == [k \in 1 .. n |-> [r \in T |-> PpStep(f, r, k)]]
<1>0. b \in T /\ \A k \in 1 .. n : \A r \in T : PpStep(f, r, k) \in T
  BY DEF PpStep
<1> HIDE DEF T, b
<1>1. PICK F : Run(F, T, n, b, s)
  <2>1. s \in [1 .. n -> [T -> T]]
    BY <1>0
  <2> HIDE DEF s
  <2> QED
    BY <1>0, <2>1, Recursion
<1>2. F \in [0 .. n -> T] /\ F[0] = b
  BY <1>1 DEF Run
<1>3. ASSUME NEW k \in 1 .. n PROVE F[k] = PpStep(f, F[k - 1], k)
  <2>1. F[k] = s[k][F[k - 1]] /\ F[k - 1] \in T
    <3> HIDE DEF s
    <3> QED
      BY <1>0, <1>1 DEF Run
  <2> QED
    BY <2>1
<1>4. F = Def(F)
  BY <1>2, <1>3
<1>5. PpPositions(f) = (CHOOSE G : G = Def(G))[n].pos
  BY Zenon DEF PpPositions, b
<1>6. PICK G : G = Def(G) /\ PpPositions(f) = G[n].pos
  BY <1>4, <1>5, Zenon
<1>7. G[0] = b /\ \A k \in 1 .. n : G[k] = PpStep(f, G[k - 1], k)
  <2>1. 0 \in 0 .. n /\ \A k \in 1 .. n : k \in 0 .. n /\ k # 0
    OBVIOUS
  <2> QED
    BY ONLY <1>6, <2>1, Zenon
<1> QED
  BY <1>6, <1>7 DEF PpRounds, b

\* make_config computes the closed form, for every list of flags.
LEMMA FlagsClosedForm ==
  ASSUME NEW A, NEW f \in Seq(A)
  PROVE  PpPositions(f) = {i \in DOMAIN f : IsArgument(f, i) \/ f[i] \in PpFlags}
<1>1. PICK n \in Nat : n = Len(f) /\ DOMAIN f = 1 .. n
  OBVIOUS
<1>2. PICK F : PpRounds(F, n, f)
  BY <1>1, PpRun
<1> DEFINE Want(k) == {i \in 1 .. k : IsArgument(f, i) \/ f[i] \in PpFlags}
           P == {k \in 0 .. n : F[k] = [pos |-> Want(k), take |-> IsArgument(f, k + 1)]}
<1>3. 0 \in P
  <2>1. ~IsArgument(f, 0 + 1)
    BY DEF IsArgument
  <2>2. IsArgument(f, 0 + 1) = FALSE
    BY <2>1 DEF IsArgument
  <2>3. Want(0) = {}
    OBVIOUS
  <2>4. F[0] = [pos |-> Want(0), take |-> IsArgument(f, 0 + 1)]
    BY <1>2, <2>2, <2>3, Zenon DEF PpRounds
  <2> QED
    BY <2>4
<1>4. ASSUME NEW k \in 1 .. n, k - 1 \in P PROVE k \in P
  <2>1. F[k - 1] = [pos |-> Want(k - 1), take |-> IsArgument(f, k)]
    <3>1. k - 1 + 1 = k
      OBVIOUS
    <3> QED
      BY <1>4, <3>1
  <2>2. F[k] = PpStep(f, F[k - 1], k)
    BY <1>2 DEF PpRounds
  <2>3. IsArgument(f, k) \in BOOLEAN /\ IsArgument(f, k + 1) \in BOOLEAN
    BY DEF IsArgument
  <2>4. IsArgument(f, k + 1) = (~IsArgument(f, k) /\ f[k] \in Separate)
    BY <2>3, ArgumentNext
  <2>5. Want(k) = IF IsArgument(f, k) \/ f[k] \in PpFlags THEN Want(k - 1) \cup {k} ELSE Want(k - 1)
    <3>1. \A i : i \in 1 .. k <=> (i \in 1 .. k - 1 \/ i = k)
      OBVIOUS
    <3> HIDE DEF IsArgument
    <3> QED
      BY ONLY <3>1, Zenon
  <2> HIDE DEF Want
  <2>6. F[k] = [pos |-> Want(k), take |-> IsArgument(f, k + 1)]
    <3>1. PICK r : r = F[k - 1]
      OBVIOUS
    <3>2. r.pos = Want(k - 1) /\ r.take = IsArgument(f, k)
      BY <3>1, <2>1
    <3>3. F[k] = [pos |-> IF r.take \/ f[k] \in PpFlags THEN r.pos \cup {k} ELSE r.pos,
                  take |-> ~r.take /\ f[k] \in Separate]
      BY <3>1, <2>2 DEF PpStep
    <3> QED
      BY ONLY <3>2, <3>3, <2>4, <2>5, Zenon
  <2> QED
    BY <2>6
<1> HIDE DEF P
<1>5. \A k \in 0 .. n : k \in P
  BY <1>3, <1>4, Induct
<1>6. n \in P
  BY <1>5
<1>7. F[n].pos = Want(n)
  BY <1>6 DEF P
<1> QED
  BY <1>1, <1>2, <1>7 DEF PpRounds

-----------------------------------------------------------------------------
(* topo_order *)

\* The tasks among the first k of an order.
Visited(o, k) == {o[b] : b \in {y \in DOMAIN o : y <= k}}

\* The deps of s that are not in V, by their place.
Left(dep, V, s) == {j \in DOMAIN dep[s] : dep[s][j] \notin V}

\* What visiting t does to the count of s.
CountsOff(dep, V, t, s) ==
  /\ Cardinality(Left(dep, V, s)) \in Nat
  /\ Occurrences(t, dep[s]) \in 0 .. Cardinality(Left(dep, V, s))
  /\ Cardinality(Left(dep, V \cup {t}, s)) = Cardinality(Left(dep, V, s)) - Occurrences(t, dep[s])

\* A visit takes its task out of the deps that are left, as often as it is there.
LEMMA LeftVisit ==
  ASSUME NEW n \in Nat, NEW dep \in [1 .. n -> Seq(1 .. n)], NEW V, NEW t, t \notin V, NEW s \in 1 .. n
  PROVE  CountsOff(dep, V, t, s)
<1>1. PICK d \in Seq(1 .. n) : d = dep[s]
  OBVIOUS
<1>2. PICK L \in Nat : L = Len(d) /\ DOMAIN d = 1 .. L
  OBVIOUS
<1> DEFINE A == Left(dep, V, s)
           B == {j \in DOMAIN d : d[j] = t}
<1>3. A \subseteq 1 .. L /\ B \subseteq A /\ Left(dep, V \cup {t}, s) = A \ B /\ A \cap B = B
  BY <1>1, <1>2 DEF Left
<1>4. IsFiniteSet(1 .. L)
  BY FS_Interval
<1>5. Occurrences(t, dep[s]) = Cardinality(B)
  BY <1>1 DEF Occurrences
<1> HIDE DEF A, B
<1>6. IsFiniteSet(A) /\ Cardinality(A) \in Nat
  BY <1>3, <1>4, FS_Subset, FS_CardinalityType
<1>7. IsFiniteSet(B) /\ Cardinality(B) \in Nat /\ Cardinality(B) <= Cardinality(A)
  BY <1>3, <1>6, FS_Subset, FS_CardinalityType
<1>8. Cardinality(A \ B) = Cardinality(A) - Cardinality(B)
  BY <1>3, <1>6, FS_Difference
<1>9. Left(dep, V, s) = A
  BY DEF A
<1>10. PICK x, y : x = Cardinality(A) /\ y = Cardinality(B)
  OBVIOUS
<1>11. y \in 0 .. x
  BY <1>6, <1>7, <1>10
<1>12. /\ Cardinality(Left(dep, V, s)) = x /\ Occurrences(t, dep[s]) = y
       /\ Cardinality(Left(dep, V \cup {t}, s)) = x - y /\ x \in Nat
  BY ONLY <1>3, <1>5, <1>6, <1>8, <1>9, <1>10, Zenon
<1> QED
  BY ONLY <1>11, <1>12, Zenon DEF CountsOff

\* No dep is left exactly when all have been visited.
LEMMA LeftNone ==
  ASSUME NEW n \in Nat, NEW dep \in [1 .. n -> Seq(1 .. n)], NEW V, NEW s \in 1 .. n
  PROVE  Cardinality(Left(dep, V, s)) = 0 <=> ToSet(dep[s]) \subseteq V
<1>1. PICK d \in Seq(1 .. n) : d = dep[s]
  OBVIOUS
<1>2. PICK L \in Nat : L = Len(d) /\ DOMAIN d = 1 .. L
  OBVIOUS
<1>3. Left(dep, V, s) = {j \in DOMAIN d : d[j] \notin V}
  BY <1>1 DEF Left
<1>4. IsFiniteSet(Left(dep, V, s))
  <2>1. IsFiniteSet(1 .. L) /\ Left(dep, V, s) \in SUBSET (1 .. L)
    BY <1>2, <1>3, FS_Interval
  <2> QED
    BY <2>1, FS_Subset
<1>5. Cardinality(Left(dep, V, s)) = 0 <=> Left(dep, V, s) = {}
  BY <1>4, FS_EmptySet
<1>6. Left(dep, V, s) = {} <=> ToSet(d) \subseteq V
  BY <1>3 DEF ToSet
<1> QED
  BY <1>1, <1>5, <1>6

\* Order and counters after k visits.
KahnInv(dep, n, o, ind, k) ==
  /\ o \in Seq(1 .. n) /\ IsInjective(o)
  /\ ind \in [1 .. n -> Nat]
  /\ \A s \in 1 .. n : ind[s] = Cardinality(Left(dep, Visited(o, k), s))
  /\ \A s \in 1 .. n : s \in ToSet(o) <=> ind[s] = 0
  /\ \A a \in 1 .. Len(o) : \A d \in ToSet(dep[o[a]]) : \E b \in 1 .. a - 1 : o[b] = d

\* Before the first visit the tasks without deps are in order.
LEMMA KahnFirst ==
  ASSUME NEW n \in Nat, NEW dep \in [1 .. n -> Seq(1 .. n)], NEW o, NEW ind,
         Lists(o, n, {i \in 1 .. n : Len(dep[i]) = 0}), ind = [i \in 1 .. n |-> Len(dep[i])]
  PROVE  KahnInv(dep, n, o, ind, 0)
<1>1. o \in Seq(1 .. n) /\ ind \in [1 .. n -> Nat]
  BY DEF Lists
<1>2. IsInjective(o)
  BY ListsOnce
<1>3. Visited(o, 0) = {}
  BY <1>1 DEF Visited
<1>4. ASSUME NEW s \in 1 .. n PROVE ind[s] = Cardinality(Left(dep, Visited(o, 0), s))
  <2>1. PICK L \in Nat : L = Len(dep[s]) /\ DOMAIN dep[s] = 1 .. L
    OBVIOUS
  <2>2. Left(dep, Visited(o, 0), s) = 1 .. L
    BY <1>3, <2>1 DEF Left
  <2>3. Cardinality(1 .. L) = L
    BY FS_Interval
  <2> QED
    BY <2>1, <2>2, <2>3
<1>5. ASSUME NEW s \in 1 .. n PROVE s \in ToSet(o) <=> ind[s] = 0
  <2>1. ind[s] = Len(dep[s])
    OBVIOUS
  <2>2. s \in ToSet(o) <=> \E i \in 1 .. Len(o) : o[i] = s
    BY <1>1 DEF ToSet
  <2> QED
    BY <1>1, <2>1, <2>2 DEF Lists
<1>6. ASSUME NEW a \in 1 .. Len(o) PROVE ToSet(dep[o[a]]) = {}
  <2>1. PICK i \in 1 .. n : i = o[a] /\ Len(dep[i]) = 0
    BY <1>1 DEF Lists
  <2>2. PICK d \in Seq(1 .. n) : d = dep[i] /\ Len(d) = 0
    BY <2>1
  <2>3. ToSet(d) = {}
    BY <2>2 DEF ToSet
  <2> QED
    BY <2>1, <2>2, <2>3
<1> QED
  BY <1>1, <1>2, <1>4, <1>5, <1>6 DEF KahnInv

\* A visit keeps the order right.
LEMMA KahnVisit ==
  ASSUME NEW n \in Nat, NEW dep \in [1 .. n -> Seq(1 .. n)], NEW o, NEW ind,
         NEW N \in Nat, N = Len(o), NEW k \in 1 .. N, KahnInv(dep, n, o, ind, k - 1),
         NEW new, Lists(new, n, {s \in 1 .. n : CountedDown(ind[s], Occurrences(o[k], dep[s]))}),
         NEW ind2, ind2 = [s \in 1 .. n |-> ind[s] - Occurrences(o[k], dep[s])]
  PROVE  KahnInv(dep, n, o \o new, ind2, k)
<1>1. DOMAIN o = 1 .. N
  BY DEF KahnInv
<1>2. o \in Seq(1 .. n) /\ IsInjective(o) /\ ind \in [1 .. n -> Nat]
  BY DEF KahnInv
<1>3. PICK t \in 1 .. n : t = o[k]
  BY <1>2
<1>4. PICK V : V = Visited(o, k - 1)
  OBVIOUS
<1>5. t \notin V
  <2>1. ASSUME NEW b \in DOMAIN o, b <= k - 1 PROVE o[b] # o[k]
    <3>1. k \in DOMAIN o /\ b # k
      BY <1>1, <2>1
    <3> QED
      BY <3>1, <1>2 DEF IsInjective
  <2> QED
    BY <1>3, <1>4, <2>1 DEF Visited
<1>6. PICK M \in Nat : M = Len(new) /\ DOMAIN new = 1 .. M
  <2>1. new \in Seq(1 .. n)
    BY DEF Lists
  <2> QED
    BY <2>1
<1>7. new \in Seq(1 .. n)
  BY DEF Lists
<1>8. PICK p : p = o \o new
  OBVIOUS
<1>9. p \in Seq(1 .. n) /\ Spliced(p, o, new, N, M)
  BY <1>2, <1>6, <1>7, <1>8, ConcatSpliced
<1>10. /\ DOMAIN p = 1 .. N + M /\ Len(p) = N + M
       /\ \A i \in 1 .. N : p[i] = o[i]
       /\ \A i \in 1 .. N + M : i > N => p[i] = new[i - N] /\ i - N \in 1 .. M
  <2>1. \A i \in 1 .. N + M : i > N => i - N \in 1 .. M
    OBVIOUS
  <2> QED
    BY ONLY <1>9, <2>1 DEF Spliced
<1>11. Visited(p, k) = V \cup {t}
  <2>1. \A b : b \in {y \in DOMAIN p : y <= k} <=> (b \in {y \in DOMAIN o : y <= k - 1} \/ b = k)
    BY <1>1, <1>10
  <2>2. \A b \in {y \in DOMAIN p : y <= k} : p[b] = o[b]
    BY <1>10
  <2> QED
    BY ONLY <1>3, <1>4, <2>1, <2>2, Zenon DEF Visited
<1>12. \A s \in 1 .. n : /\ ind[s] = Cardinality(Left(dep, V, s))
                         /\ Occurrences(t, dep[s]) \in 0 .. ind[s]
                         /\ ind2[s] = Cardinality(Left(dep, Visited(p, k), s))
                         /\ ind2[s] = ind[s] - Occurrences(t, dep[s]) /\ ind2[s] \in Nat
  <2> SUFFICES ASSUME NEW s \in 1 .. n
               PROVE  /\ ind[s] = Cardinality(Left(dep, V, s))
                      /\ Occurrences(t, dep[s]) \in 0 .. ind[s]
                      /\ ind2[s] = Cardinality(Left(dep, Visited(p, k), s))
                      /\ ind2[s] = ind[s] - Occurrences(t, dep[s]) /\ ind2[s] \in Nat
    OBVIOUS
  <2>1. ind[s] = Cardinality(Left(dep, V, s)) /\ ind[s] \in Nat
    BY <1>2, <1>4 DEF KahnInv
  <2>2. /\ Occurrences(t, dep[s]) \in 0 .. Cardinality(Left(dep, V, s))
        /\ Cardinality(Left(dep, V \cup {t}, s)) = Cardinality(Left(dep, V, s)) - Occurrences(t, dep[s])
    <3>1. CountsOff(dep, V, t, s)
      BY <1>5, LeftVisit, Zenon
    <3> QED
      BY <3>1 DEF CountsOff
  <2>3. ind2[s] = ind[s] - Occurrences(t, dep[s])
    BY <1>3
  <2> QED
    BY <1>11, <2>1, <2>2, <2>3
<1>13. ind2 \in [1 .. n -> Nat]
  BY <1>12
<1>14. \A s \in 1 .. n : s \in ToSet(o) <=> ind[s] = 0
  BY DEF KahnInv
<1>15. \A s \in 1 .. n : (\E i \in 1 .. M : new[i] = s) <=> (ind[s] > 0 /\ ind2[s] = 0)
  <2> SUFFICES ASSUME NEW s \in 1 .. n
               PROVE  (\E i \in 1 .. M : new[i] = s) <=> (ind[s] > 0 /\ ind2[s] = 0)
    OBVIOUS
  <2> DEFINE S == {y \in 1 .. n : CountedDown(ind[y], Occurrences(o[k], dep[y]))}
  <2>1. (\E i \in 1 .. M : new[i] = s) <=> s \in S
    <3> HIDE DEF S
    <3>1. Lists(new, n, S)
      BY DEF S
    <3> QED
      BY <3>1, <1>6 DEF Lists
  <2>2. s \in S <=> ind[s] \in 1 .. Occurrences(t, dep[s])
    BY <1>3 DEF CountedDown
  <2>3. PICK c : c = Occurrences(t, dep[s])
    OBVIOUS
  <2>4. c \in 0 .. ind[s] /\ ind[s] \in Nat /\ ind2[s] = ind[s] - c
    BY <1>2, <1>12, <2>3
  <2>5. ind[s] \in 1 .. c <=> (ind[s] > 0 /\ ind2[s] = 0)
    BY <2>4
  <2> QED
    BY <2>1, <2>2, <2>3, <2>5
<1>16. \A i \in 1 .. N : ind[o[i]] = 0 /\ o[i] \in 1 .. n
  <2>1. ASSUME NEW i \in 1 .. N PROVE o[i] \in ToSet(o) /\ o[i] \in 1 .. n
    <3>1. o[i] \in ToSet(o)
      BY <1>1 DEF ToSet
    <3> QED
      BY ONLY <1>2, N = Len(o), i \in 1 .. N, <3>1
  <2> QED
    BY <1>14, <2>1
<1>17. \A i \in 1 .. M : ind[new[i]] > 0 /\ ind2[new[i]] = 0 /\ new[i] \in 1 .. n
  BY <1>6, <1>7, <1>15
<1>18. IsInjective(p)
  <2>1. \A i, j \in 1 .. M : i < j => new[i] # new[j]
    <3>1. IsInjective(new)
      BY ListsOnce
    <3>2. \A i, j \in 1 .. M : new[i] = new[j] => i = j
      BY <1>6, <3>1 DEF IsInjective
    <3> QED
      BY <3>2
  <2>2. ASSUME NEW i \in 1 .. N + M, NEW j \in 1 .. N + M, i < j PROVE p[i] # p[j]
    <3>1. CASE j <= N
      <4>1. p[i] = o[i] /\ p[j] = o[j] /\ i \in DOMAIN o /\ j \in DOMAIN o /\ i # j
        BY <3>1, <2>2, <1>1, <1>10
      <4> QED
        BY <4>1, <1>2 DEF IsInjective
    <3>2. CASE i <= N /\ j > N
      <4>1. p[i] = o[i] /\ i \in 1 .. N /\ p[j] = new[j - N] /\ j - N \in 1 .. M
        BY <3>2, <1>10
      <4>2. ind[o[i]] = 0 /\ ind[new[j - N]] > 0
        BY <4>1, <1>16, <1>17
      <4> QED
        BY <4>1, <4>2
    <3>3. CASE i > N
      <4>1. p[i] = new[i - N] /\ p[j] = new[j - N] /\ i - N \in 1 .. M /\ j - N \in 1 .. M /\ i - N < j - N
        BY <3>3, <2>2, <1>10
      <4> QED
        BY <4>1, <2>1
    <3> QED
      BY <3>1, <3>2, <3>3
  <2>3. \A i, j \in 1 .. N + M : p[i] = p[j] => i = j
    BY <2>2
  <2> QED
    BY <1>10, <2>3 DEF IsInjective
<1>19. ASSUME NEW s \in 1 .. n PROVE s \in ToSet(p) <=> ind2[s] = 0
  <2>1. ToSet(p) = ToSet(o) \cup ToSet(new)
    BY <1>2, <1>7, <1>8, ConcatEntries
  <2>2. s \in ToSet(new) <=> \E i \in 1 .. M : new[i] = s
    BY <1>6 DEF ToSet
  <2>3. ind[s] \in Nat /\ ind2[s] \in Nat /\ ind2[s] <= ind[s]
    <3>1. PICK c : c = Occurrences(t, dep[s])
      OBVIOUS
    <3>2. c \in 0 .. ind[s] /\ ind2[s] = ind[s] - c /\ ind2[s] \in Nat /\ ind[s] \in Nat
      BY ONLY <1>2, <1>12, <3>1, s \in 1 .. n
    <3> QED
      BY ONLY <3>2
  <2> QED
    BY <1>14, <1>15, <2>1, <2>2, <2>3
<1>20. ASSUME NEW a \in 1 .. N + M, NEW d \in ToSet(dep[p[a]])
       PROVE  \E b \in 1 .. a - 1 : p[b] = d
  <2>1. CASE a <= N
    <3>1. d \in ToSet(dep[o[a]]) /\ a \in 1 .. Len(o)
      BY <2>1, <1>1, <1>10, <1>20
    <3>2. PICK b \in 1 .. a - 1 : o[b] = d
      BY <3>1 DEF KahnInv
    <3>3. b \in 1 .. N
      BY <2>1
    <3> QED
      BY <3>2, <3>3, <1>10
  <2>2. CASE a > N
    <3>1. PICK s \in 1 .. n : s = p[a] /\ ind2[s] = 0
      BY <2>2, <1>10, <1>17
    <3>2. Cardinality(Left(dep, V \cup {t}, s)) = 0
      BY <3>1, <1>11, <1>12
    <3>3. d \in V \cup {t}
      <4>1. PICK X : X = V \cup {t}
        OBVIOUS
      <4>2. Cardinality(Left(dep, X, s)) = 0
        BY ONLY <3>2, <4>1, Zenon
      <4>3. ToSet(dep[s]) \subseteq X
        BY ONLY <4>2, LeftNone, n \in Nat, dep \in [1 .. n -> Seq(1 .. n)], s \in 1 .. n, Zenon
      <4> QED
        BY ONLY <3>1, <4>1, <4>3, d \in ToSet(dep[p[a]]), Zenon
    <3>4. \E b \in 1 .. N : o[b] = d
      BY <3>3, <1>1, <1>3, <1>4 DEF Visited
    <3>5. PICK b \in 1 .. N : o[b] = d
      BY <3>4
    <3>6. b \in 1 .. a - 1 /\ p[b] = d
      BY <3>5, <2>2, <1>10
    <3> QED
      BY <3>6
  <2> QED
    BY <2>1, <2>2
<1> QED
  <2>1. \A s \in 1 .. n : ind2[s] = Cardinality(Left(dep, Visited(p, k), s))
    BY ONLY <1>12, Zenon
  <2>2. \A a \in 1 .. Len(p) : \A d \in ToSet(dep[p[a]]) : \E b \in 1 .. a - 1 : p[b] = d
    BY ONLY <1>10, <1>20, Zenon
  <2>3. KahnInv(dep, n, p, ind2, k)
    BY ONLY <1>9, <1>13, <1>18, <1>19, <2>1, <2>2, Zenon DEF KahnInv
  <2> QED
    BY ONLY <1>8, <2>3, Zenon

\* A graph's tasks are numbered 1 .. n, and its deps are numbers.
Sized(x, n) ==
  n \in Nat /\ n = Len(x) /\ DOMAIN x = 1 .. n /\ \A i \in 1 .. n : x[i].deps \in Seq(Int)

\* Every graph has a size.
LEMMA GraphSized ==
  ASSUME NEW x, IsGraph(x)
  PROVE  \E n : Sized(x, n)
<1>1. x \in Seq(ToSet(x)) /\ \A i \in DOMAIN x : x[i].deps \in Seq(Int)
  BY DEF IsGraph
<1>2. PICK n \in Nat : n = Len(x) /\ DOMAIN x = 1 .. n
  BY <1>1
<1> QED
  BY <1>1, <1>2 DEF Sized

\* How often a number stands in a list.
LEMMA OccurrencesType ==
  ASSUME NEW A, NEW d \in Seq(A), NEW t
  PROVE  Occurrences(t, d) \in Nat
<1>1. PICK L \in Nat : DOMAIN d = 1 .. L
  OBVIOUS
<1>2. IsFiniteSet(1 .. L) /\ {k \in DOMAIN d : d[k] = t} \in SUBSET (1 .. L)
  BY <1>1, FS_Interval
<1> QED
  BY <1>2, FS_Subset, FS_CardinalityType DEF Occurrences

KahnRounds(F, x, n) ==
  /\ F[0] = KahnStart(x)
  /\ \A k \in 1 .. n : F[k] = KahnStep(x, F[k - 1], k)
  /\ Kahn(x) = F[n].order

\* The rounds of topo_order.
LEMMA KahnRun ==
  ASSUME NEW x, NEW n, Sized(x, n)
  PROVE  \E F : KahnRounds(F, x, n)
<1> DEFINE T == [order : Seq(1 .. n), indeg : [1 .. n -> Int]]
           b == KahnStart(x)
           Def(F) == [k \in 0 .. n |-> IF k = 0 THEN b ELSE KahnStep(x, F[k - 1], k)]
           s == [k \in 1 .. n |-> [r \in T |-> KahnStep(x, r, k)]]
<1>n. n \in Nat /\ n = Len(x) /\ DOMAIN x = 1 .. n /\ \A i \in 1 .. n : x[i].deps \in Seq(Int)
  BY DEF Sized
<1>a. \A S : Ascending(n, S) \in Seq(1 .. n)
  BY <1>n, AscendingLists DEF Lists
<1>0. b \in T
  BY <1>n, <1>a DEF KahnStart
<1>s. ASSUME NEW k \in 1 .. n, NEW r \in T PROVE KahnStep(x, r, k) \in T
  <2>1. PICK c : c = [i \in DOMAIN x |-> Occurrences(r.order[k], x[i].deps)]
    OBVIOUS
  <2>2. c \in [1 .. n -> Int]
    BY <1>n, <2>1, OccurrencesType
  <2>3. PICK a : a = Ascending(Len(x), {i \in DOMAIN x : CountedDown(r.indeg[i], c[i])})
    OBVIOUS
  <2>4. Visit(x, r, r.order[k]) = [order |-> r.order \o a, indeg |-> [i \in DOMAIN x |-> r.indeg[i] - c[i]]]
    BY <2>1, <2>3 DEF Visit
  <2>5. a \in Seq(1 .. n)
    BY <1>n, <1>a, <2>3
  <2>6. Visit(x, r, r.order[k]) \in T
    BY <1>n, <2>2, <2>4, <2>5
  <2> QED
    BY <2>6 DEF KahnStep
<1> HIDE DEF T, b
<1>1. PICK F : Run(F, T, n, b, s)
  <2>1. s \in [1 .. n -> [T -> T]]
    BY <1>s
  <2> HIDE DEF s
  <2> QED
    BY <1>n, <1>0, <2>1, Recursion
<1>2. F \in [0 .. n -> T] /\ F[0] = b
  BY <1>1 DEF Run
<1>3. ASSUME NEW k \in 1 .. n PROVE F[k] = KahnStep(x, F[k - 1], k)
  <2>1. F[k] = s[k][F[k - 1]] /\ F[k - 1] \in T
    <3> HIDE DEF s
    <3> QED
      BY <1>n, <1>1 DEF Run
  <2> QED
    BY <2>1
<1>4. F = Def(F)
  BY <1>2, <1>3
<1>5. Kahn(x) = (CHOOSE G : G = Def(G))[n].order
  BY <1>n, Zenon DEF Kahn, b
<1>6. PICK G : G = Def(G) /\ Kahn(x) = G[n].order
  BY <1>4, <1>5, Zenon
<1>7. G[0] = b /\ \A k \in 1 .. n : G[k] = KahnStep(x, G[k - 1], k)
  <2>1. 0 \in 0 .. n /\ \A k \in 1 .. n : k \in 0 .. n /\ k # 0
    BY <1>n
  <2> QED
    BY ONLY <1>6, <2>1, Zenon
<1> QED
  BY <1>6, <1>7 DEF KahnRounds, b

\* What a well-formed graph's deps are.
LEMMA GoodDeps ==
  ASSUME NEW x, NEW n, Sized(x, n), WellFormed(x)
  PROVE  [i \in 1 .. n |-> x[i].deps] \in [1 .. n -> Seq(1 .. n)]
<1> SUFFICES ASSUME NEW i \in 1 .. n PROVE x[i].deps \in Seq(1 .. n)
  OBVIOUS
<1>1. PICK d : d = x[i].deps
  OBVIOUS
<1>2. d \in Seq(Int) /\ ToSet(d) \subseteq 1 .. n
  BY <1>1 DEF Sized, WellFormed
<1>3. \A j \in 1 .. Len(d) : d[j] \in 1 .. n
  BY <1>2 DEF ToSet
<1>4. PICK L \in Nat : L = Len(d) /\ d \in [1 .. L -> Int]
  BY <1>2
<1>5. d \in [1 .. L -> 1 .. n]
  BY <1>3, <1>4
<1>6. d \in Seq(1 .. n)
  BY <1>5, SeqDef
<1> QED
  BY <1>1, <1>6

\* A round without a task to visit changes nothing.
LEMMA KahnIdle ==
  ASSUME NEW n \in Nat, NEW dep, NEW o, NEW ind, NEW k \in 1 .. n, KahnInv(dep, n, o, ind, k - 1),
         k > Len(o)
  PROVE  KahnInv(dep, n, o, ind, k)
<1>1. PICK N \in Nat : N = Len(o) /\ DOMAIN o = 1 .. N
  BY DEF KahnInv
<1>2. \A b : b \in {y \in DOMAIN o : y <= k} <=> b \in {y \in DOMAIN o : y <= k - 1}
  BY <1>1
<1>3. Visited(o, k) = Visited(o, k - 1)
  BY <1>2, Zenon DEF Visited
<1> QED
  BY <1>3 DEF KahnInv

\* topo_order's loop keeps its order right, and ends with it.
LEMMA KahnEnds ==
  ASSUME NEW x, NEW n, Sized(x, n), WellFormed(x),
         NEW dep, dep = [i \in 1 .. n |-> x[i].deps]
  PROVE  \E ind : KahnInv(dep, n, Kahn(x), ind, n)
<1>n. n \in Nat /\ n = Len(x) /\ DOMAIN x = 1 .. n
  BY DEF Sized
<1>d. dep \in [1 .. n -> Seq(1 .. n)]
  BY GoodDeps
<1>1. PICK F : KahnRounds(F, x, n)
  BY KahnRun
<1> DEFINE P == {k \in 0 .. n : KahnInv(dep, n, F[k].order, F[k].indeg, k)}
<1>2. 0 \in P
  <2>1. PICK o, ind : o = F[0].order /\ ind = F[0].indeg
    OBVIOUS
  <2>2. /\ o = Ascending(Len(x), {i \in DOMAIN x : Len(x[i].deps) = 0})
        /\ ind = [i \in DOMAIN x |-> Len(x[i].deps)]
    BY <1>1, <2>1 DEF KahnRounds, KahnStart
  <2>3. {i \in DOMAIN x : Len(x[i].deps) = 0} = {i \in 1 .. n : Len(dep[i]) = 0}
    BY <1>n
  <2>4. Lists(o, n, {i \in 1 .. n : Len(dep[i]) = 0})
    BY <1>n, <2>2, <2>3, AscendingLists
  <2>5. ind = [i \in 1 .. n |-> Len(dep[i])]
    BY <1>n, <2>2
  <2>6. KahnInv(dep, n, o, ind, 0)
    BY <1>n, <1>d, <2>4, <2>5, KahnFirst, Zenon
  <2> QED
    BY <1>n, <2>1, <2>6
<1>3. ASSUME NEW k \in 1 .. n, k - 1 \in P PROVE k \in P
  <2>1. PICK r : r = F[k - 1]
    OBVIOUS
  <2>2. PICK o, ind : o = r.order /\ ind = r.indeg /\ KahnInv(dep, n, o, ind, k - 1)
    BY <1>3, <2>1
  <2>3. F[k] = IF k > Len(o) THEN r ELSE Visit(x, r, o[k])
    BY <1>1, <2>1, <2>2 DEF KahnRounds, KahnStep
  <2>4. CASE k > Len(o)
    <3>1. KahnInv(dep, n, o, ind, k)
      BY <1>n, <2>2, <2>4, KahnIdle, Zenon
    <3> QED
      BY <3>1, <2>1, <2>2, <2>3, <2>4
  <2>5. CASE ~(k > Len(o))
    <3>1. PICK N \in Nat : N = Len(o) /\ k \in 1 .. N
      BY <2>2, <2>5 DEF KahnInv
    <3>2. PICK new : new = Ascending(Len(x), {i \in DOMAIN x : CountedDown(ind[i], Occurrences(o[k], dep[i]))})
      OBVIOUS
    <3>3. PICK ind2 : ind2 = [i \in 1 .. n |-> ind[i] - Occurrences(o[k], dep[i])]
      OBVIOUS
    <3>4. Lists(new, n, {i \in 1 .. n : CountedDown(ind[i], Occurrences(o[k], dep[i]))})
      BY <1>n, <3>2, AscendingLists
    <3>5. Visit(x, r, o[k]) = [order |-> o \o new, indeg |-> ind2]
      <4>1. PICK c : c = [i \in DOMAIN x |-> Occurrences(o[k], x[i].deps)]
        OBVIOUS
      <4>2. \A i \in 1 .. n : c[i] = Occurrences(o[k], dep[i])
        BY <1>n, <4>1
      <4>3. {i \in DOMAIN x : CountedDown(ind[i], c[i])} = {i \in DOMAIN x : CountedDown(ind[i], Occurrences(o[k], dep[i]))}
        BY <1>n, <4>2
      <4>4. [i \in DOMAIN x |-> ind[i] - c[i]] = ind2
        BY <1>n, <4>2, <3>3
      <4>5. Visit(x, r, o[k]) = [order |-> r.order \o Ascending(Len(x), {i \in DOMAIN x : CountedDown(r.indeg[i], c[i])}),
                                 indeg |-> [i \in DOMAIN x |-> r.indeg[i] - c[i]]]
        BY <4>1, Zenon DEF Visit
      <4> QED
        BY ONLY <2>2, <3>2, <4>3, <4>4, <4>5, Zenon
    <3>6. KahnInv(dep, n, o \o new, ind2, k)
      BY <1>n, <1>d, <2>2, <3>1, <3>3, <3>4, KahnVisit, Zenon
    <3>7. F[k] = [order |-> o \o new, indeg |-> ind2]
      BY <2>3, <2>5, <3>5
    <3>8. F[k].order = o \o new /\ F[k].indeg = ind2
      BY <3>7
    <3>9. KahnInv(dep, n, F[k].order, F[k].indeg, k) /\ k \in 0 .. n
      BY <3>6, <3>8
    <3> QED
      BY <3>9, Zenon
  <2> QED
    BY <2>4, <2>5
<1> HIDE DEF P
<1>4. \A k \in 0 .. n : k \in P
  BY <1>n, <1>2, <1>3, Induct
<1>5. n \in P
  BY <1>n, <1>4
<1>6. KahnInv(dep, n, F[n].order, F[n].indeg, n)
  BY <1>5 DEF P
<1>7. Kahn(x) = F[n].order
  BY <1>1 DEF KahnRounds
<1> QED
  BY <1>6, <1>7

\* Some tasks of x wait for each other in a ring.
Ring(x) == \E S \in (SUBSET DOMAIN x) \ {{}} : \A i \in S : ToSet(x[i].deps) \cap S # {}

\* o has no task twice, and every task in it after its deps.
InOrder(x, n, o) ==
  /\ o \in Seq(1 .. n) /\ IsInjective(o)
  /\ \A a \in 1 .. Len(o) : \A d \in ToSet(x[o[a]].deps) : \E b \in 1 .. a - 1 : o[b] = d

\* A list of numbers up to n without repetition is no longer than n, and has all
\* of them exactly when it is that long.
LEMMA Permutation ==
  ASSUME NEW n \in Nat, NEW o \in Seq(1 .. n), IsInjective(o)
  PROVE  /\ Len(o) \in 0 .. n
         /\ Len(o) = n <=> 1 .. n \subseteq ToSet(o)
<1>1. PICK N \in Nat : N = Len(o) /\ DOMAIN o = 1 .. N /\ o \in [1 .. N -> 1 .. n]
  OBVIOUS
<1>2. o \in Injection(1 .. N, 1 .. n)
  BY <1>1 DEF Injection
<1>3. IsFiniteSet(1 .. n) /\ Cardinality(1 .. n) = n /\ Cardinality(1 .. N) = N
  <2>1. \A q \in Nat : IsFiniteSet(1 .. q) /\ Cardinality(1 .. q) = q
    BY ONLY FS_Interval
  <2> QED
    BY <2>1
<1>4. /\ Cardinality(1 .. N) <= Cardinality(1 .. n)
      /\ Cardinality(1 .. N) = Cardinality(1 .. n) <=> o \in Surjection(1 .. N, 1 .. n)
  BY <1>2, <1>3, FS_Injection
<1>5. o \in Surjection(1 .. N, 1 .. n) <=> 1 .. n \subseteq ToSet(o)
  BY <1>1 DEF Surjection, ToSet
<1>6. N <= n /\ (N = n <=> 1 .. n \subseteq ToSet(o))
  BY ONLY <1>3, <1>4, <1>5
<1>7. N \in 0 .. n
  BY ONLY <1>6, N \in Nat, n \in Nat
<1> QED
  BY ONLY <1>1, <1>6, <1>7, Zenon

\* topo_order's loop puts tasks in order, and what it leaves out has a dep that it
\* leaves out.
LEMMA KahnOrders ==
  ASSUME NEW x, NEW n, Sized(x, n), WellFormed(x)
  PROVE  /\ InOrder(x, n, Kahn(x))
         /\ \A s \in 1 .. n : s \notin ToSet(Kahn(x)) => ~(ToSet(x[s].deps) \subseteq ToSet(Kahn(x)))
<1>n. n \in Nat
  BY DEF Sized
<1>1. PICK dep : dep = [i \in 1 .. n |-> x[i].deps]
  OBVIOUS
<1>2. PICK ind : KahnInv(dep, n, Kahn(x), ind, n)
  BY <1>1, KahnEnds
<1>3. PICK o : o = Kahn(x)
  OBVIOUS
<1>4. o \in Seq(1 .. n) /\ IsInjective(o)
  BY <1>2, <1>3 DEF KahnInv
<1>5. PICK N \in Nat : N = Len(o) /\ DOMAIN o = 1 .. N /\ \A a \in 1 .. N : o[a] \in 1 .. n
  BY ONLY <1>4, LenProperties, ElementOfSeq
<1>6. \A s \in 1 .. n : dep[s] = x[s].deps
  BY <1>1
<1>7. ASSUME NEW a \in 1 .. N, NEW d \in ToSet(x[o[a]].deps) PROVE \E b \in 1 .. a - 1 : o[b] = d
  <2>1. d \in ToSet(dep[o[a]])
    BY <1>5, <1>6, <1>7
  <2> QED
    BY <1>2, <1>3, <1>5, <2>1 DEF KahnInv
<1>8. Visited(o, n) = ToSet(o)
  <2>1. N <= n
    BY <1>n, <1>4, <1>5, Permutation
  <2>2. {y \in DOMAIN o : y <= n} = DOMAIN o
    BY <1>n, <1>5, <2>1
  <2> QED
    BY <2>2 DEF Visited, ToSet
<1>9. ASSUME NEW s \in 1 .. n, s \notin ToSet(o) PROVE ~(ToSet(x[s].deps) \subseteq ToSet(o))
  <2>1. Cardinality(Left(dep, Visited(o, n), s)) # 0
    BY <1>2, <1>3, <1>9 DEF KahnInv
  <2>2. dep \in [1 .. n -> Seq(1 .. n)]
    BY <1>1, GoodDeps
  <2>3. ~(ToSet(dep[s]) \subseteq Visited(o, n))
    BY <1>n, <2>1, <2>2, LeftNone
  <2> QED
    BY <1>6, <1>8, <2>3
<1> QED
  BY <1>3, <1>4, <1>5, <1>7, <1>9 DEF InOrder

\* An order of all tasks leaves no ring.
LEMMA OrderedNoRing ==
  ASSUME NEW x, NEW n, Sized(x, n), NEW o, InOrder(x, n, o), 1 .. n \subseteq ToSet(o)
  PROVE  ~Ring(x)
<1> SUFFICES ASSUME NEW S \in SUBSET (1 .. n), S # {}, \A i \in S : ToSet(x[i].deps) \cap S # {}
             PROVE  FALSE
  BY DEF Ring, Sized
<1>1. PICK N \in Nat : N = Len(o) /\ DOMAIN o = 1 .. N
  BY DEF InOrder
<1> DEFINE A == {a \in 1 .. N : o[a] \in S}
<1>2. A # {} /\ A \in SUBSET Nat
  <2>1. PICK i \in S : i \in 1 .. n
    OBVIOUS
  <2>2. PICK a \in 1 .. N : o[a] = i
    BY <1>1, <2>1 DEF ToSet
  <2> QED
    BY <2>1, <2>2
<1>3. PICK a \in A : \A b \in A : a <= b
  <2> HIDE DEF A
  <2> QED
    BY <1>2, Smallest
<1>4. PICK d : d \in ToSet(x[o[a]].deps) /\ d \in S
  BY <1>3
<1>5. PICK b \in 1 .. a - 1 : o[b] = d
  BY <1>1, <1>3, <1>4 DEF InOrder
<1>6. b \in A /\ b < a
  BY <1>3, <1>4, <1>5
<1> QED
  BY <1>3, <1>6

\* topo_order accepts a graph exactly when its numbers are good and no tasks wait
\* for each other, and then orders all tasks.
LEMMA TopoRight ==
  ASSUME NEW x, NEW n, Sized(x, n)
  PROVE  /\ TopoOrder(x) = <<>> /\ n # 0 => ~WellFormed(x) \/ Ring(x)
         /\ TopoOrder(x) # <<>> \/ n = 0 =>
              /\ WellFormed(x) /\ ~Ring(x)
              /\ InOrder(x, n, TopoOrder(x)) /\ Len(TopoOrder(x)) = n
              /\ 1 .. n \subseteq ToSet(TopoOrder(x))
<1>n. n \in Nat /\ n = Len(x) /\ DOMAIN x = 1 .. n
  BY DEF Sized
<1>1. CASE ~WellFormed(x)
  <2>1. TopoOrder(x) = <<>>
    BY <1>1 DEF TopoOrder
  <2>2. n # 0
    BY <1>n, <1>1 DEF WellFormed
  <2> QED
    BY <1>1, <2>1, <2>2
<1>2. CASE WellFormed(x)
  <2>1. PICK o : o = Kahn(x)
    OBVIOUS
  <2>2. /\ InOrder(x, n, o)
        /\ \A s \in 1 .. n : s \notin ToSet(o) => ~(ToSet(x[s].deps) \subseteq ToSet(o))
    BY <1>2, <2>1, KahnOrders
  <2>3. o \in Seq(1 .. n) /\ Len(o) \in 0 .. n /\ (Len(o) = n <=> 1 .. n \subseteq ToSet(o))
    BY <1>n, <2>2, Permutation DEF InOrder
  <2>4. CASE Len(o) = n
    <3>1. TopoOrder(x) = o /\ 1 .. n \subseteq ToSet(o)
      BY <1>n, <1>2, <2>1, <2>3, <2>4 DEF TopoOrder
    <3>2. ~Ring(x)
      BY <2>2, <3>1, OrderedNoRing
    <3>3. o = <<>> => n = 0
      BY <2>4
    <3> QED
      BY <1>2, <2>2, <2>4, <3>1, <3>2, <3>3
  <2>5. CASE Len(o) # n
    <3>1. TopoOrder(x) = <<>>
      BY <1>n, <2>1, <2>5 DEF TopoOrder
    <3>2. n # 0
      BY <2>3, <2>5
    <3> DEFINE S == {s \in 1 .. n : s \notin ToSet(o)}
    <3>3. S # {} /\ S \subseteq DOMAIN x
      BY <1>n, <2>3, <2>5
    <3>4. ASSUME NEW i \in S PROVE ToSet(x[i].deps) \cap S # {}
      <4>1. ~(ToSet(x[i].deps) \subseteq ToSet(o))
        BY <2>2
      <4>2. ToSet(x[i].deps) \subseteq 1 .. n
        BY <1>n, <1>2 DEF WellFormed
      <4> QED
        BY <4>1, <4>2
    <3>5. Ring(x)
      <4> HIDE DEF S
      <4> QED
        BY <3>3, <3>4 DEF Ring
    <3> QED
      BY <3>1, <3>2, <3>5
  <2> QED
    BY <2>4, <2>5
<1> QED
  BY <1>1, <1>2

-----------------------------------------------------------------------------
(* upward_rank *)

\* The highest rank among the tasks in D, or 0.
Highest(r, D) == Max({0} \cup {r[s] : s \in D})

\* There is one.
LEMMA HighestType ==
  ASSUME NEW n \in Nat, NEW r \in [1 .. n -> Int], NEW D \in SUBSET (1 .. n)
  PROVE  Highest(r, D) \in Int
<1> DEFINE S(k) == {0} \cup {r[s] : s \in {i \in D : i <= k}}
           Top(k) == \E y \in S(k) : \A z \in S(k) : y >= z
           P == {k \in 0 .. n : Top(k)}
<1>1. 0 \in P
  <2>1. S(0) = {0}
    OBVIOUS
  <2>2. Top(0)
    BY <2>1
  <2> QED
    BY <2>2
<1>2. ASSUME NEW k \in 1 .. n, k - 1 \in P PROVE k \in P
  <2>1. PICK y \in S(k - 1) : \A z \in S(k - 1) : y >= z
    BY <1>2
  <2>2. y \in Int /\ r[k] \in Int
    BY <2>1
  <2>3. CASE k \in D
    <3>1. S(k) = S(k - 1) \cup {r[k]}
      <4>1. \A i \in D : i <= k <=> (i <= k - 1 \/ i = k)
        OBVIOUS
      <4> QED
        BY <4>1, <2>3
    <3>2. S(k - 1) \subseteq Int
      OBVIOUS
    <3>3. CASE r[k] >= y
      <4>1. r[k] \in S(k) /\ \A z \in S(k) : r[k] >= z
        BY ONLY <3>1, <3>2, <3>3, <2>1, <2>2
      <4>2. Top(k) /\ k \in 0 .. n
        <5> HIDE DEF S
        <5> QED
          BY <4>1
      <4> QED
        BY ONLY <4>2
    <3>4. CASE ~(r[k] >= y)
      <4>1. y \in S(k) /\ \A z \in S(k) : y >= z
        BY ONLY <3>1, <3>2, <3>4, <2>1, <2>2
      <4>2. Top(k) /\ k \in 0 .. n
        <5> HIDE DEF S
        <5> QED
          BY <4>1
      <4> QED
        BY ONLY <4>2
    <3> QED
      BY <3>3, <3>4
  <2>4. CASE k \notin D
    <3>1. S(k) = S(k - 1)
      <4>1. \A i \in D : i <= k <=> i <= k - 1
        BY <2>4
      <4> QED
        BY <4>1
    <3>2. y \in S(k) /\ \A z \in S(k) : y >= z
      BY ONLY <3>1, <2>1
    <3>3. Top(k) /\ k \in 0 .. n
      <4> HIDE DEF S
      <4> QED
        BY <3>2
    <3> QED
      BY ONLY <3>3
  <2> QED
    BY <2>3, <2>4
<1> HIDE DEF P
<1>3. \A k \in 0 .. n : k \in P
  BY <1>1, <1>2, Induct
<1>4. n \in P
  BY <1>3
<1>5. Top(n)
  BY <1>4 DEF P
<1>6. S(n) = {0} \cup {r[s] : s \in D}
  <2>1. \A i \in D : i <= n
    OBVIOUS
  <2>2. {i \in D : i <= n} = D
    BY ONLY <2>1
  <2> QED
    BY ONLY <2>2, Zenon
<1>7. S(n) \subseteq Int
  OBVIOUS
<1>8. Max(S(n)) \in S(n)
  BY <1>5 DEF Max
<1> QED
  BY <1>6, <1>7, <1>8 DEF Highest

RankRounds(F, x, n, o) ==
  /\ F \in [0 .. n -> [1 .. n -> Int]]
  /\ \A k \in 1 .. n :
       F[k] = [F[k - 1] EXCEPT ![o[n + 1 - k]] = x[o[n + 1 - k]].cost
                                 + Highest(F[k - 1], Dependents(x, o[n + 1 - k]))]
  /\ UpwardRank(x) = F[n]

\* The rounds of upward_rank.
LEMMA RankRun ==
  ASSUME NEW x, NEW n, Sized(x, n), \A i \in 1 .. n : x[i].cost \in Int,
         NEW o \in Seq(1 .. n), o = TopoOrder(x), Len(o) = n
  PROVE  \E F : RankRounds(F, x, n, o)
<1> DEFINE T == [1 .. n -> Int]
           b == [i \in DOMAIN x |-> 0]
           Def(F) == [k \in 0 .. n |-> IF k = 0 THEN b ELSE RankStep(x, F[k - 1], o[n + 1 - k])]
           s == [k \in 1 .. n |-> [r \in T |-> RankStep(x, r, o[n + 1 - k])]]
<1>n. n \in Nat /\ DOMAIN x = 1 .. n
  BY DEF Sized
<1>o. \A k \in 1 .. n : o[n + 1 - k] \in 1 .. n
  <2>1. \A k \in 1 .. n : n + 1 - k \in 1 .. n
    BY <1>n
  <2> QED
    BY <2>1, ElementOfSeq
<1>0. b \in T
  BY <1>n
<1>e. ASSUME NEW k \in 1 .. n, NEW r \in T
      PROVE  /\ RankStep(x, r, o[n + 1 - k]) \in T
             /\ RankStep(x, r, o[n + 1 - k])
                  = [r EXCEPT ![o[n + 1 - k]] = x[o[n + 1 - k]].cost + Highest(r, Dependents(x, o[n + 1 - k]))]
  <2>1. PICK i \in 1 .. n : i = o[n + 1 - k]
    BY <1>o
  <2>2. Dependents(x, i) \in SUBSET (1 .. n)
    BY <1>n DEF Dependents
  <2>3. Highest(r, Dependents(x, i)) \in Int
    BY <1>n, <2>2, HighestType
  <2>4. RankStep(x, r, i) = [r EXCEPT ![i] = x[i].cost + Highest(r, Dependents(x, i))]
    BY DEF RankStep, Highest
  <2>5. PICK v \in Int : v = x[i].cost + Highest(r, Dependents(x, i))
    <3>1. PICK h \in Int : h = Highest(r, Dependents(x, i))
      BY ONLY <2>3
    <3>2. PICK c \in Int : c = x[i].cost
      OBVIOUS
    <3> QED
      BY ONLY <3>1, <3>2
  <2>6. RankStep(x, r, i) \in T
    BY ONLY <2>4, <2>5, r \in T
  <2> QED
    BY <2>1, <2>4, <2>6
<1> HIDE DEF T, b
<1>1. PICK F : Run(F, T, n, b, s)
  <2>1. s \in [1 .. n -> [T -> T]]
    BY <1>e
  <2> HIDE DEF s
  <2> QED
    BY <1>n, <1>0, <2>1, Recursion
<1>2. F \in [0 .. n -> T] /\ F[0] = b
  BY <1>1 DEF Run
<1>3. ASSUME NEW k \in 1 .. n PROVE F[k] = RankStep(x, F[k - 1], o[n + 1 - k])
  <2>1. F[k] = s[k][F[k - 1]] /\ F[k - 1] \in T
    <3> HIDE DEF s
    <3> QED
      BY <1>n, <1>1 DEF Run
  <2> QED
    BY <2>1
<1>4. F = Def(F)
  BY <1>2, <1>3
<1>5. UpwardRank(x) = (CHOOSE G : G = Def(G))[n]
  BY Zenon DEF UpwardRank, RankOrder, b
<1>6. PICK G : G = Def(G) /\ UpwardRank(x) = G[n]
  BY <1>4, <1>5, Zenon
<1>7. G[0] = b /\ \A k \in 1 .. n : G[k] = RankStep(x, G[k - 1], o[n + 1 - k])
  <2>1. 0 \in 0 .. n /\ \A k \in 1 .. n : k \in 0 .. n /\ k # 0
    BY <1>n
  <2> QED
    BY ONLY <1>6, <2>1, Zenon
<1>8. \A k \in 0 .. n : G[k] \in T
  <2>0. ASSUME NEW k \in 1 .. n, G[k - 1] \in T PROVE G[k] \in T
    <3>1. PICK r \in T : r = G[k - 1]
      BY <2>0
    <3>2. RankStep(x, r, o[n + 1 - k]) \in T
      BY ONLY <1>e, k \in 1 .. n, r \in T
    <3> QED
      BY ONLY <1>7, <3>1, <3>2, k \in 1 .. n
  <2>1. G[0] \in T /\ \A k \in 1 .. n : G[k - 1] \in T => G[k] \in T
    BY <1>0, <1>7, <2>0
  <2> QED
    BY <1>n, <2>1, Typed
<1>9. G \in [0 .. n -> T]
  BY <1>6, <1>8
<1>10. \A k \in 1 .. n : G[k - 1] \in T
  BY <1>n, <1>8
<1>11. ASSUME NEW k \in 1 .. n
       PROVE  G[k] = [G[k - 1] EXCEPT ![o[n + 1 - k]] = x[o[n + 1 - k]].cost
                                 + Highest(G[k - 1], Dependents(x, o[n + 1 - k]))]
  BY <1>7, <1>10, <1>e
<1> QED
  BY <1>6, <1>9, <1>11 DEF RankRounds, T

\* Whatever depends on a task comes after it in order.
LEMMA DependentsLater ==
  ASSUME NEW x, NEW n, Sized(x, n), NEW o, InOrder(x, n, o), 1 .. n \subseteq ToSet(o),
         NEW a \in 1 .. Len(o), NEW s \in Dependents(x, o[a])
  PROVE  \E c \in 1 .. Len(o) : o[c] = s /\ a < c
<1>1. n \in Nat /\ DOMAIN x = 1 .. n /\ o \in Seq(1 .. n) /\ IsInjective(o)
  BY DEF Sized, InOrder
<1>2. PICK N \in Nat : N = Len(o) /\ DOMAIN o = 1 .. N
  BY <1>1
<1>3. s \in 1 .. n /\ o[a] \in ToSet(x[s].deps)
  BY <1>1 DEF Dependents
<1>4. PICK c \in 1 .. N : o[c] = s
  BY <1>2, <1>3 DEF ToSet
<1>5. PICK b \in 1 .. c - 1 : o[b] = o[a]
  BY <1>2, <1>3, <1>4 DEF InOrder
<1>6. b \in DOMAIN o /\ a \in DOMAIN o
  BY <1>2
<1>7. b = a
  BY <1>1, <1>5, <1>6 DEF IsInjective
<1> QED
  BY <1>2, <1>4, <1>5, <1>7

\* upward_rank solves the equation it is meant to solve, for every graph.
LEMMA RankSolves ==
  ASSUME NEW x, NEW n, Sized(x, n), \A i \in 1 .. n : x[i].cost \in Int,
         NEW o, o = TopoOrder(x), InOrder(x, n, o), Len(o) = n, 1 .. n \subseteq ToSet(o)
  PROVE  \A i \in 1 .. n : UpwardRank(x)[i] = x[i].cost + Highest(UpwardRank(x), Dependents(x, i))
<1>n. n \in Nat /\ DOMAIN x = 1 .. n /\ o \in Seq(1 .. n) /\ IsInjective(o)
  BY DEF Sized, InOrder
<1>o. DOMAIN o = 1 .. n /\ \A a \in 1 .. n : o[a] \in 1 .. n
  BY <1>n, LenProperties, ElementOfSeq
<1>1. PICK F : RankRounds(F, x, n, o)
  BY <1>n, RankRun
<1> DEFINE Right(r, a) == r[o[a]] = x[o[a]].cost + Highest(r, Dependents(x, o[a]))
           P == {k \in 0 .. n : \A a \in 1 .. n : a >= n + 1 - k => Right(F[k], a)}
<1>2. 0 \in P
  BY <1>n
<1>3. ASSUME NEW k \in 1 .. n, k - 1 \in P PROVE k \in P
  <2>1. PICK j \in 1 .. n : j = n + 1 - k
    BY <1>n
  <2>2. PICK i \in 1 .. n : i = o[j]
    BY <1>o
  <2>3. PICK r, q : r = F[k - 1] /\ q = F[k] /\ r \in [1 .. n -> Int]
    <3>1. k - 1 \in 0 .. n
      BY <1>n
    <3> QED
      BY <1>1, <3>1 DEF RankRounds
  <2>4. q = [r EXCEPT ![i] = x[i].cost + Highest(r, Dependents(x, i))]
    BY <1>1, <2>1, <2>2, <2>3 DEF RankRounds
  <2>5. ASSUME NEW a \in 1 .. n, a >= j PROVE Highest(q, Dependents(x, o[a])) = Highest(r, Dependents(x, o[a]))
    <3>1. ASSUME NEW s \in Dependents(x, o[a]) PROVE q[s] = r[s]
      <4>1. PICK c \in 1 .. n : o[c] = s /\ a < c
        <5>1. a \in 1 .. Len(o)
          OBVIOUS
        <5>2. \E c \in 1 .. Len(o) : o[c] = s /\ a < c
          BY ONLY <5>1, <3>1, Sized(x, n), InOrder(x, n, o), 1 .. n \subseteq ToSet(o), DependentsLater
        <5> QED
          BY <5>2
      <4>2. c # j
        BY <4>1, <2>5, <2>1, <1>n
      <4>3. s # i /\ s \in 1 .. n
        BY <4>1, <4>2, <2>2, <1>n, <1>o DEF IsInjective
      <4> QED
        BY <4>3, <2>3, <2>4
    <3>2. {q[s] : s \in Dependents(x, o[a])} = {r[s] : s \in Dependents(x, o[a])}
      BY <3>1
    <3> QED
      BY <3>2, Zenon DEF Highest
  <2>6. ASSUME NEW a \in 1 .. n, a >= j PROVE Right(q, a)
    <3>1. CASE a = j
      BY <3>1, <2>2, <2>3, <2>4, <2>5, <2>6
    <3>2. CASE a # j
      <4>1. a >= n + 1 - (k - 1)
        BY <3>2, <2>1, <2>6, <1>n
      <4>2. Right(r, a)
        BY <4>1, <2>3, <1>3
      <4>3. o[a] # i /\ o[a] \in 1 .. n
        BY <3>2, <2>2, <1>n, <1>o DEF IsInjective
      <4>4. q[o[a]] = r[o[a]]
        BY <4>3, <2>3, <2>4
      <4> QED
        BY <4>2, <4>4, <2>5, <2>6, Zenon
    <3> QED
      BY <3>1, <3>2
  <2> HIDE DEF Right
  <2> QED
    BY <2>1, <2>3, <2>6
<1> HIDE DEF P
<1>4. \A k \in 0 .. n : k \in P
  BY <1>n, <1>2, <1>3, Induct
<1>5. n \in P
  BY <1>n, <1>4
<1>6. \A a \in 1 .. n : a >= n + 1 - n => Right(F[n], a)
  BY <1>5 DEF P
<1>7. ASSUME NEW i \in 1 .. n PROVE F[n][i] = x[i].cost + Highest(F[n], Dependents(x, i))
  <2>1. PICK a \in 1 .. n : o[a] = i
    BY <1>o DEF ToSet
  <2>2. Right(F[n], a)
    <3> HIDE DEF Right
    <3> QED
      BY <1>n, <1>6
  <2> QED
    BY <2>1, <2>2
<1>8. UpwardRank(x) = F[n]
  BY <1>1 DEF RankRounds
<1> QED
  BY <1>7, <1>8

-----------------------------------------------------------------------------
(* parse_manifest *)

Words == UNION {ToSet(l.w) : l \in Lines}
Files == UNION {ToSet(Expand[w]) : w \in DOMAIN Expand}
TargetSet == [lib : BOOLEAN, name : Words, libs : Seq(Words), sources : Seq(Files)]
ManifestSet ==
  [cc : Words \cup {"gcc"}, cxx : Words \cup {"g++"}, cflags : Seq(Words), ldflags : Seq(Words),
   targets : Seq(TargetSet)]

\* What the parser makes of any lines: names are unique, and libraries link nothing.
Parsed(mf) ==
  /\ mf \in ManifestSet
  /\ \A i, j \in DOMAIN mf.targets : mf.targets[i].name = mf.targets[j].name => i = j
  /\ \A t \in ToSet(mf.targets) : t.lib => t.libs = <<>>

\* A set of numbers has a Min.
LEMMA MinIn ==
  ASSUME NEW S \in SUBSET Nat, S # {}
  PROVE  Min(S) \in S /\ \A y \in S : Min(S) <= y
<1>1. \E x \in S : \A y \in S : x <= y
  BY Smallest
<1> QED
  BY <1>1 DEF Min

\* The colon is after the name, or there is none.
LEMMA ColonPlace ==
  ASSUME NEW w, NEW n \in Nat, n = Len(w), n >= 2
  PROVE  ColonAt(w) \in 2 .. n + 1
<1> DEFINE S == {k \in 2 .. n : w[k] = Colon} \cup {n + 1}
<1>1. ColonAt(w) = Min(S)
  BY Zenon DEF ColonAt
<1>2. S \in SUBSET Nat /\ S # {} /\ S \subseteq 2 .. n + 1
  OBVIOUS
<1> HIDE DEF S
<1>3. Min(S) \in S
  BY <1>2, MinIn
<1> QED
  BY <1>1, <1>2, <1>3

\* A list with no entry is empty.
LEMMA NoEntries ==
  ASSUME NEW A, NEW s \in Seq(A), ToSet(s) = {}
  PROVE  s = <<>>
<1>1. PICK n \in Nat : n = Len(s) /\ DOMAIN s = 1 .. n
  OBVIOUS
<1>2. n = 0
  <2> SUFFICES ASSUME n # 0 PROVE FALSE
    OBVIOUS
  <2>1. 1 \in DOMAIN s
    BY <1>1
  <2> QED
    BY <2>1 DEF ToSet
<1> QED
  BY <1>1, <1>2

\* What a line of a library or a binary adds to the manifest.
LEMMA TargetTyped ==
  ASSUME NEW l \in Lines, l.d \in {"lib", "bin"}, TargetOk(l)
  PROVE  /\ Target(l) \in TargetSet
         /\ Target(l).lib => Target(l).libs = <<>>
         /\ Target(l).name = l.w[1]
<1>1. PICK w : w = l.w
  OBVIOUS
<1>2. w \in Seq(Words)
  <2>1. w \in Seq(ToSet(w))
    BY <1>1, SpecAssumption
  <2>2. ToSet(w) \subseteq Words
    BY <1>1 DEF Words
  <2> QED
    BY <2>1, <2>2, SeqMonotonic
<1>3. PICK n \in Nat : n = Len(w) /\ n >= 2 /\ \A i \in 1 .. n : w[i] \in Words
  BY <1>1, <1>2 DEF TargetOk
<1>4. PICK c \in 2 .. n + 1 : c = ColonAt(w)
  BY <1>3, ColonPlace
<1>5. LibWords(w) \in Seq(Words)
  BY <1>2, ChosenEntries DEF LibWords
<1>6. ASSUME l.d = "lib" PROVE LibWords(w) = <<>>
  <2>1. c > n
    BY <1>1, <1>3, <1>4, <1>6 DEF TargetOk
  <2>2. PICK K : K = {k \in c .. n : w[k] # Colon}
    OBVIOUS
  <2>3. K = {}
    BY <1>3, <2>1, <2>2
  <2>4. LibWords(w) = Chosen(w, K)
    BY <1>3, <1>4, <2>2 DEF LibWords
  <2>5. ToSet(Chosen(w, K)) = {}
    <3>1. ToSet(Chosen(w, K)) = {w[k] : k \in DOMAIN w \cap K}
      BY <1>2, ChosenEntries
    <3> QED
      BY <2>3, <3>1
  <2> QED
    BY <1>5, <2>4, <2>5, NoEntries
<1>7. PICK v : v = SourceWords(w)
  OBVIOUS
<1>8. v \in Seq(Words)
  BY <1>2, <1>3, <1>4, <1>7, SubSeqProperties DEF SourceWords
<1>9. ToSet(v) \subseteq DOMAIN Expand
  BY <1>1, <1>7, WordsAssumption
<1>10. PICK lists : lists = [k \in DOMAIN v |-> Expand[v[k]]]
  OBVIOUS
<1>11. ASSUME NEW k \in DOMAIN v PROVE Expand[v[k]] \in Seq(Files)
  <2>1. v[k] \in DOMAIN Expand
    BY <1>9 DEF ToSet
  <2>2. PICK u \in DOMAIN Expand : u = v[k]
    BY <2>1
  <2>3. Expand[u] \in Seq(ToSet(Expand[u])) /\ ToSet(Expand[u]) \subseteq Files
    BY SpecAssumption DEF Files
  <2> QED
    BY <2>2, <2>3, SeqMonotonic
<1>12. lists \in Seq(Seq(Files))
  <2>1. PICK q \in Nat : DOMAIN v = 1 .. q
    BY <1>8
  <2>2. \A k \in 1 .. q : lists[k] \in Seq(Files)
    BY <1>10, <1>11, <2>1
  <2>3. lists = [k \in 1 .. q |-> lists[k]]
    BY <1>10, <2>1
  <2> QED
    BY <2>2, <2>3, IsASeq
<1>13. Joined(lists) \in Seq(Files)
  BY <1>12, JoinedEntries
<1>14. Target(l) = [lib |-> l.d = "lib", name |-> w[1], libs |-> LibWords(w), sources |-> Joined(lists)]
  BY <1>1, <1>7, <1>10, Zenon DEF Target
<1>15. w[1] \in Words
  BY <1>3
<1>16. (l.d = "lib") \in BOOLEAN
  OBVIOUS
<1>17. PICK y, z, q, a : y = w[1] /\ z = LibWords(w) /\ q = Joined(lists) /\ a = (l.d = "lib")
  OBVIOUS
<1>18. /\ [lib |-> a, name |-> y, libs |-> z, sources |-> q] \in TargetSet
       /\ Target(l) = [lib |-> a, name |-> y, libs |-> z, sources |-> q]
  <2>1. a \in BOOLEAN /\ y \in Words /\ z \in Seq(Words) /\ q \in Seq(Files)
    BY ONLY <1>5, <1>13, <1>15, <1>16, <1>17, Zenon
  <2>2. [lib |-> a, name |-> y, libs |-> z, sources |-> q] \in TargetSet
    BY ONLY <2>1 DEF TargetSet
  <2> QED
    BY ONLY <2>2, <1>14, <1>17, Zenon
<1>19. Target(l) \in TargetSet
  BY ONLY <1>18, Zenon
<1>20. Target(l).lib = a /\ Target(l).libs = z /\ Target(l).name = y
  BY ONLY <1>18
<1>21. ASSUME a PROVE z = <<>>
  BY ONLY <1>6, <1>17, <1>21, Zenon
<1> QED
  BY ONLY <1>1, <1>17, <1>19, <1>20, <1>21, Zenon

\* A line that is accepted leaves a manifest as the parser makes it.
LEMMA LineParsed ==
  ASSUME Parsed(m), NEW l \in Lines, LineOk(l)
  PROVE  Parsed(Applied(l))
<1>1. m \in ManifestSet
  BY DEF Parsed
<1>2. PICK w : w = l.w /\ w \in Seq(Words)
  <2>1. l.w \in Seq(ToSet(l.w))
    BY SpecAssumption
  <2>2. ToSet(l.w) \subseteq Words
    BY DEF Words
  <2> QED
    BY <2>1, <2>2, SeqMonotonic
<1>3. CASE l.d \in {"cc", "cxx"}
  <2>1. Len(w) = 1
    BY <1>2, <1>3 DEF LineOk
  <2>2. w[1] \in Words
    BY <1>2, <2>1
  <2>3. Applied(l) = [m EXCEPT ![l.d] = w[1]]
    BY <1>2, <1>3 DEF Applied
  <2>4. Applied(l) \in ManifestSet /\ Applied(l).targets = m.targets
    BY <1>1, <1>3, <2>2, <2>3 DEF ManifestSet
  <2> QED
    BY <2>4 DEF Parsed
<1>4. CASE l.d \in {"cflags", "ldflags"}
  <2>1. Applied(l) = [m EXCEPT ![l.d] = @ \o w]
    BY <1>2, <1>4 DEF Applied
  <2>2. m.cflags \o w \in Seq(Words) /\ m.ldflags \o w \in Seq(Words)
    BY <1>1, <1>2, ConcatProperties DEF ManifestSet
  <2>3. Applied(l) \in ManifestSet /\ Applied(l).targets = m.targets
    <3>1. CASE l.d = "cflags"
      <4>1. PICK f \in Seq(Words) : f = m.cflags \o w
        BY <2>2
      <4>2. Applied(l) = [m EXCEPT !.cflags = f]
        BY ONLY <2>1, <3>1, <4>1, <1>1 DEF ManifestSet
      <4> QED
        BY ONLY <1>1, <4>1, <4>2 DEF ManifestSet
    <3>2. CASE l.d = "ldflags"
      <4>1. PICK f \in Seq(Words) : f = m.ldflags \o w
        BY <2>2
      <4>2. Applied(l) = [m EXCEPT !.ldflags = f]
        BY ONLY <2>1, <3>2, <4>1, <1>1 DEF ManifestSet
      <4> QED
        BY ONLY <1>1, <4>1, <4>2 DEF ManifestSet
    <3> QED
      BY <1>4, <3>1, <3>2
  <2> QED
    BY <2>3 DEF Parsed
<1>5. CASE l.d \notin {"cc", "cxx", "cflags", "ldflags"}
  <2>1. l.d \in {"lib", "bin"} /\ TargetOk(l)
    BY <1>5 DEF LineOk
  <2>2. PICK t \in TargetSet : t = Target(l) /\ (t.lib => t.libs = <<>>) /\ t.name = l.w[1]
    BY <2>1, TargetTyped
  <2>3. PICK ts \in Seq(TargetSet) : ts = m.targets
    BY <1>1 DEF ManifestSet
  <2>4. PICK n \in Nat : n = Len(ts) /\ DOMAIN ts = 1 .. n
    BY <2>3
  <2>5. PICK us : us = Append(ts, t)
    OBVIOUS
  <2>6. /\ us \in Seq(TargetSet) /\ DOMAIN us = 1 .. n + 1 /\ us[n + 1] = t
        /\ \A i \in 1 .. n : us[i] = ts[i]
    BY <2>3, <2>4, <2>5, AppendProperties
  <2>7. Applied(l) = [m EXCEPT !.targets = us]
    BY <1>5, <2>2, <2>3, <2>5 DEF Applied
  <2>8. Applied(l) \in ManifestSet /\ Applied(l).targets = us
    BY <1>1, <2>6, <2>7 DEF ManifestSet
  <2>9. \A i \in 1 .. n : ts[i].name # t.name
    BY <2>1, <2>2, <2>3, <2>4 DEF TargetOk, Taken, ToSet
  <2>10. ASSUME NEW i \in 1 .. n + 1, NEW j \in 1 .. n + 1, us[i].name = us[j].name PROVE i = j
    <3>1. CASE i = n + 1 /\ j = n + 1
      BY <3>1
    <3>2. CASE i = n + 1 /\ j # n + 1
      BY <2>6, <2>9, <2>10, <3>2
    <3>3. CASE i # n + 1 /\ j = n + 1
      BY <2>6, <2>9, <2>10, <3>3
    <3>4. CASE i # n + 1 /\ j # n + 1
      <4>1. i \in 1 .. n /\ j \in 1 .. n
        BY <3>4
      <4>2. ts[i].name = ts[j].name
        BY <2>6, <2>10, <4>1
      <4> QED
        BY <2>3, <2>4, <4>1, <4>2 DEF Parsed
    <3> QED
      BY <3>1, <3>2, <3>3, <3>4
  <2>11. ASSUME NEW i \in 1 .. n + 1, us[i].lib PROVE us[i].libs = <<>>
    <3>1. CASE i = n + 1
      BY <2>2, <2>6, <2>11, <3>1
    <3>2. CASE i # n + 1
      <4>1. i \in 1 .. n /\ us[i] = ts[i]
        BY <2>6, <3>2
      <4>2. ts[i] \in ToSet(m.targets)
        BY <2>3, <2>4, <4>1 DEF ToSet
      <4> QED
        BY <2>11, <4>1, <4>2, Zenon DEF Parsed
    <3> QED
      BY <3>1, <3>2
  <2>12. \A u \in ToSet(us) : u.lib => u.libs = <<>>
    BY <2>6, <2>11, Zenon DEF ToSet
  <2> QED
    BY <2>6, <2>8, <2>10, <2>12, Zenon DEF Parsed
<1> QED
  BY <1>3, <1>4, <1>5

\* Libraries and binaries apart.
Split(ts, L, B) ==
  /\ L \in Seq(TargetSet) /\ ToSet(L) = {t \in ToSet(ts) : t.lib}
  /\ B \in Seq(TargetSet) /\ ToSet(B) = {t \in ToSet(ts) : ~t.lib}
  /\ Len(L) + Len(B) = Len(ts)

\* A list is as long as what it lists.
LEMMA ListsLength ==
  ASSUME NEW a, NEW n \in Nat, NEW S, Lists(a, n, S)
  PROVE  Len(a) = Cardinality((1 .. n) \cap S)
<1>1. PICK N \in Nat : N = Len(a) /\ DOMAIN a = 1 .. N /\ IsInjective(a) /\ ToSet(a) = (1 .. n) \cap S
  BY ListsOnce
<1>2. a \in Seq(1 .. n)
  BY DEF Lists
<1>3. PICK R : R = (1 .. n) \cap S
  OBVIOUS
<1>4. a \in [1 .. N -> R]
  <2>1. a = [i \in 1 .. N |-> a[i]]
    BY <1>1, <1>2
  <2>2. \A i \in 1 .. N : a[i] \in R
    BY <1>1, <1>3 DEF ToSet
  <2> QED
    BY <2>1, <2>2
<1>5. a \in Bijection(1 .. N, R)
  BY <1>1, <1>3, <1>4 DEF Bijection, Injection, Surjection, ToSet
<1>6. IsFiniteSet(1 .. N) /\ Cardinality(1 .. N) = N
  BY ONLY FS_Interval, N \in Nat
<1>7. Cardinality(R) = Cardinality(1 .. N)
  BY <1>5, <1>6, FS_Bijection DEF ExistsBijection
<1> QED
  BY <1>1, <1>3, <1>6, <1>7

\* Chosen is as long as what it chooses from.
LEMMA ChosenLength ==
  ASSUME NEW A, NEW s \in Seq(A), NEW n \in Nat, n = Len(s), NEW K \in SUBSET (1 .. n)
  PROVE  Len(Chosen(s, K)) = Cardinality(K)
<1>1. PICK c, a : c = Chosen(s, K) /\ Picks(c, a, A, s, K)
  BY ChosenPicks
<1>2. Lists(a, n, K) /\ Len(c) = Len(a)
  BY <1>1 DEF Picks
<1>3. (1 .. n) \cap K = K
  OBVIOUS
<1> QED
  BY <1>1, <1>2, <1>3, ListsLength

\* Libs and Bins share out the targets.
LEMMA TargetsSplit ==
  ASSUME Parsed(m)
  PROVE  Split(m.targets, Libs, Bins)
<1>1. PICK ts \in Seq(TargetSet) : ts = m.targets
  BY DEF Parsed, ManifestSet
<1>2. PICK n \in Nat : n = Len(ts) /\ DOMAIN ts = 1 .. n
  BY <1>1
<1>3. PICK K, J : K = {k \in 1 .. n : ts[k].lib} /\ J = {k \in 1 .. n : ~ts[k].lib}
  OBVIOUS
<1>4. Libs = Chosen(ts, K) /\ Bins = Chosen(ts, J)
  BY <1>1, <1>2, <1>3 DEF Libs, Bins
<1>5. /\ Chosen(ts, K) \in Seq(TargetSet) /\ ToSet(Chosen(ts, K)) = {ts[k] : k \in DOMAIN ts \cap K}
      /\ Chosen(ts, J) \in Seq(TargetSet) /\ ToSet(Chosen(ts, J)) = {ts[k] : k \in DOMAIN ts \cap J}
  BY <1>1, ChosenEntries
<1>6. {ts[k] : k \in DOMAIN ts \cap K} = {t \in ToSet(ts) : t.lib}
  BY <1>2, <1>3 DEF ToSet
<1>7. {ts[k] : k \in DOMAIN ts \cap J} = {t \in ToSet(ts) : ~t.lib}
  BY <1>2, <1>3 DEF ToSet
<1>8. Len(Chosen(ts, K)) = Cardinality(K) /\ Len(Chosen(ts, J)) = Cardinality(J)
  <2>1. K \in SUBSET (1 .. n) /\ J \in SUBSET (1 .. n)
    BY <1>3
  <2> QED
    BY <1>1, <1>2, <2>1, ChosenLength
<1>9. Cardinality(K) + Cardinality(J) = n
  <2>1. IsFiniteSet(1 .. n) /\ Cardinality(1 .. n) = n
    BY ONLY FS_Interval, n \in Nat
  <2>2. K \subseteq 1 .. n /\ J \subseteq 1 .. n /\ K \cup J = 1 .. n /\ K \cap J = {}
    BY ONLY <1>3, Zenon
  <2>3. IsFiniteSet(K) /\ IsFiniteSet(J)
    BY <2>1, <2>2, FS_Subset
  <2>4. Cardinality(K \cup J) = Cardinality(K) + Cardinality(J) - Cardinality(K \cap J)
    BY <2>3, FS_Union
  <2>5. Cardinality(K \cap J) = 0
    BY <2>2, FS_EmptySet
  <2>6. Cardinality(K) \in Nat /\ Cardinality(J) \in Nat
    BY <2>3, FS_CardinalityType
  <2>7. Cardinality(K \cup J) = n
    BY ONLY <2>1, <2>2, Zenon
  <2> QED
    BY ONLY <2>4, <2>5, <2>6, <2>7
<1> QED
  BY <1>1, <1>2, <1>4, <1>5, <1>6, <1>7, <1>8, <1>9 DEF Split

-----------------------------------------------------------------------------
(* The graph of build() *)

\* The first place that Test holds of.
LEMMA SelectFirst ==
  ASSUME NEW A, NEW s \in Seq(A), NEW T, \E k \in DOMAIN s : s[k] \in T
  PROVE  LET I == {i \in 1 .. Len(s) : s[i] \in T} IN
         I # {} /\ Min(I) \in DOMAIN s /\ s[Min(I)] \in T
<1>1. PICK n \in Nat : n = Len(s) /\ DOMAIN s = 1 .. n
  OBVIOUS
<1> DEFINE I == {i \in 1 .. n : s[i] \in T}
<1>2. I \in SUBSET Nat /\ I # {}
  BY <1>1
<1>3. Min(I) \in I
  <2> HIDE DEF I
  <2> QED
    BY <1>2, MinIn
<1> QED
  BY <1>1, <1>2, <1>3

\* One compile per key.
KeysRight(K, ks) ==
  K \in Seq(Text) /\ IsInjective(K) /\ ToSet(K) = {ks[s] : s \in Sources}

\* Every unit has its key among the compiles, and no key is there twice.
LEMMA CompileKeysRight ==
  ASSUME Parsed(m), NEW ks \in [Sources -> Text]
  PROVE  KeysRight(CompileKeys(ks), ks)
<1>1. PICK ts \in Seq(TargetSet) : ts = m.targets
  BY DEF Parsed, ManifestSet
<1>2. PICK n \in Nat : n = Len(ts) /\ DOMAIN ts = 1 .. n /\ \A k \in 1 .. n : ts[k] \in TargetSet
  BY <1>1
<1>3. PICK lists : lists = [k \in 1 .. n |-> ts[k].sources]
  OBVIOUS
<1>4. lists \in Seq(Seq(Files))
  <2>1. \A k \in 1 .. n : ts[k].sources \in Seq(Files)
    BY <1>2 DEF TargetSet
  <2> QED
    BY <1>3, <2>1, IsASeq
<1>5. /\ Joined(lists) \in Seq(Files)
      /\ ToSet(Joined(lists)) = UNION {ToSet(lists[k]) : k \in DOMAIN lists}
  BY <1>4, JoinedEntries
<1>6. UNION {ToSet(lists[k]) : k \in DOMAIN lists} = Sources
  <2>1. {ToSet(lists[k]) : k \in DOMAIN lists} = {ToSet(t.sources) : t \in ToSet(ts)}
    <3>1. DOMAIN lists = 1 .. n /\ \A k \in 1 .. n : lists[k] = ts[k].sources
      BY ONLY <1>3
    <3>2. ToSet(ts) = {ts[k] : k \in 1 .. n}
      BY ONLY <1>2, Zenon DEF ToSet
    <3> QED
      BY ONLY <3>1, <3>2
  <2> QED
    BY <1>1, <2>1, Zenon DEF Sources
<1>7. UnitSeq = Dedup(Joined(lists))
  BY <1>1, <1>2, <1>3 DEF UnitSeq
<1>8. PICK us : us = UnitSeq
  OBVIOUS
<1>9. us \in Seq(Files) /\ ToSet(us) = Sources
  BY <1>5, <1>6, <1>7, <1>8, DedupEntries
<1>10. PICK N \in Nat : DOMAIN us = 1 .. N
  BY <1>9
<1>11. PICK kk : kk = [i \in 1 .. N |-> ks[us[i]]]
  OBVIOUS
<1>12. \A i \in 1 .. N : us[i] \in Sources /\ ks[us[i]] \in Text
  BY <1>9, <1>10 DEF ToSet
<1>13. kk \in Seq(Text)
  BY <1>11, <1>12, IsASeq
<1>14. ToSet(kk) = {ks[s] : s \in Sources}
  <2>1. DOMAIN kk = 1 .. N /\ \A i \in 1 .. N : kk[i] = ks[us[i]]
    BY <1>11
  <2>2. Sources = {us[i] : i \in 1 .. N}
    BY <1>9, <1>10, Zenon DEF ToSet
  <2>3. {kk[i] : i \in 1 .. N} = {ks[s] : s \in {us[i] : i \in 1 .. N}}
    BY ONLY <2>1
  <2> QED
    BY <2>1, <2>2, <2>3, Zenon DEF ToSet
<1>15. CompileKeys(ks) = Dedup(kk)
  BY <1>8, <1>10, <1>11 DEF CompileKeys
<1>16. Dedup(kk) \in Seq(Text) /\ ToSet(Dedup(kk)) = ToSet(kk) /\ IsInjective(Dedup(kk))
  BY <1>13, DedupEntries
<1> QED
  BY <1>14, <1>15, <1>16, Zenon DEF KeysRight

\* A source's object is the compile of its key.
LEMMA UnitTaskRight ==
  ASSUME Parsed(m), NEW ks \in [Sources -> Text], NEW s \in Sources
  PROVE  UnitTask(ks, s) \in DOMAIN CompileKeys(ks) /\ CompileKeys(ks)[UnitTask(ks, s)] = ks[s]
<1>1. PICK K : K = CompileKeys(ks) /\ KeysRight(K, ks)
  BY CompileKeysRight
<1>2. PICK T : T = {ks[s]}
  OBVIOUS
<1>3. \E k \in DOMAIN K : K[k] \in T
  <2>1. ks[s] \in ToSet(K)
    BY <1>1 DEF KeysRight
  <2> QED
    BY <1>2, <2>1 DEF ToSet
<1>4. PICK I : I = {i \in 1 .. Len(K) : K[i] \in T}
  OBVIOUS
<1>5. I # {} /\ Min(I) \in DOMAIN K /\ K[Min(I)] \in T
  BY <1>1, <1>3, <1>4, SelectFirst DEF KeysRight
<1>6. I = {i \in 1 .. Len(K) : K[i] = ks[s]}
  BY <1>2, <1>4
<1>7. UnitTask(ks, s) = Min(I)
  BY <1>1, <1>5, <1>6 DEF UnitTask, SelectInSeq
<1> QED
  BY <1>1, <1>2, <1>5, <1>7

\* A library's task is the archive of its name.
LEMMA LibTaskRight ==
  ASSUME NEW L, L = Libs, L \in Seq(TargetSet), NEW nc \in Nat, NEW ks, nc = Len(CompileKeys(ks)),
         NEW l, \E u \in ToSet(L) : u.name = l
  PROVE  \E j \in DOMAIN L : LibTask(ks, l) = nc + j /\ L[j].name = l
<1>1. PICK T : T = {u \in ToSet(L) : u.name = l}
  OBVIOUS
<1>2. \E k \in DOMAIN L : L[k] \in T
  BY <1>1 DEF ToSet
<1>3. PICK I : I = {i \in 1 .. Len(L) : L[i] \in T}
  OBVIOUS
<1>4. I # {} /\ Min(I) \in DOMAIN L /\ L[Min(I)] \in T
  BY <1>2, <1>3, SelectFirst
<1>5. I = {i \in 1 .. Len(L) : L[i].name = l}
  <2>1. \A i \in 1 .. Len(L) : L[i] \in ToSet(L)
    BY DEF ToSet
  <2> QED
    BY <1>1, <1>3, <2>1
<1>6. LibTask(ks, l) = nc + Min(I)
  BY <1>4, <1>5 DEF LibTask, SelectInSeq
<1> QED
  BY <1>1, <1>4, <1>6

\* The objects a target is made of.
ObjectsRight(d, K, ks, t, nc) ==
  /\ d \in Seq(1 .. nc) /\ IsInjective(d)
  /\ {K[i] : i \in ToSet(d)} = {ks[s] : s \in ToSet(t.sources)}

\* A target's objects are the compiles of its sources, each once.
LEMMA ObjectDepsRight ==
  ASSUME Parsed(m), NEW ks \in [Sources -> Text], NEW t \in ToSet(m.targets),
         NEW K, K = CompileKeys(ks), NEW nc \in Nat, nc = Len(K)
  PROVE  ObjectsRight(ObjectDeps(ks, t), K, ks, t, nc)
<1>1. DOMAIN K = 1 .. nc
  BY CompileKeysRight DEF KeysRight
<1>2. t \in TargetSet
  BY DEF Parsed, ManifestSet, ToSet
<1>3. PICK ss \in Seq(Files) : ss = t.sources
  BY <1>2 DEF TargetSet
<1>4. PICK n \in Nat : DOMAIN ss = 1 .. n
  BY <1>3
<1>5. ToSet(ss) \subseteq Sources
  BY <1>3 DEF Sources
<1>6. ASSUME NEW k \in 1 .. n PROVE UnitTask(ks, ss[k]) \in 1 .. nc /\ K[UnitTask(ks, ss[k])] = ks[ss[k]]
  <2>1. PICK s \in Sources : s = ss[k]
    BY <1>4, <1>5 DEF ToSet
  <2> QED
    BY <1>1, <2>1, UnitTaskRight
<1>7. PICK q : q = [k \in 1 .. n |-> UnitTask(ks, ss[k])]
  OBVIOUS
<1>8. q \in Seq(1 .. nc)
  BY <1>6, <1>7, IsASeq
<1>9. ObjectDeps(ks, t) = Dedup(q)
  BY <1>3, <1>4, <1>7 DEF ObjectDeps
<1>10. PICK d : d = Dedup(q) /\ d \in Seq(1 .. nc) /\ ToSet(d) = ToSet(q) /\ IsInjective(d)
  BY <1>8, DedupEntries
<1>11. ToSet(q) = {UnitTask(ks, ss[k]) : k \in 1 .. n}
  BY <1>7 DEF ToSet
<1>12. ToSet(ss) = {ss[k] : k \in 1 .. n}
  BY <1>4 DEF ToSet
<1>13. {K[i] : i \in ToSet(d)} = {ks[s] : s \in ToSet(ss)}
  <2>1. {K[i] : i \in {UnitTask(ks, ss[k]) : k \in 1 .. n}} = {ks[s] : s \in {ss[k] : k \in 1 .. n}}
    BY ONLY <1>6
  <2> QED
    BY <1>10, <1>11, <1>12, <2>1, Zenon
<1> QED
  BY <1>3, <1>9, <1>10, <1>13, Zenon DEF ObjectsRight

\* One task, its driver left out.
Row(r, id, kind, what, deps) ==
  /\ r.id = id /\ r.kind = kind /\ r.what = what /\ r.deps = deps /\ r.cost \in Int

\* Compiles first, then archives, then links.
Shape(x, ks, K, L, B, nc, nl, nb) ==
  /\ x \in Seq(ToSet(x)) /\ Len(x) = nc + nl + nb /\ DOMAIN x = 1 .. nc + nl + nb
  /\ \A j \in 1 .. nc : Row(x[j], j, "compile", K[j], <<>>)
  /\ \A j \in 1 .. nl : Row(x[j + nc], j + nc, "archive", L[j].name, ObjectDeps(ks, L[j]))
  /\ \A j \in 1 .. nb :
       /\ Row(x[j + (nc + nl)], j + (nc + nl), "link", B[j].name,
              ObjectDeps(ks, B[j]) \o [k \in DOMAIN B[j].libs |-> LibTask(ks, B[j].libs[k])])
       /\ x[j + (nc + nl)].driver = IF NeedsCxx(B[j]) THEN m.cxx ELSE m.cc

\* x is three lists one after the other.
Threefold(x, A, a, b, c, na, nb, nc) ==
  /\ x \in Seq(A) /\ Len(x) = na + nb + nc /\ DOMAIN x = 1 .. na + nb + nc
  /\ \A j \in 1 .. na : x[j] = a[j]
  /\ \A j \in 1 .. nb : x[j + na] = b[j]
  /\ \A j \in 1 .. nc : x[j + (na + nb)] = c[j]

\* Three lists joined.
LEMMA ThreeLists ==
  ASSUME NEW A, NEW a \in Seq(A), NEW b \in Seq(A), NEW c \in Seq(A),
         NEW na \in Nat, NEW nb \in Nat, NEW nc \in Nat, na = Len(a), nb = Len(b), nc = Len(c),
         NEW x, x = a \o b \o c
  PROVE  Threefold(x, A, a, b, c, na, nb, nc)
<1>1. PICK y : y = a \o b
  OBVIOUS
<1>2. y \in Seq(A) /\ Spliced(y, a, b, na, nb)
  BY <1>1, ConcatSpliced
<1>3. PICK n \in Nat : n = na + nb /\ n = Len(y)
  BY <1>2 DEF Spliced
<1>4. x \in Seq(A) /\ Spliced(x, y, c, n, nc)
  BY <1>1, <1>2, <1>3, ConcatSpliced
<1>5. ASSUME NEW j \in 1 .. na PROVE x[j] = a[j]
  <2>1. j \in 1 .. n
    BY <1>3
  <2> QED
    BY <1>2, <1>4, <2>1 DEF Spliced
<1>6. ASSUME NEW j \in 1 .. nb PROVE x[j + na] = b[j]
  <2>1. j + na \in 1 .. n
    BY <1>3
  <2> QED
    BY <1>2, <1>4, <2>1 DEF Spliced
<1>7. \A j \in 1 .. nc : x[j + (na + nb)] = c[j]
  BY <1>3, <1>4 DEF Spliced
<1>8. Len(x) = na + nb + nc /\ DOMAIN x = 1 .. na + nb + nc
  BY <1>3, <1>4 DEF Spliced
<1> QED
  BY <1>4, <1>5, <1>6, <1>7, <1>8 DEF Threefold

\* What Tasks is.
LEMMA TasksShape ==
  ASSUME Parsed(m), NEW ks \in [Sources -> Text], NEW K, K = CompileKeys(ks), NEW L, L = Libs, NEW B, B = Bins,
         NEW nc \in Nat, nc = Len(K), NEW nl \in Nat, nl = Len(L), NEW nb \in Nat, nb = Len(B)
  PROVE  Shape(Tasks(ks), ks, K, L, B, nc, nl, nb)
<1>1. K \in Seq(Text) /\ DOMAIN K = 1 .. nc /\ \A j \in 1 .. nc : K[j] \in Text
  BY CompileKeysRight DEF KeysRight
<1>2. DOMAIN L = 1 .. nl /\ DOMAIN B = 1 .. nb
  BY TargetsSplit DEF Split
<1>3. PICK a : a = [j \in 1 .. nc |-> Task(j, "compile", K[j], Cost[K[j]], <<>>,
                     IF \E s \in Sources \cap Cxx : ks[s] = K[j] THEN m.cxx ELSE m.cc)]
  OBVIOUS
<1>4. PICK b : b = [j \in 1 .. nl |-> Task(nc + j, "archive", L[j].name, ArchiveCost, ObjectDeps(ks, L[j]), "ar")]
  OBVIOUS
<1>5. PICK c : c = [j \in 1 .. nb |->
         Task(nc + nl + j, "link", B[j].name, LinkCost,
              ObjectDeps(ks, B[j]) \o [k \in DOMAIN B[j].libs |-> LibTask(ks, B[j].libs[k])],
              IF NeedsCxx(B[j]) THEN m.cxx ELSE m.cc)]
  OBVIOUS
<1>6. PICK x : x = a \o b \o c
  OBVIOUS
<1>7. Tasks(ks) = x
  BY <1>2, <1>3, <1>4, <1>5, <1>6, Zenon DEF Tasks
<1>8. PICK A : A = ToSet(a) \cup ToSet(b) \cup ToSet(c)
  OBVIOUS
<1>9. a \in Seq(A) /\ Len(a) = nc
  <2>1. DOMAIN a = 1 .. nc
    BY <1>3
  <2>2. \A j \in 1 .. nc : a[j] \in A
    BY <1>8, <2>1 DEF ToSet
  <2>3. a = [j \in 1 .. nc |-> a[j]]
    BY <1>3
  <2>4. a \in Seq(A)
    BY <2>2, <2>3, IsASeq
  <2> QED
    BY <2>1, <2>4, LenProperties
<1>10. b \in Seq(A) /\ Len(b) = nl
  <2>1. DOMAIN b = 1 .. nl
    BY <1>4
  <2>2. \A j \in 1 .. nl : b[j] \in A
    BY <1>8, <2>1 DEF ToSet
  <2>3. b = [j \in 1 .. nl |-> b[j]]
    BY <1>4
  <2>4. b \in Seq(A)
    BY <2>2, <2>3, IsASeq
  <2> QED
    BY <2>1, <2>4, LenProperties
<1>11. c \in Seq(A) /\ Len(c) = nb
  <2>1. DOMAIN c = 1 .. nb
    BY <1>5
  <2>2. \A j \in 1 .. nb : c[j] \in A
    BY <1>8, <2>1 DEF ToSet
  <2>3. c = [j \in 1 .. nb |-> c[j]]
    BY <1>5
  <2>4. c \in Seq(A)
    BY <2>2, <2>3, IsASeq
  <2> QED
    BY <2>1, <2>4, LenProperties
<1>12. /\ x \in Seq(A) /\ Len(x) = nc + nl + nb /\ DOMAIN x = 1 .. nc + nl + nb
       /\ \A j \in 1 .. nc : x[j] = a[j]
       /\ \A j \in 1 .. nl : x[j + nc] = b[j]
       /\ \A j \in 1 .. nb : x[j + (nc + nl)] = c[j]
  <2>1. Threefold(x, A, a, b, c, nc, nl, nb)
    BY <1>6, <1>9, <1>10, <1>11, ThreeLists, Zenon
  <2> QED
    BY ONLY <2>1, Zenon DEF Threefold
<1>13. x \in Seq(ToSet(x))
  <2>1. PICK N \in Nat : DOMAIN x = 1 .. N /\ x = [j \in 1 .. N |-> x[j]]
    BY <1>12
  <2>2. \A j \in 1 .. N : x[j] \in ToSet(x)
    BY <2>1 DEF ToSet
  <2> QED
    BY <2>1, <2>2, IsASeq
<1>14. ASSUME NEW j \in 1 .. nc PROVE Row(x[j], j, "compile", K[j], <<>>)
  <2>1. Cost[K[j]] \in Int
    BY <1>1, SpecAssumption
  <2>2. x[j] = Task(j, "compile", K[j], Cost[K[j]], <<>>,
                     IF \E s \in Sources \cap Cxx : ks[s] = K[j] THEN m.cxx ELSE m.cc)
    BY ONLY <1>3, <1>12, j \in 1 .. nc, Zenon
  <2>3. PICK w, z : w \in Int /\ x[j] = Task(j, "compile", K[j], w, <<>>, z)
    BY ONLY <2>1, <2>2, Zenon
  <2> QED
    BY ONLY <2>3 DEF Row, Task
<1>15. ASSUME NEW j \in 1 .. nl
       PROVE Row(x[j + nc], j + nc, "archive", L[j].name, ObjectDeps(ks, L[j]))
  <2>1. x[j + nc] = Task(nc + j, "archive", L[j].name, ArchiveCost, ObjectDeps(ks, L[j]), "ar")
    BY ONLY <1>4, <1>12, j \in 1 .. nl, Zenon
  <2>2. nc + j = j + nc /\ ArchiveCost \in Int
    BY SpecAssumption
  <2>3. PICK w, i : w \in Int /\ i = j + nc /\ x[i] = Task(i, "archive", L[j].name, w, ObjectDeps(ks, L[j]), "ar")
    BY ONLY <2>1, <2>2, Zenon
  <2> QED
    BY ONLY <2>3 DEF Row, Task
<1>16. ASSUME NEW j \in 1 .. nb
       PROVE /\ Row(x[j + (nc + nl)], j + (nc + nl), "link", B[j].name,
              ObjectDeps(ks, B[j]) \o [k \in DOMAIN B[j].libs |-> LibTask(ks, B[j].libs[k])])
             /\ x[j + (nc + nl)].driver = IF NeedsCxx(B[j]) THEN m.cxx ELSE m.cc
  <2>1. x[j + (nc + nl)] = Task(nc + nl + j, "link", B[j].name, LinkCost,
              ObjectDeps(ks, B[j]) \o [k \in DOMAIN B[j].libs |-> LibTask(ks, B[j].libs[k])],
              IF NeedsCxx(B[j]) THEN m.cxx ELSE m.cc)
    BY ONLY <1>5, <1>12, j \in 1 .. nb, Zenon
  <2>2. nc + nl + j = j + (nc + nl) /\ LinkCost \in Int
    BY SpecAssumption
  <2>3. PICK d, z : /\ d = ObjectDeps(ks, B[j]) \o [k \in DOMAIN B[j].libs |-> LibTask(ks, B[j].libs[k])]
                    /\ z = IF NeedsCxx(B[j]) THEN m.cxx ELSE m.cc
    OBVIOUS
  <2>4. PICK w, i : w \in Int /\ i = j + (nc + nl) /\ x[i] = Task(i, "link", B[j].name, w, d, z)
    BY ONLY <2>1, <2>2, <2>3, Zenon
  <2>5. Row(x[i], i, "link", B[j].name, d) /\ x[i].driver = z
    BY ONLY <2>4 DEF Row, Task
  <2> QED
    BY ONLY <2>3, <2>4, <2>5, Zenon
<1>17. Shape(x, ks, K, L, B, nc, nl, nb)
  BY ONLY <1>12, <1>13, <1>14, <1>15, <1>16, Zenon DEF Shape
<1> QED
  BY ONLY <1>7, <1>17, Zenon

\* Every library that is linked is in the file.
Linked(mf) ==
  \A t \in ToSet(mf.targets) : \A l \in ToSet(t.libs) :
    \E u \in ToSet(mf.targets) : u.lib /\ u.name = l

\* d are the objects and the libraries of target t.
Feeds(d, t, ks, K, L, nc, nl) ==
  /\ d \in Seq(1 .. nc + nl)
  /\ {K[i] : i \in ToSet(d) \cap 1 .. nc} = {ks[s] : s \in ToSet(t.sources)}
  /\ {L[i - nc].name : i \in ToSet(d) \ (1 .. nc)} = ToSet(t.libs)
  /\ IsInjective(t.libs) => IsInjective(d)

\* A library has objects only.
LEMMA ArchiveFed ==
  ASSUME NEW t, t.libs = <<>>, NEW ks, NEW K, NEW L, NEW nc \in Nat, NEW nl \in Nat,
         NEW d, ObjectsRight(d, K, ks, t, nc)
  PROVE  Feeds(d, t, ks, K, L, nc, nl)
<1>1. d \in Seq(1 .. nc) /\ IsInjective(d)
  BY DEF ObjectsRight
<1>2. d \in Seq(1 .. nc + nl)
  <2>1. 1 .. nc \subseteq 1 .. nc + nl
    OBVIOUS
  <2> QED
    BY <1>1, <2>1, SeqMonotonic
<1>3. ToSet(d) \subseteq 1 .. nc
  BY <1>1 DEF ToSet
<1>4. ToSet(d) \cap 1 .. nc = ToSet(d) /\ ToSet(d) \ (1 .. nc) = {}
  BY <1>3
<1>5. ToSet(t.libs) = {}
  BY DEF ToSet
<1>6. {L[i - nc].name : i \in ToSet(d) \ (1 .. nc)} = {}
  BY ONLY <1>4
<1>7. {K[i] : i \in ToSet(d) \cap 1 .. nc} = {ks[s] : s \in ToSet(t.sources)}
  BY <1>4, Zenon DEF ObjectsRight
<1> QED
  BY ONLY <1>1, <1>2, <1>5, <1>6, <1>7, Zenon DEF Feeds

\* A binary has its libraries after its objects.
LEMMA LinkFed ==
  ASSUME NEW t, NEW A, t.libs \in Seq(A), NEW ks, NEW K, NEW L, NEW nc \in Nat, NEW nl \in Nat,
         NEW o, ObjectsRight(o, K, ks, t, nc), NEW q, q = [k \in DOMAIN t.libs |-> LibTask(ks, t.libs[k])],
         \A k \in DOMAIN t.libs : \E j \in 1 .. nl : q[k] = nc + j /\ L[j].name = t.libs[k],
         NEW d, d = o \o q
  PROVE  Feeds(d, t, ks, K, L, nc, nl)
<1>1. o \in Seq(1 .. nc) /\ IsInjective(o) /\ {K[i] : i \in ToSet(o)} = {ks[s] : s \in ToSet(t.sources)}
  BY DEF ObjectsRight
<1>2. PICK N \in Nat : DOMAIN t.libs = 1 .. N /\ N = Len(t.libs)
  OBVIOUS
<1>3. \A k \in 1 .. N : q[k] \in nc + 1 .. nc + nl /\ L[q[k] - nc].name = t.libs[k]
  <2> SUFFICES ASSUME NEW k \in 1 .. N PROVE q[k] \in nc + 1 .. nc + nl /\ L[q[k] - nc].name = t.libs[k]
    OBVIOUS
  <2>1. PICK j \in 1 .. nl : q[k] = nc + j /\ L[j].name = t.libs[k]
    BY <1>2
  <2>2. q[k] - nc = j
    BY <2>1
  <2> QED
    BY <2>1, <2>2
<1>4. PICK I : I = 1 .. nc + nl
  OBVIOUS
<1>5. o \in Seq(I)
  <2>1. 1 .. nc \subseteq I
    BY <1>4
  <2> QED
    BY <1>1, <2>1, SeqMonotonic
<1>6. q = [k \in 1 .. N |-> q[k]] /\ DOMAIN q = 1 .. N
  BY <1>2
<1>7. q \in Seq(I) /\ Len(q) = N
  <2>1. \A k \in 1 .. N : q[k] \in I
    BY ONLY <1>3, <1>4, nc \in Nat, nl \in Nat
  <2>2. q \in Seq(I)
    BY ONLY <1>6, <2>1, N \in Nat, IsASeq
  <2> QED
    BY ONLY <1>6, <2>2, N \in Nat, LenProperties
<1>8. PICK M \in Nat : M = Len(o) /\ DOMAIN o = 1 .. M
  BY <1>1
<1>9. d \in Seq(I) /\ ToSet(d) = ToSet(o) \cup ToSet(q)
  <2>1. o \o q \in Seq(I)
    BY ONLY <1>5, <1>7, ConcatProperties
  <2>2. ToSet(o \o q) = ToSet(o) \cup ToSet(q)
    BY ONLY <1>5, <1>7, ConcatEntries
  <2> QED
    BY ONLY <2>1, <2>2, d = o \o q, Zenon
<1>10. ToSet(o) \subseteq 1 .. nc
  BY <1>1 DEF ToSet
<1>11. ToSet(q) = {q[k] : k \in 1 .. N}
  BY <1>6 DEF ToSet
<1>12. ToSet(q) \cap 1 .. nc = {}
  BY ONLY <1>3, <1>11, nc \in Nat, nl \in Nat
<1>13. ToSet(d) \cap 1 .. nc = ToSet(o) /\ ToSet(d) \ (1 .. nc) = ToSet(q)
  BY ONLY <1>9, <1>10, <1>12
<1>14. {L[i - nc].name : i \in ToSet(q)} = ToSet(t.libs)
  <2>1. ToSet(t.libs) = {t.libs[k] : k \in 1 .. N}
    BY <1>2 DEF ToSet
  <2>2. {L[i - nc].name : i \in {q[k] : k \in 1 .. N}} = {t.libs[k] : k \in 1 .. N}
    BY ONLY <1>3
  <2> QED
    BY ONLY <1>11, <2>1, <2>2, Zenon
<1>15. ASSUME IsInjective(t.libs) PROVE IsInjective(d)
  <2>1. Spliced(d, o, q, M, N)
    BY <1>5, <1>7, <1>8, ConcatSpliced
  <2>2. \A i \in 1 .. M : o[i] \in 1 .. nc
    BY <1>8, <1>10 DEF ToSet
  <2>3. ASSUME NEW a \in 1 .. M + N, NEW b \in 1 .. M + N, d[a] = d[b] PROVE a = b
    <3>1. CASE a <= M /\ b <= M
      <4>1. a \in DOMAIN o /\ b \in DOMAIN o /\ o[a] = o[b]
        BY <1>8, <2>1, <2>3, <3>1 DEF Spliced
      <4> QED
        BY <1>1, <4>1 DEF IsInjective
    <3>2. CASE a <= M /\ b > M
      <4>1. a \in 1 .. M /\ b - M \in 1 .. N /\ o[a] = q[b - M]
        <5>1. a \in 1 .. M /\ b - M \in 1 .. N
          BY ONLY <3>2, a \in 1 .. M + N, b \in 1 .. M + N, M \in Nat, N \in Nat
        <5>2. d[a] = o[a]
          BY ONLY <2>1, <5>1 DEF Spliced
        <5>3. d[b] = q[b - M]
          BY ONLY <2>1, <3>2, b \in 1 .. M + N DEF Spliced
        <5> QED
          BY ONLY <2>3, <5>1, <5>2, <5>3
      <4>2. o[a] \in 1 .. nc /\ q[b - M] \in nc + 1 .. nc + nl
        BY ONLY <1>3, <2>2, <4>1
      <4> QED
        BY ONLY <4>1, <4>2, nc \in Nat, nl \in Nat
    <3>3. CASE a > M /\ b <= M
      <4>1. b \in 1 .. M /\ a - M \in 1 .. N /\ o[b] = q[a - M]
        <5>1. b \in 1 .. M /\ a - M \in 1 .. N
          BY ONLY <3>3, a \in 1 .. M + N, b \in 1 .. M + N, M \in Nat, N \in Nat
        <5>2. d[b] = o[b]
          BY ONLY <2>1, <5>1 DEF Spliced
        <5>3. d[a] = q[a - M]
          BY ONLY <2>1, <3>3, a \in 1 .. M + N DEF Spliced
        <5> QED
          BY ONLY <2>3, <5>1, <5>2, <5>3
      <4>2. o[b] \in 1 .. nc /\ q[a - M] \in nc + 1 .. nc + nl
        BY ONLY <1>3, <2>2, <4>1
      <4> QED
        BY ONLY <4>1, <4>2, nc \in Nat, nl \in Nat
    <3>4. CASE a > M /\ b > M
      <4>1. a - M \in 1 .. N /\ b - M \in 1 .. N /\ q[a - M] = q[b - M]
        <5>1. a - M \in 1 .. N /\ b - M \in 1 .. N
          BY ONLY <3>4, a \in 1 .. M + N, b \in 1 .. M + N, M \in Nat, N \in Nat
        <5>2. d[a] = q[a - M] /\ d[b] = q[b - M]
          BY ONLY <2>1, <3>4, a \in 1 .. M + N, b \in 1 .. M + N DEF Spliced
        <5> QED
          BY ONLY <5>1, <5>2, <2>3
      <4>2. t.libs[a - M] = t.libs[b - M]
        BY ONLY <1>3, <4>1
      <4>3. a - M = b - M
        BY <1>2, <1>15, <4>1, <4>2 DEF IsInjective
      <4> QED
        BY <4>3
    <3> QED
      BY <3>1, <3>2, <3>3, <3>4
  <2>4. DOMAIN d = 1 .. M + N
    BY ONLY <2>1 DEF Spliced
  <2> QED
    BY ONLY <2>3, <2>4, Zenon DEF IsInjective
<1>16. {K[i] : i \in ToSet(d) \cap 1 .. nc} = {ks[s] : s \in ToSet(t.sources)}
  BY ONLY <1>1, <1>13, Zenon
<1>17. {L[i - nc].name : i \in ToSet(d) \ (1 .. nc)} = ToSet(t.libs)
  BY ONLY <1>13, <1>14, Zenon
<1> QED
  BY ONLY <1>4, <1>9, <1>15, <1>16, <1>17, Zenon DEF Feeds

\* The task of target t.
Node(r, id, kind, t, ks, K, L, nc, nl) ==
  r.id = id /\ r.kind = kind /\ r.what = t.name /\ r.cost \in Int /\ Feeds(r.deps, t, ks, K, L, nc, nl)

\* The graph of build(), with what each target is made of.
Made(x, ks, K, L, B, nc, nl, nb) ==
  /\ x \in Seq(ToSet(x)) /\ Len(x) = nc + nl + nb /\ DOMAIN x = 1 .. nc + nl + nb
  /\ \A j \in 1 .. nc : Row(x[j], j, "compile", K[j], <<>>)
  /\ \A j \in 1 .. nl : Node(x[j + nc], j + nc, "archive", L[j], ks, K, L, nc, nl)
  /\ \A j \in 1 .. nl : ToSet(x[j + nc].deps) \subseteq 1 .. nc
  /\ \A j \in 1 .. nb : /\ Node(x[j + (nc + nl)], j + (nc + nl), "link", B[j], ks, K, L, nc, nl)
                        /\ x[j + (nc + nl)].driver = IF NeedsCxx(B[j]) THEN m.cxx ELSE m.cc

\* What a manifest's graph is made of.
LEMMA TasksMade ==
  ASSUME Parsed(m), Linked(m), NEW ks \in [Sources -> Text], NEW K, K = CompileKeys(ks),
         NEW L, L = Libs, NEW B, B = Bins,
         NEW nc \in Nat, nc = Len(K), NEW nl \in Nat, nl = Len(L), NEW nb \in Nat, nb = Len(B)
  PROVE  Made(Tasks(ks), ks, K, L, B, nc, nl, nb)
<1>1. PICK x : x = Tasks(ks) /\ Shape(x, ks, K, L, B, nc, nl, nb)
  BY TasksShape
<1>2. Split(m.targets, L, B)
  BY TargetsSplit
<1>3. /\ L \in Seq(TargetSet) /\ DOMAIN L = 1 .. nl /\ \A j \in 1 .. nl : L[j] \in ToSet(m.targets) /\ L[j].lib
      /\ B \in Seq(TargetSet) /\ DOMAIN B = 1 .. nb /\ \A j \in 1 .. nb : B[j] \in ToSet(m.targets)
  <2>1. /\ L \in Seq(TargetSet) /\ ToSet(L) = {t \in ToSet(m.targets) : t.lib}
        /\ B \in Seq(TargetSet) /\ ToSet(B) = {t \in ToSet(m.targets) : ~t.lib}
    BY <1>2 DEF Split
  <2>2. DOMAIN L = 1 .. nl /\ DOMAIN B = 1 .. nb
    BY <2>1, LenProperties
  <2>3. \A j \in 1 .. nl : L[j] \in ToSet(L)
    BY <2>2 DEF ToSet
  <2>4. \A j \in 1 .. nb : B[j] \in ToSet(B)
    BY <2>2 DEF ToSet
  <2> QED
    BY ONLY <2>1, <2>2, <2>3, <2>4, Zenon
<1>4. ASSUME NEW j \in 1 .. nl
      PROVE  /\ Node(x[j + nc], j + nc, "archive", L[j], ks, K, L, nc, nl)
             /\ ToSet(x[j + nc].deps) \subseteq 1 .. nc
  <2>1. PICK t \in ToSet(m.targets) : t = L[j] /\ t.lib
    BY <1>3
  <2>2. t.libs = <<>>
    BY <2>1, Zenon DEF Parsed
  <2>3. PICK d : d = ObjectDeps(ks, t) /\ ObjectsRight(d, K, ks, t, nc)
    BY ObjectDepsRight
  <2>4. Feeds(d, t, ks, K, L, nc, nl)
    BY ONLY <2>2, <2>3, nc \in Nat, nl \in Nat, ArchiveFed, Zenon
  <2>5. Row(x[j + nc], j + nc, "archive", t.name, d)
    BY <1>1, <2>1, <2>3, Zenon DEF Shape
  <2>6. ToSet(d) \subseteq 1 .. nc
    BY <2>3 DEF ObjectsRight, ToSet
  <2> QED
    BY ONLY <2>1, <2>4, <2>5, <2>6, Zenon DEF Node, Row
<1>5. ASSUME NEW j \in 1 .. nb
      PROVE  Node(x[j + (nc + nl)], j + (nc + nl), "link", B[j], ks, K, L, nc, nl)
  <2>1. PICK t \in ToSet(m.targets) : t = B[j]
    BY <1>3
  <2>2. t.libs \in Seq(Words)
    <3>1. t \in TargetSet
      BY <1>3, <2>1, ElementOfSeq
    <3> QED
      BY <3>1 DEF TargetSet
  <2>3. PICK o : o = ObjectDeps(ks, t) /\ ObjectsRight(o, K, ks, t, nc)
    BY ObjectDepsRight
  <2>4. PICK q : q = [k \in DOMAIN t.libs |-> LibTask(ks, t.libs[k])]
    OBVIOUS
  <2>5. ASSUME NEW k \in DOMAIN t.libs PROVE \E i \in 1 .. nl : q[k] = nc + i /\ L[i].name = t.libs[k]
    <3>1. PICK l : l = t.libs[k] /\ l \in ToSet(t.libs)
      BY DEF ToSet
    <3>2. PICK u \in ToSet(m.targets) : u.lib /\ u.name = l
      BY <3>1, Zenon DEF Linked
    <3>3. u \in ToSet(L)
      BY <1>2, <3>2, Zenon DEF Split
    <3>4. \E i \in DOMAIN L : LibTask(ks, l) = nc + i /\ L[i].name = l
      <4>1. L \in Seq(TargetSet) /\ \E v \in ToSet(L) : v.name = l
        BY <1>3, <3>2, <3>3, Zenon
      <4> QED
        BY <4>1, LibTaskRight
    <3> QED
      BY <1>3, <2>4, <3>1, <3>4
  <2>6. Feeds(o \o q, t, ks, K, L, nc, nl)
    BY ONLY <2>2, <2>3, <2>4, <2>5, nc \in Nat, nl \in Nat, LinkFed
  <2>7. Row(x[j + (nc + nl)], j + (nc + nl), "link", t.name, o \o q)
    BY <1>1, <2>1, <2>3, <2>4, Zenon DEF Shape
  <2> QED
    BY ONLY <2>1, <2>6, <2>7, Zenon DEF Node, Row
<1>6. Made(x, ks, K, L, B, nc, nl, nb)
  <2>1. /\ x \in Seq(ToSet(x)) /\ Len(x) = nc + nl + nb /\ DOMAIN x = 1 .. nc + nl + nb
        /\ \A j \in 1 .. nc : Row(x[j], j, "compile", K[j], <<>>)
        /\ \A j \in 1 .. nb : x[j + (nc + nl)].driver = IF NeedsCxx(B[j]) THEN m.cxx ELSE m.cc
    BY <1>1, Zenon DEF Shape
  <2> QED
    BY ONLY <2>1, <1>4, <1>5, Zenon DEF Made
<1> QED
  BY ONLY <1>1, <1>6, Zenon

\* Where a task is.
LEMMA Thirds ==
  ASSUME NEW nc \in Nat, NEW nl \in Nat, NEW nb \in Nat, NEW i \in 1 .. nc + nl + nb
  PROVE  \/ i \in 1 .. nc
         \/ \E j \in 1 .. nl : i = j + nc
         \/ \E j \in 1 .. nb : i = j + (nc + nl)
<1>1. CASE i <= nc
  BY <1>1
<1>2. CASE i > nc /\ i <= nc + nl
  <2>1. i - nc \in 1 .. nl /\ i = (i - nc) + nc
    BY <1>2
  <2> QED
    BY <2>1
<1>3. CASE i > nc + nl
  <2>1. i - (nc + nl) \in 1 .. nb /\ i = (i - (nc + nl)) + (nc + nl)
    BY <1>3
  <2> QED
    BY <2>1
<1> QED
  BY <1>1, <1>2, <1>3

\* A task is what its place says, and its deps come before it.
Placed(x, K, i, nc, nl, nb) ==
  /\ x[i].id = i /\ x[i].cost \in Int
  /\ x[i].deps \in Seq(Int) /\ ToSet(x[i].deps) \subseteq 1 .. i - 1
  /\ x[i].kind = "compile" <=> i <= nc
  /\ x[i].kind = "archive" <=> i > nc /\ i <= nc + nl
  /\ x[i].kind = "link" <=> i > nc + nl
  /\ i <= nc => x[i].what = K[i]

\* Every task of the graph stands in one of its three parts.
LEMMA AllPlaced ==
  ASSUME NEW nc \in Nat, NEW nl \in Nat, NEW nb \in Nat, NEW x, NEW ks, NEW K, NEW L, NEW B,
         Made(x, ks, K, L, B, nc, nl, nb), NEW i \in DOMAIN x
  PROVE  Placed(x, K, i, nc, nl, nb)
<1>1. i \in 1 .. nc + nl + nb
  BY DEF Made
<1>2. CASE i \in 1 .. nc
  <2>1. Row(x[i], i, "compile", K[i], <<>>)
    BY <1>2 DEF Made
  <2>2. x[i].deps \in Seq(Int) /\ ToSet(x[i].deps) = {}
    BY <2>1 DEF Row, ToSet
  <2> QED
    BY <1>2, <2>1, <2>2 DEF Placed, Row
<1>3. ASSUME NEW j \in 1 .. nl, i = j + nc PROVE Placed(x, K, i, nc, nl, nb)
  <2>1. Node(x[i], i, "archive", L[j], ks, K, L, nc, nl) /\ ToSet(x[i].deps) \subseteq 1 .. nc
    BY <1>3, Zenon DEF Made
  <2>2. x[i].deps \in Seq(1 .. nc + nl)
    BY <2>1 DEF Node, Feeds
  <2>3. x[i].deps \in Seq(Int)
    <3>1. 1 .. nc + nl \subseteq Int
      OBVIOUS
    <3> QED
      BY ONLY <2>2, <3>1, SeqMonotonic
  <2>4. i \in Nat /\ i > nc /\ i <= nc + nl /\ ~(i > nc + nl) /\ ~(i <= nc) /\ 1 .. nc \subseteq 1 .. i - 1
    BY ONLY <1>3, j \in 1 .. nl, nc \in Nat, nl \in Nat
  <2>5. x[i].id = i /\ x[i].cost \in Int /\ x[i].kind = "archive"
    BY <2>1 DEF Node
  <2> QED
    BY ONLY <2>1, <2>3, <2>4, <2>5 DEF Placed
<1>4. ASSUME NEW j \in 1 .. nb, i = j + (nc + nl) PROVE Placed(x, K, i, nc, nl, nb)
  <2>1. Node(x[i], i, "link", B[j], ks, K, L, nc, nl)
    BY <1>4, Zenon DEF Made
  <2>2. x[i].deps \in Seq(1 .. nc + nl)
    BY <2>1 DEF Node, Feeds
  <2>3. x[i].deps \in Seq(Int)
    <3>1. 1 .. nc + nl \subseteq Int
      OBVIOUS
    <3> QED
      BY ONLY <2>2, <3>1, SeqMonotonic
  <2>4. i \in Nat /\ i > nc + nl /\ ~(i <= nc + nl) /\ ~(i <= nc) /\ 1 .. nc + nl \subseteq 1 .. i - 1
    BY ONLY <1>4, j \in 1 .. nb, nc \in Nat, nl \in Nat, nb \in Nat
  <2>5. x[i].id = i /\ x[i].cost \in Int /\ x[i].kind = "link"
    BY <2>1 DEF Node
  <2>6. ToSet(x[i].deps) \subseteq 1 .. nc + nl
    BY ONLY <2>2 DEF ToSet
  <2> QED
    BY ONLY <2>3, <2>4, <2>5, <2>6 DEF Placed
<1>5. i \in 1 .. nc \/ (\E j \in 1 .. nl : i = j + nc) \/ (\E j \in 1 .. nb : i = j + (nc + nl))
  BY <1>1, Thirds, Zenon
<1> QED
  BY ONLY <1>2, <1>3, <1>4, <1>5, Zenon

\* Deps that come before their task make a graph that can be put in order.
LEMMA PlacedGraph ==
  ASSUME NEW nc \in Nat, NEW nl \in Nat, NEW nb \in Nat, NEW x, NEW ks, NEW K, NEW L, NEW B,
         Made(x, ks, K, L, B, nc, nl, nb)
  PROVE  IsGraph(x) /\ WellFormed(x) /\ ~Ring(x)
<1>1. \A i \in DOMAIN x : Placed(x, K, i, nc, nl, nb)
  BY AllPlaced, Zenon
<1>2. PICK n \in Nat : DOMAIN x = 1 .. n
  <2>1. DOMAIN x = 1 .. nc + nl + nb
    BY Zenon DEF Made
  <2>2. nc + nl + nb \in Nat
    OBVIOUS
  <2> QED
    BY ONLY <2>1, <2>2
<1>3. IsGraph(x)
  BY <1>1 DEF IsGraph, Made, Placed
<1>4. ASSUME NEW i \in DOMAIN x PROVE x[i].id = i /\ ToSet(x[i].deps) \subseteq DOMAIN x \ {i}
  <2>1. x[i].id = i /\ ToSet(x[i].deps) \subseteq 1 .. i - 1
    BY <1>1 DEF Placed
  <2>2. 1 .. i - 1 \subseteq 1 .. n \ {i}
    BY <1>2
  <2> QED
    BY ONLY <1>2, <2>1, <2>2
<1>5. ~Ring(x)
  <2> SUFFICES ASSUME NEW S \in SUBSET DOMAIN x, S # {}, \A i \in S : ToSet(x[i].deps) \cap S # {}
               PROVE  FALSE
    BY DEF Ring
  <2>1. S \in SUBSET Nat
    BY <1>2
  <2>2. PICK i \in S : \A y \in S : i <= y
    BY <2>1, Smallest
  <2>3. PICK d \in S : d \in ToSet(x[i].deps)
    OBVIOUS
  <2>4. d \in 1 .. i - 1
    BY <1>1, <2>3 DEF Placed
  <2>5. i <= d /\ i \in Nat
    BY <2>1, <2>2
  <2> QED
    BY ONLY <2>4, <2>5
<1> QED
  BY <1>3, <1>4, <1>5 DEF WellFormed

HashedBy(x) == \A i \in DOMAIN x : x[i].kind = "compile" => x[i].what # NoText
RowsBy(x) == \A i \in DOMAIN x : IsInjective(x[i].deps)

\* Rows collide only when a target of L or B names a library twice.
RowsUnless(x, L, B, nl, nb) ==
  RowsBy(x) \/ (\E j \in 1 .. nl : ~IsInjective(L[j].libs)) \/ (\E j \in 1 .. nb : ~IsInjective(B[j].libs))

\* Every compile of a manifest has a key, and rows collide only when a target
\* names a library twice.
LEMMA PlacedRows ==
  ASSUME NEW nc \in Nat, NEW nl \in Nat, NEW nb \in Nat, NEW x, NEW ks, NEW K, NEW L, NEW B,
         Made(x, ks, K, L, B, nc, nl, nb), K \in Seq(Text), nc = Len(K)
  PROVE  HashedBy(x) /\ RowsUnless(x, L, B, nl, nb)
<1>1. HashedBy(x)
  <2> SUFFICES ASSUME NEW i \in DOMAIN x, x[i].kind = "compile" PROVE x[i].what # NoText
    BY DEF HashedBy
  <2>0. i \in 1 .. nc + nl + nb
    BY DEF Made
  <2>1. Placed(x, K, i, nc, nl, nb) /\ i \in Nat \ {0}
    <3>1. Placed(x, K, i, nc, nl, nb)
      BY AllPlaced, Zenon
    <3> QED
      BY ONLY <2>0, <3>1, nc \in Nat, nl \in Nat, nb \in Nat
  <2>2. i \in 1 .. nc /\ x[i].what = K[i]
    BY <2>1 DEF Placed
  <2>3. K[i] \in Text
    BY <2>2, ElementOfSeq
  <2> QED
    BY <2>2, <2>3, SpecAssumption
<1>2. ASSUME \A j \in 1 .. nl : IsInjective(L[j].libs), \A j \in 1 .. nb : IsInjective(B[j].libs), NEW i \in DOMAIN x
      PROVE  IsInjective(x[i].deps)
  <2>1. i \in 1 .. nc + nl + nb
    BY DEF Made
  <2>2. CASE i \in 1 .. nc
    <3>1. x[i].deps = <<>>
      BY <2>2 DEF Made, Row
    <3> QED
      BY <3>1 DEF IsInjective
  <2>3. ASSUME NEW j \in 1 .. nl, i = j + nc PROVE IsInjective(x[i].deps)
    BY <1>2, <2>3, Zenon DEF Made, Node, Feeds
  <2>4. ASSUME NEW j \in 1 .. nb, i = j + (nc + nl) PROVE IsInjective(x[i].deps)
    BY <1>2, <2>4, Zenon DEF Made, Node, Feeds
  <2>5. i \in 1 .. nc \/ (\E j \in 1 .. nl : i = j + nc) \/ (\E j \in 1 .. nb : i = j + (nc + nl))
    BY ONLY <2>1, nc \in Nat, nl \in Nat, nb \in Nat, Thirds
  <2> QED
    BY ONLY <2>2, <2>3, <2>4, <2>5, Zenon
<1> QED
  BY <1>1, <1>2 DEF RowsBy, RowsUnless

\* TargetsCovered of a graph, keys and a manifest.
Of(x, kind) == {i \in DOMAIN x : x[i].kind = kind}
Fed(x, i, kind) == {x[d].what : d \in {y \in ToSet(x[i].deps) : x[y].kind = kind}}

Covers(x, ks, mf, i, t) ==
  /\ x[i].what = t.name
  /\ Fed(x, i, "compile") = {ks[s] : s \in ToSet(t.sources)}
  /\ Fed(x, i, "archive") = ToSet(t.libs)
  /\ \A u \in ToSet(mf.targets) :
       (u = t \/ u.name \in ToSet(t.libs)) /\ ~t.lib /\ ToSet(u.sources) \cap Cxx # {}
         => x[i].driver = mf.cxx

CoveredBy(x, ks, mf) ==
  LET S == UNION {ToSet(t.sources) : t \in ToSet(mf.targets)} IN
  /\ {x[i].what : i \in Of(x, "compile")} = {ks[s] : s \in S}
  /\ Cardinality(Of(x, "compile")) = Cardinality({ks[s] : s \in S})
  /\ Cardinality(Of(x, "archive") \cup Of(x, "link")) = Len(mf.targets)
  /\ \A t \in ToSet(mf.targets) :
       \E i \in Of(x, IF t.lib THEN "archive" ELSE "link") : Covers(x, ks, mf, i, t)

\* A list without repetition is as long as it has entries.
LEMMA OnceLength ==
  ASSUME NEW A, NEW s \in Seq(A), IsInjective(s)
  PROVE  Len(s) = Cardinality(ToSet(s))
<1>1. PICK N \in Nat : N = Len(s) /\ DOMAIN s = 1 .. N
  OBVIOUS
<1>2. PICK R : R = ToSet(s)
  OBVIOUS
<1>3. s \in [1 .. N -> R]
  <2>1. s = [i \in 1 .. N |-> s[i]]
    BY <1>1
  <2>2. \A i \in 1 .. N : s[i] \in R
    BY <1>1, <1>2 DEF ToSet
  <2> QED
    BY <2>1, <2>2
<1>4. s \in Bijection(1 .. N, R)
  BY <1>1, <1>2, <1>3 DEF Bijection, Injection, Surjection, ToSet
<1>5. IsFiniteSet(1 .. N) /\ Cardinality(1 .. N) = N
  BY ONLY FS_Interval, N \in Nat
<1>6. Cardinality(R) = Cardinality(1 .. N)
  BY <1>4, <1>5, FS_Bijection DEF ExistsBijection
<1> QED
  BY <1>1, <1>2, <1>5, <1>6

\* Task i is fed by what target t is made of.
FedBy(x, i, t, ks) ==
  Fed(x, i, "compile") = {ks[s] : s \in ToSet(t.sources)} /\ Fed(x, i, "archive") = ToSet(t.libs)

\* What a task is fed by, from its place.
LEMMA NodeFed ==
  ASSUME NEW nc \in Nat, NEW nl \in Nat, NEW nb \in Nat, NEW x, NEW ks, NEW K, NEW L, NEW B,
         Made(x, ks, K, L, B, nc, nl, nb), NEW i \in DOMAIN x, NEW t, Feeds(x[i].deps, t, ks, K, L, nc, nl)
  PROVE  FedBy(x, i, t, ks)
<1>1. PICK d : d = ToSet(x[i].deps)
  OBVIOUS
<1>2. d \subseteq 1 .. nc + nl
  BY <1>1 DEF Feeds, ToSet
<1>3. ASSUME NEW y \in d
      PROVE  /\ y \in DOMAIN x /\ y \in Nat \ {0}
             /\ x[y].kind = "compile" <=> y <= nc
             /\ x[y].kind = "archive" <=> ~(y <= nc)
             /\ y <= nc => x[y].what = K[y]
             /\ ~(y <= nc) => x[y].what = L[y - nc].name
  <2>1. y \in 1 .. nc + nl /\ y \in DOMAIN x
    BY <1>2 DEF Made
  <2>2. Placed(x, K, y, nc, nl, nb)
    BY <2>1, AllPlaced, Zenon
  <2>3. ASSUME ~(y <= nc) PROVE x[y].what = L[y - nc].name
    <3>1. PICK j \in 1 .. nl : y = j + nc /\ j = y - nc
      BY ONLY <2>1, <2>3, nc \in Nat, nl \in Nat
    <3>2. Node(x[y], y, "archive", L[j], ks, K, L, nc, nl)
      BY <3>1, Zenon DEF Made
    <3> QED
      BY ONLY <3>1, <3>2, Zenon DEF Node
  <2> QED
    BY ONLY <2>1, <2>2, <2>3, nc \in Nat, nl \in Nat DEF Placed
<1>4. {y \in d : x[y].kind = "compile"} = d \cap 1 .. nc
  BY ONLY <1>3, nc \in Nat
<1>5. {y \in d : x[y].kind = "archive"} = d \ (1 .. nc)
  BY ONLY <1>3, nc \in Nat
<1>6. {x[y].what : y \in d \cap 1 .. nc} = {K[y] : y \in d \cap 1 .. nc}
  BY ONLY <1>3, nc \in Nat
<1>7. {x[y].what : y \in d \ (1 .. nc)} = {L[y - nc].name : y \in d \ (1 .. nc)}
  BY ONLY <1>3, nc \in Nat
<1>8. Fed(x, i, "compile") = {K[y] : y \in d \cap 1 .. nc}
  BY ONLY <1>1, <1>4, <1>6, Zenon DEF Fed
<1>9. Fed(x, i, "archive") = {L[y - nc].name : y \in d \ (1 .. nc)}
  BY ONLY <1>1, <1>5, <1>7, Zenon DEF Fed
<1> QED
  BY <1>1, <1>8, <1>9, Zenon DEF Feeds, FedBy

\* build() covers the targets of the file.
LEMMA MadeCovers ==
  ASSUME Parsed(m), Linked(m), NEW ks \in [Sources -> Text], NEW K, K = CompileKeys(ks),
         NEW L, L = Libs, NEW B, B = Bins,
         NEW nc \in Nat, nc = Len(K), NEW nl \in Nat, nl = Len(L), NEW nb \in Nat, nb = Len(B),
         NEW x, Made(x, ks, K, L, B, nc, nl, nb)
  PROVE  CoveredBy(x, ks, m)
<1>1. KeysRight(K, ks)
  BY CompileKeysRight
<1>2. Split(m.targets, L, B)
  BY TargetsSplit
<1>3. \A i \in DOMAIN x : Placed(x, K, i, nc, nl, nb)
  BY AllPlaced, Zenon
<1>4. DOMAIN x = 1 .. nc + nl + nb
  BY Zenon DEF Made
<1>5. Of(x, "compile") = 1 .. nc
  BY ONLY <1>3, <1>4, nc \in Nat, nl \in Nat, nb \in Nat DEF Of, Placed
<1>6. Of(x, "archive") = nc + 1 .. nc + nl
  BY ONLY <1>3, <1>4, nc \in Nat, nl \in Nat, nb \in Nat DEF Of, Placed
<1>7. Of(x, "link") = nc + nl + 1 .. nc + nl + nb
  BY ONLY <1>3, <1>4, nc \in Nat, nl \in Nat, nb \in Nat DEF Of, Placed
<1>8. K \in Seq(Text) /\ DOMAIN K = 1 .. nc /\ ToSet(K) = {ks[s] : s \in Sources} /\ IsInjective(K)
  BY <1>1 DEF KeysRight
<1>9. {x[i].what : i \in 1 .. nc} = {ks[s] : s \in Sources}
  <2>1. \A i \in 1 .. nc : x[i].what = K[i]
    BY ONLY <1>3, <1>4, nc \in Nat, nl \in Nat, nb \in Nat DEF Placed
  <2>2. {x[i].what : i \in 1 .. nc} = {K[i] : i \in 1 .. nc}
    BY ONLY <2>1
  <2> QED
    BY ONLY <1>8, <2>2, Zenon DEF ToSet
<1>10. Cardinality(1 .. nc) = Cardinality({ks[s] : s \in Sources})
  <2>1. Cardinality(1 .. nc) = nc
    BY ONLY FS_Interval, nc \in Nat
  <2>2. nc = Cardinality(ToSet(K))
    BY <1>8, OnceLength
  <2> QED
    BY ONLY <1>8, <2>1, <2>2, Zenon
<1>11. Cardinality(Of(x, "archive") \cup Of(x, "link")) = Len(m.targets)
  <2>1. Of(x, "archive") \cup Of(x, "link") = nc + 1 .. nc + nl + nb
    BY ONLY <1>6, <1>7, nc \in Nat, nl \in Nat, nb \in Nat
  <2>2. PICK a \in Int, b \in Int : a = nc + 1 /\ b = nc + nl + nb
    OBVIOUS
  <2>3. Cardinality(a .. b) = IF a > b THEN 0 ELSE b - a + 1
    BY ONLY FS_Interval, a \in Int, b \in Int
  <2>4. Cardinality(a .. b) = nl + nb
    BY ONLY <2>2, <2>3, nc \in Nat, nl \in Nat, nb \in Nat
  <2>5. nl + nb = Len(m.targets)
    BY <1>2 DEF Split
  <2> QED
    BY ONLY <2>1, <2>2, <2>4, <2>5
<1>12. ASSUME NEW t \in ToSet(m.targets), t.lib
       PROVE  \E i \in Of(x, "archive") : Covers(x, ks, m, i, t)
  <2>1. t \in ToSet(L)
    BY <1>2, <1>12, Zenon DEF Split
  <2>2. PICK j \in 1 .. nl : L[j] = t
    BY <1>2, <2>1 DEF Split, ToSet
  <2>3. PICK i : i = j + nc
    OBVIOUS
  <2>4. i \in Of(x, "archive") /\ i \in DOMAIN x
    BY ONLY <1>4, <1>6, <2>3, j \in 1 .. nl, nc \in Nat, nl \in Nat, nb \in Nat
  <2>5. Node(x[i], i, "archive", t, ks, K, L, nc, nl)
    BY <2>2, <2>3, Zenon DEF Made
  <2>6. Fed(x, i, "compile") = {ks[s] : s \in ToSet(t.sources)} /\ Fed(x, i, "archive") = ToSet(t.libs)
    <3>1. Feeds(x[i].deps, t, ks, K, L, nc, nl)
      BY ONLY <2>5, Zenon DEF Node
    <3>2. FedBy(x, i, t, ks)
      BY <2>4, <3>1, NodeFed, Zenon
    <3> QED
      BY ONLY <3>2, Zenon DEF FedBy
  <2>7. x[i].what = t.name
    BY <2>5 DEF Node
  <2>8. Covers(x, ks, m, i, t)
    BY ONLY <2>6, <2>7, <1>12, Zenon DEF Covers
  <2> QED
    BY ONLY <2>4, <2>8
<1>13. ASSUME NEW t \in ToSet(m.targets), ~t.lib
       PROVE  \E i \in Of(x, "link") : Covers(x, ks, m, i, t)
  <2>1. t \in ToSet(B)
    BY <1>2, <1>13, Zenon DEF Split
  <2>2. PICK j \in 1 .. nb : B[j] = t
    BY <1>2, <2>1 DEF Split, ToSet
  <2>3. PICK i : i = j + (nc + nl)
    OBVIOUS
  <2>4. i \in Of(x, "link") /\ i \in DOMAIN x
    BY ONLY <1>4, <1>7, <2>3, j \in 1 .. nb, nc \in Nat, nl \in Nat, nb \in Nat
  <2>5. Node(x[i], i, "link", t, ks, K, L, nc, nl) /\ x[i].driver = IF NeedsCxx(t) THEN m.cxx ELSE m.cc
    BY <2>2, <2>3, Zenon DEF Made
  <2>6. Fed(x, i, "compile") = {ks[s] : s \in ToSet(t.sources)} /\ Fed(x, i, "archive") = ToSet(t.libs)
    <3>1. Feeds(x[i].deps, t, ks, K, L, nc, nl)
      BY ONLY <2>5, Zenon DEF Node
    <3>2. FedBy(x, i, t, ks)
      BY <2>4, <3>1, NodeFed, Zenon
    <3> QED
      BY ONLY <3>2, Zenon DEF FedBy
  <2>7. x[i].what = t.name
    BY <2>5 DEF Node
  <2>8. ASSUME NEW u \in ToSet(m.targets), u = t \/ u.name \in ToSet(t.libs), ToSet(u.sources) \cap Cxx # {}
        PROVE  x[i].driver = m.cxx
    <3>1. CASE u = t
      BY <2>5, <2>8, <3>1 DEF NeedsCxx
    <3>2. CASE u.name \in ToSet(t.libs)
      <4>1. PICK v \in ToSet(m.targets) : v.lib /\ v.name = u.name
        BY <3>2, Zenon DEF Linked
      <4>2. v = u
        BY <4>1, Zenon DEF Parsed, ToSet
      <4>3. u \in ToSet(Libs)
        BY <1>2, <4>1, <4>2, Zenon DEF Split
      <4>4. NeedsCxx(t)
        BY <2>8, <3>2, <4>3, Zenon DEF NeedsCxx
      <4> QED
        BY <2>5, <4>4
    <3> QED
      BY <2>8, <3>1, <3>2
  <2>9. Covers(x, ks, m, i, t)
    BY ONLY <2>6, <2>7, <2>8, Zenon DEF Covers
  <2> QED
    BY ONLY <2>4, <2>9
<1>14. ASSUME NEW t \in ToSet(m.targets)
       PROVE  \E i \in Of(x, IF t.lib THEN "archive" ELSE "link") : Covers(x, ks, m, i, t)
  <2>1. CASE t.lib
    BY ONLY <1>12, <2>1, t \in ToSet(m.targets), Zenon
  <2>2. CASE ~t.lib
    BY ONLY <1>13, <2>2, t \in ToSet(m.targets), Zenon
  <2> QED
    BY ONLY <2>1, <2>2
<1>15. Sources = UNION {ToSet(t.sources) : t \in ToSet(m.targets)}
  BY Zenon DEF Sources
<1> QED
  BY ONLY <1>5, <1>9, <1>10, <1>11, <1>14, <1>15, Zenon DEF CoveredBy

\* What a graph is that dcc made of manifest mf.
BuiltRight(x, ks, mf) ==
  /\ IsGraph(x) /\ WellFormed(x) /\ ~Ring(x) /\ HashedBy(x)
  /\ RowsBy(x) \/ \E t \in ToSet(mf.targets) : ~IsInjective(t.libs)
  /\ CoveredBy(x, ks, mf)

\* The graph that build() makes of a parsed manifest is the right one.
LEMMA TasksRight ==
  ASSUME Parsed(m), Linked(m), NEW ks \in [Sources -> Text]
  PROVE  BuiltRight(Tasks(ks), ks, m)
<1>1. PICK K, L, B : K = CompileKeys(ks) /\ L = Libs /\ B = Bins
  OBVIOUS
<1>2. KeysRight(K, ks) /\ Split(m.targets, L, B)
  BY <1>1, CompileKeysRight, TargetsSplit
<1>3. PICK nc \in Nat, nl \in Nat, nb \in Nat : nc = Len(K) /\ nl = Len(L) /\ nb = Len(B)
  BY <1>2, LenProperties DEF KeysRight, Split
<1>4. PICK x : x = Tasks(ks) /\ Made(x, ks, K, L, B, nc, nl, nb)
  BY <1>1, <1>3, TasksMade
<1>5. IsGraph(x) /\ WellFormed(x) /\ ~Ring(x)
  BY <1>4, PlacedGraph, Zenon
<1>6. K \in Seq(Text)
  BY <1>2 DEF KeysRight
<1>7. HashedBy(x) /\ RowsUnless(x, L, B, nl, nb)
  BY <1>3, <1>4, <1>6, PlacedRows, Zenon
<1>8. ASSUME NEW j \in 1 .. nl PROVE L[j] \in ToSet(m.targets)
  <2>1. L[j] \in ToSet(L)
    BY <1>2, <1>3 DEF Split, ToSet
  <2> QED
    BY <1>2, <2>1, Zenon DEF Split
<1>9. ASSUME NEW j \in 1 .. nb PROVE B[j] \in ToSet(m.targets)
  <2>1. B[j] \in ToSet(B)
    BY <1>2, <1>3 DEF Split, ToSet
  <2> QED
    BY <1>2, <2>1, Zenon DEF Split
<1>10. CoveredBy(x, ks, m)
  BY <1>1, <1>3, <1>4, MadeCovers
<1> QED
  BY ONLY <1>4, <1>5, <1>7, <1>8, <1>9, <1>10, Zenon DEF BuiltRight, RowsUnless

-----------------------------------------------------------------------------
(* partition: the units *)

UnitSet(n) == [c : Nat, unit : [1 .. n -> Nat]]

\* The rounds of claim(kind).
ClaimRounds(F, x, n, r, kind) ==
  /\ F \in [0 .. n -> UnitSet(n)]
  /\ F[0] = r /\ \A k \in 1 .. n : F[k] = ClaimStep(x, F[k - 1], kind, k)
  /\ Claim(x, r, kind) = F[n]

\* A round leaves units behind.
LEMMA ClaimUnitType ==
  ASSUME NEW x, NEW n \in Nat, DOMAIN x = 1 .. n, NEW r \in UnitSet(n), NEW i \in 1 .. n
  PROVE  ClaimUnit(x, r, i) \in UnitSet(n)
<1>1. r.c + 1 \in Nat /\ r.unit \in [1 .. n -> Nat]
  BY DEF UnitSet
<1>2. PICK c \in Nat, u \in [1 .. n -> Nat] : c = r.c + 1 /\ u = r.unit
  BY <1>1
<1>3. PICK v : v = [j \in 1 .. n |-> IF j = i \/ (j \in ToSet(x[i].deps) /\ FreeObject(x, u, j)) THEN c ELSE u[j]]
  OBVIOUS
<1>4. v \in [1 .. n -> Nat]
  BY <1>2, <1>3
<1>5. ClaimUnit(x, r, i) = [c |-> c, unit |-> v]
  BY <1>2, <1>3 DEF ClaimUnit
<1> QED
  BY <1>4, <1>5 DEF UnitSet

\* claim(kind) as rounds, and what they pass on.
LEMMA ClaimRun ==
  ASSUME NEW x, NEW n, Sized(x, n), NEW r \in UnitSet(n), NEW kind
  PROVE  \E F : ClaimRounds(F, x, n, r, kind)
<1> DEFINE T == UnitSet(n)
           Def(F) == [k \in 0 .. n |-> IF k = 0 THEN r ELSE ClaimStep(x, F[k - 1], kind, k)]
           s == [k \in 1 .. n |-> [q \in T |-> ClaimStep(x, q, kind, k)]]
<1>n. n \in Nat /\ DOMAIN x = 1 .. n /\ n = Len(x)
  BY DEF Sized
<1>e. ASSUME NEW k \in 1 .. n, NEW q \in T PROVE ClaimStep(x, q, kind, k) \in T
  BY <1>n, ClaimUnitType DEF ClaimStep
<1> HIDE DEF T
<1>0. r \in T
  BY DEF T
<1>1. PICK F : Run(F, T, n, r, s)
  <2>1. s \in [1 .. n -> [T -> T]]
    BY <1>e
  <2> HIDE DEF s
  <2> QED
    BY <1>n, <1>0, <2>1, Recursion
<1>2. F \in [0 .. n -> T] /\ F[0] = r
  BY <1>1 DEF Run
<1>3. ASSUME NEW k \in 1 .. n PROVE F[k] = ClaimStep(x, F[k - 1], kind, k)
  <2>1. F[k] = s[k][F[k - 1]] /\ F[k - 1] \in T
    <3> HIDE DEF s
    <3> QED
      BY <1>n, <1>1 DEF Run
  <2> QED
    BY <2>1
<1>4. F = Def(F)
  BY <1>2, <1>3
<1>5. Claim(x, r, kind) = (CHOOSE G : G = Def(G))[n]
  BY <1>n, Zenon DEF Claim
<1>6. PICK G : G = Def(G) /\ Claim(x, r, kind) = G[n]
  BY <1>4, <1>5, Zenon
<1>7. G[0] = r /\ \A k \in 1 .. n : G[k] = ClaimStep(x, G[k - 1], kind, k)
  <2>1. 0 \in 0 .. n /\ \A k \in 1 .. n : k \in 0 .. n /\ k # 0
    BY <1>n
  <2> QED
    BY ONLY <1>6, <2>1, Zenon
<1>8. \A k \in 0 .. n : G[k] \in T
  <2>0. ASSUME NEW k \in 1 .. n, G[k - 1] \in T PROVE G[k] \in T
    <3>1. PICK q \in T : q = G[k - 1]
      BY <2>0
    <3>2. ClaimStep(x, q, kind, k) \in T
      BY ONLY <1>e, k \in 1 .. n, q \in T
    <3> QED
      BY ONLY <1>7, <3>1, <3>2, k \in 1 .. n
  <2>1. G[0] \in T /\ \A k \in 1 .. n : G[k - 1] \in T => G[k] \in T
    BY <1>0, <1>7, <2>0
  <2> QED
    BY <1>n, <2>1, Typed
<1>9. G \in [0 .. n -> T]
  BY <1>6, <1>8
<1> QED
  BY <1>6, <1>7, <1>9 DEF ClaimRounds, T

\* Task a has object d.
Holds(x, kind, a, d) == x[a].kind = kind /\ d \in ToSet(x[a].deps)

\* a is the first task of a kind that has d.
FirstHolder(x, kind, a, d) ==
  Holds(x, kind, a, d) /\ \A b \in DOMAIN x : b < a => ~Holds(x, kind, b, d)

\* Units are numbered without gaps, and a task has one number.
Numbered(n, r) ==
  /\ r \in UnitSet(n)
  /\ \A j \in 1 .. n : r.unit[j] <= r.c
  /\ \A u \in 1 .. r.c : \E j \in 1 .. n : r.unit[j] = u

\* What k rounds of claim(kind) make of r.
ClaimInv(x, n, r, kind, q, k) ==
  /\ Numbered(n, q)
  /\ \A j \in 1 .. n : r.unit[j] # 0 => q.unit[j] = r.unit[j]
  /\ \A j \in 1 .. n : x[j].kind = kind /\ j > k => q.unit[j] = 0
  /\ \A j \in 1 .. n : x[j].kind # kind /\ x[j].kind # "compile" => q.unit[j] = r.unit[j]
  /\ \A d \in 1 .. n : x[d].kind = "compile" /\ r.unit[d] = 0 =>
       /\ (\A a \in 1 .. n : a <= k => ~Holds(x, kind, a, d)) => q.unit[d] = 0
       /\ \A a \in 1 .. n : a <= k /\ FirstHolder(x, kind, a, d) => q.unit[d] # 0 /\ q.unit[d] = q.unit[a]

\* A round of claim(kind) keeps its invariant.
LEMMA ClaimKeeps ==
  ASSUME NEW x, NEW n \in Nat, DOMAIN x = 1 .. n, NEW r, NEW kind, kind # "compile",
         NEW q, NEW k \in 1 .. n, ClaimInv(x, n, r, kind, q, k - 1),
         NEW w, w = ClaimStep(x, q, kind, k)
  PROVE  ClaimInv(x, n, r, kind, w, k)
<1>q. q \in UnitSet(n) /\ q.c \in Nat /\ q.unit \in [1 .. n -> Nat]
  BY DEF ClaimInv, Numbered, UnitSet
<1>1. CASE x[k].kind # kind
  <2>1. w = q
    BY <1>1 DEF ClaimStep
  <2>2. \A d \in 1 .. n : ~Holds(x, kind, k, d) /\ ~FirstHolder(x, kind, k, d)
    BY <1>1 DEF Holds, FirstHolder
  <2>3. \A a \in 1 .. n : a <= k <=> (a <= k - 1 \/ a = k)
    OBVIOUS
  <2>4. \A j \in 1 .. n : x[j].kind = kind /\ j > k => q.unit[j] = 0
    BY DEF ClaimInv
  <2>5. ASSUME NEW d \in 1 .. n, x[d].kind = "compile", r.unit[d] = 0
        PROVE  /\ (\A a \in 1 .. n : a <= k => ~Holds(x, kind, a, d)) => q.unit[d] = 0
               /\ \A a \in 1 .. n : a <= k /\ FirstHolder(x, kind, a, d) => q.unit[d] # 0 /\ q.unit[d] = q.unit[a]
    BY <2>2, <2>3, <2>5, Zenon DEF ClaimInv
  <2> QED
    BY <2>1, <2>4, <2>5, Zenon DEF ClaimInv
<1>2. CASE x[k].kind = kind
  <2>1. q.unit[k] = 0
    <3>1. k > k - 1
      OBVIOUS
    <3> QED
      BY <1>2, <3>1 DEF ClaimInv
  <2>2. PICK c \in Nat, u \in [1 .. n -> Nat] : c = q.c /\ u = q.unit
    BY <1>q
  <2>3. PICK v : v = [j \in 1 .. n |-> IF j = k \/ (j \in ToSet(x[k].deps) /\ FreeObject(x, u, j)) THEN c + 1 ELSE u[j]]
    OBVIOUS
  <2>4. w = [c |-> c + 1, unit |-> v]
    BY <1>2, <2>1, <2>2, <2>3 DEF ClaimStep, ClaimUnit
  <2>5. w.c = c + 1 /\ w.unit = v /\ v \in [1 .. n -> Nat] /\ w \in UnitSet(n)
    BY <2>2, <2>3, <2>4 DEF UnitSet
  <2>6. v[k] = c + 1 /\ u[k] = 0
    BY <2>1, <2>2, <2>3
  <2>7. \A j \in 1 .. n : v[j] = u[j] \/ (u[j] = 0 /\ v[j] = c + 1)
    BY <2>3, <2>6 DEF FreeObject
  <2>8. \A j \in 1 .. n : x[j].kind # "compile" /\ j # k => v[j] = u[j]
    BY <2>3 DEF FreeObject
  <2>9. \A j \in 1 .. n : x[j].kind = "compile" /\ u[j] = 0 =>
          v[j] = IF j = k \/ Holds(x, kind, k, j) THEN c + 1 ELSE 0
    BY <1>2, <2>3 DEF FreeObject, Holds
  <2>10. Numbered(n, w)
    <3>1. \A j \in 1 .. n : u[j] <= c
      BY <2>2 DEF ClaimInv, Numbered
    <3>2. \A j \in 1 .. n : v[j] <= c + 1
      BY ONLY <2>2, <2>7, <3>1, c \in Nat
    <3>3. ASSUME NEW y \in 1 .. c + 1 PROVE \E j \in 1 .. n : v[j] = y
      <4>1. CASE y = c + 1
        BY <2>6, <4>1
      <4>2. CASE y # c + 1
        <5>1. y \in 1 .. c
          BY <4>2
        <5>2. PICK j \in 1 .. n : u[j] = y
          BY <2>2, <5>1 DEF ClaimInv, Numbered
        <5>3. v[j] = y
          BY <2>7, <5>1, <5>2
        <5> QED
          BY <5>3
      <4> QED
        BY <4>1, <4>2
    <3> QED
      BY <2>5, <3>2, <3>3 DEF Numbered
  <2>11. \A j \in 1 .. n : r.unit[j] # 0 => v[j] = r.unit[j]
    <3>1. \A j \in 1 .. n : r.unit[j] # 0 => u[j] = r.unit[j]
      BY <2>2 DEF ClaimInv
    <3> QED
      BY ONLY <2>7, <3>1
  <2>12. \A j \in 1 .. n : x[j].kind = kind /\ j > k => v[j] = 0
    <3>1. \A j \in 1 .. n : x[j].kind = kind /\ j > k - 1 => u[j] = 0
      BY <2>2 DEF ClaimInv
    <3> QED
      BY ONLY <2>8, <3>1, kind # "compile", n \in Nat, k \in 1 .. n
  <2>13. \A j \in 1 .. n : x[j].kind # kind /\ x[j].kind # "compile" => v[j] = r.unit[j]
    BY <1>2, <2>2, <2>8 DEF ClaimInv
  <2>14. ASSUME NEW d \in 1 .. n, x[d].kind = "compile", r.unit[d] = 0
         PROVE  /\ (\A a \in 1 .. n : a <= k => ~Holds(x, kind, a, d)) => v[d] = 0
                /\ \A a \in 1 .. n : a <= k /\ FirstHolder(x, kind, a, d) => v[d] # 0 /\ v[d] = v[a]
    <3>1. /\ (\A a \in 1 .. n : a <= k - 1 => ~Holds(x, kind, a, d)) => u[d] = 0
          /\ \A a \in 1 .. n : a <= k - 1 /\ FirstHolder(x, kind, a, d) => u[d] # 0 /\ u[d] = u[a]
      BY <2>2, <2>14, Zenon DEF ClaimInv
    <3>2. d # k
      BY <1>2, <2>14
    <3>3. ASSUME \A a \in 1 .. n : a <= k => ~Holds(x, kind, a, d) PROVE v[d] = 0
      <4>1. \A a \in 1 .. n : a <= k - 1 => ~Holds(x, kind, a, d)
        BY <3>3
      <4>2. u[d] = 0 /\ ~Holds(x, kind, k, d)
        BY <3>1, <3>3, <4>1
      <4> QED
        BY <2>9, <2>14, <3>2, <4>2
    <3>4. ASSUME NEW a \in 1 .. n, a <= k, FirstHolder(x, kind, a, d) PROVE v[d] # 0 /\ v[d] = v[a]
      <4>1. CASE a = k
        <5>1. \A b \in 1 .. n : b <= k - 1 => ~Holds(x, kind, b, d)
          BY <3>4, <4>1 DEF FirstHolder
        <5>2. u[d] = 0 /\ Holds(x, kind, k, d)
          BY <3>1, <3>4, <4>1, <5>1 DEF FirstHolder
        <5>3. v[d] = c + 1
          BY ONLY <2>9, <2>14, <5>2, d \in 1 .. n
        <5> QED
          BY ONLY <2>6, <4>1, <5>3, c \in Nat
      <4>2. CASE a # k
        <5>1. a <= k - 1
          BY <3>4, <4>2
        <5>2. u[d] # 0 /\ u[d] = u[a]
          BY ONLY <3>1, <3>4, <5>1, a \in 1 .. n
        <5> QED
          BY ONLY <2>7, <5>2, d \in 1 .. n, a \in 1 .. n
      <4> QED
        BY <4>1, <4>2
    <3> QED
      BY <3>3, <3>4
  <2> QED
    BY ONLY <2>5, <2>10, <2>11, <2>12, <2>13, <2>14, Zenon DEF ClaimInv
<1> QED
  BY <1>1, <1>2

\* claim(kind) as a whole.
LEMMA ClaimEnds ==
  ASSUME NEW x, NEW n, Sized(x, n), NEW r, Numbered(n, r), NEW kind, kind # "compile",
         \A j \in 1 .. n : x[j].kind = kind => r.unit[j] = 0
  PROVE  ClaimInv(x, n, r, kind, Claim(x, r, kind), n)
<1>n. n \in Nat /\ DOMAIN x = 1 .. n
  BY DEF Sized
<1>1. r \in UnitSet(n)
  BY DEF Numbered
<1>2. PICK F : ClaimRounds(F, x, n, r, kind)
  BY <1>1, ClaimRun
<1> DEFINE P == {k \in 0 .. n : ClaimInv(x, n, r, kind, F[k], k)}
<1>3. 0 \in P
  <2>1. F[0] = r
    BY <1>2 DEF ClaimRounds
  <2>2. \A a \in 1 .. n : ~(a <= 0)
    BY <1>n
  <2>3. ClaimInv(x, n, r, kind, r, 0)
    BY ONLY <2>2, Numbered(n, r), \A j \in 1 .. n : x[j].kind = kind => r.unit[j] = 0 DEF ClaimInv
  <2>4. 0 \in 0 .. n
    BY <1>n
  <2> QED
    BY <2>1, <2>3, <2>4
<1>4. ASSUME NEW k \in 1 .. n, k - 1 \in P PROVE k \in P
  <2>1. F[k] = ClaimStep(x, F[k - 1], kind, k)
    BY <1>2 DEF ClaimRounds
  <2>2. ClaimInv(x, n, r, kind, F[k - 1], k - 1)
    BY <1>4
  <2>3. ClaimInv(x, n, r, kind, F[k], k)
    BY <1>n, <2>1, <2>2, ClaimKeeps
  <2>4. k \in 0 .. n
    BY <1>n
  <2> QED
    BY <2>3, <2>4
<1> HIDE DEF P
<1>5. \A k \in 0 .. n : k \in P
  BY <1>n, <1>3, <1>4, Induct
<1>6. n \in P
  BY <1>n, <1>5
<1> QED
  BY <1>2, <1>6 DEF P, ClaimRounds

\* The rounds of the last loop.
RestRounds(F, x, n, r) ==
  /\ F \in [0 .. n -> UnitSet(n)]
  /\ F[0] = r /\ \A k \in 1 .. n : F[k] = RestStep(F[k - 1], k)
  /\ ClaimRest(x, r) = F[n]

\* The last loop of partition as rounds.
LEMMA RestRun ==
  ASSUME NEW x, NEW n, Sized(x, n), NEW r \in UnitSet(n)
  PROVE  \E F : RestRounds(F, x, n, r)
<1> DEFINE T == UnitSet(n)
           Def(F) == [k \in 0 .. n |-> IF k = 0 THEN r ELSE RestStep(F[k - 1], k)]
           s == [k \in 1 .. n |-> [q \in T |-> RestStep(q, k)]]
<1>n. n \in Nat /\ n = Len(x)
  BY DEF Sized
<1>e. ASSUME NEW k \in 1 .. n, NEW q \in T PROVE RestStep(q, k) \in T
  BY <1>n DEF RestStep, UnitSet
<1> HIDE DEF T
<1>0. r \in T
  BY DEF T
<1>1. PICK F : Run(F, T, n, r, s)
  <2>1. s \in [1 .. n -> [T -> T]]
    BY <1>e
  <2> HIDE DEF s
  <2> QED
    BY <1>n, <1>0, <2>1, Recursion
<1>2. F \in [0 .. n -> T] /\ F[0] = r
  BY <1>1 DEF Run
<1>3. ASSUME NEW k \in 1 .. n PROVE F[k] = RestStep(F[k - 1], k)
  <2>1. F[k] = s[k][F[k - 1]] /\ F[k - 1] \in T
    <3> HIDE DEF s
    <3> QED
      BY <1>n, <1>1 DEF Run
  <2> QED
    BY <2>1
<1>4. F = Def(F)
  BY <1>2, <1>3
<1>5. ClaimRest(x, r) = (CHOOSE G : G = Def(G))[n]
  BY <1>n, Zenon DEF ClaimRest
<1>6. PICK G : G = Def(G) /\ ClaimRest(x, r) = G[n]
  BY <1>4, <1>5, Zenon
<1>7. G[0] = r /\ \A k \in 1 .. n : G[k] = RestStep(G[k - 1], k)
  <2>1. 0 \in 0 .. n /\ \A k \in 1 .. n : k \in 0 .. n /\ k # 0
    BY <1>n
  <2> QED
    BY ONLY <1>6, <2>1, Zenon
<1>8. \A k \in 0 .. n : G[k] \in T
  <2>0. ASSUME NEW k \in 1 .. n, G[k - 1] \in T PROVE G[k] \in T
    <3>1. PICK q \in T : q = G[k - 1]
      BY <2>0
    <3>2. RestStep(q, k) \in T
      BY ONLY <1>e, k \in 1 .. n, q \in T
    <3> QED
      BY ONLY <1>7, <3>1, <3>2, k \in 1 .. n
  <2>1. G[0] \in T /\ \A k \in 1 .. n : G[k - 1] \in T => G[k] \in T
    BY <1>0, <1>7, <2>0
  <2> QED
    BY <1>n, <2>1, Typed
<1>9. G \in [0 .. n -> T]
  BY <1>6, <1>8
<1> QED
  BY <1>6, <1>7, <1>9 DEF RestRounds, T

\* What k rounds of the last loop make of r.
RestInv(n, r, q, k) ==
  /\ Numbered(n, q)
  /\ \A j \in 1 .. n : r.unit[j] # 0 => q.unit[j] = r.unit[j]
  /\ \A j \in 1 .. n : j <= k => q.unit[j] # 0

\* A round of the last loop gives a task without a unit one of its own.
LEMMA RestKeeps ==
  ASSUME NEW n \in Nat, NEW r, NEW q, NEW k \in 1 .. n, RestInv(n, r, q, k - 1), NEW w, w = RestStep(q, k)
  PROVE  RestInv(n, r, w, k)
<1>1. PICK c \in Nat, u \in [1 .. n -> Nat] : c = q.c /\ u = q.unit
  BY DEF RestInv, Numbered, UnitSet
<1>2. \A j \in 1 .. n : j <= k <=> (j <= k - 1 \/ j = k)
  OBVIOUS
<1>3. CASE u[k] # 0
  <2>1. w = q
    BY <1>1, <1>3 DEF RestStep
  <2> QED
    BY <1>1, <1>2, <1>3, <2>1 DEF RestInv
<1>4. CASE u[k] = 0
  <2>1. PICK v : v = [u EXCEPT ![k] = c + 1]
    OBVIOUS
  <2>2. w = [c |-> c + 1, unit |-> v]
    BY <1>1, <1>4, <2>1 DEF RestStep
  <2>3. w.c = c + 1 /\ w.unit = v /\ v \in [1 .. n -> Nat] /\ w \in UnitSet(n)
    BY <2>1, <2>2 DEF UnitSet
  <2>4. v[k] = c + 1 /\ \A j \in 1 .. n : j # k => v[j] = u[j]
    BY <2>1
  <2>5. Numbered(n, w)
    <3>1. \A j \in 1 .. n : u[j] <= c
      BY <1>1 DEF RestInv, Numbered
    <3>2. \A j \in 1 .. n : v[j] <= c + 1
      BY ONLY <2>4, <3>1, c \in Nat, u \in [1 .. n -> Nat]
    <3>3. ASSUME NEW y \in 1 .. c + 1 PROVE \E j \in 1 .. n : v[j] = y
      <4>1. CASE y = c + 1
        BY <2>4, <4>1
      <4>2. CASE y # c + 1
        <5>1. y \in 1 .. c
          BY <4>2
        <5>2. PICK j \in 1 .. n : u[j] = y
          BY <1>1, <5>1 DEF RestInv, Numbered
        <5>3. v[j] = y
          BY <1>4, <2>4, <5>1, <5>2
        <5> QED
          BY <5>3
      <4> QED
        BY <4>1, <4>2
    <3> QED
      BY <2>3, <3>2, <3>3 DEF Numbered
  <2>6. \A j \in 1 .. n : r.unit[j] # 0 => v[j] = r.unit[j]
    <3>1. \A j \in 1 .. n : r.unit[j] # 0 => u[j] = r.unit[j]
      BY <1>1 DEF RestInv
    <3> QED
      BY ONLY <1>4, <2>4, <3>1
  <2>7. \A j \in 1 .. n : j <= k => v[j] # 0
    <3>1. \A j \in 1 .. n : j <= k - 1 => u[j] # 0
      BY <1>1 DEF RestInv
    <3> QED
      BY ONLY <1>2, <2>4, <3>1, c \in Nat
  <2> QED
    BY ONLY <2>3, <2>5, <2>6, <2>7, Zenon DEF RestInv
<1> QED
  BY <1>3, <1>4

\* After the last loop every task has a unit.
LEMMA RestEnds ==
  ASSUME NEW x, NEW n, Sized(x, n), NEW r, Numbered(n, r)
  PROVE  RestInv(n, r, ClaimRest(x, r), n)
<1>n. n \in Nat
  BY DEF Sized
<1>1. r \in UnitSet(n)
  BY DEF Numbered
<1>2. PICK F : RestRounds(F, x, n, r)
  BY <1>1, RestRun
<1> DEFINE P == {k \in 0 .. n : RestInv(n, r, F[k], k)}
<1>3. 0 \in P
  <2>1. F[0] = r
    BY <1>2 DEF RestRounds
  <2>2. \A a \in 1 .. n : ~(a <= 0)
    BY <1>n
  <2>3. RestInv(n, r, r, 0)
    BY ONLY <2>2, Numbered(n, r) DEF RestInv
  <2>4. 0 \in 0 .. n
    BY <1>n
  <2> QED
    BY <2>1, <2>3, <2>4
<1>4. ASSUME NEW k \in 1 .. n, k - 1 \in P PROVE k \in P
  <2>1. F[k] = RestStep(F[k - 1], k)
    BY <1>2 DEF RestRounds
  <2>2. RestInv(n, r, F[k - 1], k - 1)
    BY <1>4
  <2>3. RestInv(n, r, F[k], k)
    BY <1>n, <2>1, <2>2, RestKeeps
  <2>4. k \in 0 .. n
    BY <1>n
  <2> QED
    BY <2>3, <2>4
<1> HIDE DEF P
<1>5. \A k \in 0 .. n : k \in P
  BY <1>n, <1>3, <1>4, Induct
<1>6. n \in P
  BY <1>n, <1>5
<1> QED
  BY <1>2, <1>6 DEF P, RestRounds

\* Every task has a unit, every unit a task, and an object is with its first
\* archive, or with its first binary if no archive has it.
UnitsRight(x, n, r) ==
  /\ Numbered(n, r)
  /\ \A j \in 1 .. n : r.unit[j] # 0
  /\ \A d \in 1 .. n : x[d].kind = "compile" =>
       /\ \A a \in 1 .. n : FirstHolder(x, "archive", a, d) => r.unit[d] = r.unit[a]
       /\ (\A a \in 1 .. n : ~Holds(x, "archive", a, d)) =>
            \A a \in 1 .. n : FirstHolder(x, "link", a, d) => r.unit[d] = r.unit[a]

\* The units of partition keep objects with what they go into.
LEMMA UnitsAreRight ==
  ASSUME NEW x, NEW n, Sized(x, n)
  PROVE  UnitsRight(x, n, Units(x))
<1>n. n \in Nat /\ DOMAIN x = 1 .. n
  BY DEF Sized
<1>1. PICK r0, r1, r2, r3 : /\ r0 = NoUnits(x) /\ r1 = Claim(x, r0, "archive")
                            /\ r2 = Claim(x, r1, "link") /\ r3 = ClaimRest(x, r2)
  OBVIOUS
<1>2. Units(x) = r3
  BY <1>1 DEF Units
<1>3. r0.c = 0 /\ r0.unit = [i \in 1 .. n |-> 0] /\ r0 \in UnitSet(n)
  BY <1>n, <1>1 DEF NoUnits, UnitSet
<1>4. Numbered(n, r0) /\ \A j \in 1 .. n : r0.unit[j] = 0
  BY <1>3 DEF Numbered
<1>5. ClaimInv(x, n, r0, "archive", r1, n)
  BY <1>1, <1>4, ClaimEnds
<1>6. Numbered(n, r1) /\ \A j \in 1 .. n : x[j].kind = "link" => r1.unit[j] = 0
  <2>1. \A j \in 1 .. n : x[j].kind # "archive" /\ x[j].kind # "compile" => r1.unit[j] = r0.unit[j]
    BY <1>5, Zenon DEF ClaimInv
  <2> QED
    BY <1>4, <1>5, <2>1 DEF ClaimInv
<1>7. ClaimInv(x, n, r1, "link", r2, n)
  BY <1>1, <1>6, ClaimEnds
<1>8. Numbered(n, r2)
  BY <1>7, Zenon DEF ClaimInv
<1>9. RestInv(n, r2, r3, n)
  BY <1>1, <1>8, RestEnds
<1>10. \A j \in 1 .. n : j <= n
  BY <1>n
<1>11. \A j \in 1 .. n : r3.unit[j] # 0
  BY <1>9, <1>10, Zenon DEF RestInv
<1>12. \A j \in 1 .. n : r1.unit[j] # 0 => r2.unit[j] = r1.unit[j]
  BY <1>7, Zenon DEF ClaimInv
<1>13. \A j \in 1 .. n : r2.unit[j] # 0 => r3.unit[j] = r2.unit[j]
  BY <1>9, Zenon DEF RestInv
<1>14. ASSUME NEW d \in 1 .. n, x[d].kind = "compile", NEW a \in 1 .. n, FirstHolder(x, "archive", a, d)
       PROVE  r3.unit[d] = r3.unit[a]
  <2>1. r1.unit[d] # 0 /\ r1.unit[d] = r1.unit[a]
    BY <1>4, <1>5, <1>10, <1>14, Zenon DEF ClaimInv
  <2> QED
    BY <1>12, <1>13, <2>1
<1>15. ASSUME NEW d \in 1 .. n, x[d].kind = "compile", \A a \in 1 .. n : ~Holds(x, "archive", a, d),
              NEW a \in 1 .. n, FirstHolder(x, "link", a, d)
       PROVE  r3.unit[d] = r3.unit[a]
  <2>1. r1.unit[d] = 0
    BY <1>4, <1>5, <1>15, Zenon DEF ClaimInv
  <2>2. r2.unit[d] # 0 /\ r2.unit[d] = r2.unit[a]
    BY <1>7, <1>10, <1>15, <2>1, Zenon DEF ClaimInv
  <2> QED
    BY <1>13, <2>2
<1>16. Numbered(n, r3)
  BY <1>9, Zenon DEF RestInv
<1> QED
  BY ONLY <1>2, <1>11, <1>14, <1>15, <1>16, Zenon DEF UnitsRight

-----------------------------------------------------------------------------
(* partition: dealing out the units *)

Preds(cost, u) == {v \in DOMAIN cost : Before(cost, v, u)}

\* stable_sort's order: the number of units before one is its place.
LEMMA PlaceOf ==
  ASSUME NEW c \in Nat, NEW cost \in [1 .. c -> Nat], NEW u \in 1 .. c
  PROVE  /\ Cardinality(Preds(cost, u)) \in 0 .. c - 1
         /\ \A v \in 1 .. c : Before(cost, u, v) => Cardinality(Preds(cost, u)) < Cardinality(Preds(cost, v))
<1>1. IsFiniteSet(1 .. c) /\ Cardinality(1 .. c) = c
  BY ONLY FS_Interval, c \in Nat
<1>2. \A v \in 1 .. c : Preds(cost, v) \in SUBSET (1 .. c)
  BY DEF Preds
<1>3. \A v \in 1 .. c : IsFiniteSet(Preds(cost, v)) /\ Cardinality(Preds(cost, v)) \in Nat
  BY <1>1, <1>2, FS_Subset, FS_CardinalityType
<1>4. \A v \in 1 .. c : v \notin Preds(cost, v)
  BY DEF Preds, Before
<1>5. Cardinality(Preds(cost, u)) < c
  <2>1. Preds(cost, u) # 1 .. c
    BY <1>4
  <2>2. Cardinality(Preds(cost, u)) <= Cardinality(1 .. c) /\ Cardinality(1 .. c) # Cardinality(Preds(cost, u))
    BY <1>1, <1>2, <2>1, FS_Subset
  <2> QED
    BY <1>1, <1>3, <2>2
<1>6. ASSUME NEW v \in 1 .. c, Before(cost, u, v) PROVE Cardinality(Preds(cost, u)) < Cardinality(Preds(cost, v))
  <2>1. \A w \in 1 .. c : Before(cost, w, u) => Before(cost, w, v)
    <3> SUFFICES ASSUME NEW w \in 1 .. c, Before(cost, w, u) PROVE Before(cost, w, v)
      OBVIOUS
    <3>1. cost[w] \in Nat /\ cost[u] \in Nat /\ cost[v] \in Nat
      OBVIOUS
    <3> QED
      BY <1>6, <3>1 DEF Before
  <2>2. Preds(cost, u) \in SUBSET Preds(cost, v)
    BY <2>1 DEF Preds
  <2>3. u \in Preds(cost, v) /\ u \notin Preds(cost, u)
    BY <1>4, <1>6 DEF Preds
  <2>4. Preds(cost, v) # Preds(cost, u)
    BY ONLY <2>3
  <2>5. /\ Cardinality(Preds(cost, u)) <= Cardinality(Preds(cost, v))
        /\ Cardinality(Preds(cost, v)) # Cardinality(Preds(cost, u))
    BY <1>3, <2>2, <2>4, FS_Subset
  <2> QED
    BY <1>3, <2>5
<1> QED
  BY <1>3, <1>5, <1>6

\* o has every unit, the costly ones first.
FallingCost(o, c, cost) ==
  /\ o \in [1 .. c -> 1 .. c]
  /\ \A u \in 1 .. c : \E k \in 1 .. c : o[k] = u
  /\ \A i, j \in 1 .. c : o[i] = o[j] => i = j
  /\ \A i, j \in 1 .. c : i < j => cost[o[j]] <= cost[o[i]]

\* stable_sort: every unit once, none before a costlier one.
LEMMA ByCostFalls ==
  ASSUME NEW c \in Nat, NEW cost \in [1 .. c -> Nat]
  PROVE  FallingCost(ByCost(cost), c, cost)
<1>1. PICK pl : pl = [u \in 1 .. c |-> Cardinality(Preds(cost, u)) + 1]
  OBVIOUS
<1>2. ASSUME NEW u \in 1 .. c PROVE pl[u] = Cardinality(Preds(cost, u)) + 1 /\ pl[u] \in 1 .. c
  <2>1. Cardinality(Preds(cost, u)) \in 0 .. c - 1
    BY PlaceOf
  <2> QED
    BY <1>1, <2>1
<1>3. ASSUME NEW u \in 1 .. c, NEW v \in 1 .. c, Before(cost, u, v) PROVE pl[u] < pl[v]
  <2>1. /\ Cardinality(Preds(cost, u)) \in 0 .. c - 1 /\ Cardinality(Preds(cost, v)) \in 0 .. c - 1
        /\ Cardinality(Preds(cost, u)) < Cardinality(Preds(cost, v))
    BY <1>3, PlaceOf
  <2> QED
    BY <1>2, <2>1
<1>4. ASSUME NEW u \in 1 .. c, NEW v \in 1 .. c, u # v PROVE pl[u] # pl[v]
  <2>1. Before(cost, u, v) \/ Before(cost, v, u)
    <3>1. cost[u] \in Nat /\ cost[v] \in Nat
      OBVIOUS
    <3> QED
      BY <1>4, <3>1 DEF Before
  <2>2. pl[u] \in Nat /\ pl[v] \in Nat
    BY <1>2
  <2> QED
    BY <1>3, <2>1, <2>2
<1>5. pl \in Seq(1 .. c) /\ Len(pl) = c /\ DOMAIN pl = 1 .. c
  <2>1. pl = [u \in 1 .. c |-> pl[u]] /\ DOMAIN pl = 1 .. c
    BY <1>1
  <2>2. pl \in Seq(1 .. c)
    BY ONLY <1>2, <2>1, c \in Nat, IsASeq
  <2> QED
    BY ONLY <2>1, <2>2, c \in Nat, LenProperties
<1>6. IsInjective(pl)
  BY <1>4, <1>5 DEF IsInjective
<1>7. 1 .. c \subseteq ToSet(pl)
  BY <1>5, <1>6, Permutation
<1>8. PICK o : o = ByCost(cost)
  OBVIOUS
<1>9. DOMAIN o = 1 .. c /\ o = [k \in 1 .. c |-> o[k]]
  <2>1. DOMAIN cost = 1 .. c
    OBVIOUS
  <2>2. o = [k \in 1 .. c |-> CHOOSE u \in DOMAIN cost :
               Cardinality({v \in DOMAIN cost : Before(cost, v, u)}) = k - 1]
    BY ONLY <1>8, <2>1, Zenon DEF ByCost
  <2> DEFINE e(k) == CHOOSE u \in DOMAIN cost :
               Cardinality({v \in DOMAIN cost : Before(cost, v, u)}) = k - 1
  <2>3. o = [k \in 1 .. c |-> e(k)]
    BY ONLY <2>2
  <2> HIDE DEF e
  <2> QED
    BY ONLY <2>3
<1>10. ASSUME NEW k \in 1 .. c PROVE o[k] \in 1 .. c /\ pl[o[k]] = k
  <2>1. o[k] = CHOOSE u \in 1 .. c : Cardinality(Preds(cost, u)) = k - 1
    BY <1>8 DEF ByCost, Preds
  <2>2. PICK u \in 1 .. c : pl[u] = k
    BY <1>5, <1>7 DEF ToSet
  <2>3. Cardinality(Preds(cost, u)) = k - 1
    <3>1. Cardinality(Preds(cost, u)) \in 0 .. c - 1
      BY PlaceOf
    <3> QED
      BY <1>2, <2>2, <3>1
  <2>4. o[k] \in 1 .. c /\ Cardinality(Preds(cost, o[k])) = k - 1
    BY <2>1, <2>3
  <2>5. pl[o[k]] = (k - 1) + 1
    BY <1>2, <2>4
  <2> QED
    BY <2>4, <2>5
<1>11. o \in [1 .. c -> 1 .. c]
  BY ONLY <1>9, <1>10
<1>12. ASSUME NEW u \in 1 .. c PROVE \E k \in 1 .. c : o[k] = u
  <2>1. pl[u] \in 1 .. c /\ pl[o[pl[u]]] = pl[u] /\ o[pl[u]] \in 1 .. c
    BY <1>2, <1>10
  <2>2. o[pl[u]] = u
    BY <1>4, <2>1
  <2> QED
    BY <2>1, <2>2
<1>13. ASSUME NEW i \in 1 .. c, NEW j \in 1 .. c, o[i] = o[j] PROVE i = j
  <2>1. pl[o[i]] = i /\ pl[o[j]] = j
    BY ONLY <1>10, i \in 1 .. c, j \in 1 .. c
  <2> QED
    BY ONLY <1>13, <2>1
<1>14. ASSUME NEW i \in 1 .. c, NEW j \in 1 .. c, i < j PROVE cost[o[j]] <= cost[o[i]]
  <2>1. PICK u \in 1 .. c, v \in 1 .. c : u = o[i] /\ v = o[j] /\ pl[u] = i /\ pl[v] = j
    BY <1>10
  <2>2. ~Before(cost, v, u)
    <3> SUFFICES ASSUME Before(cost, v, u) PROVE FALSE
      OBVIOUS
    <3>1. pl[v] < pl[u]
      BY <1>3
    <3> QED
      BY <1>14, <2>1, <3>1
  <2>3. cost[u] \in Nat /\ cost[v] \in Nat
    OBVIOUS
  <2> QED
    BY <2>1, <2>2, <2>3 DEF Before
<1> QED
  BY ONLY <1>8, <1>11, <1>12, <1>13, <1>14, Zenon DEF FallingCost

\* min_element finds a lightest partition.
LEMMA LightestIs ==
  ASSUME NEW P \in Nat \ {0}, NEW load \in [0 .. P - 1 -> Nat]
  PROVE  Lightest(load) \in 0 .. P - 1 /\ \A q \in 0 .. P - 1 : load[Lightest(load)] <= load[q]
<1> DEFINE S == {load[p] : p \in 0 .. P - 1}
<1>1. PICK y \in S : \A z \in S : y <= z
  <2>1. S \in SUBSET Nat /\ load[0] \in S
    OBVIOUS
  <2> HIDE DEF S
  <2> QED
    BY <2>1, Smallest
<1> DEFINE R == {p \in 0 .. P - 1 : load[p] = y}
<1>2. PICK p \in R : \A q \in R : p <= q
  <2>1. R \in SUBSET Nat /\ R # {}
    BY <1>1
  <2> HIDE DEF R
  <2> QED
    BY <2>1, Smallest
<1>3. ASSUME NEW q \in 0 .. P - 1 PROVE load[p] < load[q] \/ (load[p] = load[q] /\ p <= q)
  <2>1. load[q] \in Nat /\ y \in Nat /\ y <= load[q] /\ load[p] = y
    BY <1>1, <1>2
  <2>2. CASE load[q] = y
    BY <1>2, <2>1, <2>2
  <2>3. CASE load[q] # y
    BY <2>1, <2>3
  <2> QED
    BY <2>2, <2>3
<1>4. p \in DOMAIN load /\ \A q \in DOMAIN load : load[p] < load[q] \/ (load[p] = load[q] /\ p <= q)
  BY <1>2, <1>3
<1>5. PICK w : w = Lightest(load)
  OBVIOUS
<1>6. w \in DOMAIN load /\ \A q \in DOMAIN load : load[w] < load[q] \/ (load[w] = load[q] /\ w <= q)
  BY ONLY <1>4, <1>5, Zenon DEF Lightest
<1>7. \A q \in 0 .. P - 1 : load[w] <= load[q]
  BY <1>6
<1> QED
  BY <1>5, <1>6, <1>7
DealSet(c, P) == [load : [0 .. P - 1 -> Nat], part : [1 .. c -> 0 .. P - 1]]

\* The rounds of the last loop of partition.
DealRounds(F, c, cost, P, o) ==
  /\ F \in [0 .. c -> DealSet(c, P)]
  /\ F[0] = NoLoads(cost, P) /\ \A k \in 1 .. c : F[k] = Assign(cost, F[k - 1], o[k])
  /\ Deal(cost, P) = F[c].part

\* r is q with unit u in a lightest partition.
Assigned(r, q, cost, u, P) ==
  \E p \in 0 .. P - 1 :
    /\ \A z \in 0 .. P - 1 : q.load[p] <= q.load[z]
    /\ r.load = [q.load EXCEPT ![p] = @ + cost[u]]
    /\ r.part = [q.part EXCEPT ![u] = p]

\* A round.
LEMMA AssignIs ==
  ASSUME NEW c \in Nat, NEW cost \in [1 .. c -> Nat], NEW P \in Nat \ {0}, NEW q \in DealSet(c, P), NEW u \in 1 .. c
  PROVE  /\ Assign(cost, q, u) \in DealSet(c, P)
         /\ Assigned(Assign(cost, q, u), q, cost, u, P)
<1>1. PICK l \in [0 .. P - 1 -> Nat], b \in [1 .. c -> 0 .. P - 1] : l = q.load /\ b = q.part
  BY DEF DealSet
<1>2. PICK p \in 0 .. P - 1 : p = Lightest(l) /\ \A z \in 0 .. P - 1 : l[p] <= l[z]
  BY <1>1, LightestIs
<1>3. Assign(cost, q, u) = [load |-> [l EXCEPT ![p] = @ + cost[u]], part |-> [b EXCEPT ![u] = p]]
  BY <1>1, <1>2 DEF Assign
<1>4. PICK l2, b2 : l2 = [l EXCEPT ![p] = @ + cost[u]] /\ b2 = [b EXCEPT ![u] = p]
  OBVIOUS
<1>5. l2 \in [0 .. P - 1 -> Nat] /\ b2 \in [1 .. c -> 0 .. P - 1]
  <2>1. PICK y \in Nat : y = l[p] + cost[u]
    OBVIOUS
  <2>2. l2 = [l EXCEPT ![p] = y]
    BY ONLY <1>4, <2>1
  <2>3. l2 \in [0 .. P - 1 -> Nat]
    BY ONLY <2>2, y \in Nat, l \in [0 .. P - 1 -> Nat]
  <2>4. b2 \in [1 .. c -> 0 .. P - 1]
    BY ONLY <1>4, p \in 0 .. P - 1, b \in [1 .. c -> 0 .. P - 1]
  <2> QED
    BY ONLY <2>3, <2>4
<1>6. Assign(cost, q, u) = [load |-> l2, part |-> b2]
  BY ONLY <1>3, <1>4, Zenon
<1>7. Assign(cost, q, u) \in DealSet(c, P)
  <2>1. PICK Y, Z : Y = [0 .. P - 1 -> Nat] /\ Z = [1 .. c -> 0 .. P - 1]
    OBVIOUS
  <2>2. [load |-> l2, part |-> b2] \in [load : Y, part : Z]
    BY ONLY <1>5, <2>1
  <2> QED
    BY ONLY <1>6, <2>1, <2>2, Zenon DEF DealSet
<1>8. Assign(cost, q, u).load = l2 /\ Assign(cost, q, u).part = b2
  BY ONLY <1>6
<1> QED
  BY ONLY <1>1, <1>2, <1>4, <1>7, <1>8, Zenon DEF Assigned

\* Dealing out the units as rounds.
LEMMA DealRun ==
  ASSUME NEW c \in Nat, NEW cost \in [1 .. c -> Nat], NEW P \in Nat \ {0},
         NEW o \in [1 .. c -> 1 .. c], o = ByCost(cost)
  PROVE  \E F : DealRounds(F, c, cost, P, o)
<1> DEFINE T == DealSet(c, P)
           b == NoLoads(cost, P)
           Def(F) == [k \in 0 .. c |-> IF k = 0 THEN b ELSE Assign(cost, F[k - 1], o[k])]
           s == [k \in 1 .. c |-> [q \in T |-> Assign(cost, q, o[k])]]
<1>n. DOMAIN cost = 1 .. c /\ Len(cost) = c
  BY LenProperties
<1>e. ASSUME NEW k \in 1 .. c, NEW q \in T PROVE Assign(cost, q, o[k]) \in T
  <2>1. o[k] \in 1 .. c
    OBVIOUS
  <2> QED
    BY <2>1, AssignIs
<1>0. b \in T
  BY DEF NoLoads, DealSet
<1> HIDE DEF T, b
<1>1. PICK F : Run(F, T, c, b, s)
  <2>1. s \in [1 .. c -> [T -> T]]
    BY <1>e
  <2> HIDE DEF s
  <2> QED
    BY <1>0, <2>1, Recursion
<1>2. F \in [0 .. c -> T] /\ F[0] = b
  BY <1>1 DEF Run
<1>3. ASSUME NEW k \in 1 .. c PROVE F[k] = Assign(cost, F[k - 1], o[k])
  <2>1. F[k] = s[k][F[k - 1]] /\ F[k - 1] \in T
    <3> HIDE DEF s
    <3> QED
      BY <1>1 DEF Run
  <2> QED
    BY <2>1
<1>4. F = Def(F)
  BY <1>2, <1>3
<1>5. Deal(cost, P) = (CHOOSE G : G = Def(G))[c].part
  BY <1>n, Zenon DEF Deal, b
<1>6. PICK G : G = Def(G) /\ Deal(cost, P) = G[c].part
  BY <1>4, <1>5, Zenon
<1>7. G[0] = b /\ \A k \in 1 .. c : G[k] = Assign(cost, G[k - 1], o[k])
  <2>1. 0 \in 0 .. c /\ \A k \in 1 .. c : k \in 0 .. c /\ k # 0
    OBVIOUS
  <2> QED
    BY ONLY <1>6, <2>1, Zenon
<1>8. \A k \in 0 .. c : G[k] \in T
  <2>0. ASSUME NEW k \in 1 .. c, G[k - 1] \in T PROVE G[k] \in T
    <3>1. PICK q \in T : q = G[k - 1]
      BY <2>0
    <3>2. Assign(cost, q, o[k]) \in T
      BY ONLY <1>e, k \in 1 .. c, q \in T
    <3> QED
      BY ONLY <1>7, <3>1, <3>2, k \in 1 .. c
  <2>1. G[0] \in T /\ \A k \in 1 .. c : G[k - 1] \in T => G[k] \in T
    BY <1>0, <1>7, <2>0
  <2> QED
    BY <2>1, Typed
<1>9. G \in [0 .. c -> T]
  BY <1>6, <1>8
<1> QED
  BY <1>6, <1>7, <1>9 DEF DealRounds, T, b

\* The units dealt in k rounds, and the tasks that partition p then has.
Dealt(o, k) == {o[j] : j \in 1 .. k}
Share(n, unit, part, D, p) == {i \in 1 .. n : unit[i] \in D /\ part[unit[i]] = p}

\* Each load is the sum of its tasks, and without a unit that is no larger than v
\* no partition that has unit v is heavier than another.
DealInv(n, h, unit, c, cost, P, o, q, k) ==
  /\ q \in DealSet(c, P)
  /\ \A p \in 0 .. P - 1 : q.load[p] = SumOver(n, h, Share(n, unit, q.part, Dealt(o, k), p))
  /\ \A v \in Dealt(o, k) : \E u \in Dealt(o, k) :
       /\ q.part[u] = q.part[v] /\ cost[u] <= cost[v]
       /\ \A z \in 0 .. P - 1 : q.load[q.part[v]] - cost[u] <= q.load[z]

\* A round puts the next unit on the lightest partition, which keeps the loads even.
LEMMA DealKeeps ==
  ASSUME NEW n \in Nat, NEW h \in [1 .. n -> Nat], NEW c \in Nat, NEW unit \in [1 .. n -> 1 .. c],
         NEW cost \in [1 .. c -> Nat], \A u \in 1 .. c : cost[u] = SumOver(n, h, {i \in 1 .. n : unit[i] = u}),
         NEW P \in Nat \ {0}, NEW o, FallingCost(o, c, cost),
         NEW q, NEW k \in 1 .. c, DealInv(n, h, unit, c, cost, P, o, q, k - 1),
         NEW r, r = Assign(cost, q, o[k])
  PROVE  DealInv(n, h, unit, c, cost, P, o, r, k)
<1>1. PICK w \in 1 .. c : w = o[k]
  BY DEF FallingCost
<1>2. PICK D, E : D = Dealt(o, k - 1) /\ E = Dealt(o, k)
  OBVIOUS
<1>3. E = D \cup {w}
  <2>1. \A j \in 1 .. k : j \in 1 .. k - 1 \/ j = k
    OBVIOUS
  <2>2. 1 .. k - 1 \subseteq 1 .. k /\ k \in 1 .. k
    OBVIOUS
  <2> QED
    BY ONLY <1>1, <1>2, <2>1, <2>2 DEF Dealt
<1>4. ASSUME NEW v \in D PROVE v \in 1 .. c /\ v # w /\ cost[w] <= cost[v]
  <2>1. PICK j \in 1 .. k - 1 : v = o[j]
    BY <1>2 DEF Dealt
  <2>2. j \in 1 .. c /\ j < k
    OBVIOUS
  <2> QED
    BY <1>1, <2>1, <2>2 DEF FallingCost
<1>5. PICK l \in [0 .. P - 1 -> Nat], b \in [1 .. c -> 0 .. P - 1] : l = q.load /\ b = q.part
  BY DEF DealInv, DealSet
<1>6. r \in DealSet(c, P) /\ Assigned(r, q, cost, w, P)
  <2>1. q \in DealSet(c, P)
    BY Zenon DEF DealInv
  <2> QED
    BY <1>1, <2>1, AssignIs, Zenon
<1>7. PICK p0 \in 0 .. P - 1 :
        /\ \A z \in 0 .. P - 1 : l[p0] <= l[z]
        /\ r.load = [l EXCEPT ![p0] = @ + cost[w]]
        /\ r.part = [b EXCEPT ![w] = p0]
  BY ONLY <1>5, <1>6, Zenon DEF Assigned
<1>8. PICK l2 \in [0 .. P - 1 -> Nat], b2 \in [1 .. c -> 0 .. P - 1] : l2 = r.load /\ b2 = r.part
  BY ONLY <1>6 DEF DealSet
<1>9. l2[p0] = l[p0] + cost[w] /\ \A z \in 0 .. P - 1 : z # p0 => l2[z] = l[z]
  BY ONLY <1>7, <1>8, l \in [0 .. P - 1 -> Nat], p0 \in 0 .. P - 1
<1>10. b2[w] = p0 /\ \A v \in 1 .. c : v # w => b2[v] = b[v]
  BY ONLY <1>7, <1>8, b \in [1 .. c -> 0 .. P - 1], w \in 1 .. c
<1>11. cost[w] \in Nat /\ l[p0] \in Nat
  OBVIOUS
<1>12. ASSUME NEW z \in 0 .. P - 1 PROVE l[z] \in Nat /\ l2[z] \in Nat /\ l[z] <= l2[z]
  <2>1. l[z] \in Nat /\ l2[z] \in Nat
    OBVIOUS
  <2>2. CASE z = p0
    BY ONLY <1>9, <1>11, <2>1, <2>2
  <2>3. CASE z # p0
    BY ONLY <1>9, <2>1, <2>3, z \in 0 .. P - 1
  <2> QED
    BY <2>2, <2>3
<1>13. ASSUME NEW p \in 0 .. P - 1 PROVE l2[p] = SumOver(n, h, Share(n, unit, b2, E, p))
  <2>1. l[p] = SumOver(n, h, Share(n, unit, b, D, p))
    BY <1>2, <1>5, Zenon DEF DealInv
  <2>2. \A i \in 1 .. n : unit[i] \in 1 .. c
    OBVIOUS
  <2>3. CASE p # p0
    <3>1. Share(n, unit, b2, E, p) = Share(n, unit, b, D, p)
      BY ONLY <1>3, <1>4, <1>10, <2>2, <2>3 DEF Share
    <3> QED
      BY ONLY <1>9, <2>1, <2>3, <3>1, p \in 0 .. P - 1
  <2>4. CASE p = p0
    <3>1. PICK A, B : A = Share(n, unit, b, D, p) /\ B = {i \in 1 .. n : unit[i] = w}
      OBVIOUS
    <3>2. PICK U : U = Share(n, unit, b2, E, p)
      OBVIOUS
    <3>3. U = A \cup B
      BY ONLY <1>3, <1>4, <1>10, <2>2, <2>4, <3>1, <3>2 DEF Share
    <3>4. \A i \in A : i \notin B
      BY ONLY <1>4, <3>1 DEF Share
    <3>5. SumOver(n, h, U) = SumOver(n, h, A) + SumOver(n, h, B)
      <4>1. Parted(U, A, B)
        BY ONLY <3>3, <3>4 DEF Parted
      <4>2. Adds(n, h, U, A, B)
        BY <4>1, SumUnion
      <4> QED
        BY ONLY <4>2, Zenon DEF Adds
    <3>6. SumOver(n, h, B) = cost[w]
      BY <3>1
    <3> QED
      BY ONLY <1>9, <2>1, <2>4, <3>1, <3>2, <3>5, <3>6
  <2> QED
    BY <2>3, <2>4
<1>14. ASSUME NEW v \in E
       PROVE  \E u \in E : /\ b2[u] = b2[v] /\ cost[u] <= cost[v]
                           /\ \A z \in 0 .. P - 1 : l2[b2[v]] - cost[u] <= l2[z]
  <2>0. v \in 1 .. c /\ cost[v] \in Nat
    BY <1>3, <1>4
  <2>1. CASE b2[v] = p0
    <3>1. w \in E /\ b2[w] = b2[v]
      BY ONLY <1>3, <1>10, <2>1
    <3>2. cost[w] <= cost[v]
      <4>1. CASE v = w
        BY ONLY <2>0, <4>1
      <4>2. CASE v \in D
        BY ONLY <1>4, <4>2, Zenon
      <4> QED
        BY ONLY <1>3, <4>1, <4>2, v \in E, Zenon
    <3>3. l2[b2[v]] - cost[w] = l[p0]
      BY ONLY <1>9, <1>11, <2>1
    <3>4. ASSUME NEW z \in 0 .. P - 1 PROVE l[p0] <= l2[z]
      <4>1. l[z] \in Nat /\ l2[z] \in Nat /\ l[z] <= l2[z] /\ l[p0] <= l[z]
        BY ONLY <1>7, <1>12, z \in 0 .. P - 1
      <4> QED
        BY ONLY <1>11, <4>1
    <3> QED
      BY ONLY <3>1, <3>2, <3>3, <3>4
  <2>2. CASE b2[v] # p0
    <3>1. v \in D /\ b2[v] = b[v]
      BY ONLY <1>3, <1>4, <1>10, <2>0, <2>2, v \in E
    <3>2. PICK u \in D : /\ b[u] = b[v] /\ cost[u] <= cost[v]
                         /\ \A z \in 0 .. P - 1 : l[b[v]] - cost[u] <= l[z]
      BY <1>2, <1>5, <3>1, Zenon DEF DealInv
    <3>3. u \in 1 .. c /\ u # w /\ b2[u] = b[u] /\ cost[u] \in Nat /\ b[v] \in 0 .. P - 1
      <4>1. u \in 1 .. c /\ u # w
        BY ONLY <1>4, u \in D
      <4>2. b2[u] = b[u]
        BY ONLY <1>10, <4>1
      <4> QED
        BY <2>0, <4>1, <4>2
    <3>4. l2[b2[v]] = l[b[v]]
      BY ONLY <1>9, <2>2, <3>1, <3>3
    <3>5. ASSUME NEW z \in 0 .. P - 1 PROVE l2[b2[v]] - cost[u] <= l2[z]
      <4>1. l[z] \in Nat /\ l2[z] \in Nat /\ l[z] <= l2[z] /\ l[b[v]] - cost[u] <= l[z] /\ l[b[v]] \in Nat
        BY ONLY <1>12, <3>2, <3>3, z \in 0 .. P - 1
      <4>2. PICK e \in Nat, y \in Nat, f \in Nat, d \in Nat : e = l[z] /\ y = l2[z] /\ f = l[b[v]] /\ d = cost[u]
        BY ONLY <3>3, <4>1
      <4>3. f - d <= e /\ e <= y
        BY ONLY <4>1, <4>2, Zenon
      <4>4. f - d <= y
        BY ONLY <4>3, e \in Nat, y \in Nat, f \in Nat, d \in Nat
      <4> QED
        BY ONLY <3>4, <4>2, <4>4, Zenon
    <3>6. u \in E /\ b2[u] = b2[v]
      BY ONLY <1>3, <3>1, <3>2, <3>3, u \in D
    <3> QED
      BY ONLY <3>2, <3>5, <3>6
  <2> QED
    BY <2>1, <2>2
<1> QED
  BY ONLY <1>2, <1>6, <1>8, <1>13, <1>14, Zenon DEF DealInv

\* The loads are even when all units are dealt out.
LEMMA DealEnds ==
  ASSUME NEW n \in Nat, NEW h \in [1 .. n -> Nat], NEW c \in Nat, NEW unit \in [1 .. n -> 1 .. c],
         NEW cost \in [1 .. c -> Nat], \A u \in 1 .. c : cost[u] = SumOver(n, h, {i \in 1 .. n : unit[i] = u}),
         NEW P \in Nat \ {0}
  PROVE  \E o, q : /\ FallingCost(o, c, cost) /\ Deal(cost, P) = q.part
                   /\ DealInv(n, h, unit, c, cost, P, o, q, c)
<1>1. PICK o : o = ByCost(cost) /\ FallingCost(o, c, cost)
  BY ByCostFalls
<1>2. o \in [1 .. c -> 1 .. c]
  BY <1>1 DEF FallingCost
<1>3. PICK F : DealRounds(F, c, cost, P, o)
  BY <1>1, <1>2, DealRun
<1> DEFINE S == {k \in 0 .. c : DealInv(n, h, unit, c, cost, P, o, F[k], k)}
<1>4. 0 \in S
  <2>1. PICK q : q = F[0] /\ q = NoLoads(cost, P) /\ q \in DealSet(c, P)
    <3>1. 0 \in 0 .. c
      OBVIOUS
    <3> QED
      BY <1>3, <3>1 DEF DealRounds
  <2>2. Dealt(o, 0) = {}
    BY DEF Dealt
  <2>3. ASSUME NEW p \in 0 .. P - 1 PROVE q.load[p] = SumOver(n, h, Share(n, unit, q.part, Dealt(o, 0), p))
    <3>1. PICK A : A = Share(n, unit, q.part, Dealt(o, 0), p)
      OBVIOUS
    <3>2. A = {}
      BY ONLY <2>2, <3>1 DEF Share
    <3>3. SumOver(n, h, A) = 0
      BY <3>2, SumNone
    <3>4. q.load[p] = 0
      BY <2>1 DEF NoLoads
    <3> QED
      BY ONLY <3>1, <3>3, <3>4
  <2>4. DealInv(n, h, unit, c, cost, P, o, q, 0)
    BY ONLY <2>1, <2>2, <2>3, Zenon DEF DealInv
  <2>5. 0 \in 0 .. c
    OBVIOUS
  <2> QED
    BY ONLY <2>1, <2>4, <2>5
<1>5. ASSUME NEW k \in 1 .. c, k - 1 \in S PROVE k \in S
  <2>1. F[k] = Assign(cost, F[k - 1], o[k])
    BY <1>3 DEF DealRounds
  <2>2. DealInv(n, h, unit, c, cost, P, o, F[k - 1], k - 1)
    BY ONLY <1>5
  <2>3. DealInv(n, h, unit, c, cost, P, o, F[k], k)
    <3> HIDE DEF S
    <3> QED
      BY <1>1, <2>1, <2>2, DealKeeps
  <2>4. k \in 0 .. c
    OBVIOUS
  <2> QED
    BY ONLY <2>3, <2>4
<1> HIDE DEF S
<1>6. \A k \in 0 .. c : k \in S
  BY <1>4, <1>5, Induct
<1>7. c \in S
  BY <1>6
<1>8. DealInv(n, h, unit, c, cost, P, o, F[c], c)
  BY ONLY <1>7 DEF S
<1>9. Deal(cost, P) = F[c].part
  BY <1>3 DEF DealRounds
<1> QED
  BY ONLY <1>1, <1>8, <1>9, Zenon

\* Weights are the costs of a graph, at least 1.
LEMMA WeightsType ==
  ASSUME NEW x, NEW n \in Nat, DOMAIN x = 1 .. n, \A i \in 1 .. n : x[i].cost \in Int
  PROVE  Weights(x) \in [1 .. n -> Nat]
<1>1. ASSUME NEW i \in 1 .. n PROVE (IF x[i].cost > 1 THEN x[i].cost ELSE 1) \in Nat
  <2>1. PICK a \in Int : a = x[i].cost
    OBVIOUS
  <2>2. (IF a > 1 THEN a ELSE 1) \in Nat
    OBVIOUS
  <2> QED
    BY ONLY <2>1, <2>2, Zenon
<1>2. Weights(x) = [i \in 1 .. n |-> IF x[i].cost > 1 THEN x[i].cost ELSE 1]
  BY Zenon DEF Weights
<1> QED
  BY ONLY <1>1, <1>2

\* What partition computes when there is something to share out.
SharedOut(x, n, P, c, unit, cost, part) ==
  /\ unit = Units(x).unit /\ unit \in [1 .. n -> 1 .. c] /\ c \in Nat
  /\ cost \in [1 .. c -> Nat] /\ \A u \in 1 .. c : cost[u] = UnitCost(x, unit, u)
  /\ \A u \in 1 .. c : \E j \in 1 .. n : unit[j] = u
  /\ part = [i \in 1 .. n |-> Deal(cost, P)[unit[i]]]

\* partition with more than one part deals out the units of the graph.
LEMMA PartitionIs ==
  ASSUME NEW x, NEW n, Sized(x, n), \A i \in 1 .. n : x[i].cost \in Int, NEW P \in Nat, P > 1, n # 0
  PROVE  \E c, unit, cost : SharedOut(x, n, P, c, unit, cost, Partition(x, P))
<1>n. n \in Nat /\ n = Len(x) /\ DOMAIN x = 1 .. n
  BY DEF Sized
<1>1. PICK r : r = Units(x) /\ UnitsRight(x, n, r)
  BY UnitsAreRight
<1>2. PICK c \in Nat, unit \in [1 .. n -> Nat] : c = r.c /\ unit = r.unit
  BY <1>1 DEF UnitsRight, Numbered, UnitSet
<1>3. \A j \in 1 .. n : unit[j] <= c /\ unit[j] # 0
  BY <1>1, <1>2, Zenon DEF UnitsRight, Numbered
<1>4. unit \in [1 .. n -> 1 .. c]
  BY ONLY <1>3, c \in Nat, unit \in [1 .. n -> Nat]
<1>5. \A u \in 1 .. c : \E j \in 1 .. n : unit[j] = u
  BY <1>1, <1>2, Zenon DEF UnitsRight, Numbered
<1>6. PICK cost : cost = [u \in 1 .. c |-> UnitCost(x, unit, u)]
  OBVIOUS
<1>7. ASSUME NEW u PROVE UnitCost(x, unit, u) \in Nat
  <2>1. Weights(x) \in [1 .. n -> Nat]
    BY <1>n, WeightsType
  <2> QED
    BY <1>n, <2>1, SumType DEF UnitCost
<1>8. cost \in [1 .. c -> Nat] /\ \A u \in 1 .. c : cost[u] = UnitCost(x, unit, u)
  BY ONLY <1>6, <1>7
<1>9. ~(P <= 1 \/ x = <<>>)
  BY <1>n
<1>10. Partition(x, P) = [i \in 1 .. n |-> Deal(cost, P)[unit[i]]]
  BY ONLY <1>n, <1>1, <1>2, <1>6, <1>9, Zenon DEF Partition
<1>11. unit = Units(x).unit
  BY ONLY <1>1, <1>2
<1>12. SharedOut(x, n, P, c, unit, cost, Partition(x, P))
  BY ONLY <1>4, <1>5, <1>8, <1>10, <1>11, c \in Nat DEF SharedOut
<1> QED
  BY ONLY <1>12

\* With one partition, or no task, there is nothing to share out.
LEMMA PartitionTrivial ==
  ASSUME NEW x, NEW n, Sized(x, n), NEW P \in Nat \ {0}, P = 1 \/ n = 0
  PROVE  Partition(x, P) = [i \in 1 .. n |-> 0]
<1>n. n \in Nat /\ n = Len(x) /\ DOMAIN x = 1 .. n
  BY DEF Sized
<1>1. CASE P = 1
  BY <1>n, <1>1 DEF Partition
<1>2. CASE n = 0
  <2>1. \A i \in 1 .. n : FALSE
    BY <1>2
  <2>2. CASE P <= 1 \/ x = <<>>
    BY ONLY <1>n, <2>2, Zenon DEF Partition
  <2>3. CASE ~(P <= 1 \/ x = <<>>)
    <3>1. PICK f : Partition(x, P) = [i \in DOMAIN x |-> f[Units(x).unit[i]]]
      BY ONLY <2>3, Zenon DEF Partition
    <3> QED
      BY ONLY <1>n, <2>1, <3>1
  <2> QED
    BY <2>2, <2>3
<1> QED
  BY <1>1, <1>2

Together(x, n, part) ==
  \A d \in 1 .. n : x[d].kind = "compile" =>
    /\ \A a \in 1 .. n : FirstHolder(x, "archive", a, d) => part[d] = part[a]
    /\ (\A a \in 1 .. n : ~Holds(x, "archive", a, d)) =>
         \A a \in 1 .. n : FirstHolder(x, "link", a, d) => part[d] = part[a]

\* partition keeps objects with what they go into.
LEMMA PartTogether ==
  ASSUME NEW x, NEW n, Sized(x, n), \A i \in 1 .. n : x[i].cost \in Int, NEW P \in Nat \ {0}
  PROVE  Together(x, n, Partition(x, P))
<1>n. n \in Nat
  BY DEF Sized
<1>1. PICK part : part = Partition(x, P)
  OBVIOUS
<1>2. CASE P = 1 \/ n = 0
  <2>1. part = [i \in 1 .. n |-> 0]
    BY <1>1, <1>2, PartitionTrivial
  <2>2. \A i \in 1 .. n : part[i] = 0
    BY ONLY <2>1
  <2> QED
    BY ONLY <1>1, <2>2, Zenon DEF Together
<1>3. CASE ~(P = 1 \/ n = 0)
  <2>1. P > 1 /\ n # 0 /\ P \in Nat
    BY <1>3
  <2>2. PICK c, unit, cost : SharedOut(x, n, P, c, unit, cost, part)
    BY <1>1, <2>1, PartitionIs
  <2>3. PICK f : f = Deal(cost, P)
    OBVIOUS
  <2>4. unit = Units(x).unit /\ part = [i \in 1 .. n |-> f[unit[i]]]
    BY <2>2, <2>3, Zenon DEF SharedOut
  <2>5. \A i \in 1 .. n : part[i] = f[unit[i]]
    BY ONLY <2>4
  <2>6. UnitsRight(x, n, Units(x))
    BY UnitsAreRight
  <2>7. ASSUME NEW d \in 1 .. n, x[d].kind = "compile", NEW a \in 1 .. n, FirstHolder(x, "archive", a, d)
        PROVE  part[d] = part[a]
    <3>1. unit[d] = unit[a]
      BY ONLY <2>4, <2>6, <2>7, d \in 1 .. n, a \in 1 .. n, Zenon DEF UnitsRight
    <3> QED
      BY ONLY <2>5, <3>1, d \in 1 .. n, a \in 1 .. n
  <2>8. ASSUME NEW d \in 1 .. n, x[d].kind = "compile", \A a \in 1 .. n : ~Holds(x, "archive", a, d),
               NEW a \in 1 .. n, FirstHolder(x, "link", a, d)
        PROVE  part[d] = part[a]
    <3>1. unit[d] = unit[a]
      BY ONLY <2>4, <2>6, <2>8, d \in 1 .. n, a \in 1 .. n, Zenon DEF UnitsRight
    <3> QED
      BY ONLY <2>5, <3>1, d \in 1 .. n, a \in 1 .. n
  <2> QED
    BY ONLY <1>1, <2>7, <2>8, Zenon DEF Together
<1> QED
  BY <1>2, <1>3

LoadOf(x, part, p) == SumOver(Len(x), Weights(x), {i \in DOMAIN x : part[i] = p})

\* Task j's unit is no larger than task i's, and without it partition p is no
\* heavier than q.
Evens(x, part, p, q, i, j) ==
  LET unit == Units(x).unit IN
  /\ part[j] = p
  /\ UnitCost(x, unit, unit[j]) <= UnitCost(x, unit, unit[i])
  /\ LoadOf(x, part, p) - UnitCost(x, unit, unit[j]) <= LoadOf(x, part, q)

Balanced(x, P, part) ==
  \A p, q \in 0 .. P - 1 : \A i \in DOMAIN x : part[i] = p => \E j \in DOMAIN x : Evens(x, part, p, q, i, j)

\* partition balances the loads.
LEMMA PartBalanced ==
  ASSUME NEW x, NEW n, Sized(x, n), \A i \in 1 .. n : x[i].cost \in Int, NEW P \in Nat \ {0}
  PROVE  Balanced(x, P, Partition(x, P))
<1>n. n \in Nat /\ n = Len(x) /\ DOMAIN x = 1 .. n
  BY DEF Sized
<1>1. PICK part : part = Partition(x, P)
  OBVIOUS
<1>2. PICK h : h = Weights(x) /\ h \in [1 .. n -> Nat]
  BY <1>n, WeightsType
<1>3. \A S : SumOver(n, h, S) \in Nat
  BY <1>n, <1>2, SumType
<1>4. \A unit, u : UnitCost(x, unit, u) \in Nat
  BY <1>n, <1>2, <1>3 DEF UnitCost
<1>5. \A p : LoadOf(x, part, p) \in Nat
  BY <1>n, <1>2, <1>3 DEF LoadOf
<1>6. CASE P = 1
  <2> SUFFICES ASSUME NEW p \in 0 .. P - 1, NEW q \in 0 .. P - 1, NEW i \in DOMAIN x, part[i] = p
               PROVE  Evens(x, part, p, q, i, i)
    BY <1>1 DEF Balanced
  <2>1. p = q
    BY <1>6
  <2>2. PICK u : u = Units(x).unit
    OBVIOUS
  <2>3. PICK a \in Nat, b \in Nat : a = UnitCost(x, u, u[i]) /\ b = LoadOf(x, part, p)
    BY ONLY <1>4, <1>5
  <2>4. a <= a /\ b - a <= b
    OBVIOUS
  <2> QED
    BY ONLY <2>1, <2>2, <2>3, <2>4, part[i] = p, Zenon DEF Evens
<1>7. CASE n = 0
  <2>1. \A i \in DOMAIN x : FALSE
    BY <1>n, <1>7
  <2> QED
    BY ONLY <1>1, <2>1, Zenon DEF Balanced
<1>8. CASE P # 1 /\ n # 0
  <2>1. P > 1 /\ P \in Nat
    BY <1>8
  <2>2. PICK c, unit, cost : SharedOut(x, n, P, c, unit, cost, part)
    BY <1>1, <1>8, <2>1, PartitionIs
  <2>3. c \in Nat /\ unit \in [1 .. n -> 1 .. c] /\ cost \in [1 .. c -> Nat]
    BY <2>2, Zenon DEF SharedOut
  <2>4. \A u \in 1 .. c : cost[u] = SumOver(n, h, {i \in 1 .. n : unit[i] = u})
    BY <1>n, <1>2, <2>2 DEF SharedOut, UnitCost
  <2>5. PICK o, r : /\ FallingCost(o, c, cost) /\ Deal(cost, P) = r.part
                    /\ DealInv(n, h, unit, c, cost, P, o, r, c)
    BY <1>n, <1>2, <2>3, <2>4, DealEnds
  <2>6. PICK b \in [1 .. c -> 0 .. P - 1], l \in [0 .. P - 1 -> Nat] : b = r.part /\ l = r.load
    BY <2>5 DEF DealInv, DealSet
  <2>7. \A i \in 1 .. n : part[i] = b[unit[i]] /\ unit[i] \in 1 .. c
    <3>1. part = [i \in 1 .. n |-> b[unit[i]]]
      BY <2>2, <2>5, <2>6, Zenon DEF SharedOut
    <3> QED
      BY ONLY <2>3, <3>1
  <2>8. Dealt(o, c) = 1 .. c
    <3>1. o \in [1 .. c -> 1 .. c] /\ \A u \in 1 .. c : \E k \in 1 .. c : o[k] = u
      BY <2>5, Zenon DEF FallingCost
    <3>2. Dealt(o, c) \subseteq 1 .. c
      BY ONLY <3>1 DEF Dealt
    <3>3. 1 .. c \subseteq Dealt(o, c)
      BY ONLY <3>1 DEF Dealt
    <3> QED
      BY ONLY <3>2, <3>3, Zenon
  <2>9. ASSUME NEW p \in 0 .. P - 1 PROVE LoadOf(x, part, p) = l[p]
    <3>1. l[p] = SumOver(n, h, Share(n, unit, b, 1 .. c, p))
      BY <2>5, <2>6, <2>8, Zenon DEF DealInv
    <3>2. Share(n, unit, b, 1 .. c, p) = {i \in DOMAIN x : part[i] = p}
      BY ONLY <1>n, <2>7 DEF Share
    <3> QED
      BY ONLY <1>n, <1>2, <3>1, <3>2, Zenon DEF LoadOf
  <2>10. ASSUME NEW p \in 0 .. P - 1, NEW q \in 0 .. P - 1, NEW i \in 1 .. n, part[i] = p
         PROVE  \E j \in 1 .. n : Evens(x, part, p, q, i, j)
    <3>1. PICK v \in 1 .. c : v = unit[i] /\ b[v] = p
      BY ONLY <2>7, <2>10, i \in 1 .. n
    <3>2. PICK u \in 1 .. c : b[u] = b[v] /\ cost[u] <= cost[v] /\ \A z \in 0 .. P - 1 : l[b[v]] - cost[u] <= l[z]
      <4>1. \A y \in Dealt(o, c) : \E u \in Dealt(o, c) :
              /\ r.part[u] = r.part[y] /\ cost[u] <= cost[y]
              /\ \A z \in 0 .. P - 1 : r.load[r.part[y]] - cost[u] <= r.load[z]
        BY <2>5, Zenon DEF DealInv
      <4>2. \A y \in 1 .. c : \E u \in 1 .. c :
              b[u] = b[y] /\ cost[u] <= cost[y] /\ \A z \in 0 .. P - 1 : l[b[y]] - cost[u] <= l[z]
        BY ONLY <2>6, <2>8, <4>1
      <4> QED
        BY ONLY <4>2, v \in 1 .. c
    <3>3. PICK j \in 1 .. n : unit[j] = u
      BY <2>2, Zenon DEF SharedOut
    <3>4. part[j] = p
      BY ONLY <2>7, <3>1, <3>2, <3>3, j \in 1 .. n
    <3>5. unit = Units(x).unit /\ cost[u] = UnitCost(x, unit, u) /\ cost[v] = UnitCost(x, unit, v)
      BY <2>2, Zenon DEF SharedOut
    <3>6. LoadOf(x, part, p) - cost[u] <= LoadOf(x, part, q)
      BY ONLY <2>9, <3>1, <3>2, p \in 0 .. P - 1, q \in 0 .. P - 1, Zenon
    <3>7. Evens(x, part, p, q, i, j)
      BY ONLY <3>1, <3>2, <3>3, <3>4, <3>5, <3>6, Zenon DEF Evens
    <3> QED
      BY ONLY <3>7
  <2> QED
    BY ONLY <1>1, <1>n, <2>10, Zenon DEF Balanced
<1> QED
  BY <1>6, <1>7, <1>8

-----------------------------------------------------------------------------
(* BuildSpec *)

\* What submit_build needs to go on with a graph.
Sortable(x) == HashedBy(x) /\ (TopoOrder(x) # <<>> \/ x = <<>>)

\* What it computes of a graph.
Computed(x, parts) ==
  [parts |-> parts, order |-> TopoOrder(x), rank |-> UpwardRank(x), part |-> Partition(x, parts)]

Answered(x, a) == Sortable(x) /\ \E parts \in Parts : a = Computed(x, parts)

\* What is known of the manifest mf, the keys ks, the graph x and the answer a in
\* phase ph.
Known(ph, mf, ks, x, a) ==
  /\ Parsed(mf)
  /\ ph \in {"parse", "graph", "submit", "accepted", "invalid", "unavailable", "error"}
  /\ ph = "graph" => Linked(mf)
  /\ ph \in {"parse", "graph", "error"} => ks = <<>>
  /\ ph \in {"submit", "accepted", "invalid", "unavailable"} => IsGraph(x)
  /\ ks # <<>> => BuiltRight(x, ks, mf)
  /\ ph = "invalid" => ~Sortable(x)
  /\ ph = "unavailable" => ~RowsBy(x)
  /\ ph \in {"accepted", "unavailable"} => Answered(x, a)

\* The inductive invariant.
SpecInv == Known(phase, m, key, g, answer)

\* A Manifest before its first line.
LEMMA EmptyParsed == Parsed(Empty)
<1>1. Empty \in ManifestSet
  <2>1. Empty.cflags \in Seq(Words) /\ Empty.ldflags \in Seq(Words) /\ Empty.targets \in Seq(TargetSet)
    BY DEF Empty
  <2> QED
    BY <2>1 DEF ManifestSet, Empty
<1>2. Empty.targets = <<>> /\ DOMAIN Empty.targets = {} /\ ToSet(Empty.targets) = {}
  BY DEF Empty, ToSet
<1> QED
  BY ONLY <1>1, <1>2, Zenon DEF Parsed

\* The invariant holds at the start.
LEMMA SpecInit == Init => SpecInv
<1> SUFFICES ASSUME Init
             PROVE  SpecInv
  OBVIOUS
<1>1. m = Empty /\ key = <<>>
  BY DEF Init
<1>2. phase = "parse" \/ (phase = "submit" /\ g \in Foreign)
  BY DEF Init
<1>3. phase = "submit" => IsGraph(g)
  BY <1>2, SpecAssumption
<1> QED
  BY <1>1, <1>2, <1>3, EmptyParsed DEF SpecInv, Known

\* A line that parses leaves a manifest that is parsed.
LEMMA ParseLineKeeps ==
  ASSUME SpecInv, NEW l \in Lines, ParseLine(l)
  PROVE  SpecInv'
<1>1. Known(phase, m, key, g, answer) /\ phase = "parse"
  BY DEF SpecInv, ParseLine
<1>2. key' = key /\ g' = g /\ answer' = answer
  BY DEF ParseLine
<1>3. key = <<>> /\ Parsed(m)
  BY <1>1 DEF Known
<1>4. CASE LineOk(l) /\ m' = Applied(l) /\ UNCHANGED phase
  <2>1. Parsed(m')
    BY <1>3, <1>4, LineParsed
  <2>2. Known(phase', m', key', g', answer')
    BY <1>1, <1>2, <1>3, <1>4, <2>1 DEF Known
  <2> QED
    BY <2>2 DEF SpecInv
<1>5. CASE ~LineOk(l) /\ phase' = "error" /\ UNCHANGED m
  <2>1. Known(phase', m', key', g', answer')
    BY <1>1, <1>2, <1>3, <1>5 DEF Known
  <2> QED
    BY <2>1 DEF SpecInv
<1> QED
  BY <1>4, <1>5 DEF ParseLine

\* At the end of the file every library that is linked is known.
LEMMA EndOfFileKeeps ==
  ASSUME SpecInv, EndOfFile
  PROVE  SpecInv'
<1>1. Known(phase, m, key, g, answer) /\ phase = "parse"
  BY DEF SpecInv, EndOfFile
<1>2. m' = m /\ key' = key /\ g' = g /\ answer' = answer
  BY DEF EndOfFile
<1>3. key = <<>> /\ Parsed(m)
  BY <1>1 DEF Known
<1>4. ASSUME LinksKnown PROVE Linked(m)
  <2>1. ToSet(Libs) = {t \in ToSet(m.targets) : t.lib}
    BY <1>3, TargetsSplit DEF Split
  <2> QED
    BY ONLY <1>4, <2>1, Zenon DEF Linked, LinksKnown
<1>5. phase' = "error" \/ (phase' = "graph" /\ LinksKnown)
  BY DEF EndOfFile
<1>6. Known(phase', m', key', g', answer')
  BY <1>2, <1>3, <1>4, <1>5 DEF Known
<1> QED
  BY <1>6 DEF SpecInv

\* The graph that build() makes is right.
LEMMA MakeTasksKeeps ==
  ASSUME SpecInv, MakeTasks
  PROVE  SpecInv'
<1>1. Known(phase, m, key, g, answer) /\ phase = "graph"
  BY DEF SpecInv, MakeTasks
<1>2. m' = m /\ answer' = answer /\ phase' = "submit"
  BY DEF MakeTasks
<1>3. Parsed(m) /\ Linked(m)
  BY <1>1 DEF Known
<1>4. PICK ks \in [Sources -> Text] : key' = ks /\ g' = Tasks(ks)
  BY DEF MakeTasks
<1>5. BuiltRight(Tasks(ks), ks, m)
  BY <1>3, TasksRight
<1>6. BuiltRight(g', key', m') /\ Parsed(m')
  BY <1>2, <1>3, <1>4, <1>5
<1>7. IsGraph(g')
  BY <1>6 DEF BuiltRight
<1>8. Known(phase', m', key', g', answer')
  BY <1>2, <1>6, <1>7 DEF Known
<1> QED
  BY <1>8 DEF SpecInv

\* submit_build refuses what it cannot sort, and stores what it computed.
LEMMA SubmitBuildKeeps ==
  ASSUME SpecInv, NEW parts \in Parts, SubmitBuild(parts)
  PROVE  SpecInv'
<1>1. Known(phase, m, key, g, answer) /\ phase = "submit"
  BY DEF SpecInv, SubmitBuild
<1>2. m' = m /\ key' = key /\ g' = g
  BY DEF SubmitBuild
<1>3. Parsed(m) /\ IsGraph(g) /\ (key # <<>> => BuiltRight(g, key, m))
  BY <1>1 DEF Known
<1>4. (Hashed <=> HashedBy(g)) /\ (RowsDistinct <=> RowsBy(g))
  BY Zenon DEF Hashed, HashedBy, RowsDistinct, RowsBy
<1>5. CASE Sortable(g)
  <2>1. Hashed /\ (TopoOrder(g) # <<>> \/ g = <<>>)
    BY <1>4, <1>5 DEF Sortable
  <2>2. answer' = Computed(g, parts) /\ phase' = IF RowsDistinct THEN "accepted" ELSE "unavailable"
    BY <2>1, Zenon DEF SubmitBuild, Computed
  <2>3. Answered(g', answer')
    BY <1>2, <1>5, <2>2 DEF Answered
  <2>4. phase' = "accepted" \/ (phase' = "unavailable" /\ ~RowsBy(g))
    BY <1>4, <2>2
  <2>5. Known(phase', m', key', g', answer')
    BY <1>2, <1>3, <2>3, <2>4 DEF Known
  <2> QED
    BY <2>5 DEF SpecInv
<1>6. CASE ~Sortable(g)
  <2>1. ~(Hashed /\ (TopoOrder(g) # <<>> \/ g = <<>>))
    BY <1>4, <1>6 DEF Sortable
  <2>2. phase' = "invalid" /\ answer' = answer
    BY <2>1, Zenon DEF SubmitBuild
  <2>3. Known(phase', m', key', g', answer')
    BY <1>2, <1>3, <1>6, <2>2 DEF Known
  <2> QED
    BY <2>3 DEF SpecInv
<1> QED
  BY <1>5, <1>6

\* The inductive invariant of BuildSpec: a manifest is always one the parser can
\* make (parse_manifest), build()'s graph always the right one for it, and an
\* answer always the one submit_build computes of a graph it can sort.
THEOREM SpecAlways == Spec => []SpecInv
<1>1. SpecInv /\ [Next]_vars => SpecInv'
  <2> SUFFICES ASSUME SpecInv, [Next]_vars
               PROVE  SpecInv'
    OBVIOUS
  <2>1. ASSUME UNCHANGED vars PROVE SpecInv'
    <3>1. phase' = phase /\ m' = m /\ key' = key /\ g' = g /\ answer' = answer
      BY <2>1 DEF vars
    <3>2. Known(phase, m, key, g, answer)
      BY DEF SpecInv
    <3>3. Known(phase', m', key', g', answer')
      BY ONLY <3>1, <3>2
    <3> QED
      BY <3>3 DEF SpecInv
  <2>2. CASE \E l \in Lines : ParseLine(l)
    BY <2>2, ParseLineKeeps
  <2>3. CASE EndOfFile
    BY <2>3, EndOfFileKeeps
  <2>4. CASE MakeTasks
    BY <2>4, MakeTasksKeeps
  <2>5. CASE \E parts \in Parts : SubmitBuild(parts)
    BY <2>5, SubmitBuildKeeps
  <2>6. CASE Over
    BY <2>1, <2>6 DEF Over
  <2> QED
    BY <2>1, <2>2, <2>3, <2>4, <2>5, <2>6 DEF Next
<1> QED
  BY <1>1, SpecInit, PTL DEF Spec

\* A graph is empty when it has size 0.
LEMMA GraphSize ==
  ASSUME NEW x, IsGraph(x)
  PROVE  \E n : Sized(x, n) /\ (n = 0 <=> x = <<>>) /\ \A i \in 1 .. n : x[i].cost \in Int
<1>1. x \in Seq(ToSet(x)) /\ \A i \in DOMAIN x : x[i].cost \in Int
  BY DEF IsGraph
<1>2. PICK n : Sized(x, n)
  BY GraphSized
<1>3. n = Len(x) /\ DOMAIN x = 1 .. n
  BY <1>2 DEF Sized
<1>4. n = 0 <=> x = <<>>
  BY <1>1, <1>3, EmptySeq
<1> QED
  BY <1>1, <1>2, <1>3, <1>4

\* What submit_build has computed when it gets as far as its transaction.
LEMMA AnswerIs ==
  ASSUME SpecInv, Ordered
  PROVE  /\ IsGraph(g) /\ Sortable(g) /\ answer.order = TopoOrder(g) /\ answer.rank = UpwardRank(g)
         /\ answer.parts \in Nat \ {0} /\ answer.part = Partition(g, answer.parts)
<1>1. phase \in {"accepted", "unavailable"} /\ Known(phase, m, key, g, answer)
  BY DEF Ordered, SpecInv
<1>2. IsGraph(g) /\ Answered(g, answer)
  BY <1>1 DEF Known
<1>3. PICK parts \in Parts : answer = Computed(g, parts)
  BY <1>2 DEF Answered
<1>4. parts \in Nat \ {0}
  BY <1>3, SpecAssumption
<1>5. /\ answer.order = TopoOrder(g) /\ answer.rank = UpwardRank(g)
      /\ answer.parts = parts /\ answer.part = Partition(g, parts)
  BY <1>3 DEF Computed
<1> QED
  BY <1>2, <1>4, <1>5 DEF Answered

\* A graph that gets a priority and a partition has been put in order.
LEMMA SortableOrder ==
  ASSUME NEW x, NEW n, Sized(x, n), n = 0 <=> x = <<>>, Sortable(x)
  PROVE  /\ WellFormed(x) /\ ~Ring(x)
         /\ InOrder(x, n, TopoOrder(x)) /\ Len(TopoOrder(x)) = n
         /\ 1 .. n \subseteq ToSet(TopoOrder(x))
<1>1. TopoOrder(x) # <<>> \/ n = 0
  BY DEF Sortable
<1> QED
  BY <1>1, TopoRight

\* Cyclic, of any graph.
LEMMA CyclicIsRing == Cyclic <=> Ring(g)
BY Zenon DEF Cyclic, Ring

\* Every later dep would be an earlier one too.
LEMMA DepsFirst ==
  ASSUME NEW x, NEW n \in Nat, NEW o, InOrder(x, n, o), Len(o) = n, NEW i \in 1 .. n, NEW j \in 1 .. n,
         o[i] \in ToSet(x[o[j]].deps)
  PROVE  i < j
<1>1. o \in Seq(1 .. n) /\ IsInjective(o)
  BY DEF InOrder
<1>2. PICK b \in 1 .. j - 1 : o[b] = o[i]
  BY DEF InOrder
<1>3. DOMAIN o = 1 .. n /\ b \in 1 .. n
  BY <1>1
<1>4. b = i
  BY <1>1, <1>2, <1>3 DEF IsInjective
<1> QED
  BY <1>2, <1>4

\* topo_order refuses a graph exactly when a number is bad or tasks wait for each
\* other in a ring; otherwise every task comes once, after its deps.
THEOREM TopoOrderIsRight == Spec => []OrderRight
<1>1. SpecInv => OrderRight
  <2> SUFFICES ASSUME SpecInv
               PROVE  OrderRight
    OBVIOUS
  <2>1. ASSUME phase = "invalid" PROVE ~Hashed \/ ~WellFormed(g) \/ Cyclic
    <3>1. IsGraph(g) /\ ~Sortable(g)
      BY <2>1 DEF SpecInv, Known
    <3>2. PICK n : Sized(g, n) /\ (n = 0 <=> g = <<>>)
      BY <3>1, GraphSize
    <3>3. HashedBy(g) => TopoOrder(g) = <<>> /\ n # 0
      BY <3>1, <3>2 DEF Sortable
    <3>4. TopoOrder(g) = <<>> /\ n # 0 => ~WellFormed(g) \/ Ring(g)
      BY <3>2, TopoRight
    <3>5. Hashed <=> HashedBy(g)
      BY Zenon DEF Hashed, HashedBy
    <3> QED
      BY <3>3, <3>4, <3>5, CyclicIsRing
  <2>2. ASSUME Ordered
        PROVE  /\ WellFormed(g) /\ ~Cyclic
               /\ Len(answer.order) = Len(g) /\ IsInjective(answer.order)
               /\ \A i, j \in DOMAIN g : answer.order[i] \in ToSet(g[answer.order[j]].deps) => i < j
    <3>1. IsGraph(g) /\ Sortable(g) /\ answer.order = TopoOrder(g)
      BY <2>2, AnswerIs
    <3>2. PICK n : Sized(g, n) /\ (n = 0 <=> g = <<>>)
      BY <3>1, GraphSize
    <3>3. n \in Nat /\ n = Len(g) /\ DOMAIN g = 1 .. n
      BY <3>2 DEF Sized
    <3>4. PICK o : o = TopoOrder(g)
      OBVIOUS
    <3>5. WellFormed(g) /\ ~Ring(g) /\ InOrder(g, n, o) /\ Len(o) = n
      BY <3>1, <3>2, <3>4, SortableOrder
    <3>6. ASSUME NEW i \in 1 .. n, NEW j \in 1 .. n, o[i] \in ToSet(g[o[j]].deps)
          PROVE  i < j
      BY <3>3, <3>5, <3>6, DepsFirst
    <3>7. IsInjective(o)
      BY <3>5 DEF InOrder
    <3> QED
      BY <3>1, <3>3, <3>4, <3>5, <3>6, <3>7, CyclicIsRing
  <2> QED
    BY <2>1, <2>2 DEF OrderRight
<1> QED
  BY <1>1, SpecAlways, PTL

\* upward_rank is the cost of the longest chain of dependents, whatever order the
\* tasks are visited in.
THEOREM UpwardRankIsRight == Spec => []RankRight
<1>1. SpecInv => RankRight
  <2> SUFFICES ASSUME SpecInv, Ordered
               PROVE  \A i \in DOMAIN g : answer.rank[i] = g[i].cost + Highest(answer.rank, Dependents(g, i))
    BY Zenon DEF RankRight, Highest, Dependents
  <2>1. IsGraph(g) /\ Sortable(g) /\ answer.rank = UpwardRank(g)
    BY AnswerIs
  <2>2. PICK n : Sized(g, n) /\ (n = 0 <=> g = <<>>) /\ \A i \in 1 .. n : g[i].cost \in Int
    BY <2>1, GraphSize
  <2>3. PICK o : o = TopoOrder(g)
    OBVIOUS
  <2>4. InOrder(g, n, o) /\ Len(o) = n /\ 1 .. n \subseteq ToSet(o)
    BY <2>1, <2>2, <2>3, SortableOrder
  <2>5. \A i \in 1 .. n : UpwardRank(g)[i] = g[i].cost + Highest(UpwardRank(g), Dependents(g, i))
    BY <2>2, <2>3, <2>4, RankSolves
  <2>6. DOMAIN g = 1 .. n
    BY <2>2 DEF Sized
  <2> QED
    BY ONLY <2>1, <2>5, <2>6, Zenon
<1> QED
  BY <1>1, SpecAlways, PTL

\* partition puts an object with the first archive that has it, or with the first
\* binary if no archive has it: claim() runs for archives before links.
THEOREM PartitionKeepsObjects == Spec => []ObjectsTogether
<1>1. SpecInv => ObjectsTogether
  <2> SUFFICES ASSUME SpecInv, Ordered, NEW d \in DOMAIN g, g[d].kind = "compile"
               PROVE  /\ Holders("archive", d) # {} => answer.part[d] = answer.part[Min(Holders("archive", d))]
                      /\ Holders("archive", d) = {} /\ Holders("link", d) # {} =>
                           answer.part[d] = answer.part[Min(Holders("link", d))]
    BY Zenon DEF ObjectsTogether
  <2>1. PICK P : IsGraph(g) /\ P \in Nat \ {0} /\ answer.part = Partition(g, P)
    BY AnswerIs
  <2>2. PICK n : Sized(g, n) /\ \A i \in 1 .. n : g[i].cost \in Int
    BY <2>1, GraphSize
  <2>3. n \in Nat /\ DOMAIN g = 1 .. n
    BY <2>2 DEF Sized
  <2>4. Together(g, n, answer.part)
    BY <2>1, <2>2, PartTogether
  <2>5. ASSUME NEW kind, Holders(kind, d) # {}
        PROVE  Min(Holders(kind, d)) \in 1 .. n /\ FirstHolder(g, kind, Min(Holders(kind, d)), d)
    <3>1. PICK S : S = Holders(kind, d)
      OBVIOUS
    <3>2. S = {a \in 1 .. n : Holds(g, kind, a, d)}
      BY ONLY <2>3, <3>1, Zenon DEF Holders, Holds
    <3>3. S \in SUBSET Nat /\ S # {}
      BY <2>3, <2>5, <3>1, <3>2
    <3>4. PICK a : a = Min(S)
      OBVIOUS
    <3>5. a \in S /\ \A y \in S : a <= y
      BY ONLY <3>3, <3>4, MinIn
    <3>6. a \in 1 .. n /\ Holds(g, kind, a, d)
      BY <3>2, <3>5
    <3>7. ASSUME NEW b \in 1 .. n, b < a PROVE ~Holds(g, kind, b, d)
      BY <2>3, <3>2, <3>5, <3>6, <3>7
    <3>8. FirstHolder(g, kind, a, d)
      BY ONLY <2>3, <3>6, <3>7, Zenon DEF FirstHolder
    <3> QED
      BY ONLY <3>1, <3>4, <3>6, <3>8, Zenon
  <2>6. Holders("archive", d) = {} => \A a \in 1 .. n : ~Holds(g, "archive", a, d)
    BY <2>3 DEF Holders, Holds
  <2>7. /\ \A a \in 1 .. n : FirstHolder(g, "archive", a, d) => answer.part[d] = answer.part[a]
        /\ (\A a \in 1 .. n : ~Holds(g, "archive", a, d)) =>
             \A a \in 1 .. n : FirstHolder(g, "link", a, d) => answer.part[d] = answer.part[a]
    BY ONLY <2>3, <2>4, d \in DOMAIN g, g[d].kind = "compile", Zenon DEF Together
  <2> QED
    BY ONLY <2>5, <2>6, <2>7, Zenon
<1> QED
  BY <1>1, SpecAlways, PTL

\* partition is balanced: without its smallest unit no partition has more work than
\* any other (units go to the lightest partition by falling cost).
THEOREM PartitionIsBalanced == Spec => []LoadsBalanced
<1>1. SpecInv => LoadsBalanced
  <2> SUFFICES ASSUME SpecInv, Ordered
               PROVE  Balanced(g, answer.parts, answer.part)
    BY Zenon DEF LoadsBalanced, Balanced, Evens, LoadOf, Load
  <2>1. IsGraph(g) /\ answer.parts \in Nat \ {0} /\ answer.part = Partition(g, answer.parts)
    BY AnswerIs
  <2>2. PICK n : Sized(g, n) /\ \A i \in 1 .. n : g[i].cost \in Int
    BY <2>1, GraphSize
  <2> QED
    BY <2>1, <2>2, PartBalanced
<1> QED
  BY <1>1, SpecAlways, PTL

\* The graph that build() makes of a manifest has one compile per key and one task
\* per target, fed by exactly its objects and libraries, with the right driver.
THEOREM BuildCoversTargets == Spec => []TargetsCovered
<1>1. SpecInv => TargetsCovered
  <2> SUFFICES ASSUME SpecInv, key # <<>>
               PROVE  CoveredBy(g, key, m)
    BY Zenon DEF TargetsCovered, CoveredBy, Covers, Of, Fed, Sources
  <2> QED
    BY DEF SpecInv, Known, BuiltRight
<1> QED
  BY <1>1, SpecAlways, PTL

\* A manifest that parse_manifest accepts is never refused as invalid, and submit()
\* fails on it only when a binary names a library twice.
THEOREM ManifestsAreAccepted == Spec => []ManifestSubmits
<1>1. SpecInv => ManifestSubmits
  <2> SUFFICES ASSUME SpecInv, key # <<>>
               PROVE  /\ phase # "invalid"
                      /\ phase = "unavailable" => \E t \in ToSet(m.targets) : ~IsInjective(t.libs)
    BY DEF ManifestSubmits
  <2>1. /\ IsGraph(g) /\ WellFormed(g) /\ ~Ring(g) /\ HashedBy(g)
        /\ RowsBy(g) \/ \E t \in ToSet(m.targets) : ~IsInjective(t.libs)
    BY DEF SpecInv, Known, BuiltRight
  <2>2. PICK n : Sized(g, n) /\ (n = 0 <=> g = <<>>)
    BY <2>1, GraphSize
  <2>3. TopoOrder(g) = <<>> /\ n # 0 => ~WellFormed(g) \/ Ring(g)
    BY <2>2, TopoRight
  <2>4. Sortable(g)
    BY <2>1, <2>2, <2>3 DEF Sortable
  <2> QED
    BY <2>1, <2>4 DEF SpecInv, Known
<1> QED
  BY <1>1, SpecAlways, PTL

\* make_config gives the preprocessor exactly its own flags and the words that
\* follow a separate flag, over any sequence of cflags.
THEOREM MakeConfigSplits == Spec => []FlagsSplit
<1>1. SpecInv => FlagsSplit
  <2> SUFFICES ASSUME SpecInv
               PROVE  PpPositions(m.cflags) = {i \in DOMAIN m.cflags : IsArgument(m.cflags, i) \/ m.cflags[i] \in PpFlags}
    BY Zenon DEF FlagsSplit, IsArgument
  <2>1. m.cflags \in Seq(Words)
    BY DEF SpecInv, Known, Parsed, ManifestSet
  <2> QED
    BY <2>1, FlagsClosedForm
<1> QED
  BY <1>1, SpecAlways, PTL
=============================================================================
