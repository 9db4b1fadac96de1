--------------------------- MODULE ConnPoolProofs ---------------------------
(***************************************************************************)
(* Proof that the connection pool loses no wake-up, for any number of      *)
(* handlers and connections, and any number of outages and reruns.         *)
(***************************************************************************)
EXTENDS ConnPool, FiniteSetTheorems, SequenceTheorems, TLAPS

Connection == {"live", "stale", "bad", None}

PoolType ==
  /\ idle \in Seq(Connection)
  /\ conn \in [Handler -> Connection]
  /\ pc \in [Handler -> {"off", "get", "asleep", "check", "run", "give", "notify"}]

\* The handlers that are about to look at idle_ or to call notify_one.
Getters == {h \in Handler : pc[h] \in {"get", "notify"}}

\* While somebody sleeps, every idle connection has a handler on the way to it: for
\* each that came back since the sleep began, notify_one has woken one or is to come.
Matched == Asleep # {} => Cardinality(Getters) >= Len(idle)

PoolInv == PoolType /\ Matched

\* Handlers can be counted.
LEMMA HandlersFinite ==
  ASSUME NEW S \in SUBSET Handler
  PROVE  /\ IsFiniteSet(S) /\ Cardinality(S) \in Nat
         /\ \A h \in S : Cardinality(S \ {h}) = Cardinality(S) - 1
         /\ \A T \in SUBSET S : Cardinality(T) <= Cardinality(S)
         /\ \A T \in SUBSET S : \A h \in S \ T : Cardinality(T) + 1 <= Cardinality(S)
<1>1. IsFiniteSet(S) /\ Cardinality(S) \in Nat
  BY PoolAssumption, FS_Subset, FS_CardinalityType
<1>2. \A h \in S : Cardinality(S \ {h}) = Cardinality(S) - 1
  BY <1>1, FS_RemoveElement
<1>3. \A T \in SUBSET S : IsFiniteSet(T) /\ Cardinality(T) <= Cardinality(S) /\ Cardinality(T) \in Nat
  BY <1>1, FS_Subset, FS_CardinalityType
<1>4. ASSUME NEW T \in SUBSET S, NEW h \in S \ T PROVE Cardinality(T) + 1 <= Cardinality(S)
  <2>1. IsFiniteSet(T \cup {h}) /\ Cardinality(T \cup {h}) = Cardinality(T) + 1
    BY <1>3, FS_AddElement
  <2>2. T \cup {h} \in SUBSET S
    OBVIOUS
  <2> QED
    BY <1>3, <2>1, <2>2
<1> QED
  BY <1>1, <1>2, <1>3, <1>4

\* The pool starts full, with nobody asleep.
LEMMA InitPool == Init => PoolInv
<1> SUFFICES ASSUME Init PROVE PoolInv
  OBVIOUS
<1>1. idle \in Seq(Connection)
  BY PoolAssumption DEF Init, Connection
<1>2. Asleep = {}
  BY DEF Init, Asleep
<1> QED
  BY <1>1, <1>2 DEF Init, PoolInv, PoolType, Matched, Connection

\* A step that lets nobody sleep and leaves the pool alone adds getters at most.
LEMMA MoreGetters ==
  ASSUME PoolInv, Len(idle') = Len(idle), Len(idle) \in Nat, PoolType',
         \A h \in Handler : /\ pc[h] \in {"get", "notify"} => pc'[h] \in {"get", "notify"}
                            /\ pc'[h] = "asleep" => pc[h] = "asleep"
  PROVE  Matched'
<1>1. Getters \subseteq Getters' /\ Getters' \subseteq Handler /\ Asleep' \subseteq Asleep
  BY DEF Getters, Asleep
<1>2. Cardinality(Getters) <= Cardinality(Getters') /\ Cardinality(Getters) \in Nat
      /\ Cardinality(Getters') \in Nat
  <2>1. \A T \in SUBSET (Getters') : Cardinality(T) <= Cardinality(Getters')
    BY <1>1, HandlersFinite
  <2>2. Cardinality(Getters) \in Nat /\ Cardinality(Getters') \in Nat
    BY <1>1, HandlersFinite
  <2> QED
    BY <1>1, <2>1, <2>2
<1> QED
  BY <1>1, <1>2 DEF Matched, PoolInv

\* Every step keeps the pool's invariant.
LEMMA StepPool == PoolInv /\ [Next]_vars => PoolInv'
<1> SUFFICES ASSUME PoolInv, [Next]_vars PROVE PoolInv'
  OBVIOUS
<1>t. PoolType /\ Len(idle) \in Nat
  BY DEF PoolInv, PoolType
<1>s. ASSUME idle' = idle, PoolType',
             \A h \in Handler : /\ pc[h] \in {"get", "notify"} => pc'[h] \in {"get", "notify"}
                                /\ pc'[h] = "asleep" => pc[h] = "asleep"
      PROVE  PoolInv'
  BY <1>s, <1>t, MoreGetters DEF PoolInv
<1>1. ASSUME NEW h \in Handler, Arrive(h) PROVE PoolInv'
  <2>1. PoolType'
    BY <1>1, <1>t DEF Arrive, PoolType
  <2> QED
    BY <1>1, <1>s, <1>t, <2>1 DEF Arrive, PoolType
<1>2. ASSUME NEW h \in Handler, Get(h) PROVE PoolInv'
  <2>0. Getters \subseteq Handler /\ h \in Getters
    BY <1>2 DEF Get, Getters
  <2>c. Cardinality(Getters) \in Nat /\ Cardinality(Getters \ {h}) = Cardinality(Getters) - 1
    BY <2>0, HandlersFinite
  <2>1. CASE idle = <<>>
    <3>1. idle' = idle /\ conn' = conn /\ pc' = [pc EXCEPT ![h] = "asleep"]
      BY <1>2, <2>1 DEF Get
    <3>2. PoolType' /\ Getters' \subseteq Handler
      BY <1>t, <3>1 DEF PoolType, Getters
    <3>3. Cardinality(Getters') \in Nat /\ Len(idle') = 0
      BY <2>1, <3>1, <3>2, HandlersFinite
    <3> QED
      BY <3>2, <3>3 DEF PoolInv, Matched
  <2>2. CASE idle # <<>>
    <3>1. /\ idle' = SubSeq(idle, 1, Len(idle) - 1) /\ pc' = [pc EXCEPT ![h] = "check"]
          /\ conn' = [conn EXCEPT ![h] = idle[Len(idle)]]
      BY <1>2, <2>2 DEF Get, Front, Last
    <3>2. Len(idle) \in Nat \ {0} /\ idle \in Seq(Connection)
      BY <1>t, <2>2 DEF PoolType
    <3>3. idle' \in Seq(Connection) /\ Len(idle') = Len(idle) - 1 /\ idle[Len(idle)] \in Connection
      <4> DEFINE n == Len(idle) - 1
      <4>1. n \in Int /\ 1 \in Int /\ \A i \in 1 .. Len(idle) : idle[i] \in Connection
        BY <3>2
      <4>2. \A i \in 1 .. n : idle[i] \in Connection
        BY <3>2, <4>1
      <4>3. /\ SubSeq(idle, 1, n) \in Seq(Connection)
            /\ Len(SubSeq(idle, 1, n)) = IF 1 <= n THEN n - 1 + 1 ELSE 0
        <5> HIDE DEF n
        <5> QED
          BY <4>1, <4>2, SubSeqProperties
      <4>4. idle' = SubSeq(idle, 1, n) /\ n \in Nat
        BY <3>1, <3>2
      <4>5. idle[Len(idle)] \in Connection
        BY <3>2, <4>1
      <4>6. idle' \in Seq(Connection) /\ Len(idle') = n
        <5> HIDE DEF n
        <5> QED
          BY ONLY <4>3, <4>4
      <4> QED
        BY <4>5, <4>6
    <3>4. PoolType'
      BY <1>t, <3>1, <3>3 DEF PoolType
    <3>5. Getters' = Getters \ {h} /\ Asleep' = Asleep
      <4>1. pc[h] = "get" /\ \A g \in Handler : pc'[g] = IF g = h THEN "check" ELSE pc[g]
        BY <1>2, <1>t, <3>1 DEF PoolType, Get
      <4> QED
        BY <4>1 DEF Getters, Asleep
    <3> QED
      BY <1>t, <2>c, <3>3, <3>4, <3>5 DEF PoolInv, Matched
  <2> QED
    BY <2>1, <2>2
<1>3. ASSUME NEW h \in Handler, Check(h) \/ Exec(h) PROVE PoolInv'
  <2>1. PICK l \in {"run", "off", "give"} :
          pc' = [pc EXCEPT ![h] = l] /\ pc[h] \in {"check", "run"} /\ idle' = idle
    BY <1>3 DEF Check, Exec
  <2>2. conn' \in [Handler -> Connection]
    BY <1>3, <1>t DEF Check, Exec, PoolType, Connection
  <2>3. PoolType'
    BY <1>t, <2>1, <2>2 DEF PoolType
  <2> QED
    BY <1>s, <1>t, <2>1, <2>3 DEF PoolType
<1>4. ASSUME NEW h \in Handler, GiveBack(h) PROVE PoolInv'
  <2>1. /\ pc[h] = "give" /\ pc' = [pc EXCEPT ![h] = "notify"]
        /\ idle' = Append(idle, conn[h]) /\ conn' = [conn EXCEPT ![h] = None]
    BY <1>4 DEF GiveBack
  <2>2. idle' \in Seq(Connection) /\ Len(idle') = Len(idle) + 1
    BY <1>t, <2>1 DEF PoolType
  <2>3. PoolType'
    BY <1>t, <2>1, <2>2 DEF PoolType, Connection
  <2>4. /\ Getters \subseteq Getters' /\ h \in Getters' \ Getters /\ Asleep' = Asleep
        /\ Getters' \subseteq Handler /\ Getters \subseteq Handler
    BY <1>t, <2>1 DEF Getters, Asleep, PoolType
  <2>5. /\ Cardinality(Getters) + 1 <= Cardinality(Getters')
        /\ Cardinality(Getters) \in Nat /\ Cardinality(Getters') \in Nat
    <3>1. \A T \in SUBSET (Getters') : \A x \in Getters' \ T :
            Cardinality(T) + 1 <= Cardinality(Getters')
      BY <2>4, HandlersFinite
    <3>2. Cardinality(Getters) \in Nat /\ Cardinality(Getters') \in Nat
      BY <2>4, HandlersFinite
    <3> QED
      BY <2>4, <3>1, <3>2
  <2> QED
    BY <1>t, <2>2, <2>3, <2>4, <2>5 DEF PoolInv, Matched
<1>n. ASSUME NEW h \in Handler, Notify(h) PROVE PoolInv'
  <2>1. PICK woken \in Notified :
          pc' = [g \in Handler |->
            IF g \in woken THEN "get"
            ELSE IF g = h THEN IF result[h] = "again" THEN "get" ELSE "off" ELSE pc[g]]
    BY <1>n DEF Notify
  <2>2. pc[h] = "notify" /\ idle' = idle /\ conn' = conn
    BY <1>n DEF Notify
  <2>3. PoolType'
    BY <1>t, <2>1, <2>2 DEF PoolType
  <2>4. CASE Asleep = {}
    <3>1. Asleep' = {}
      BY <2>1, <2>4 DEF Asleep, Notified
    <3> QED
      BY <2>3, <3>1 DEF PoolInv, Matched
  <2>5. CASE Asleep # {}
    <3>1. PICK g \in Asleep : woken = {g}
      BY <2>1, <2>5 DEF Notified
    <3>2. /\ Getters \ {h} \subseteq Getters' /\ g \in Getters' \ (Getters \ {h})
          /\ Getters' \subseteq Handler /\ Getters \subseteq Handler /\ h \in Getters
      BY <2>1, <2>2, <3>1 DEF Getters, Asleep
    <3>3. /\ Cardinality(Getters \ {h}) + 1 <= Cardinality(Getters')
          /\ Cardinality(Getters \ {h}) = Cardinality(Getters) - 1
          /\ Cardinality(Getters) \in Nat /\ Cardinality(Getters') \in Nat
      <4>1. \A T \in SUBSET (Getters') : \A x \in Getters' \ T :
              Cardinality(T) + 1 <= Cardinality(Getters')
        BY <3>2, HandlersFinite
      <4>2. /\ Cardinality(Getters) \in Nat /\ Cardinality(Getters') \in Nat
            /\ Cardinality(Getters \ {h}) = Cardinality(Getters) - 1
        BY <3>2, HandlersFinite
      <4> QED
        BY <3>2, <4>1, <4>2
    <3>4. Cardinality(Getters) >= Len(idle)
      BY <2>5 DEF PoolInv, Matched
    <3>5. Cardinality(Getters') >= Len(idle')
      BY <1>t, <2>2, <3>3, <3>4
    <3> QED
      BY <2>3, <3>5 DEF PoolInv, Matched
  <2> QED
    BY <2>4, <2>5
<1>5. CASE Disconnect
  <2>1. idle' = [i \in DOMAIN idle |-> Stale(idle[i])] /\ conn' = [h \in Handler |-> Stale(conn[h])]
        /\ pc' = pc
    BY <1>5 DEF Disconnect
  <2>2. \A x \in Connection : Stale(x) \in Connection
    BY DEF Stale, Connection
  <2>3. idle \in Seq(Connection) /\ DOMAIN idle = 1 .. Len(idle)
    BY <1>t DEF PoolType
  <2>4. idle' \in Seq(Connection) /\ Len(idle') = Len(idle)
    BY <1>t, <2>1, <2>2, <2>3
  <2>5. PoolType'
    BY <1>t, <2>1, <2>2, <2>4 DEF PoolType
  <2> QED
    BY <1>t, <2>1, <2>4, <2>5, MoreGetters DEF PoolInv
<1>6. CASE Start \/ Rest \/ UNCHANGED vars
  <2>1. idle' = idle /\ conn' = conn /\ pc' = pc
    BY <1>6 DEF Start, Rest, vars
  <2>2. PoolType'
    BY <1>t, <2>1 DEF PoolType
  <2> QED
    BY <1>s, <2>1, <2>2
<1> QED
  BY <1>1, <1>2, <1>3, <1>4, <1>n, <1>5, <1>6 DEF Next, Call, Retry, Step, Bounce, Stop

\* give_back's notify_one is enough: no connection stays idle while a handler sleeps
\* with nobody on the way to take it, for every pool size and number of handlers.
THEOREM NoWakeupLost == Spec => []NoLostWakeup
<1>1. PoolInv => NoLostWakeup
  <2> SUFFICES ASSUME PoolInv, Asleep # {}, idle # <<>> PROVE \E h \in Handler : pc[h] \in {"get", "notify"}
    BY DEF NoLostWakeup
  <2>1. Len(idle) \in Nat \ {0}
    BY DEF PoolInv, PoolType
  <2>2. Cardinality(Getters) >= Len(idle) /\ Cardinality(Getters) \in Nat
    BY HandlersFinite DEF PoolInv, Matched, Getters
  <2>3. ASSUME Getters = {} PROVE FALSE
    <3>1. Cardinality(Getters) = 0
      BY <2>3, FS_EmptySet
    <3> QED
      BY <2>1, <2>2, <3>1
  <2> QED
    BY <2>3 DEF Getters
<1> QED
  BY <1>1, InitPool, StepPool, PTL DEF Spec
=============================================================================
