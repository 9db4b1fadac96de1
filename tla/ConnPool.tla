------------------------------ MODULE ConnPool ------------------------------
(***************************************************************************)
(* The pool of Postgres connections (db.h, db.cpp) and the handlers that   *)
(* borrow from it.  get() waits on a condition variable until a connection *)
(* is idle, takes the one given back last, and reconnects outside the lock *)
(* if libpq knows the connection is bad; a Lease gives it back.  libpq     *)
(* learns that the server went away only from a statement that fails, so a *)
(* connection is live, stale (dead, but ok() is true) or bad.              *)
(*                                                                         *)
(* The server may be restarted between two statements ("bounce"), be down  *)
(* for a while ("down") or refuse a statement on a connection that works   *)
(* ("refuse"); MaxOutages bounds how often, and MaxCalls how many calls a  *)
(* handler thread serves.                                                  *)
(***************************************************************************)
EXTENDS Naturals, Sequences, SequencesExt

CONSTANTS
  Handler,     \* the threads of the gRPC server and the reaper
  Size,        \* --db-pool
  MaxReruns,   \* how often transaction() runs a deadlock victim again
  MaxCalls,
  Outages, MaxOutages,
  None

ASSUME PoolAssumption ==
  /\ IsFiniteSet(Handler)
  /\ Size \in Nat \ {0} /\ {MaxReruns, MaxCalls, MaxOutages} \subseteq Nat

VARIABLES
  idle,      \* idle_
  pc,        \* off, get, asleep, check, run, give, notify
  conn,      \* the connection each handler has, or None
  result,    \* how its last statement went: ok, error or again
  reruns,    \* attempt in transaction()
  calls,     \* calls each handler has begun
  up,        \* the server accepts connections
  outages    \* outages so far

vars == <<idle, pc, conn, result, reruns, calls, up, outages>>

Init ==
  /\ idle = [i \in 1 .. Size |-> "live"]
  /\ pc = [h \in Handler |-> "off"]
  /\ conn = [h \in Handler |-> None]
  /\ result = [h \in Handler |-> "ok"]
  /\ reruns = [h \in Handler |-> 0]
  /\ calls = [h \in Handler |-> 0]
  /\ up = TRUE
  /\ outages = 0

Arrive(h) ==
  /\ pc[h] = "off"
  /\ pc' = [pc EXCEPT ![h] = "get"]
  /\ UNCHANGED <<idle, conn, result, reruns, up, outages>>

Call(h) ==
  /\ result[h] = "ok"
  /\ calls[h] < MaxCalls
  /\ calls' = [calls EXCEPT ![h] = @ + 1]
  /\ Arrive(h)

\* guarded() has answered UNAVAILABLE: with_retry calls again.
Retry(h) == result[h] = "error" /\ Arrive(h) /\ UNCHANGED calls

\* get() under the lock: take the last connection, or sleep.
Get(h) ==
  /\ pc[h] = "get"
  /\ IF idle = <<>>
     THEN /\ pc' = [pc EXCEPT ![h] = "asleep"]
          /\ UNCHANGED <<idle, conn>>
     ELSE /\ pc' = [pc EXCEPT ![h] = "check"]
          /\ conn' = [conn EXCEPT ![h] = Last(idle)]
          /\ idle' = Front(idle)
  /\ UNCHANGED <<result, reruns, calls, up, outages>>

\* Mutation: a bad connection is used as it is.
NeedsReconnectNever(c) == FALSE

\* !c->ok()
NeedsReconnect(c) == c = "bad"

\* get() after the unlock.  A reconnect that fails throws, and the connection
\* that was taken out of idle_ is in no Lease yet.
Check(h) ==
  /\ pc[h] = "check"
  /\ \/ /\ ~NeedsReconnect(conn[h])
        /\ pc' = [pc EXCEPT ![h] = "run"]
        /\ UNCHANGED <<conn, result, reruns>>
     \/ /\ NeedsReconnect(conn[h]) /\ up
        /\ pc' = [pc EXCEPT ![h] = "run"]
        /\ conn' = [conn EXCEPT ![h] = "live"]
        /\ UNCHANGED <<result, reruns>>
     \/ /\ NeedsReconnect(conn[h]) /\ ~up
        /\ pc' = [pc EXCEPT ![h] = "off"]
        /\ conn' = [conn EXCEPT ![h] = None]
        /\ result' = [result EXCEPT ![h] = "error"]
        /\ reruns' = [reruns EXCEPT ![h] = 0]
  /\ UNCHANGED <<idle, calls, up, outages>>

\* The handler's statements.  They work, or the connection turns out to be dead
\* and they throw, or (40P01, 40001) the transaction is rolled back to be rerun, or
\* they throw although the connection works, the last rerun among them.
Exec(h) ==
  /\ pc[h] = "run"
  /\ pc' = [pc EXCEPT ![h] = "give"]
  /\ \/ /\ conn[h] = "live"
        /\ result' = [result EXCEPT ![h] = "ok"]
        /\ UNCHANGED <<conn, reruns, outages>>
     \/ /\ conn[h] # "live"
        /\ result' = [result EXCEPT ![h] = "error"]
        /\ conn' = [conn EXCEPT ![h] = "bad"]
        /\ UNCHANGED <<reruns, outages>>
     \/ /\ conn[h] = "live" /\ reruns[h] < MaxReruns
        /\ result' = [result EXCEPT ![h] = "again"]
        /\ reruns' = [reruns EXCEPT ![h] = @ + 1]
        /\ UNCHANGED <<conn, outages>>
     \/ /\ conn[h] = "live" /\ "refuse" \in Outages /\ outages < MaxOutages
        /\ outages' = outages + 1
        /\ result' = [result EXCEPT ![h] = "error"]
        /\ UNCHANGED <<conn, reruns>>
  /\ UNCHANGED <<idle, calls, up>>

Asleep == {h \in Handler : pc[h] = "asleep"}

\* ~Lease and give_back: the connection is idle whatever happened to it.
GiveBack(h) ==
  /\ pc[h] = "give"
  /\ pc' = [pc EXCEPT ![h] = "notify"]
  /\ idle' = Append(idle, conn[h])
  /\ conn' = [conn EXCEPT ![h] = None]
  /\ UNCHANGED <<result, reruns, calls, up, outages>>

\* Mutation: nobody is told unless the pool was empty.
NotifiedIfEmpty == IF Asleep = {} \/ Len(idle) > 1 THEN {{}} ELSE {{g} : g \in Asleep}

\* Whom notify_one may wake.
Notified == IF Asleep = {} THEN {{}} ELSE {{g} : g \in Asleep}

\* give_back after the unlock.
Notify(h) ==
  /\ pc[h] = "notify"
  /\ \E woken \in Notified :
       pc' = [g \in Handler |->
         IF g \in woken THEN "get"
         ELSE IF g = h THEN IF result[h] = "again" THEN "get" ELSE "off" ELSE pc[g]]
  /\ reruns' = [reruns EXCEPT ![h] = IF result[h] = "again" THEN @ ELSE 0]
  /\ UNCHANGED <<idle, conn, result, calls, up, outages>>

-----------------------------------------------------------------------------
(* The server *)

Stale(c) == IF c = "live" THEN "stale" ELSE c

Disconnect ==
  /\ outages < MaxOutages
  /\ outages' = outages + 1
  /\ idle' = [i \in DOMAIN idle |-> Stale(idle[i])]
  /\ conn' = [h \in Handler |-> Stale(conn[h])]
  /\ UNCHANGED <<pc, result, reruns, calls>>

Bounce == "bounce" \in Outages /\ Disconnect /\ UNCHANGED up

Stop == "down" \in Outages /\ up /\ Disconnect /\ up' = FALSE

Start ==
  /\ ~up
  /\ up' = TRUE
  /\ UNCHANGED <<idle, pc, conn, result, reruns, calls, outages>>

-----------------------------------------------------------------------------
Step(h) == Get(h) \/ Check(h) \/ Exec(h) \/ GiveBack(h) \/ Notify(h)

Served(h) == pc[h] = "off" /\ result[h] = "ok"

\* Every call has been served, or every handler waits for a connection.
Rest ==
  /\ \A h \in Handler : (Served(h) /\ calls[h] = MaxCalls) \/ pc[h] = "asleep"
  /\ UNCHANGED vars

Next ==
  \/ \E h \in Handler : Call(h) \/ Retry(h) \/ Step(h)
  \/ Bounce \/ Stop \/ Start \/ Rest

\* Handlers run on, failed calls are retried, and the server comes back.
Fairness ==
  /\ \A h \in Handler : WF_vars(Step(h)) /\ WF_vars(Retry(h))
  /\ WF_vars(Start)

Spec == Init /\ [][Next]_vars /\ Fairness

-----------------------------------------------------------------------------
(* Properties *)

\* No wake-up is lost: if a connection is idle while somebody sleeps, somebody else
\* is on the way to take it or to call notify_one.
NoLostWakeup == Asleep # {} /\ idle # <<>> => \E h \in Handler : pc[h] \in {"get", "notify"}

Borrowed == {h \in Handler : conn[h] # None}

\* Reconnects that throw have used up the pool.
Drained == idle = <<>> /\ Borrowed = {}

\* As long as the pool has a connection left, every call is served, at once or
\* when it is retried, whatever became of the connections others gave back.
PoolServes == \A h \in Handler : pc[h] = "get" ~> Served(h) \/ Drained

\* design.md, "Postgres restarts": "Pool connections reconnect": once the server is
\* back, every call gets a connection that works, at once or when it is retried.
PoolRecovers == \A h \in Handler : pc[h] = "get" ~> Served(h)
=============================================================================
