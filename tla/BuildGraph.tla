----------------------------- MODULE BuildGraph -----------------------------
(***************************************************************************)
(* What the coordinator promises of builds, without workers, leases, locks *)
(* or attempts: a task is open (somebody may run it) exactly when all its  *)
(* deps are finished, finished and failed tasks stay so, and a build is    *)
(* called done when everything is finished, failed when something failed.  *)
(***************************************************************************)
EXTENDS Naturals

CONSTANTS Build, Task, BuildOf, Deps

VARIABLES
  status,   \* absent, waiting, open, finished, failed
  verdict   \* none, running, done, failed

vars == <<status, verdict>>

Rows(b) == {t \in Task : BuildOf[t] = b}
Done == {t \in Task : status[t] = "finished"}

Init ==
  /\ status = [t \in Task |-> "absent"]
  /\ verdict = [b \in Build |-> "none"]

\* What a build in verdict v may be called once its tasks are as st says; it may
\* also be judged later.
Judgements(b, v, st) ==
  {v} \cup {x \in {"done", "failed"} : v = "running"
              /\ IF x = "done" THEN \A t \in Rows(b) : st[t] = "finished"
                               ELSE \E t \in Rows(b) : st[t] = "failed"}

\* The builds of B may be judged on the new status, the others are left alone.
Judge(B) ==
  /\ verdict' \in [Build -> {"none", "running", "done", "failed"}]
  /\ \A b \in Build : verdict'[b] \in
       IF b \in B THEN Judgements(b, verdict[b], status') ELSE {verdict[b]}

\* F is finished from the start, by the cache.
Submit(b) ==
  /\ verdict[b] = "none"
  /\ \E F \in SUBSET Rows(b) :
       /\ \A t \in F : Deps[t] \subseteq F
       /\ status' = [t \in Task |->
            IF t \notin Rows(b) THEN status[t]
            ELSE IF t \in F THEN "finished"
            ELSE IF Deps[t] \subseteq F THEN "open" ELSE "waiting"]
  /\ \E v \in Judgements(b, "running", status') : verdict' = [verdict EXCEPT ![b] = v]

\* t is run; F is what the cache finishes in its wake.
Finish(t) ==
  /\ status[t] = "open"
  /\ \E F \in SUBSET Rows(BuildOf[t]) :
       /\ \A u \in F : status[u] = "waiting" /\ Deps[u] \subseteq Done \cup F \cup {t}
       /\ status' = [u \in Task |->
            IF u \in F \cup {t} THEN "finished"
            ELSE IF status[u] = "waiting" /\ Deps[u] \subseteq Done \cup F \cup {t}
            THEN "open" ELSE status[u]]
  /\ Judge({BuildOf[t]})

\* The reaper may fail several tasks at once.
Fail(S) ==
  /\ S # {}
  /\ \A t \in S : status[t] = "open"
  /\ status' = [t \in Task |-> IF t \in S THEN "failed" ELSE status[t]]
  /\ Judge({BuildOf[t] : t \in S})

JudgeLater == UNCHANGED status /\ Judge(Build)

Next ==
  \/ \E b \in Build : Submit(b)
  \/ \E t \in Task : Finish(t)
  \/ \E S \in SUBSET Task : Fail(S)
  \/ JudgeLater

Spec == Init /\ [][Next]_vars
=============================================================================
