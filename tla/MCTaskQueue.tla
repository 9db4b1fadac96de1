----------------------------- MODULE MCTaskQueue -----------------------------
(***************************************************************************)
(* Small instances of TaskQueue.  A task is <<b, n>>, task n of build b:   *)
(* task 3 of a build archives the build's compile tasks, the others compile*)
(* source n.  Builds with the same sources have the same keys, so they     *)
(* race for the cache.                                                     *)
(***************************************************************************)
EXTENDS TaskQueue, TLC

CONSTANTS w1, w2, s1, s2

OneBuild == {1} \X {1, 2, 3}
TwinBuilds == {1, 2} \X {1, 3}

\* The archiver of build 2 fails on its machine if it has to run at all.
SecondArchive == {<<2, 3>>}


MCBuildOf == [t \in Task |-> t[1]]
MCCompile == {t \in Task : t[2] # 3}
MCDeps == [t \in Task |-> IF t[2] = 3 THEN {u \in MCCompile : u[1] = t[1]} ELSE {}]
MCRank == [t \in Task |-> t[2]]
MCKey == [t \in Task |-> IF t[2] = 3 THEN <<"ar", {u[2] : u \in MCDeps[t]}>>
                         ELSE <<"cc", {t[2]}>>]
MCOutput == [t \in Task |-> <<"out", MCKey[t]>>]
MCInput == [t \in MCCompile |-> <<"text", t[2]>>]
MCWorkerOf == [s \in Slot |-> IF s = s1 THEN w1 ELSE w2]
MCToolchain == [x \in Build \cup Worker |-> "gcc"]

\* The two workers, each with its slot, are interchangeable.
SwapWorkers == {[x \in {w1, w2, s1, s2} |-> x],
                (w1 :> w2) @@ (w2 :> w1) @@ (s1 :> s2) @@ (s2 :> s1)}
=============================================================================
