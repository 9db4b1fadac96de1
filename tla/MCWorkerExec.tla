---------------------------- MODULE MCWorkerExec ----------------------------
(***************************************************************************)
(* Two slots of a worker, or two jobs of dcc.  A child writes one chunk to *)
(* stdout and two to stderr; a pipe holds one.                             *)
(***************************************************************************)
EXTENDS WorkerExec

MCVolume == [k \in {"out", "err"} |-> IF k = "out" THEN 1 ELSE 2]
=============================================================================
