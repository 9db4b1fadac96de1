--------------------------- MODULE MCIncremental ---------------------------
(***************************************************************************)
(* A C source that finds its header near or far, and a C++ source that only*)
(* looks far.  Contents 1 and 2 differ in a comment.                       *)
(***************************************************************************)
EXTENDS Incremental

MCSearch == [u \in Unit |-> IF u = "a" THEN <<"near", "far">> ELSE <<"far">>]
MCMeaning == [c \in Content \cup {0} |-> IF c = 2 THEN 1 ELSE c]

MCEdits == {<<"a", 2>>, <<"a", 3>>, <<"b", 2>>, <<"near", 1>>, <<"near", 0>>, <<"far", 3>>, <<"far", 0>>}
=============================================================================
