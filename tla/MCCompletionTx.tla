--------------------------- MODULE MCCompletionTx ---------------------------
(***************************************************************************)
(* Small graphs for CompletionTx.  Transactions are numbered like the tasks*)
(* they report; transaction 100 + t is a second report of task t.          *)
(***************************************************************************)
EXTENDS CompletionTx

\* Source 1 in two binaries.
TwoBinaries == [t \in 1 .. 3 |-> IF t = 1 THEN {} ELSE {1}]

\* Library 3 of source 1 goes into 6 and library 4 of source 2 into 5; 5 also has
\* source 1 and 6 source 2, so cascades lock in opposite orders; 7 links both.
Crossed == [t \in 1 .. 7 |->
  CASE t = 3 -> {1} [] t = 4 -> {2} [] t = 5 -> {1, 4} [] t = 6 -> {2, 3}
    [] t = 7 -> {5, 6} [] OTHER -> {}]

MCTaskOf == [x \in Tx |-> IF x > 100 THEN x - 100 ELSE x]
=============================================================================
