----------------------------- MODULE MCLongPoll -----------------------------
(***************************************************************************)
(* Two rows, meant for different partitions if there are two.              *)
(***************************************************************************)
EXTENDS LongPoll

CONSTANTS r1, r2

MCWish == [r \in Row |-> IF r = r1 THEN 0 ELSE 1]
=============================================================================
