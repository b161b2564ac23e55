----------------------------- MODULE MCDataStream -----------------------------
(* An instance of DataStream for TLC: two sending tasks and one replay. *)
EXTENDS DataStream

CONSTANTS p1, p2, r1

===============================================================================
