------------------------------ MODULE MCKeepAlive ------------------------------
(* The keep-alive alone, with the fairness of the loop. *)
EXTENDS KeepAlive, TLC

===============================================================================
