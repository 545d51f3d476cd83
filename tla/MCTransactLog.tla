----------------------------- MODULE MCTransactLog -----------------------------
(* TransactLog, for the runs. *)
EXTENDS TransactLog
=================================================================================
