---------------------------- MODULE MCTableChanges -----------------------------
(* TableChanges, for the runs. *)
EXTENDS TableChanges
=================================================================================
