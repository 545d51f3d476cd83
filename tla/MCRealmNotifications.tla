-------------------------- MODULE MCRealmNotifications --------------------------
(***************************************************************************)
(* The Realm of the main thread, with the observed Results, and the Realm  *)
(* of another thread that only writes.                                     *)
(***************************************************************************)
EXTENDS RealmNotifications

OwnedByMain == [n \in Notifiers |-> "main"]
=================================================================================
