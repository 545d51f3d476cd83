--------------------------- MODULE MCSyncSessions ---------------------------
(***************************************************************************)
(* Two threads of the application, one of which commits, and the client.   *)
(***************************************************************************)
EXTENDS SyncSessions
=============================================================================
