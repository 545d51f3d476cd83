------------------------------ MODULE VersionedFile ------------------------------
(***************************************************************************)
(* What the transactions of a Realm promise, whatever the notification     *)
(* machinery around them does: one file whose versions only grow, at most  *)
(* one writer at a time, every Realm reading a snapshot that never goes    *)
(* back, and a write that always starts from the latest snapshot, so that  *)
(* no commit overwrites another one unseen.                                *)
(***************************************************************************)
EXTENDS Integers

CONSTANTS Realms,   \* the Realm instances, one per thread
          none      \* nobody writes

VARIABLES latest,   \* the newest version of the file
          writer,   \* the Realm in a write transaction, or none
          rv        \* rv[r]: the version that Realm r reads

vfvars == <<latest, writer, rv>>

VFInit == latest = 1 /\ writer = none /\ rv = [r \in Realms |-> 1]

\* A write transaction begins: it sees everything committed so far.
VFBegin(r) ==
  /\ writer = none
  /\ writer' = r
  /\ rv' = [rv EXCEPT ![r] = latest]
  /\ UNCHANGED latest

\* The writer makes the next version, and reads it.
VFCommit(r) ==
  /\ writer = r
  /\ latest' = latest + 1
  /\ writer' = none
  /\ rv' = [rv EXCEPT ![r] = latest']

\* The writer gives up; the file is as it was.
VFCancel(r) ==
  /\ writer = r
  /\ writer' = none
  /\ UNCHANGED <<latest, rv>>

\* A Realm that is not writing moves its snapshot forward.
VFAdvance(r) ==
  /\ writer # r
  /\ \E v \in rv[r] .. latest : rv' = [rv EXCEPT ![r] = v]
  /\ UNCHANGED <<latest, writer>>

VFNext == \E r \in Realms : VFBegin(r) \/ VFCommit(r) \/ VFCancel(r) \/ VFAdvance(r)

VFSpec == VFInit /\ [][VFNext]_vfvars

---------------------------------------------------------------------------------
\* A writer works on the latest snapshot, and nobody reads a version that does
\* not exist: the reason no update is lost (promote_to_write advances under the
\* write lock).
NoLostUpdate ==
  /\ \A r \in Realms : rv[r] <= latest
  /\ writer \in Realms => rv[writer] = latest

\* Snapshots and the file never go back, and the snapshot of a write in progress
\* stays where it is until the write ends.
OnlyForward ==
  [][/\ latest' \in {latest, latest + 1}
     /\ \A r \in Realms : rv'[r] >= rv[r]
     /\ writer \in Realms /\ writer' = writer => rv'[writer] = rv[writer]]_vfvars
=================================================================================
