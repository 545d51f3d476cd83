----------------------------- MODULE MCSchemaUpdate -----------------------------
(***************************************************************************)
(* An application with two threads and its extension, which share a file   *)
(* and may each be of any of the versions below.                           *)
(***************************************************************************)
EXTENDS SchemaUpdate, TLC

CONSTANTS app, extension, a1, a2, e1, one, wide, two, forgot, same,
          Project, Place

MCProcessOf == (a1 :> app) @@ (a2 :> app) @@ (e1 :> extension)

MCVersionOf == (one :> 1) @@ (wide :> 1) @@ (two :> 2) @@ (forgot :> 2) @@ (same :> 2)

Prop(n, k) == [name |-> n, kind |-> k]

First == Project :> <<Prop("name", "string"), Prop("date", "string")>>

\* wide has one more class and no new version; two replaces a property; forgot
\* also makes one optional, without a version of its own; same only has data to
\* change.
MCTargetOf ==
  (one :> First) @@
  (wide :> (First @@ Place :> <<Prop("name", "string")>>)) @@
  (two :> (Project :> <<Prop("date", "string"), Prop("price", "int")>>)) @@
  (forgot :> (Project :> <<Prop("date", "string?"), Prop("price", "int")>>)) @@
  (same :> First)

Threads == Permutations({a1, a2})
=================================================================================
