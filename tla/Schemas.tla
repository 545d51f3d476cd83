--------------------------------- MODULE Schemas ---------------------------------
(***************************************************************************)
(* How the object store compares two schemas, changes the tables of a      *)
(* Realm file and finds the columns again (schema.cpp, object_store.cpp).  *)
(*                                                                         *)
(* The tables of a file are a function from classes to sequences of        *)
(* columns.  The schema of a Realm instance is a function from classes to  *)
(* sequences of properties, which remember the index of their column.  A   *)
(* kind is a type together with whether it is optional: changing either    *)
(* replaces the column.                                                    *)
(***************************************************************************)
EXTENDS Integers, Sequences, FiniteSets

\* A file whose metadata table was never written (uint64_t(-1) in the code).
NotVersioned == -1

\* The elements of q at the places kept, in their order.
Subsequence(q, kept) ==
  LET Rank(i) == Cardinality({j \in kept : j <= i})
  IN [k \in 1 .. Cardinality(kept) |-> q[CHOOSE i \in kept : Rank(i) = k]]

Names(props) == {props[i].name : i \in DOMAIN props}

\* The first column or property of that name.
IndexOf(props, n) ==
  CHOOSE i \in DOMAIN props :
    props[i].name = n /\ \A j \in DOMAIN props : props[j].name = n => i <= j

\* What the file says, every property with its column.
SchemaFromGroup(tables) ==
  [c \in DOMAIN tables |->
     [i \in DOMAIN tables[c] |->
        [name |-> tables[c][i].name, kind |-> tables[c][i].kind, column |-> i]]]

\* A schema takes the columns of another one; what the other does not have
\* keeps the column it has.
CopyTableColumns(schema, other) ==
  [c \in DOMAIN schema |->
     IF c \notin DOMAIN other THEN schema[c]
     ELSE [i \in DOMAIN schema[c] |->
             LET p == schema[c][i]
             IN IF p.name \notin Names(other[c]) THEN p
                ELSE [p EXCEPT !.column = other[c][IndexOf(other[c], p.name)].column]]]

---------------------------------------------------------------------------------
(* Comparing. *)

\* The properties of a class that both schemas have.
Shared(existing, target, c) ==
  {i \in DOMAIN existing[c] : existing[c][i].name \in Names(target[c])}

\* What has to change for a file with the schema existing to have the schema
\* target.  Classes that only the file has are left alone.
Compare(existing, target) ==
  LET both == DOMAIN existing \cap DOMAIN target
      Want(c, i) == target[c][IndexOf(target[c], existing[c][i].name)]
  IN [tables   |-> DOMAIN target \ DOMAIN existing,
      added    |-> [c \in both |->
                      Subsequence(target[c], {i \in DOMAIN target[c] :
                                                target[c][i].name \notin Names(existing[c])})],
      removed  |-> UNION {{<<c, existing[c][i].column>> :
                             i \in DOMAIN existing[c] \ Shared(existing, target, c)} : c \in both},
      replaced |-> UNION {{[class |-> c, at |-> existing[c][i].column, kind |-> Want(c, i).kind] :
                             i \in {j \in Shared(existing, target, c) :
                                      existing[c][j].kind # Want(c, j).kind}} : c \in both}]

NoProperties(changes) == \A c \in DOMAIN changes.added : changes.added[c] = <<>>

\* verify_no_changes_required, verify_no_migration_required,
\* verify_valid_additive_changes and verify_valid_external_changes let these pass.
NoChanges(changes) ==
  /\ changes.tables = {} /\ changes.removed = {} /\ changes.replaced = {}
  /\ NoProperties(changes)
NoMigrationRequired(changes) ==
  changes.removed = {} /\ changes.replaced = {} /\ NoProperties(changes)
ValidAdditive(changes) == changes.replaced = {}
ValidExternal(changes) == changes.removed = {} /\ changes.replaced = {}

---------------------------------------------------------------------------------
(* Changing the file. *)

Column(p) == [name |-> p.name, kind |-> p.kind]

Columns(props) == [i \in DOMAIN props |-> Column(props[i])]

\* New tables with their first columns; new columns come after the others.
Grown(tables, changes, target) ==
  [c \in DOMAIN tables \cup changes.tables |->
     LET have == IF c \in DOMAIN tables THEN tables[c] ELSE <<>>
     IN CASE c \in changes.tables -> have \o Columns(target[c])
          [] c \in DOMAIN changes.added -> have \o Columns(changes.added[c])
          [] OTHER -> have]

\* A column of the new kind is inserted at the place of the old one, which is
\* then removed behind it.
Replaced(tables, changes) ==
  [c \in DOMAIN tables |->
     [i \in DOMAIN tables[c] |->
        LET new == {x \in changes.replaced : x.class = c /\ x.at = i}
        IN IF new = {} THEN tables[c][i]
           ELSE [tables[c][i] EXCEPT !.kind = (CHOOSE x \in new : TRUE).kind]]]

\* The columns are removed from the last to the first, so that no index moves
\* before its turn.
Shrunk(tables, removed) ==
  [c \in DOMAIN tables |->
     Subsequence(tables[c], {i \in DOMAIN tables[c] : <<c, i>> \notin removed})]

\* The kinds of instructions a change of the tables leaves in the log.
Instructions(changes) ==
     (IF changes.tables = {} /\ NoProperties(changes) THEN {} ELSE {"insert"})
  \cup (IF changes.replaced = {} THEN {} ELSE {"insert", "erase"})
  \cup (IF changes.removed = {} THEN {} ELSE {"erase"})

=================================================================================
