------------------------------ MODULE TableChanges -----------------------------
(***************************************************************************)
(* A table, the results of a query on it, and what the callback of the     *)
(* results is going to be told: the instructions of the transaction log    *)
(* (TransactLogObserver), the run of the worker (ResultsNotifier::run),    *)
(* the merge of the runs until a delivery (add_changes) and the delivery.  *)
(*                                                                         *)
(* An object is an identity and a value: it matches the query if the value *)
(* is not 0, and sorted results are sorted by it.  given and ran are the   *)
(* objects of the results at the last delivery and at the last run; logged *)
(* and changed are those that were written since the last run, and between *)
(* the two: what the change sets are compared with.                        *)
(***************************************************************************)
EXTENDS ResultsDiff

CONSTANTS
  MaxRows,      \* bound: rows of the table
  MaxValue,     \* bound: values from 0
  MaxWrites,    \* bound: instructions of the log
  Swaps         \* whether rows are swapped (the app's own writes never do)

ASSUME TableAssumption ==
  MaxRows \in Nat /\ MaxValue \in Nat /\ MaxWrites \in Nat /\ Swaps \in BOOLEAN

VARIABLES inTableOrder, table, log, previous, acc, given, ran, logged, changed, writes

vars == <<inTableOrder, table, log, previous, acc, given, ran, logged, changed, writes>>

Values == 0 .. MaxValue
Object(id, v) == [id |-> id, value |-> v]
Ids(objects) == {objects[i].id : i \in DOMAIN objects}

\* The rows of the results: find_all and apply_descriptor_ordering; equal values
\* stay in the order of the table.
ResultsOf(objects, ordered) ==
  LET rows == {i \in Indices(objects) : objects[i + 1].value # 0}
      Before(i, j) ==
        \/ (ordered \/ objects[i + 1].value = objects[j + 1].value) /\ i < j
        \/ ~ordered /\ objects[i + 1].value < objects[j + 1].value
  IN SetToSortSeq(rows, Before)

Named(objects, rows) == [i \in DOMAIN rows |-> objects[rows[i] + 1].id]

Init ==
  \E n \in 0 .. MaxRows : \E v \in [1 .. n -> Values] :
    /\ inTableOrder \in BOOLEAN
    /\ table = [i \in 1 .. n |-> Object(i, v[i])]
    /\ log = NoChanges
    /\ previous = ResultsOf(table, inTableOrder)
    /\ acc = NoChanges
    /\ ran = Named(table, previous)
    /\ given = ran
    /\ logged = {} /\ changed = {}
    /\ writes = 0

---------------------------------------------------------------------------------
(* The instructions of the log. *)

Write(newTable, newLog, ids) ==
  /\ writes < MaxWrites
  /\ writes' = writes + 1
  /\ table' = newTable
  /\ log' = newLog
  /\ logged' = logged \cup ids
  /\ UNCHANGED <<inTableOrder, previous, acc, given, ran, changed>>

\* add_empty_row and the values of the new object.
Create ==
  \E v \in Values :
    LET used == Ids(table) \cup Range(ran) \cup Range(given)
        id == CHOOSE id \in 1 .. 3 * MaxRows : id \notin used /\ \A k \in 1 .. id - 1 : k \in used
        row == Len(table)
    IN /\ row < MaxRows
       /\ Write(Append(table, Object(id, v)), Modify(Insert(log, row), row), {id})

Set ==
  \E row \in Indices(table), v \in Values :
    Write([table EXCEPT ![row + 1].value = v], Modify(log, row), {table[row + 1].id})

\* move_last_over.
Delete ==
  \E row \in Indices(table) :
    Write(RemoveBySwap(table, row + 1), MoveOver(log, row, Len(table) - 1), {})

DeleteAll ==
  /\ table # <<>>
  /\ Write(<<>>, Clear(log, 2 * MaxRows), {})

SwapRows ==
  /\ Swaps
  /\ \E low, high \in Indices(table) :
       /\ low < high
       /\ Write([table EXCEPT ![low + 1] = table[high + 1], ![high + 1] = table[low + 1]],
                Swap(log, low, high), {})

---------------------------------------------------------------------------------
(* The notifier. *)

\* The worker has read the log; the results are computed and compared.
Run ==
  LET t == ParseComplete(log)
      next == ResultsOf(table, inTableOrder)
  IN /\ log # NoChanges
     /\ acc' = Merge(acc, Calculate(Moved(previous, t), next, t.mod, inTableOrder, t.ins))
     /\ previous' = next
     /\ log' = NoChanges
     /\ ran' = Named(table, next)
     /\ changed' = changed \cup logged
     /\ logged' = {}
     /\ UNCHANGED <<inTableOrder, table, given, writes>>

Deliver ==
  /\ ~IsEmpty(acc)
  /\ acc' = NoChanges
  /\ given' = ran
  /\ changed' = {}
  /\ UNCHANGED <<inTableOrder, table, log, previous, ran, logged, writes>>

Next == Create \/ Set \/ Delete \/ DeleteAll \/ SwapRows \/ Run \/ Deliver

Spec == Init /\ [][Next]_vars

---------------------------------------------------------------------------------
\* The comment of calculate's debug check, for the merged set as well: without
\* the removed indices the last given results are, in order, the new ones without
\* the inserted indices, so a table view that applies the set shows the results.
SetGivesResults ==
  LET Stayed(s, I) ==
        LET rest == SetToSortSeq(Indices(s) \ I, <) IN [k \in DOMAIN rest |-> s[rest[k] + 1]]
  IN Stayed(given, acc.del) = Stayed(ran, acc.ins)

\* An object that stayed is told as modified, with its old and with its new
\* index, exactly if it was written since the last delivery.
ModifiedAreTold ==
  LET told == Finalize(acc) IN
  /\ told.mod = {i \in Indices(given) \ acc.del : given[i + 1] \in changed}
  /\ told.modNew = {i \in Indices(ran) \ acc.ins : ran[i + 1] \in changed}

\* A move is of one object, which is removed where it was and inserted where it
\* is; no object moves twice.
MovesAreRight ==
  \A k \in DOMAIN acc.moves :
    LET m == acc.moves[k] IN
    /\ m.from \in acc.del /\ m.to \in acc.ins
    /\ given[m.from + 1] = ran[m.to + 1]
    /\ \A l \in DOMAIN acc.moves : acc.moves[l].from = m.from => l = k

=================================================================================
