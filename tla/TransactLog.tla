------------------------------ MODULE TransactLog ------------------------------
(***************************************************************************)
(* The log of a write transaction of Realm: what TransactLogConvenientEncoder *)
(* writes when objects and their lists change, what TransactReverser makes *)
(* of it when the transaction is cancelled, and what TransactLogObserver   *)
(* and KVOAdapter tell the observers of an object when the log is read.    *)
(*                                                                         *)
(* A row has a column with a value and a column with a list; id is which   *)
(* object it is.  Lists are written in the first table only, through       *)
(* accessors (LinkView), which follow their row.  The encoder compares the *)
(* address of an accessor with the one it selected last: an address may be *)
(* used again by another accessor.                                         *)
(***************************************************************************)
EXTENDS ChangeSets

CONSTANTS
  Addresses,    \* of accessors of lists
  MaxTables, MaxRows, MaxLinks,   \* bounds on the group
  StartRows, StartLinks,   \* bounds: rows of the first table, entries of lists at the start
  MaxWrites,    \* bound: changes, in all transactions
  MaxBefore,    \* bound: changes before the last transaction
  MaxMoves      \* bound: entries moved within lists

ASSUME LogAssumption ==
  /\ Addresses \subseteq Nat \ {0}
  /\ StartRows \subseteq 0 .. MaxRows /\ StartLinks \subseteq 0 .. MaxLinks
  /\ {MaxTables, MaxRows, MaxLinks, MaxWrites, MaxBefore, MaxMoves} \subseteq Nat

VARIABLES
  base,       \* the group when the transaction began
  group,      \* the group now: a sequence of tables, which are sequences of rows
  writing,    \* whether a transaction is on
  views,      \* views[a]: the object whose list the accessor at a is of, or none
  selTable,   \* m_selected_table, or none
  selList,    \* m_selected_link_list, or none
  log,        \* the instructions of the transaction
  moved, writes

vars == <<base, group, writing, views, selTable, selList, log, moved, writes>>

none == 0

Row(id, v, links) == [id |-> id, value |-> v, links |-> links]
Places(s) == 0 .. Len(s) - 1
IdsOf(g) == UNION {{g[t][i].id : i \in DOMAIN g[t]} : t \in DOMAIN g}
Swapped(s, i, j) == [s EXCEPT ![i + 1] = s[j + 1], ![j + 1] = s[i + 1]]
RowOf(table, id) == (CHOOSE i \in DOMAIN table : table[i].id = id) - 1

Init ==
  \E n \in StartRows : \E k \in [1 .. n -> StartLinks] :
    /\ LET first == [i \in 1 .. n |-> Row(i, 0, [j \in 1 .. k[i] |-> j])]
       IN base = <<first>> \/ base = <<first, <<Row(n + 1, 0, <<>>)>> >>
    /\ group = base
    /\ writing = FALSE
    /\ views = [a \in Addresses |-> none]
    /\ selTable = none /\ selList = none
    /\ log = <<>>
    /\ moved = 0 /\ writes = 0

---------------------------------------------------------------------------------
(* The encoder. *)

Instr(op, x, y) == [op |-> op, x |-> x, y |-> y]

\* select_table: the instruction, unless this table is selected.
SelectTable(t) == IF selTable = t THEN <<>> ELSE <<Instr("table", t, 0)>>

\* select_link_list: the accessor at a, of the list of a row of the first table.
SelectList(a, id) ==
  IF selList = a THEN <<>>
  ELSE SelectTable(1) \o <<Instr("list", RowOf(group[1], id), 0)>>

\* A change of the table t, which makes it newTable.
WriteTable(t, newTable, instr) ==
  /\ writing /\ writes < MaxWrites
  /\ group' = [group EXCEPT ![t] = newTable]
  /\ log' = log \o SelectTable(t) \o <<instr>>
  /\ selTable' = t
  /\ selList' = none
  /\ writes' = writes + 1
  /\ UNCHANGED <<base, writing, moved>>

\* get_linklist: the accessor the row has, or a new one at an address that is free.
AddressFor(id) ==
  LET has == {a \in Addresses : views[a] = id} IN
  IF has # {} THEN has ELSE {a \in Addresses : views[a] = none /\ \A b \in Addresses : b < a => views[b] # none}

\* A change of the list of a row.
WriteList(id, newLinks, instr) ==
  /\ writing /\ writes < MaxWrites
  /\ \E a \in AddressFor(id) :
       /\ group' = [group EXCEPT ![1][RowOf(group[1], id) + 1].links = newLinks]
       /\ log' = log \o SelectList(a, id) \o <<instr>>
       /\ views' = [views EXCEPT ![a] = id]
       /\ selTable' = IF selList = a THEN selTable ELSE 1
       /\ selList' = a
  /\ writes' = writes + 1
  /\ UNCHANGED <<base, writing>>

---------------------------------------------------------------------------------
(* Accessors of lists. *)

\* Mutation of WithoutList: a destroyed accessor stays selected.
StaysSelected(gone) == selList

\* on_link_list_destroyed, of the accessors at the addresses gone.
WithoutList(gone) == IF selList \in gone THEN none ELSE selList

Drop ==
  \E a \in Addresses :
    /\ views[a] # none
    /\ views' = [views EXCEPT ![a] = none]
    /\ selList' = WithoutList({a})
    /\ UNCHANGED <<base, group, writing, selTable, log, moved, writes>>

\* The accessors of rows that are gone are detached.
Detached(ids) == [a \in Addresses |-> IF views[a] \in ids THEN none ELSE views[a]]

---------------------------------------------------------------------------------
(* Changes of tables. *)

NewId == CHOOSE i \in 1 .. 2 * MaxRows + MaxWrites + 2 :
           i \notin IdsOf(group) \cup IdsOf(base) /\ \A j \in 1 .. i - 1 : j \in IdsOf(group) \cup IdsOf(base)

AddTable ==
  /\ writing /\ writes < MaxWrites /\ Len(group) < MaxTables
  /\ group' = Append(group, <<>>)
  /\ log' = Append(log, Instr("addTable", Len(group) + 1, 0))
  /\ selTable' = none /\ selList' = none
  /\ writes' = writes + 1
  /\ UNCHANGED <<base, writing, views, moved>>

InsertRow ==
  \E t \in DOMAIN group :
    /\ Len(group[t]) < MaxRows
    /\ WriteTable(t, Append(group[t], Row(NewId, 0, <<>>)), Instr("insert", Len(group[t]), Len(group[t])))
    /\ UNCHANGED views

SetValue ==
  \E t \in DOMAIN group : \E r \in Places(group[t]) :
    /\ WriteTable(t, [group[t] EXCEPT ![r + 1].value = @ + 1], Instr("set", r, group[t][r + 1].value + 1))
    /\ UNCHANGED views

MoveLastOver ==
  \E t \in DOMAIN group : \E r \in Places(group[t]) :
    /\ WriteTable(t, RemoveBySwap(group[t], r + 1), Instr("erase", r, Len(group[t])))
    /\ views' = Detached({group[t][r + 1].id})

ClearTable ==
  \E t \in DOMAIN group :
    /\ group[t] # <<>>
    /\ WriteTable(t, <<>>, Instr("clear", Len(group[t]), 0))
    /\ views' = Detached({group[t][i].id : i \in DOMAIN group[t]})

SwapRows ==
  \E t \in DOMAIN group : \E r, s \in Places(group[t]) :
    /\ r < s
    /\ WriteTable(t, Swapped(group[t], r, s), Instr("swap", r, s))
    /\ UNCHANGED views

---------------------------------------------------------------------------------
(* Changes of a list.  New entries are 0, the ones it began with differ. *)

OnList(Change(_, _)) == \E i \in DOMAIN group[1] : Change(group[1][i].id, group[1][i].links)

LinkSet ==
  LET Change(id, links) == \E i \in Places(links) :
        WriteList(id, [links EXCEPT ![i + 1] = 0], Instr("linkSet", i, 0))
  IN OnList(Change) /\ UNCHANGED moved

LinkInsert ==
  LET Change(id, links) == \E i \in 0 .. Len(links) :
        Len(links) < MaxLinks /\ WriteList(id, InsertAt(links, i + 1, 0), Instr("linkInsert", i, 0))
  IN OnList(Change) /\ UNCHANGED moved

\* link_list_erase, and link_list_nullify when the target is deleted.
LinkErase ==
  LET Change(id, links) == \E i \in Places(links) :
        WriteList(id, RemoveAt(links, i + 1), Instr("linkErase", i, Len(links)))
  IN OnList(Change) /\ UNCHANGED moved

Carried(links, i, j) == InsertAt(RemoveAt(links, i + 1), j + 1, links[i + 1])

LinkMove ==
  LET Change(id, links) == \E i, j \in Places(links) :
        i # j /\ moved < MaxMoves /\ WriteList(id, Carried(links, i, j), Instr("linkMove", i, j))
  IN OnList(Change) /\ moved' = moved + 1

LinkSwap ==
  LET Change(id, links) == \E i, j \in Places(links) :
        i < j /\ WriteList(id, Swapped(links, i, j), Instr("linkSwap", i, j))
  IN OnList(Change) /\ UNCHANGED moved

LinkClear ==
  LET Change(id, links) ==
        links # <<>> /\ WriteList(id, <<>>, Instr("linkClear", Len(links), 0))
  IN OnList(Change) /\ UNCHANGED moved

---------------------------------------------------------------------------------
(* Transactions. *)

\* initiate_transact resets the selections.
Begin ==
  /\ ~writing /\ writes <= MaxBefore
  /\ writing' = TRUE
  /\ selTable' = none /\ selList' = none
  /\ UNCHANGED <<base, group, views, log, moved, writes>>

Commit ==
  /\ writing
  /\ writing' = FALSE
  /\ base' = group
  /\ log' = <<>>
  /\ UNCHANGED <<group, views, selTable, selList, moved, writes>>

\* rollback_and_continue_as_read: the accessors go back with their rows, those of
\* new rows are detached.
Cancel ==
  LET fresh == IdsOf(group) \ IdsOf(base) IN
  /\ writing
  /\ writing' = FALSE
  /\ group' = base
  /\ views' = Detached(fresh)
  /\ selList' = WithoutList({a \in Addresses : views[a] \in fresh})
  /\ log' = <<>>
  /\ UNCHANGED <<base, selTable, moved, writes>>

Next ==
  \/ Drop \/ AddTable \/ InsertRow \/ SetValue \/ MoveLastOver \/ ClearTable \/ SwapRows
  \/ LinkSet \/ LinkInsert \/ LinkErase \/ LinkMove \/ LinkSwap \/ LinkClear
  \/ Begin \/ Commit \/ Cancel

Spec == Init /\ [][Next]_vars

---------------------------------------------------------------------------------
(* TransactReverser: out are the instructions that undo, which are read from the *)
(* last to the first; a selection waits until the next one at its level.   *)

SyncList(r) == [r EXCEPT !.out = @ \o r.list, !.list = <<>>]
SyncTable(r) == [r EXCEPT !.out = @ \o r.list \o r.table, !.list = <<>>, !.table = <<>>]

\* Mutation of EraseUndone: the row is put where the removed one was, the others up.
EraseUndoneInOrder(row, size) == Instr("insert", row, size - 1)

\* The inverse of a row that went with the last one taking its place.
EraseUndone(row, size) == Instr("insertUnordered", row, size - 1)

Undone(in) ==
  CASE in.op = "insert" -> <<Instr("eraseOrdered", in.x, in.y + 1)>>
    [] in.op = "erase" -> <<EraseUndone(in.x, in.y)>>
    [] in.op = "clear" -> <<Instr("insertMany", 0, in.x)>>
    [] in.op = "linkInsert" -> <<Instr("linkErase", in.x, 0)>>
    [] in.op = "linkErase" -> <<Instr("linkInsert", in.x, 0)>>
    [] in.op = "linkClear" -> [i \in 1 .. in.x |-> Instr("linkInsert", in.x - i, 0)]
    [] OTHER -> <<in>>

ReverseOne(r, in) ==
  CASE in.op = "table" -> [SyncTable(r) EXCEPT !.table = <<in>>]
    [] in.op = "list" -> [SyncList(r) EXCEPT !.list = <<in>>]
    [] in.op = "addTable" ->
         LET s == SyncTable(r) IN [s EXCEPT !.out = Append(@, Instr("eraseTable", in.x, 0))]
    [] OTHER -> [r EXCEPT !.out = @ \o Undone(in)]

\* What ReversedNoCopyInputStream gives.
Reversed(instrs) ==
  Reverse(SyncTable(FoldLeft(ReverseOne, [out |-> <<>>, list |-> <<>>, table |-> <<>>], instrs)).out)

---------------------------------------------------------------------------------
(* TransactLogObserver.  observed are pairs of a table and a row; tables[t] are *)
(* the changes of the table t, for either column: they differ in what is   *)
(* modified.  A list says where the list of an observer is now.            *)

Columns == {"value", "links"}

Watched(observed) == {observed[k][1] : k \in DOMAIN observed}

Watching(observed) ==
  [watched |-> Watched(observed), table |-> none, list |-> none,
   tables |-> [t \in 1 .. MaxTables |-> [col \in Columns |-> NoChanges]],
   lists |-> SelectSeq([k \in DOMAIN observed |->
                          [table |-> observed[k][1], row |-> observed[k][2], of |-> k]],
                       LAMBDA l : l.table = 1),
   builders |-> [k \in DOMAIN observed |-> NoChanges]]

\* What a change of rows does to both columns of the selected table.
OnTable(s, Change(_)) ==
  IF s.table \notin s.watched THEN s
  ELSE [s EXCEPT !.tables[s.table] = [col \in Columns |-> Change(@[col])]]

MarkDirty(s, row, col) ==
  IF s.table \notin s.watched THEN s ELSE [s EXCEPT !.tables[s.table][col] = Modify(@, row)]

\* The lists of rows of the selected table are where To says.
ListsGo(s, To(_)) ==
  [s EXCEPT !.lists = [k \in DOMAIN @ |->
     IF @[k].table = s.table THEN [@[k] EXCEPT !.row = To(@)] ELSE @[k]]]

\* The last of lists that fits is the active one.
SelectLinkList(s, row) ==
  LET fits == {k \in DOMAIN s.lists : s.lists[k].table = s.table /\ s.lists[k].row = row}
  IN [MarkDirty(s, row, "links") EXCEPT
        !.list = IF fits = {} THEN none ELSE s.lists[Max(fits)].of]

\* Mutation of ListsAfterErase: a list does not follow its row.
ListsOfRowGone(s, row, last) ==
  SelectSeq(s.lists, LAMBDA l : l.table # s.table \/ l.row # row)

\* The loop of erase_rows: the list of the removed row is replaced by the last of
\* lists, which is not looked at; the list of the last row follows its row.
ListsAfterErase(s, row, last) ==
  LET Step(lists, i) ==
        IF i > Len(lists) \/ lists[i].table # s.table THEN lists
        ELSE IF lists[i].row = row THEN RemoveBySwap(lists, i)
        ELSE IF lists[i].row = last THEN [lists EXCEPT ![i].row = row]
        ELSE lists
  IN FoldLeft(Step, s.lists, [i \in DOMAIN s.lists |-> i])

InsertEmptyRow(s, row) ==
  LET Shifted(c) == Insert(c, row)
      To(r) == IF r >= row THEN r + 1 ELSE r
  IN ListsGo(OnTable(s, Shifted), To)

EraseRows(s, row, last) ==
  LET Moves(c) == MoveOver(c, row, last)
  IN [OnTable(s, Moves) EXCEPT !.lists = ListsAfterErase(s, row, last)]

SwapOfRows(s, low, high) ==
  LET Exchange(c) == Swap(c, low, high)
      To(r) == Exchanged(r, low, high)
  IN ListsGo(OnTable(s, Exchange), To)

ClearOfTable(s) ==
  LET Cleared(c) == Clear(c, 2 * MaxRows)
  IN [OnTable(s, Cleared) EXCEPT !.lists = SelectSeq(@, LAMBDA l : l.table # s.table)]

OnActiveList(s, Change(_)) ==
  IF s.list = none THEN s ELSE [s EXCEPT !.builders[s.list] = Change(@)]

\* An instruction of a list.
ChangeList(c, in) ==
  CASE in.op = "linkSet" -> Modify(c, in.x)
    [] in.op = "linkInsert" -> Insert(c, in.x)
    [] in.op = "linkErase" -> Erase(c, in.x)
    [] in.op = "linkMove" -> MoveEntry(c, in.x, in.y)
    [] in.op = "linkSwap" -> Modify(Modify(c, in.x), in.y)
    [] in.op = "linkClear" -> ClearList(c, in.x)

ListOps == {"linkSet", "linkInsert", "linkErase", "linkMove", "linkSwap", "linkClear"}

ObserveOne(s, in) ==
  CASE in.op = "table" -> [s EXCEPT !.table = in.x]
    [] in.op = "list" -> SelectLinkList(s, in.x)
    [] in.op = "addTable" -> [s EXCEPT !.table = none]
    [] in.op = "insert" -> InsertEmptyRow(s, in.x)
    [] in.op = "set" -> MarkDirty(s, in.x, "value")
    [] in.op = "erase" -> EraseRows(s, in.x, in.y - 1)
    [] in.op = "clear" -> ClearOfTable(s)
    [] in.op = "swap" -> SwapOfRows(s, in.x, in.y)
    [] in.op \in ListOps -> OnActiveList(s, LAMBDA c : ChangeList(c, in))

\* parse_complete.
Observe(instrs, observed) ==
  LET s == FoldLeft(ObserveOne, Watching(observed), instrs)
      kept == {s.lists[k].of : k \in DOMAIN s.lists}
  IN [s EXCEPT
        !.tables = [t \in DOMAIN @ |-> [col \in Columns |-> ParseComplete(@[t][col])]],
        !.builders = [k \in DOMAIN @ |-> IF k \in kept THEN CleanUpStaleMoves(@[k]) ELSE @[k]]]

---------------------------------------------------------------------------------
(* KVOAdapter::before: what the k-th observer is told. *)

Told(kind, indices) == [kind |-> kind, indices |-> indices]

\* Entries that moved, as entries that were set: those that were modified or went,
\* and those between that are not where they were, by a running shift.
Resettled(c) ==
  LET ends == c.del \cup c.ins
      Step(r, i) ==
        LET shift == IF i \in c.del THEN r.shift - 1
                     ELSE IF i + r.shift \in c.ins THEN r.shift + 1 ELSE r.shift
        IN [shift |-> shift, indices |-> r.indices \cup IF shift # 0 THEN {i} ELSE {}]
      range == [i \in 1 .. Max(ends) - Min(ends) + 1 |-> Min(ends) + i - 1]
  IN FoldLeft(Step, [shift |-> 0, indices |-> c.mod \cup c.del], range).indices

ToldOfList(builder) ==
  LET c == [builder EXCEPT !.mod = @ \ builder.ins]
      several == Cardinality({f \in {"ins", "mod", "del"} : c[f] # {}}) >= 2
  IN IF IsEmpty(builder) THEN Told("None", {})
     ELSE IF c.moves # <<>> /\ Cardinality(c.ins) = Len(c.moves) /\ Cardinality(c.del) = Len(c.moves)
       THEN Told("Set", Resettled(c))
     ELSE IF several THEN Told("SetAll", {})
     ELSE IF c.ins # {} THEN Told("Insert", c.ins)
     ELSE IF c.mod # {} THEN Told("Set", c.mod)
     ELSE Told("Remove", c.del)

\* Where the row is now, or npos: the moves, the removed, the shifted.
RowNow(c, row) ==
  LET on == {i \in DOMAIN c.moves : c.moves[i].from = row} IN
  IF on # {} THEN c.moves[CHOOSE i \in on : TRUE].to
  ELSE IF row \in c.del THEN npos
  ELSE Shift(c.ins, Unshift(c.del, row))

ToldOf(s, observed, k) ==
  LET table == s.tables[observed[k][1]]
      now == RowNow(table["value"], observed[k][2])
      Dirty(col) == now \in table[col].mod
  IN [invalidated |-> now = npos,
      value |-> now # npos /\ Dirty("value"),
      links |-> IF now # npos /\ (Dirty("value") \/ Dirty("links"))
                THEN ToldOfList(s.builders[k]) ELSE Told("None", {})]

---------------------------------------------------------------------------------
(* What an instruction means, with no accessors and no builders: a list is that of *)
(* the row that was selected, until a table is selected or its rows change. *)

Bare(g) == [t \in DOMAIN g |-> [i \in DOMAIN g[t] |-> [value |-> g[t][i].value, links |-> g[t][i].links]]]

MeantOfList(links, in) ==
  CASE in.op = "linkSet" -> [links EXCEPT ![in.x + 1] = in.y]
    [] in.op = "linkInsert" -> InsertAt(links, in.x + 1, in.y)
    [] in.op = "linkErase" -> RemoveAt(links, in.x + 1)
    [] in.op = "linkMove" -> Carried(links, in.x, in.y)
    [] in.op = "linkSwap" -> Swapped(links, in.x, in.y)
    [] in.op = "linkClear" -> <<>>

Meant(m, in) ==
  CASE in.op = "table" -> [m EXCEPT !.table = in.x, !.list = npos]
    [] in.op = "list" -> [m EXCEPT !.list = in.x]
    [] in.op = "addTable" -> [m EXCEPT !.rows = Append(@, <<>>), !.table = none, !.list = npos]
    [] in.op = "insert" ->
         [m EXCEPT !.rows[m.table] = Append(@, [value |-> 0, links |-> <<>>]), !.list = npos]
    [] in.op = "set" -> [m EXCEPT !.rows[m.table][in.x + 1].value = in.y, !.list = npos]
    [] in.op = "erase" -> [m EXCEPT !.rows[m.table] = RemoveBySwap(@, in.x + 1), !.list = npos]
    [] in.op = "clear" -> [m EXCEPT !.rows[m.table] = <<>>, !.list = npos]
    [] in.op = "swap" -> [m EXCEPT !.rows[m.table] = Swapped(@, in.x, in.y), !.list = npos]
    [] in.op \in ListOps -> [m EXCEPT !.rows[m.table][m.list + 1].links = MeantOfList(@, in)]

\* The instructions of the log, read by the tables and rows that were selected, make
\* of the group at the start the group of now: a selection that is left out, because
\* an accessor or a table is thought selected, is the one that is selected.
LogLeadsHere ==
  FoldLeft(Meant, [rows |-> Bare(base), table |-> none, list |-> npos], log).rows = Bare(group)

---------------------------------------------------------------------------------
\* What it means for an observer of a row of the group was, which is now g, to be
\* told right: of its end, of its value exactly if it differs, and of its list by
\* a change that makes the new entries of the old ones.
ToldRight(was, g, o, told) ==
  LET old == was[o[1]][o[2] + 1]
      t == g[o[1]]
      new == t[RowOf(t, old.id) + 1]
      Without(s, I) ==
        LET rest == SetToSortSeq(Places(s) \ I, <) IN [k \in DOMAIN rest |-> s[rest[k] + 1]]
      I == told.links.indices
  IN IF \A i \in DOMAIN t : t[i].id # old.id THEN told.invalidated
     ELSE /\ ~told.invalidated
          /\ told.value <=> new.value # old.value
          /\ CASE told.links.kind = "None" -> new.links = old.links
               [] told.links.kind = "SetAll" -> TRUE
               [] told.links.kind = "Insert" -> Without(new.links, I) = old.links
               [] told.links.kind = "Remove" -> Without(old.links, I) = new.links
               [] told.links.kind = "Set" ->
                    /\ Len(new.links) = Len(old.links)
                    /\ \A i \in Places(new.links) \ I : new.links[i + 1] = old.links[i + 1]

Observable(g) == UNION {{<<t, r>> : r \in Places(g[t])} : t \in DOMAIN g}

\* The observer of one object, in a Realm that reads the log when it advances to this
\* version, is told of its end, of its value and of its list as they are: through rows
\* that take the place of others, and for lists of few entries (two moves within a
\* list of four tell too little).
AdvanceTellsKvo ==
  \A o \in Observable(base) :
    ToldRight(base, group, o, ToldOf(Observe(log, <<o>>), <<o>>, 1))

\* Where the rows are after the instructions, which make new ones 0.
Placed(p, in) ==
  CASE in.op = "table" -> [p EXCEPT !.table = in.x]
    [] in.op = "eraseTable" -> [p EXCEPT !.rows = Front(@)]
    [] in.op = "eraseOrdered" -> [p EXCEPT !.rows[p.table] = RemoveAt(@, in.x + 1)]
    [] in.op = "insert" -> [p EXCEPT !.rows[p.table] = InsertAt(@, in.x + 1, 0)]
    [] in.op = "insertUnordered" ->
         [p EXCEPT !.rows[p.table] =
            IF in.x = Len(@) THEN Append(@, 0) ELSE Append(ReplaceAt(@, in.x + 1, 0), @[in.x + 1])]
    [] in.op = "insertMany" -> [p EXCEPT !.rows[p.table] = [i \in 1 .. in.y |-> 0] \o @]
    [] in.op = "swap" -> [p EXCEPT !.rows[p.table] = Swapped(@, in.x, in.y)]
    [] OTHER -> p

\* The log read backwards puts every row that is left, and so every accessor, back
\* to the table and the place it had when the transaction began.
CancelPutsRowsBack ==
  FoldLeft(Placed, [rows |-> [t \in DOMAIN group |-> [i \in DOMAIN group[t] |-> group[t][i].id]],
                    table |-> none], Reversed(log)).rows
  = [t \in DOMAIN base |-> [i \in DOMAIN base[t] |->
       IF base[t][i].id \in IdsOf(group) THEN base[t][i].id ELSE 0]]

=================================================================================
