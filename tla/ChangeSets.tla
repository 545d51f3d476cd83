------------------------------- MODULE ChangeSets -------------------------------
(***************************************************************************)
(* The change sets of Realm: IndexSet and CollectionChangeBuilder of the   *)
(* object store, as operators.                                             *)
(*                                                                         *)
(* An IndexSet is a set of indices from 0; its chunks and ranges are       *)
(* representation only.  A change set from an old list to a new one has    *)
(*   del      indices of the old list that were removed,                   *)
(*   ins      indices of the new list that were inserted,                  *)
(*   mod      indices of the new list that were modified,                  *)
(*   moves    which removed index became which inserted one,               *)
(*   mapping  the same while the log of a table is being read              *)
(*            (m_move_mapping), before parse_complete.                     *)
(***************************************************************************)
EXTENDS Integers, Sequences, FiniteSets, SequencesExt

npos == -1

---------------------------------------------------------------------------------
(* IndexSet. *)

Count(S, lo, hi) == Cardinality({i \in S : lo <= i /\ i < hi})

\* The i-th index that is not in S.
Shift(S, i) ==
  CHOOSE j \in i .. i + Cardinality(S) : j \notin S /\ j - Count(S, 0, j) = i

\* What the index i, not in S, is without the indices of S.
Unshift(S, i) == i - Count(S, 0, i)

InsertedAt(S, P) == P \cup {Shift(P, i) : i \in S}
ShiftForInsertAt(S, P) == {Shift(P, i) : i \in S}
EraseAt(S, P) == {Unshift(P, i) : i \in S \ P}

\* Mutation of AddShiftedBy: the values are taken as they are.
AddUnshifted(S, by, values) == S \cup (values \ by)

AddShiftedBy(S, by, values) == S \cup {Shift(S, Unshift(by, i)) : i \in values \ by}

---------------------------------------------------------------------------------
(* The builder, while the transaction log of a table is read. *)

NoChanges == [del |-> {}, ins |-> {}, mod |-> {}, moves |-> <<>>, mapping |-> {}]

IsEmpty(c) == c.del = {} /\ c.ins = {} /\ c.mod = {} /\ c.moves = <<>>

Move(from, to) == [from |-> from, to |-> to]
NotTo(moves, I) == {m \in moves : m.to \notin I}

\* The place in the old list of row i, which is not inserted.
OldIndex(c, i) == Shift(c.del, Unshift(c.ins, i))

Modify(c, i) == [c EXCEPT !.mod = @ \cup {i}]

\* The place i is made in a list: what was there or after it is one further on.
MovedUp(m, i) == Move(m.from, IF m.to >= i THEN m.to + 1 ELSE m.to)

\* A row, or an entry of a list, is inserted at i.
Insert(c, i) ==
  [c EXCEPT !.mod = ShiftForInsertAt(@, {i}), !.ins = InsertedAt(@, {i}),
            !.moves = [k \in DOMAIN @ |-> MovedUp(@[k], i)],
            !.mapping = {MovedUp(m, i) : m \in @}]

\* What becomes of the row that takes the place: its move continues, if it has
\* one; a row that was in the old list starts to move.
MoveContinued(c, row, last) ==
  IF last \in c.ins THEN {Move(m.from, row) : m \in {m \in c.mapping : m.to = last}}
  ELSE {Move(OldIndex(c, last), row)}

\* move_over: the row goes and the last one takes its place.
MoveOver(c, row, last) ==
  LET moved == IF row = last THEN {} ELSE MoveContinued(c, row, last)
      gone == c.del \cup IF row = last \/ last \in c.ins THEN {} ELSE {OldIndex(c, last)}
  IN [c EXCEPT
       !.mod = (@ \ {row, last}) \cup IF row # last /\ last \in @ THEN {row} ELSE {},
       !.mapping = NotTo(@, {row, last}) \cup moved,
       !.del = gone \cup IF row \in c.ins THEN {} ELSE {Shift(gone, Unshift(c.ins, row))},
       !.ins = (@ \ {last}) \cup IF row # last THEN {row} ELSE {}]

\* clear_table does not know how many rows there were, and takes the limit.
Clear(c, limit) == [NoChanges EXCEPT !.del = 0 .. limit - 1]

\* The entry i of a list goes.
Erase(c, i) ==
  LET Elsewhere(m) == m.to # i IN
  [c EXCEPT !.mod = EraseAt(@, {i}), !.ins = EraseAt(@, {i}),
            !.del = @ \cup IF i \in c.ins THEN {} ELSE {OldIndex(c, i)},
            !.moves = LET kept == SelectSeq(@, Elsewhere) IN
                      [k \in DOMAIN kept |-> Move(kept[k].from, Unshift({i}, kept[k].to))]]

\* An entry of a list goes from one place to another: all that is written of it
\* follows; it moves from where it was in the old list, if it was there.
MoveEntry(c, from, to) ==
  LET Follow(i) == IF i = from THEN to ELSE Shift({to}, Unshift({from}, i))
      knew == \E k \in DOMAIN c.moves : c.moves[k].to = from
      ends == [k \in DOMAIN c.moves |-> Move(c.moves[k].from, Follow(c.moves[k].to))]
      starts == IF knew \/ from \in c.ins THEN {} ELSE {OldIndex(c, from)}
  IN [c EXCEPT !.mod = {Follow(i) : i \in @},
               !.ins = {Follow(i) : i \in @ \ {from}} \cup {to},
               !.del = @ \cup starts,
               !.moves = ends \o SetToSeq({Move(i, to) : i \in starts})]

\* The instruction has the size the list has now, and the old one is needed.
ClearList(c, size) == Clear(c, size + Cardinality(c.del) - Cardinality(c.ins))

\* A row that was in the old list until now starts to move, to where it is.
Started(c, i) ==
  IF i \in c.ins THEN c
  ELSE [c EXCEPT !.del = @ \cup {OldIndex(c, i)}, !.ins = @ \cup {i},
                 !.mapping = @ \cup {Move(OldIndex(c, i), i)}]

Exchanged(i, low, high) == IF i = low THEN high ELSE IF i = high THEN low ELSE i

\* swap: the higher row first.
Swap(c, low, high) ==
  [Started(Started(c, high), low) EXCEPT
     !.mod = {Exchanged(i, low, high) : i \in @},
     !.mapping = {Move(m.from, Exchanged(m.to, low, high)) : m \in @}]

\* parse_complete: a row that came back to where it was has not moved.
ParseComplete(c) ==
  LET back == {m.to : m \in {m \in c.mapping : m.from = m.to}}
      Earlier(m, n) == m.from < n.from
  IN [c EXCEPT !.del = @ \ back, !.ins = @ \ back, !.mapping = {},
               !.moves = SetToSortSeq({m \in c.mapping : m.from # m.to}, Earlier)]

---------------------------------------------------------------------------------
(* Two change sets become one. *)

\* clean_up_stale_moves, in the order of the moves: one that is no longer a move
\* takes its removal and its insertion along.
CleanUpStaleMoves(c) ==
  LET Step(d, m) ==
        IF m.from - Count(d.del, 0, m.from) = m.to - Count(d.ins, 0, m.to)
        THEN [d EXCEPT !.del = @ \ {m.from}, !.ins = @ \ {m.to}]
        ELSE [d EXCEPT !.moves = Append(@, m)]
  IN FoldLeft(Step, [c EXCEPT !.moves = <<>>], c.moves)

\* An element of a vector is replaced by its last one.
RemoveBySwap(s, i) == Front(ReplaceAt(s, i, Last(s)))

\* Mutation of UpdateOldMoves: the old moves stay as they were.
KeepOldMoves(old, c) == [old |-> old, fresh |-> c.moves]

\* The old moves after the changes of c: one that was moved on takes the move of
\* c, one whose row is gone ends, the others are where c puts them.
UpdateOldMoves(old, c) ==
  LET Step(st, m) ==
        LET on == {i \in DOMAIN st.fresh : st.fresh[i].from = m.to} IN
        IF on # {} THEN
          LET i == CHOOSE i \in on : TRUE IN
          [old |-> Append(st.old, Move(m.from, st.fresh[i].to)), fresh |-> RemoveBySwap(st.fresh, i)]
        ELSE IF m.to \in c.del THEN st
        ELSE [st EXCEPT !.old = Append(@, Move(m.from, Shift(c.ins, Unshift(c.del, m.to))))]
  IN FoldLeft(Step, [old |-> <<>>, fresh |-> c.moves], old)

\* Mutation of MovedModifications: the modification stays where the row was.
NoMovedModifications(mod, moves) == {}

\* A row that was modified and then moved is modified where it is now.
MovedModifications(mod, moves) == {moves[i].to : i \in {i \in DOMAIN moves : moves[i].from \in mod}}

Merge(old, c) ==
  IF IsEmpty(c) THEN old ELSE IF IsEmpty(old) THEN c
  ELSE
    LET st == UpdateOldMoves(old.moves, c)
        WasThere(m) == m.from \notin old.ins
        fresh == SelectSeq(st.fresh, WasThere)
        Followed(m) == WasThere(m) \/ \E i \in DOMAIN old.moves : old.moves[i].to = m.from
        mod == c.mod \cup MovedModifications(old.mod, SelectSeq(c.moves, Followed))
        placed == [i \in DOMAIN fresh |-> Move(OldIndex(old, fresh[i].from), fresh[i].to)]
        both == CleanUpStaleMoves(
                  [old EXCEPT !.moves = st.old \o placed,
                              !.del = AddShiftedBy(@, old.ins, c.del),
                              !.ins = InsertedAt(EraseAt(@, c.del), c.ins)])
    IN [both EXCEPT !.mod = ShiftForInsertAt(EraseAt(@, c.del), c.ins) \cup mod]

---------------------------------------------------------------------------------
\* What a callback is given: modified rows by their old and by their new index;
\* an inserted row is not modified as well.
Finalize(c) ==
  [del |-> c.del, ins |-> c.ins, moves |-> c.moves,
   mod |-> ShiftForInsertAt(EraseAt(c.mod, c.ins), c.del), modNew |-> c.mod \ c.ins]

=================================================================================
