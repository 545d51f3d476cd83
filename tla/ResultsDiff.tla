------------------------------ MODULE ResultsDiff ------------------------------
(***************************************************************************)
(* How the results of a query changed between two runs of its notifier:    *)
(* CollectionChangeBuilder::calculate and the two ways it looks for rows   *)
(* that moved.  Results are sequences of table rows; their indices count   *)
(* from 0.  A row is in results at most once: results of lists, which may  *)
(* repeat a row, are not modelled.                                         *)
(***************************************************************************)
EXTENDS ChangeSets

Indices(s) == 0 .. Len(s) - 1
IndexOf(s, row) == CHOOSE i \in Indices(s) : s[i + 1] = row

\* The old rows where they are now, with the changes t of their table.
Moved(previous, t) ==
  LET Now(row) ==
        LET moves == {i \in DOMAIN t.moves : t.moves[i].from = row} IN
        IF row \notin t.del THEN Shift(t.ins, Unshift(t.del, row))
        ELSE IF moves = {} THEN npos
        ELSE t.moves[CHOOSE i \in moves : TRUE].to
  IN [i \in DOMAIN previous |-> Now(previous[i])]

\* The rows that are in both results, by their new order.
Kept(previous, next) ==
  LET Before(row) == row \in Range(previous) IN SelectSeq(next, Before)

---------------------------------------------------------------------------------
(* Results in the order of the table: a row that could not have moved is     *)
(* where it was, and only the others are looked at.                          *)

\* gone: the removed indices whose row still exists.
MovesUnsorted(previous, next, gone, c, candidates) ==
  LET deleted == {i \in Indices(previous) : previous[i + 1] = npos}
      Step(st, row) ==
        LET from == IndexOf(previous, row)
            to == IndexOf(next, row)
            shifted == from - Count(deleted, 0, from)
        IN IF shifted = st.expected THEN [st EXCEPT !.expected = @ + 1]
           ELSE IF row \notin candidates
                \/ shifted = to - Count(st.c.ins, 0, to) + Count(st.gone, 0, from)
           THEN [st EXCEPT !.expected = shifted + 1]
           ELSE [st EXCEPT !.c.moves = Append(@, Move(from, to)),
                           !.c.ins = @ \cup {to}, !.gone = @ \cup {from}]
      end == FoldLeft(Step, [expected |-> 0, c |-> c, gone |-> gone], Kept(previous, next))
  IN [end.c EXCEPT !.del = @ \cup end.gone]

---------------------------------------------------------------------------------
(* Sorted results: the longest common stretches stay, what is between them   *)
(* is removed and inserted.                                                  *)

\* m_modified.count over indices that may have wrapped below zero.
CountModified(mod, lo, hi) == IF lo < 0 THEN 0 ELSE Count(mod, lo, hi)

\* The longest stretch that a[begin1..end1) and b[begin2..end2) have in common,
\* with few modified rows if there are several; a's elements come with the place
\* that b has for them.
FindLongestMatch(a, b, mod, begin1, end1, begin2, end2) ==
  LET Better(best, i, j, size) ==
        LET bestModified ==
              IF best.modified # npos THEN best.modified
              ELSE CountModified(mod, best.j - size + 1, best.j + 1)
            modified == CountModified(mod, j - size + 1, j + 1)
        IN IF size > best.size
           THEN [i |-> i - size + 1, j |-> j - size + 1, size |-> size, modified |-> npos]
           ELSE IF size < best.size THEN best
           ELSE IF modified < bestModified
           THEN [i |-> i - size + 1, j |-> j - size + 1, size |-> size, modified |-> modified]
           ELSE [best EXCEPT !.modified = bestModified]
      Step(st, i) ==
        LET j == IndexOf(b, a[i + 1])
            size == IF st.length > 0 /\ st.j + 1 = j THEN st.length + 1 ELSE 1
        IN IF j < begin2 \/ j >= end2 THEN [st EXCEPT !.length = 0]
           ELSE [j |-> j, length |-> size, best |-> Better(st.best, i, j, size)]
      none == [i |-> begin1, j |-> begin2, size |-> 0, modified |-> 0]
      indices == [k \in 1 .. end1 - begin1 |-> begin1 + k - 1]
  IN FoldLeft(Step, [j |-> 0, length |-> 0, best |-> none], indices).best

RECURSIVE FindLongestMatches(_, _, _, _, _, _, _)
FindLongestMatches(a, b, mod, begin1, end1, begin2, end2) ==
  LET m == FindLongestMatch(a, b, mod, begin1, end1, begin2, end2)
      before == IF m.i > begin1 /\ m.j > begin2
                THEN FindLongestMatches(a, b, mod, begin1, m.i, begin2, m.j) ELSE {}
      \* the code compares the index into a with the end of b
      after == IF m.i + m.size < end2 /\ m.j + m.size < end2
               THEN FindLongestMatches(a, b, mod, m.i + m.size, end1, m.j + m.size, end2) ELSE {}
  IN IF m.size = 0 THEN {} ELSE before \cup {m} \cup after

MovesSorted(previous, next, c) ==
  LET b == Kept(previous, next)
      a == Kept(next, previous)
      different == {i \in Indices(a) : a[i + 1] # b[i + 1]}
      first == CHOOSE i \in different : \A k \in different : i <= k
      matches == FindLongestMatches(a, b, c.mod, first, Len(a), first, Len(b))
      stay == UNION {m.i .. m.i + m.size - 1 : m \in matches}
      found == UNION {m.j .. m.j + m.size - 1 : m \in matches}
  IN IF different = {} THEN c
     ELSE [c EXCEPT !.del = @ \cup {IndexOf(previous, a[i + 1]) : i \in (first .. Len(a) - 1) \ stay},
                    !.ins = @ \cup {IndexOf(next, b[j + 1]) : j \in (first .. Len(b) - 1) \ found}]

---------------------------------------------------------------------------------
\* previous has npos for a row that is deleted; a row that does not match any
\* more is removed, but kept apart until the moves are known.
Calculate(previous, next, modified, inTableOrder, candidates) ==
  LET gone == {i \in Indices(previous) : previous[i + 1] \notin Range(next) \cup {npos}}
      c == [NoChanges EXCEPT
              !.del = {i \in Indices(previous) : previous[i + 1] = npos},
              !.ins = {i \in Indices(next) : next[i + 1] \notin Range(previous)},
              !.mod = {i \in Indices(next) : next[i + 1] \in Range(previous) \cap modified}]
  IN IF inTableOrder THEN MovesUnsorted(previous, next, gone, c, candidates)
     ELSE LET d == MovesSorted(previous, next, c) IN [d EXCEPT !.del = @ \cup gone]

=================================================================================
