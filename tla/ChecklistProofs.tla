---------------------------- MODULE ChecklistProofs ----------------------------
(***************************************************************************)
(* Proofs about the form of the check-list tab, for any choice of its      *)
(* lines, any days and any number of lines on screen.  ListInv (in         *)
(* ChecklistForm) is the inductive invariant.                              *)
(***************************************************************************)
EXTENDS ChecklistForm, SequenceTheorems, TLAPS

-----------------------------------------------------------------------------
(* The lines.                                                              *)

\* The lines are numbered from 1, and each has a title of its own.
LEMMA ItemFacts ==
    /\ DOMAIN Items = 1 .. Len(Lines) /\ Len(Lines) \in Nat
    /\ MaxShown \in Nat /\ 1 .. MaxShown \subseteq DOMAIN Items
    /\ \A i, j \in DOMAIN Items : Items[i] = Items[j] => i = j
    /\ \A i \in DOMAIN Items : Items[i] \in ItemTitles
<1>1. Lines \in Seq(Paths) /\ MaxShown <= Len(Lines) /\ MaxShown \in Nat
  BY LinesAssumption, ChecklistAssumption
<1>2. DOMAIN Lines = 1 .. Len(Lines) /\ Len(Lines) \in Nat
  BY <1>1
<1>3. DOMAIN Items = DOMAIN Lines
  BY DEF Items
<1>4. 1 .. MaxShown \subseteq DOMAIN Items
  BY <1>1, <1>2, <1>3
<1>5. ASSUME NEW i \in DOMAIN Items, NEW j \in DOMAIN Items, Items[i] = Items[j]
      PROVE  i = j
  <2>1. Lines[i] \in Paths /\ Lines[j] \in Paths
    BY <1>1, <1>2, <1>3
  <2>2. TitleAt(sections, Lines[i]) = TitleAt(sections, Lines[j])
    BY <1>3, <1>5 DEF Items
  <2>3. Lines[i] = Lines[j]
    BY <2>1, <2>2, TitlesAreUnique
  <2>4. ~(i < j) /\ ~(j < i)
    BY <1>3, <2>3, LinesAssumption DEF Above
  <2>5. QED
    BY <1>2, <1>3, <2>4
<1>6. QED
  BY <1>1, <1>2, <1>3, <1>4, <1>5 DEF ItemTitles

\* A picker has at least one row.
LEMMA PickerRows ==
    ASSUME NEW k
    PROVE  Len(getCorrectPickerData(k)) \in Nat
  BY DEF getCorrectPickerData

\* A line of text is one whose cells are of a kind of text.
LEMMA TextLines ==
    ASSUME NEW k
    PROVE  IsText(k) <=> cellType(k) \in TextKinds
  BY DEF IsText, TextKinds

\* The four kinds that are told apart are different.
LEMMA OneKind ==
    /\ "datePicker" \notin TextKinds /\ "pickerView" \notin TextKinds
    /\ "segment" \notin TextKinds
  BY DEF TextKinds

\* A cell configured for a line, spare or new.
LEMMA ConfiguredCell ==
    ASSUME NEW i \in DOMAIN Items,
           NEW cell, cell \in Cell \/ cell = NewCell(cellType(Items[i])),
           cell.kind = cellType(Items[i])
    PROVE  /\ Configured(cell, Items[i]) \in Cell
           /\ Configured(cell, Items[i]).kind = cellType(Items[i])
           /\ Configured(cell, Items[i]).key = Items[i]
           /\ IsText(Items[i]) => Configured(cell, Items[i]).text = NoText
<1> DEFINE k == Items[i]
           rows == Len(getCorrectPickerData(k))
           old == [kind: {cellType(l) : l \in ItemTitles}, key: ItemTitles \cup {"none"},
                   text: {NoText} \cup {Typed(l) : l \in ItemTitles}, row: Int, date: Dates]
<1>1. k \in ItemTitles /\ cellType(k) \in {cellType(l) : l \in ItemTitles}
  BY ItemFacts
<1>2. rows \in Nat
  BY PickerRows
<1>3. cell \in old
  <2>1. CASE cell \in Cell
    BY <2>1 DEF Cell
  <2>2. CASE cell = NewCell(cellType(k))
    BY <1>1, <2>2, ChecklistAssumption DEF NewCell
  <2>3. QED
    BY <2>1, <2>2
<1> HIDE DEF k, rows
<1>4. IsText(k) <=> cell.kind \in {"textView", "textField"}
  BY TextLines DEF TextKinds, k
<1>5. CASE cell.kind \in {"textView", "textField"}
  <2>1. Configured(cell, k) = [cell EXCEPT !.key = k, !.text = NoText]
    BY <1>5 DEF Configured
  <2>2. QED
    BY <1>1, <1>3, <2>1 DEF Cell, k
<1>6. CASE cell.kind = "segment"
  <2>1. Configured(cell, k) = [cell EXCEPT !.key = k, !.row = 0]
    BY <1>6 DEF Configured
  <2>2. ~IsText(k)
    BY <1>4, <1>6
  <2> DEFINE new == [cell EXCEPT !.key = k, !.row = 0]
  <2>3. 0 \in Int
    OBVIOUS
  <2>4. new \in Cell /\ new.kind = cell.kind /\ new.key = k
    BY <1>1, <1>3, <2>3 DEF Cell
  <2>5. QED
    BY <2>1, <2>2, <2>4 DEF k
<1>7. CASE cell.kind = "pickerView"
  <2> DEFINE row == IF cell.row < rows THEN cell.row ELSE rows - 1
  <2>1. Configured(cell, k) = [cell EXCEPT !.key = k, !.row = row]
    BY <1>7 DEF Configured, rows
  <2>2. row \in Int
    BY <1>2, <1>3
  <2> HIDE DEF row
  <2>3. QED
    BY <1>1, <1>3, <1>4, <1>7, <2>1, <2>2 DEF Cell, k
<1>8. CASE cell.kind \notin {"textView", "textField", "segment", "pickerView"}
  <2>1. Configured(cell, k) = [cell EXCEPT !.key = k]
    BY <1>8 DEF Configured
  <2>2. QED
    BY <1>1, <1>3, <1>4, <1>8, <2>1 DEF Cell, k
<1>9. QED
  BY <1>5, <1>6, <1>7, <1>8

\* What cells of lines that are laid out are.
LEMMA ShownFacts ==
    ASSUME CellsOK, NEW i \in Shown
    PROVE  /\ i \in DOMAIN Items /\ at[i] \in DOMAIN cells /\ cells[at[i]] \in Cell
           /\ cells[at[i]].kind = cellType(Items[i]) /\ cells[at[i]].key = Items[i]
           /\ ~IsText(Items[i]) => Items[i] \in DOMAIN data
<1>1. i \in DOMAIN Items /\ at[i] \in 1 .. Len(cells)
  BY DEF Shown, CellsOK
<1>2. cells \in Seq(Cell) /\ DOMAIN cells = 1 .. Len(cells)
  BY DEF CellsOK
<1>3. QED
  BY <1>1, <1>2 DEF CellsOK

\* Writing under the title of a text leaves what other lines show alone, and
\* keeps the texts when the text is the line's own.
LEMMA TextWritten ==
    ASSUME ListInv, NEW k, IsText(k), NEW text, text \in {NoText, Typed(k)}
    PROVE  /\ DOMAIN data \subseteq DOMAIN Write(data, k, text)
           /\ \A l \in DOMAIN data : ~IsText(l) => Write(data, k, text)[l] = data[l]
           /\ \A l \in DOMAIN Write(data, k, text) : IsText(l) =>
                 Write(data, k, text)[l] \in {NoText, Typed(l)}
  BY DEF Write, ListInv, TextIsOwn

\* The end of an editing writes the text of the line that was edited.
LEMMA CommittedFacts ==
    ASSUME ListInv
    PROVE  /\ DOMAIN data \subseteq DOMAIN Committed(data, editing)
           /\ \A l \in DOMAIN data : ~IsText(l) => Committed(data, editing)[l] = data[l]
           /\ \A l \in DOMAIN Committed(data, editing) : IsText(l) =>
                 Committed(data, editing)[l] \in {NoText, Typed(l)}
<1>1. CASE editing = 0
  BY <1>1 DEF Committed, ListInv, TextIsOwn
<1>2. CASE editing # 0
  <2>1. PICK i \in Shown : at[i] = editing /\ IsText(Items[i])
    BY <1>2 DEF ListInv, CellsOK
  <2>2. /\ editing \in DOMAIN cells /\ cells[editing].key = Items[i]
        /\ cells[editing].kind = cellType(Items[i])
    BY <2>1, ShownFacts DEF ListInv
  <2>3. cells[editing].text \in {NoText, Typed(Items[i])}
    BY <2>1, <2>2, TextLines DEF ListInv, FieldsOwn
  <2>4. Committed(data, editing) = Write(data, Items[i], cells[editing].text)
    BY <1>2, <2>2 DEF Committed
  <2>5. QED
    BY <2>1, <2>3, <2>4, TextWritten
<1>3. QED
  BY <1>1, <1>2

\* A step that keeps the lines and their cells, and what is kept of the lines
\* that are no text, keeps the invariant.
LEMMA CellsStay ==
    ASSUME ListInv, UNCHANGED <<cells, at>>,
           editing' = 0 \/ \E i \in Shown : at[i] = editing' /\ IsText(Items[i]),
           DOMAIN data \subseteq DOMAIN data',
           \A l \in DOMAIN data : ~IsText(l) => data'[l] = data[l],
           \A l \in DOMAIN data' : IsText(l) => data'[l] \in {NoText, Typed(l)}
    PROVE  ListInv'
<1>1. Shown' = Shown
  BY DEF Shown
<1>2. CellsOK'
  BY <1>1 DEF ListInv, CellsOK
<1>3. FieldsOwn'
  BY DEF ListInv, FieldsOwn
<1>4. ShownIsKept'
  <2>1. SUFFICES ASSUME NEW i \in Shown, Faithful(Items[i])
                 PROVE  data'[Items[i]] = Displayed(cells[at[i]])
    BY <1>1 DEF ShownIsKept
  <2>2. ~IsText(Items[i]) /\ Items[i] \in DOMAIN data
    BY <2>1, ShownFacts DEF Faithful, ListInv
  <2>3. QED
    BY <2>1, <2>2 DEF ListInv, ShownIsKept
<1>5. QED
  BY <1>2, <1>3, <1>4 DEF ListInv, TextIsOwn

\* The first layout.
LEMMA CInitInv == CInit => ListInv
<1> SUFFICES ASSUME CInit PROVE ListInv
  OBVIOUS
<1> DEFINE written == {Items[i] : i \in {j \in 1 .. MaxShown : ~IsText(Items[j])}}
           keys == {Titles[i] : i \in DOMAIN Titles}
<1>1. /\ cells = [i \in 1 .. MaxShown |-> First(i)]
      /\ at = [i \in DOMAIN Items |-> IF i <= MaxShown THEN i ELSE 0]
      /\ data = [k \in keys \cup written |->
                   IF k \notin written THEN NoText
                   ELSE Displayed(Configured(NewCell(cellType(k)), k))]
      /\ editing = 0
  BY DEF CInit
<1> HIDE DEF written, keys
<1>2. /\ DOMAIN Items = 1 .. Len(Lines) /\ MaxShown \in Nat
      /\ 1 .. MaxShown \subseteq DOMAIN Items
  BY ItemFacts
<1>3. ASSUME NEW i \in 1 .. MaxShown
      PROVE  /\ First(i) \in Cell /\ First(i).kind = cellType(Items[i])
             /\ First(i).key = Items[i]
             /\ IsText(Items[i]) => First(i).text = NoText
  <2>1. i \in DOMAIN Items
    BY <1>2
  <2>2. NewCell(cellType(Items[i])).kind = cellType(Items[i])
    BY DEF NewCell
  <2>3. QED
    BY <2>1, <2>2, ConfiguredCell DEF First
<1>4. cells \in [1 .. MaxShown -> Cell]
  BY <1>1, <1>3
<1>5. cells \in Seq(Cell) /\ Len(cells) = MaxShown /\ DOMAIN cells = 1 .. MaxShown
  <2>1. cells \in Seq(Cell)
    BY <1>2, <1>4, SeqDef
  <2>2. QED
    BY <1>2, <1>4, <2>1, LenProperties
<1>6. at \in [DOMAIN Items -> 0 .. MaxShown] /\ Shown = 1 .. MaxShown
  <2>1. \A i \in DOMAIN Items : i \in Nat \ {0}
    BY <1>2
  <2>2. \A i \in DOMAIN Items : (IF i <= MaxShown THEN i ELSE 0) \in 0 .. MaxShown
    BY <1>2, <2>1
  <2>3. \A i \in DOMAIN Items : at[i] # 0 <=> i \in 1 .. MaxShown
    BY <1>1, <1>2, <2>1
  <2>4. QED
    BY <1>1, <1>2, <2>2, <2>3 DEF Shown
<1>7. ASSUME NEW i \in Shown
      PROVE  at[i] = i /\ i \in 1 .. MaxShown /\ cells[at[i]] = First(i)
  BY <1>1, <1>2, <1>6
<1>8. ASSUME NEW i \in Shown, ~IsText(Items[i])
      PROVE  Items[i] \in DOMAIN data /\ data[Items[i]] = Displayed(First(i))
  <2>1. Items[i] \in written
    BY <1>7, <1>8 DEF written
  <2>2. QED
    BY <1>1, <2>1 DEF First
<1>9. CellsOK
  <2>1. \A i \in Shown : /\ cells[at[i]].kind = cellType(Items[i])
                         /\ cells[at[i]].key = Items[i]
                         /\ ~IsText(Items[i]) => Items[i] \in DOMAIN data
    BY <1>3, <1>7, <1>8
  <2>2. \A i, j \in Shown : at[i] = at[j] => i = j
    BY <1>7
  <2>3. QED
    BY <1>1, <1>5, <1>6, <2>1, <2>2 DEF CellsOK
<1>10. FieldsOwn
  <2>1. SUFFICES ASSUME NEW c \in DOMAIN cells, cells[c].kind \in TextKinds
                 PROVE  cells[c].text = NoText
    BY DEF FieldsOwn
  <2>2. c \in 1 .. MaxShown /\ cells[c] = First(c)
    BY <1>1, <1>5
  <2>3. /\ cells[c].kind = cellType(Items[c])
        /\ IsText(Items[c]) => First(c).text = NoText
    BY <1>3, <2>2
  <2>4. IsText(Items[c])
    BY <2>1, <2>3, TextLines
  <2>5. QED
    BY <2>2, <2>3, <2>4
<1>11. ShownIsKept
  BY <1>7, <1>8 DEF ShownIsKept, Faithful
<1>12. TextIsOwn
  <2>1. \A k \in written : ~IsText(k)
    BY DEF written
  <2>2. QED
    BY <1>1, <2>1 DEF TextIsOwn
<1>13. QED
  BY <1>9, <1>10, <1>11, <1>12 DEF ListInv

-----------------------------------------------------------------------------
(* The steps.                                                              *)

\* Laying a line out writes what its cell then shows, and no text.
LEMMA LaidOutFacts ==
    ASSUME NEW i \in DOMAIN Items, NEW cell, cell.key = Items[i]
    PROVE  /\ DOMAIN data \subseteq DOMAIN LaidOut(data, cell)
           /\ \A l \in DOMAIN data : l # Items[i] => LaidOut(data, cell)[l] = data[l]
           /\ \A l \in DOMAIN LaidOut(data, cell) :
                 l # Items[i] \/ IsText(l) =>
                    l \in DOMAIN data /\ LaidOut(data, cell)[l] = data[l]
           /\ ~IsText(Items[i]) =>
                 /\ Items[i] \in DOMAIN LaidOut(data, cell)
                 /\ LaidOut(data, cell)[Items[i]] = Displayed(cell)
<1>1. CASE IsText(Items[i])
  BY <1>1 DEF LaidOut
<1>2. CASE ~IsText(Items[i])
  <2>1. LaidOut(data, cell) = Write(data, Items[i], Displayed(cell))
    BY <1>2 DEF LaidOut
  <2>2. QED
    BY <1>2, <2>1 DEF Write
<1>3. QED
  BY <1>1, <1>2

\* A line that enters gets a cell no other line has, emptied or with what it
\* shows written.
LEMMA LineEntersInv ==
    ASSUME ListInv, NEW i \in DOMAIN Items, LineEnters(i)
    PROVE  ListInv'
<1> DEFINE kind == cellType(Items[i])
           new == Len(cells) + 1
<1>1. PICK c \in IF Spare(kind) # {} THEN Spare(kind) ELSE {new} :
        LET cell == Configured(IF c = new THEN NewCell(kind) ELSE cells[c], Items[i])
        IN  /\ cells' = IF c = new THEN Append(cells, cell)
                        ELSE [cells EXCEPT ![c] = cell]
            /\ at' = [at EXCEPT ![i] = c]
            /\ lastCell' = IF kind = "textView" THEN c ELSE lastCell
            /\ data' = LaidOut(data, cell)
  BY DEF LineEnters
<1> DEFINE old == IF c = new THEN NewCell(kind) ELSE cells[c]
           cell == Configured(old, Items[i])
<1>2. i \notin Shown /\ UNCHANGED editing
  BY DEF LineEnters
<1>3. CellsOK /\ FieldsOwn /\ ShownIsKept /\ TextIsOwn
  BY DEF ListInv
<1>4. /\ cells \in Seq(Cell) /\ Len(cells) \in Nat /\ DOMAIN cells = 1 .. Len(cells)
      /\ at \in [DOMAIN Items -> 0 .. Len(cells)]
  BY <1>3 DEF CellsOK
<1>5. /\ c = new \/ (c \in DOMAIN cells /\ cells[c].kind = kind)
      /\ \A j \in DOMAIN Items : at[j] # c
  <2>1. CASE Spare(kind) # {}
    BY <1>1, <1>4, <2>1 DEF Spare
  <2>2. CASE Spare(kind) = {}
    <3>1. c = new
      BY <1>1, <2>2
    <3>2. \A j \in DOMAIN Items : at[j] # new
      BY <1>4
    <3>3. QED
      BY <3>1, <3>2
  <2>3. QED
    BY <2>1, <2>2
<1>6. /\ cell \in Cell /\ cell.kind = kind /\ cell.key = Items[i]
      /\ IsText(Items[i]) => cell.text = NoText
  <2>1. CASE c = new
    <3>1. old = NewCell(kind) /\ NewCell(kind).kind = kind
      BY <2>1 DEF NewCell
    <3>2. QED
      BY <3>1, ConfiguredCell
  <2>2. CASE c # new
    <3>1. old \in Cell /\ old.kind = kind
      BY <1>4, <1>5, <2>2
    <3>2. QED
      BY <3>1, ConfiguredCell
  <2>3. QED
    BY <2>1, <2>2
<1>7. /\ cells' = IF c = new THEN Append(cells, cell) ELSE [cells EXCEPT ![c] = cell]
      /\ at' = [at EXCEPT ![i] = c]
      /\ data' = LaidOut(data, cell)
  BY <1>1
<1>8. kind \in TextKinds <=> IsText(Items[i])
  BY TextLines
<1> HIDE DEF cell, old, kind, new
<1>9. /\ cells' \in Seq(Cell) /\ c \in DOMAIN cells' /\ Len(cells) <= Len(cells')
      /\ DOMAIN cells' = 1 .. Len(cells') /\ DOMAIN cells' = DOMAIN cells \cup {c}
      /\ cells'[c] = cell
      /\ \A b \in DOMAIN cells : b # c => cells'[b] = cells[b]
  <2>1. CASE c = new
    <3>1. cells' = Append(cells, cell)
      BY <1>7, <2>1
    <3>2. /\ cells' \in Seq(Cell) /\ Len(cells') = Len(cells) + 1
          /\ \A b \in 1 .. Len(cells) : cells'[b] = cells[b]
          /\ cells'[Len(cells) + 1] = cell
      BY <1>4, <1>6, <3>1, AppendProperties
    <3>3. QED
      BY <1>4, <2>1, <3>2 DEF new
  <2>2. CASE c # new
    <3>1. cells' = [cells EXCEPT ![c] = cell] /\ c \in 1 .. Len(cells)
      BY <1>4, <1>5, <1>7, <2>2
    <3>2. QED
      BY <1>4, <1>6, <3>1, ExceptSeq
  <2>3. QED
    BY <2>1, <2>2
<1>10. Shown' = Shown \cup {i}
  <2>1. c # 0
    BY <1>4, <1>5 DEF new
  <2>2. DOMAIN at' = DOMAIN at /\ i \in DOMAIN at
    BY <1>4, <1>7
  <2>3. at'[i] = c /\ \A j \in DOMAIN at : j # i => at'[j] = at[j]
    BY <1>4, <1>7
  <2>4. QED
    BY <2>1, <2>2, <2>3 DEF Shown
<1>11. /\ at'[i] = c
       /\ \A j \in Shown : /\ j \in DOMAIN Items /\ j # i /\ at'[j] = at[j] /\ at[j] # c
                           /\ at[j] \in DOMAIN cells /\ cells'[at[j]] = cells[at[j]]
                           /\ Items[j] # Items[i]
  <2>1. at'[i] = c
    BY <1>4, <1>7
  <2>2. ASSUME NEW j \in Shown
        PROVE  /\ j \in DOMAIN Items /\ j # i /\ at'[j] = at[j] /\ at[j] # c
               /\ at[j] \in DOMAIN cells /\ cells'[at[j]] = cells[at[j]]
               /\ Items[j] # Items[i]
    <3>1. j \in DOMAIN Items /\ at[j] \in DOMAIN cells
      BY <1>3, ShownFacts
    <3>2. j # i
      BY <1>2
    <3>3. at'[j] = at[j] /\ at[j] # c
      BY <1>4, <1>5, <1>7, <3>1, <3>2
    <3>4. QED
      BY <1>9, <3>1, <3>2, <3>3, ItemFacts
  <2>3. QED
    BY <2>1, <2>2
<1>12. /\ DOMAIN data \subseteq DOMAIN data'
       /\ \A l \in DOMAIN data : l # Items[i] => data'[l] = data[l]
       /\ \A l \in DOMAIN data' : IsText(l) => l \in DOMAIN data /\ data'[l] = data[l]
       /\ ~IsText(Items[i]) =>
             Items[i] \in DOMAIN data' /\ data'[Items[i]] = Displayed(cell)
  BY <1>6, <1>7, LaidOutFacts
<1>13. CellsOK'
  <2>1. at' \in [DOMAIN Items -> 0 .. Len(cells')]
    BY <1>4, <1>7, <1>9
  <2>2. ASSUME NEW j \in Shown'
        PROVE  /\ cells'[at'[j]].kind = cellType(Items[j]) /\ cells'[at'[j]].key = Items[j]
               /\ ~IsText(Items[j]) => Items[j] \in DOMAIN data'
    <3>1. CASE j = i
      BY <1>6, <1>9, <1>11, <1>12, <3>1 DEF kind
    <3>2. CASE j \in Shown
      BY <1>3, <1>11, <1>12, <3>2, ShownFacts
    <3>3. QED
      BY <1>10, <3>1, <3>2
  <2>3. ASSUME NEW j \in Shown', NEW k \in Shown', at'[j] = at'[k]
        PROVE  j = k
    BY <1>3, <1>10, <1>11, <2>3 DEF CellsOK
  <2>4. editing' = 0 \/ \E j \in Shown' : at'[j] = editing' /\ IsText(Items[j])
    BY <1>2, <1>3, <1>10, <1>11 DEF CellsOK
  <2>5. QED
    BY <1>9, <2>1, <2>2, <2>3, <2>4 DEF CellsOK
<1>14. FieldsOwn'
  <2>1. SUFFICES ASSUME NEW b \in DOMAIN cells', cells'[b].kind \in TextKinds
                 PROVE  cells'[b].text \in {NoText, Typed(cells'[b].key)}
    BY DEF FieldsOwn
  <2>2. CASE b = c
    BY <1>6, <1>8, <1>9, <2>1, <2>2 DEF kind
  <2>3. CASE b # c
    BY <1>3, <1>9, <2>1, <2>3 DEF FieldsOwn
  <2>4. QED
    BY <2>2, <2>3
<1>15. ShownIsKept'
  <2>1. SUFFICES ASSUME NEW j \in Shown', Faithful(Items[j])
                 PROVE  data'[Items[j]] = Displayed(cells'[at'[j]])
    BY DEF ShownIsKept
  <2>2. ~IsText(Items[j])
    BY <2>1 DEF Faithful
  <2>3. CASE j = i
    BY <1>9, <1>11, <1>12, <2>2, <2>3
  <2>4. CASE j \in Shown
    <3>1. Items[j] \in DOMAIN data /\ data[Items[j]] = Displayed(cells[at[j]])
      BY <1>3, <2>1, <2>2, <2>4, ShownFacts DEF ShownIsKept
    <3>2. QED
      BY <1>11, <1>12, <2>4, <3>1
  <2>5. QED
    BY <1>10, <2>3, <2>4
<1>16. TextIsOwn'
  BY <1>3, <1>12 DEF TextIsOwn
<1>17. QED
  BY <1>13, <1>14, <1>15, <1>16 DEF ListInv

\* A line that leaves is not the one that is being edited.
LEMMA LineLeavesInv ==
    ASSUME ListInv, NEW i \in DOMAIN Items, LineLeaves(i)
    PROVE  ListInv'
<1>1. CellsOK /\ FieldsOwn /\ ShownIsKept /\ TextIsOwn
  BY DEF ListInv
<1>2. /\ i \in Shown /\ at[i] # editing /\ at' = [at EXCEPT ![i] = 0]
      /\ UNCHANGED <<cells, editing, data>>
  BY DEF LineLeaves
<1>3. at \in [DOMAIN Items -> 0 .. Len(cells)] /\ Len(cells) \in Nat
  BY <1>1 DEF CellsOK
<1>4. /\ Shown' \subseteq Shown
      /\ \A j \in Shown : at[j] = editing => j \in Shown'
      /\ \A j \in Shown' : at'[j] = at[j]
  BY <1>2, <1>3 DEF Shown
<1>5. CellsOK'
  <2>1. editing = 0 \/ \E j \in Shown' : at'[j] = editing /\ IsText(Items[j])
    BY <1>1, <1>4 DEF CellsOK
  <2>2. at' \in [DOMAIN Items -> 0 .. Len(cells)]
    BY <1>2, <1>3
  <2>3. QED
    BY <1>1, <1>2, <1>4, <2>1, <2>2 DEF CellsOK
<1>6. FieldsOwn' /\ TextIsOwn'
  BY <1>1, <1>2 DEF FieldsOwn, TextIsOwn
<1>7. ShownIsKept'
  BY <1>1, <1>2, <1>4 DEF ShownIsKept
<1>8. QED
  BY <1>5, <1>6, <1>7 DEF ListInv

\* A tap in a text ends the editing of another.
LEMMA EditingInv ==
    ASSUME ListInv,
           \/ \E i \in DOMAIN Items : BeginEditing(i)
           \/ EndEditing \/ didTapOnSaveButton
    PROVE  ListInv'
<1>1. CASE \E i \in DOMAIN Items : BeginEditing(i)
  <2>1. PICK i \in DOMAIN Items : BeginEditing(i)
    BY <1>1
  <2>2. /\ i \in Shown /\ IsText(Items[i]) /\ editing' = at[i]
        /\ data' = Committed(data, editing) /\ UNCHANGED <<cells, at>>
    BY <2>1 DEF BeginEditing
  <2>3. QED
    BY <2>2, CommittedFacts, CellsStay
<1>2. CASE EndEditing
  <2>1. /\ editing' = 0 /\ data' = Committed(data, editing) /\ UNCHANGED <<cells, at>>
    BY <1>2 DEF EndEditing
  <2>2. QED
    BY <2>1, CommittedFacts, CellsStay
<1>3. CASE didTapOnSaveButton
  <2>1. /\ data' = IF editing = lastCell THEN Committed(data, editing) ELSE data
        /\ editing' = IF editing = lastCell THEN 0 ELSE editing
        /\ UNCHANGED <<cells, at>>
    BY <1>3 DEF didTapOnSaveButton
  <2>2. editing' = 0 \/ \E i \in Shown : at[i] = editing' /\ IsText(Items[i])
    BY <2>1 DEF ListInv, CellsOK
  <2>3. \A l \in DOMAIN data : IsText(l) => data[l] \in {NoText, Typed(l)}
    BY DEF ListInv, TextIsOwn
  <2>4. CASE editing = lastCell
    BY <2>1, <2>2, <2>4, CommittedFacts, CellsStay
  <2>5. CASE editing # lastCell
    BY <2>1, <2>2, <2>3, <2>5, CellsStay
  <2>6. QED
    BY <2>4, <2>5
<1>4. QED
  BY <1>1, <1>2, <1>3

\* What a cell of a line on screen may change to: its key stays, and a new text is
\* of its line.
MayBecome(i, cell) ==
  /\ cell \in Cell /\ cell.kind = cells[at[i]].kind /\ cell.key = cells[at[i]].key
  /\ IsText(Items[i]) => cell.text \in {NoText, Typed(Items[i])}

\* Such a change keeps the cells as they should be.
LEMMA CellChanges ==
    ASSUME ListInv, NEW i \in Shown, NEW cell, MayBecome(i, cell),
           cells' = [cells EXCEPT ![at[i]] = cell],
           UNCHANGED <<at, editing>>, DOMAIN data \subseteq DOMAIN data'
    PROVE  /\ CellsOK' /\ FieldsOwn' /\ Shown' = Shown /\ cells'[at[i]] = cell
           /\ \A j \in Shown : j # i => /\ cells'[at[j]] = cells[at[j]]
                                        /\ Items[j] # Items[i]
<1> USE DEF MayBecome
<1>1. CellsOK /\ FieldsOwn
  BY DEF ListInv
<1>2. cells \in Seq(Cell) /\ DOMAIN cells = 1 .. Len(cells) /\ Len(cells) \in Nat
  BY <1>1 DEF CellsOK
<1>3. \A j \in Shown : j \in DOMAIN Items /\ at[j] \in DOMAIN cells
  BY <1>1, ShownFacts
<1>4. cells[at[i]].kind = cellType(Items[i]) /\ cells[at[i]].key = Items[i]
  BY <1>1, ShownFacts
<1>5. /\ cells' \in Seq(Cell) /\ Len(cells') = Len(cells)
      /\ \A c \in DOMAIN cells : cells'[c] = IF c = at[i] THEN cell ELSE cells[c]
  BY <1>2, <1>3, ExceptSeq
<1>6. Shown' = Shown
  BY DEF Shown
<1>7. cells'[at[i]] = cell
  BY <1>3, <1>5
<1>8. \A j \in Shown : j # i => cells'[at[j]] = cells[at[j]] /\ Items[j] # Items[i]
  BY <1>1, <1>3, <1>5, ItemFacts DEF CellsOK
<1>9. \A j \in Shown : /\ cells'[at[j]].kind = cells[at[j]].kind
                       /\ cells'[at[j]].key = cells[at[j]].key
  BY <1>7, <1>8
<1>10. CellsOK'
  BY <1>1, <1>5, <1>6, <1>9 DEF CellsOK
<1>11. FieldsOwn'
  <2>1. SUFFICES ASSUME NEW c \in DOMAIN cells', cells'[c].kind \in TextKinds
                 PROVE  cells'[c].text \in {NoText, Typed(cells'[c].key)}
    BY DEF FieldsOwn
  <2>2. c \in DOMAIN cells
    BY <1>2, <1>5, LenProperties
  <2>3. CASE c = at[i]
    <3>1. IsText(Items[i])
      BY <1>4, <1>7, <2>1, <2>3, TextLines
    <3>2. QED
      BY <1>4, <1>7, <2>3, <3>1
  <2>4. CASE c # at[i]
    BY <1>1, <1>5, <2>1, <2>2, <2>4 DEF FieldsOwn
  <2>5. QED
    BY <2>3, <2>4
<1>12. QED
  BY <1>6, <1>7, <1>8, <1>10, <1>11

\* What is typed in a text is the text of its line.
LEMMA TypeInInv ==
    ASSUME ListInv, TypeIn
    PROVE  ListInv'
<1>1. /\ editing # 0 /\ UNCHANGED <<at, editing, data>>
      /\ cells' = [cells EXCEPT ![editing].text = Typed(cells[editing].key)]
  BY DEF TypeIn
<1>2. PICK i \in Shown : at[i] = editing /\ IsText(Items[i])
  BY <1>1 DEF ListInv, CellsOK
<1>3. /\ i \in DOMAIN Items /\ at[i] \in DOMAIN cells /\ cells[at[i]] \in Cell
      /\ cells[at[i]].key = Items[i]
  BY ShownFacts DEF ListInv
<1> DEFINE cell == [cells[at[i]] EXCEPT !.text = Typed(Items[i])]
<1>4. /\ cell \in Cell /\ cell.kind = cells[at[i]].kind /\ cell.key = cells[at[i]].key
      /\ cell.text = Typed(Items[i])
  <2>1. Items[i] \in ItemTitles
    BY <1>3, ItemFacts
  <2>2. QED
    BY <1>3, <2>1 DEF Cell
<1>5. cells' = [cells EXCEPT ![at[i]] = cell]
  BY <1>1, <1>2, <1>3
<1> HIDE DEF cell
<1>6. /\ CellsOK' /\ FieldsOwn' /\ Shown' = Shown
      /\ \A j \in Shown : j # i => cells'[at[j]] = cells[at[j]]
  <2>1. UNCHANGED <<at, editing>> /\ DOMAIN data \subseteq DOMAIN data'
    BY <1>1
  <2>2. MayBecome(i, cell)
    BY <1>4 DEF MayBecome
  <2>3. QED
    BY <1>5, <2>1, <2>2, CellChanges
<1>7. ShownIsKept'
  <2>1. SUFFICES ASSUME NEW j \in Shown, Faithful(Items[j])
                 PROVE  data[Items[j]] = Displayed(cells'[at[j]])
    BY <1>1, <1>6 DEF ShownIsKept
  <2>2. j # i
    BY <1>2, <2>1 DEF Faithful
  <2>3. QED
    BY <1>6, <2>1, <2>2 DEF ListInv, ShownIsKept
<1>8. QED
  BY <1>1, <1>6, <1>7 DEF ListInv, TextIsOwn

\* A line that is no text writes the value its cell now shows.
LEMMA ValueWritten ==
    ASSUME ListInv, NEW i \in Shown, ~IsText(Items[i]), NEW cell \in Cell,
           cell.kind = cells[at[i]].kind, cell.key = cells[at[i]].key,
           cells' = [cells EXCEPT ![at[i]] = cell], UNCHANGED <<at, editing>>,
           NEW value, Faithful(Items[i]) => value = Displayed(cell),
           data' = Write(data, Items[i], value)
    PROVE  ListInv'
<1>1. /\ DOMAIN data \subseteq DOMAIN data'
      /\ \A l \in DOMAIN data : l # Items[i] => data'[l] = data[l]
      /\ \A l \in DOMAIN data' : l # Items[i] => l \in DOMAIN data
      /\ data'[Items[i]] = value
  BY DEF Write
<1>2. /\ CellsOK' /\ FieldsOwn' /\ Shown' = Shown /\ cells'[at[i]] = cell
      /\ \A j \in Shown : j # i => /\ cells'[at[j]] = cells[at[j]]
                                   /\ Items[j] # Items[i]
  <2>1. MayBecome(i, cell)
    BY DEF MayBecome
  <2>2. QED
    BY <1>1, <2>1, CellChanges
<1>3. ShownIsKept'
  <2>1. SUFFICES ASSUME NEW j \in Shown, Faithful(Items[j])
                 PROVE  data'[Items[j]] = Displayed(cells'[at[j]])
    BY <1>2 DEF ShownIsKept
  <2>2. CASE j = i
    BY <1>1, <1>2, <2>1, <2>2
  <2>3. CASE j # i
    <3>1. Items[j] \in DOMAIN data
      BY <2>1, ShownFacts DEF ListInv, Faithful
    <3>2. data[Items[j]] = Displayed(cells[at[j]])
      BY <2>1 DEF ListInv, ShownIsKept
    <3>3. QED
      BY <1>1, <1>2, <2>3, <3>1, <3>2
  <2>4. QED
    BY <2>2, <2>3
<1>4. TextIsOwn'
  BY <1>1 DEF ListInv, TextIsOwn
<1>5. QED
  BY <1>2, <1>3, <1>4 DEF ListInv

\* The date picker writes the day it shows.
LEMMA DateInv ==
    ASSUME ListInv, NEW i \in DOMAIN Items, NEW date \in Dates, didChangeDate(i, date)
    PROVE  ListInv'
<1>1. /\ i \in Shown /\ cellType(Items[i]) = "datePicker"
      /\ cells' = [cells EXCEPT ![at[i]].date = date]
      /\ data' = Write(data, cells[at[i]].key, date)
      /\ UNCHANGED <<at, editing>>
  BY DEF didChangeDate
<1>2. /\ at[i] \in DOMAIN cells /\ cells[at[i]] \in Cell
      /\ cells[at[i]].kind = "datePicker" /\ cells[at[i]].key = Items[i]
  BY <1>1, ShownFacts DEF ListInv
<1> DEFINE cell == [cells[at[i]] EXCEPT !.date = date]
<1>3. /\ cell \in Cell /\ cell.kind = cells[at[i]].kind /\ cell.key = cells[at[i]].key
      /\ cell.date = date
  BY <1>2 DEF Cell
<1>4. cells' = [cells EXCEPT ![at[i]] = cell]
  BY <1>1, <1>2
<1> HIDE DEF cell
<1>5. Displayed(cell) = date
  BY <1>2, <1>3 DEF Displayed
<1>6. ~IsText(Items[i])
  BY <1>1, TextLines, OneKind
<1>7. data' = Write(data, Items[i], date)
  BY <1>1, <1>2
<1>8. QED
  BY <1>1, <1>3, <1>4, <1>5, <1>6, <1>7, ValueWritten

\* A picker writes the row it shows.
LEMMA RowInv ==
    ASSUME ListInv, NEW i \in DOMAIN Items, NEW row \in PickedRows, didSelectRow(i, row)
    PROVE  ListInv'
<1> DEFINE options == getCorrectPickerData(Items[i])
<1>1. /\ i \in Shown /\ cellType(Items[i]) = "pickerView"
      /\ cells' = [cells EXCEPT ![at[i]].row = row]
      /\ data' = Write(data, cells[at[i]].key, options[row + 1])
      /\ UNCHANGED <<at, editing>>
  BY DEF didSelectRow
<1>2. /\ at[i] \in DOMAIN cells /\ cells[at[i]] \in Cell
      /\ cells[at[i]].kind = "pickerView" /\ cells[at[i]].key = Items[i]
  BY <1>1, ShownFacts DEF ListInv
<1> DEFINE cell == [cells[at[i]] EXCEPT !.row = row]
<1>3. /\ cell \in Cell /\ cell.kind = cells[at[i]].kind /\ cell.key = cells[at[i]].key
      /\ cell.row = row
  <2>1. row \in Int
    BY ChecklistAssumption
  <2>2. QED
    BY <1>2, <2>1 DEF Cell
<1>4. cells' = [cells EXCEPT ![at[i]] = cell]
  BY <1>1, <1>2
<1> HIDE DEF cell
<1>5. Displayed(cell) = options[row + 1]
  BY <1>2, <1>3 DEF Displayed
<1>6. ~IsText(Items[i])
  BY <1>1, TextLines, OneKind
<1>7. data' = Write(data, Items[i], options[row + 1])
  BY <1>1, <1>2
<1> HIDE DEF options
<1>8. QED
  BY <1>1, <1>3, <1>4, <1>5, <1>6, <1>7, ValueWritten

\* The pair of values a segment takes is that of its titles, but for the two
\* lines whose pairs are swapped.
LEMMA PairOfTitles ==
    \A k : k \notin {"Internet", "Type de chauffage"} =>
        allSegmentData[configureCorrectSegment(k).segmentId + 1] =
            configureCorrectSegment(k).titles
<1>1. ASSUME NEW k, k = "Syndicat"
      PROVE  allSegmentData[configureCorrectSegment(k).segmentId + 1] =
                configureCorrectSegment(k).titles
  BY <1>1 DEF configureCorrectSegment, allSegmentData
<1>2. ASSUME NEW k, k # "Syndicat", k \notin {"Internet", "Type de chauffage"}
      PROVE  allSegmentData[configureCorrectSegment(k).segmentId + 1] =
                configureCorrectSegment(k).titles
  <2> DEFINE segment == configureCorrectSegment(k)
             yesOrNo == <<"Oui", "Non">>
  <2>1. segment = [titles |-> yesOrNo, segmentId |-> 3]
    BY <1>2 DEF configureCorrectSegment
  <2>2. allSegmentData[4] = yesOrNo
    BY DEF allSegmentData
  <2> HIDE DEF segment, yesOrNo
  <2>3. allSegmentData[segment.segmentId + 1] = segment.titles
    BY <2>1, <2>2
  <2>4. QED
    BY <2>3 DEF segment
<1>3. QED
  BY <1>1, <1>2

\* A segment writes the value of its half, out of the pair it is numbered with.
LEMMA SegmentInv ==
    ASSUME ListInv, NEW i \in DOMAIN Items, NEW index \in {0, 1}, didChangeValue(i, index)
    PROVE  ListInv'
<1> DEFINE pair == allSegmentData[configureCorrectSegment(Items[i]).segmentId + 1]
<1>1. /\ i \in Shown /\ cellType(Items[i]) = "segment"
      /\ cells' = [cells EXCEPT ![at[i]].row = index]
      /\ data' = Write(data, cells[at[i]].key, pair[index + 1])
      /\ UNCHANGED <<at, editing>>
  BY DEF didChangeValue
<1>2. /\ at[i] \in DOMAIN cells /\ cells[at[i]] \in Cell
      /\ cells[at[i]].kind = "segment" /\ cells[at[i]].key = Items[i]
  BY <1>1, ShownFacts DEF ListInv
<1> DEFINE cell == [cells[at[i]] EXCEPT !.row = index]
<1>3. /\ cell \in Cell /\ cell.kind = cells[at[i]].kind /\ cell.key = cells[at[i]].key
      /\ cell.row = index
  BY <1>2 DEF Cell
<1>4. cells' = [cells EXCEPT ![at[i]] = cell]
  BY <1>1, <1>2
<1> HIDE DEF cell
<1>5. Displayed(cell) = configureCorrectSegment(Items[i]).titles[index + 1]
  BY <1>2, <1>3 DEF Displayed
<1>6. Faithful(Items[i]) => pair[index + 1] = Displayed(cell)
  BY <1>1, <1>5, PairOfTitles DEF Faithful
<1>7. ~IsText(Items[i])
  BY <1>1, TextLines, OneKind
<1>8. data' = Write(data, Items[i], pair[index + 1])
  BY <1>1, <1>2
<1> HIDE DEF pair
<1>9. QED
  BY <1>1, <1>3, <1>4, <1>6, <1>7, <1>8, ValueWritten

\* Every step keeps the invariant.
LEMMA CNextInv ==
    ASSUME ListInv, [CNext]_listVars
    PROVE  ListInv'
<1>1. CASE \E i \in DOMAIN Items : LineEnters(i) \/ LineLeaves(i)
  BY <1>1, LineEntersInv, LineLeavesInv
<1>2. CASE \/ \E i \in DOMAIN Items : BeginEditing(i)
           \/ EndEditing \/ didTapOnSaveButton
  BY <1>2, EditingInv
<1>3. CASE \E i \in DOMAIN Items : \E date \in Dates : didChangeDate(i, date)
  BY <1>3, DateInv
<1>4. CASE \E i \in DOMAIN Items : \E row \in PickedRows : didSelectRow(i, row)
  BY <1>4, RowInv
<1>5. CASE \E i \in DOMAIN Items : \E index \in {0, 1} : didChangeValue(i, index)
  BY <1>5, SegmentInv
<1>6. CASE TypeIn
  BY <1>6, TypeInInv
<1>7. CASE SaveChecklist \/ Cancel \/ UNCHANGED listVars
  <2>1. UNCHANGED <<cells, at, editing, data>>
    BY <1>7 DEF SaveChecklist, Cancel, listVars
  <2>2. Shown' = Shown
    BY <2>1 DEF Shown
  <2>3. QED
    BY <2>1, <2>2 DEF ListInv, CellsOK, FieldsOwn, ShownIsKept, TextIsOwn
<1>8. QED
  BY <1>1, <1>2, <1>3, <1>4, <1>5, <1>6, <1>7 DEF CNext

\* The invariant, for any lines of the form and any number of them on screen.
THEOREM ListInvariance == CSpec => []ListInv
<1>1. CInit => ListInv
  BY CInitInv
<1>2. ListInv /\ [CNext]_listVars => ListInv'
  BY CNextInv
<1>3. QED
  BY <1>1, <1>2, PTL DEF CSpec

\* What a date, a picker or a yes-or-no line shows is what would be saved,
\* whatever line its cell showed before.
THEOREM ShownKept == CSpec => []ShownIsKept
<1>1. ListInv => ShownIsKept
  BY DEF ListInv
<1>2. QED
  BY <1>1, ListInvariance, PTL

\* A text line never keeps a text typed in another line.
THEOREM TextsOwn == CSpec => []TextIsOwn
<1>1. ListInv => TextIsOwn
  BY DEF ListInv
<1>2. QED
  BY <1>1, ListInvariance, PTL

=============================================================================
