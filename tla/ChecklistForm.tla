---------------------------- MODULE ChecklistForm ----------------------------
(***************************************************************************)
(* The form of the check-list tab: forty-two lines in reused cells of five *)
(* kinds, the dictionary their values are written to, and the lines of a   *)
(* saved check-list read back by title.                                    *)
(*                                                                         *)
(* Titles are unique, so the four dictionaries of checklistData, one for   *)
(* each section, are one function here.  Titles have no accents.           *)
(***************************************************************************)
EXTENDS Integers, Sequences, FiniteSets

CONSTANTS
    Lines,     \* the lines of an instance (a bound): their index paths, in order
    NoText,    \* the empty text
    Dates,     \* days the date picker can show
    Today,     \* the one it starts with
    PickedRows, \* the rows the user picks (a bound), counted from 0
    MaxSaves,  \* bound on the saves of a session, which is at most 1
    MaxShown   \* lines on screen at rest

ASSUME ChecklistAssumption ==
    Today \in Dates /\ MaxSaves \in {0, 1}
    /\ PickedRows \cup {MaxShown} \subseteq Nat

VARIABLES
    cells,     \* the cells created so far
    at,        \* at[i]: the cell of line i, 0 when it is not laid out
    lastCell,  \* the text view cell configured last, or 0
    editing,   \* the cell with the first responder, or 0
    data,      \* checklistData
    saving,    \* a pop-up of the save button is on screen
    saved      \* the check-list saved in this session

listVars == <<cells, at, lastCell, editing, data, saving, saved>>

------------------------------------------------------------------------------
(***************************************************************************)
(* The lines                                                               *)
(***************************************************************************)

sections ==
    << <<"Date de la visite", "Type de bien", "Superficie">>,
       <<"Nuisances", "Atouts", "Transports", "Stationnement facile">>,
       <<"Annee de construction", "Nombre de lots", "Internet", "Syndicat",
         "Qualite facades", "Qualite toitures", "Qualite communs">>,
       <<"Diagnostic de performances energetiques", "Lumineux", "Traversant",
         "VMC", "Presence d'humidite", "Hauteur sous plafond",
         "Planeite des sols", "Isolation", "Insonorisation", "Orientation",
         "Vue de la chambre", "Vue de la piece de vie", "Energie du chauffage",
         "Type de chauffage", "Electricite au normes", "Compteur individuel",
         "WC isole", "Salle de bain moderne", "Etat robinetterie",
         "Etat des sols", "Etat des murs", "Etat des volets", "Double vitrage",
         "Reconfiguration possible", "Presence de cave", "Surface cave",
         "Parking", "Elements differenciants">> >>

\* The titles of a saved check-list, which are the keys of checklistData and
\* of the saving methods: those of the form but one.
allTitles == [sections EXCEPT ![2][3] = "Transports en commun"]

\* An index path is a section and a row, both counted from 1 here.
Paths == UNION {{s} \X DOMAIN sections[s] : s \in DOMAIN sections}

Above(p, q) == p # q /\ (p[1] < q[1] \/ (p[1] = q[1] /\ p[2] <= q[2]))

ASSUME LinesAssumption ==
    /\ Lines \in Seq(Paths) /\ MaxShown <= Len(Lines)
    /\ \A i, j \in DOMAIN Lines : i < j => Above(Lines[i], Lines[j])

TitleAt(titles, path) == titles[path[1]][path[2]]

\* No two lines of the form have the same title.
ASSUME TitlesAreUnique ==
    \A p, q \in Paths : TitleAt(sections, p) = TitleAt(sections, q) => p = q

Items == [i \in DOMAIN Lines |-> TitleAt(sections, Lines[i])]
Titles == [i \in DOMAIN Lines |-> TitleAt(allTitles, Lines[i])]

cellType(k) ==
    CASE k = "Date de la visite" -> "datePicker"
      [] k \in {"Nuisances", "Atouts", "Transports", "Elements differenciants"}
            -> "textView"
      [] k \in {"Superficie", "Annee de construction", "Nombre de lots",
                "Hauteur sous plafond", "Surface cave"} -> "textField"
      [] k \in {"Type de bien", "Qualite facades", "Qualite toitures",
                "Qualite communs", "Diagnostic de performances energetiques",
                "Planeite des sols", "Isolation", "Insonorisation",
                "Orientation", "Vue de la chambre", "Vue de la piece de vie",
                "Energie du chauffage", "Etat robinetterie", "Etat des sols",
                "Etat des murs", "Etat des volets"} -> "pickerView"
      [] OTHER -> "segment"

IsText(k) == cellType(k) \in {"textView", "textField"}

\* The rows of a picker, by the title it is configured for.
getCorrectPickerData(k) ==
    CASE k = "Type de bien" -> <<"Studio", "T2", "T3", "T4", "T5",
                                 "Maison de village", "Villa", "Immeuble">>
      [] k = "Diagnostic de performances energetiques"
            -> <<"A", "B", "C", "D", "E", "F", "G">>
      [] k \in {"Vue de la chambre", "Vue de la piece de vie"}
            -> <<"Rue", "Cour", "Non concerne">>
      [] k = "Energie du chauffage"
            -> <<"Electrique", "A gaz", "Au fioul", "A bois", "Solaire">>
      [] k = "Orientation" -> <<"Sud-Est", "Sud", "Sud-Ouest", "Ouest",
                                "Nord-Ouest", "Nord", "Nord-Est", "Est">>
      [] OTHER -> <<"Tres mauvais", "Mauvais", "Bon", "Tres bon", "Non concerne">>

\* The titles of the two segments, and the number of the pair the cell takes
\* its values from.
configureCorrectSegment(k) ==
    CASE k = "Internet" -> [titles |-> <<"Fibre", "ADSL">>, segmentId |-> 0]
      [] k = "Syndicat" -> [titles |-> <<"Benevole", "Pro">>, segmentId |-> 1]
      [] k = "Type de chauffage"
            -> [titles |-> <<"Individuel", "Collectif">>, segmentId |-> 2]
      [] OTHER -> [titles |-> <<"Oui", "Non">>, segmentId |-> 3]

allSegmentData ==
    << <<"Individuel", "Collectif">>, <<"Benevole", "Pro">>,
       <<"Fibre", "ADSL">>, <<"Oui", "Non">> >>

------------------------------------------------------------------------------
(***************************************************************************)
(* Cells                                                                   *)
(***************************************************************************)

\* What is typed in a line stands for every text typed there.
Typed(k) == <<"typed in", k>>

\* row is the row of a picker or the index of a segmented control.
NewCell(kind) ==
    [kind |-> kind, key |-> "none", text |-> NoText, row |-> 0, date |-> Today]

\* Mutation of Configured: the text of the cell is not cleared.
ConfiguredUncleared(cell, k) ==
    CASE cell.kind = "segment" -> [cell EXCEPT !.key = k, !.row = 0]
      [] cell.kind = "pickerView" ->
            [cell EXCEPT !.key = k,
                !.row = IF cell.row < Len(getCorrectPickerData(k)) THEN cell.row
                        ELSE Len(getCorrectPickerData(k)) - 1]
      [] OTHER -> [cell EXCEPT !.key = k]

\* configure, and the clear() that follows it: texts are emptied, segments go
\* back to the first; a picker and a date keep their place, a picker within
\* the rows it now has.
Configured(cell, k) ==
    CASE cell.kind \in {"textView", "textField"} ->
            [cell EXCEPT !.key = k, !.text = NoText]
      [] cell.kind = "segment" -> [cell EXCEPT !.key = k, !.row = 0]
      [] cell.kind = "pickerView" ->
            [cell EXCEPT !.key = k,
                !.row = IF cell.row < Len(getCorrectPickerData(k)) THEN cell.row
                        ELSE Len(getCorrectPickerData(k)) - 1]
      [] OTHER -> [cell EXCEPT !.key = k]

\* What the user reads in a cell.
Displayed(cell) ==
    CASE cell.kind = "datePicker" -> cell.date
      [] cell.kind = "pickerView" -> getCorrectPickerData(cell.key)[cell.row + 1]
      [] cell.kind = "segment" ->
            configureCorrectSegment(cell.key).titles[cell.row + 1]
      [] OTHER -> cell.text

\* The delegates write under the title; a title that is no key of the
\* dictionary becomes one.
Write(d, k, value) ==
    [x \in DOMAIN d \cup {k} |-> IF x = k THEN value ELSE d[x]]

\* Mutation of LaidOut: a reused picker does not write its row.
LaidOutSilently(d, cell) ==
    IF IsText(cell.key) \/ cell.kind = "pickerView" THEN d
    ELSE Write(d, cell.key, Displayed(cell))

\* Laying a line out writes the date, the row or the first segment it shows;
\* a text is left as it was.
LaidOut(d, cell) ==
    IF IsText(cell.key) THEN d ELSE Write(d, cell.key, Displayed(cell))

Shown == {i \in DOMAIN at : at[i] # 0}
Spare(kind) == {c \in DOMAIN cells :
                    cells[c].kind = kind /\ \A i \in DOMAIN at : at[i] # c}

\* shouldEndEditing of the text cells.
Committed(d, c) == IF c = 0 THEN d ELSE Write(d, cells[c].key, cells[c].text)

First(i) == Configured(NewCell(cellType(Items[i])), Items[i])

\* The first layout is done before the user can touch the form.
CInit ==
    /\ cells = [i \in 1 .. MaxShown |-> First(i)]
    /\ at = [i \in DOMAIN Items |-> IF i <= MaxShown THEN i ELSE 0]
    /\ lastCell = LET views == {i \in 1 .. MaxShown :
                                    cellType(Items[i]) = "textView"}
                  IN  IF views = {} THEN 0
                      ELSE CHOOSE i \in views : \A j \in views : j <= i
    /\ LET written == {Items[i] : i \in {j \in 1 .. MaxShown : ~IsText(Items[j])}}
           keys == {Titles[i] : i \in DOMAIN Titles}
       IN  data = [k \in keys \cup written |->
                     IF k \notin written THEN NoText
                     ELSE Displayed(Configured(NewCell(cellType(k)), k))]
    /\ editing = 0 /\ saving = FALSE /\ saved = {}

------------------------------------------------------------------------------
(***************************************************************************)
(* The table view                                                          *)
(***************************************************************************)

\* Line i scrolls in; configureTableView takes a spare cell of its kind, or a
\* new one when there is none.
LineEnters(i) ==
    LET kind == cellType(Items[i])
        new == Len(cells) + 1
    IN  /\ ~saving /\ i \notin Shown /\ {i - 1, i + 1} \cap Shown # {}
        /\ Cardinality(Shown) <= MaxShown
        /\ \E c \in IF Spare(kind) # {} THEN Spare(kind) ELSE {new} :
              LET cell == Configured(IF c = new THEN NewCell(kind) ELSE cells[c],
                                     Items[i])
              IN  /\ cells' = IF c = new THEN Append(cells, cell)
                              ELSE [cells EXCEPT ![c] = cell]
                  /\ at' = [at EXCEPT ![i] = c]
                  /\ lastCell' = IF kind = "textView" THEN c ELSE lastCell
                  /\ data' = LaidOut(data, cell)
        /\ UNCHANGED <<editing, saving, saved>>

\* A line at an end of the screen scrolls away and its cell becomes spare.
\* The table view keeps the cell that is being edited.
LineLeaves(i) ==
    /\ ~saving /\ i \in Shown /\ at[i] # editing
    /\ ~({i - 1, i + 1} \subseteq Shown)
    /\ Cardinality(Shown) > MaxShown
    /\ at' = [at EXCEPT ![i] = 0]
    /\ UNCHANGED <<cells, lastCell, editing, data, saving, saved>>

------------------------------------------------------------------------------
(***************************************************************************)
(* The user                                                                *)
(***************************************************************************)

\* A tap in a text starts editing it, and ends the editing of another.
BeginEditing(i) ==
    /\ ~saving /\ i \in Shown /\ IsText(Items[i]) /\ editing # at[i]
    /\ data' = Committed(data, editing)
    /\ editing' = at[i]
    /\ UNCHANGED <<cells, at, lastCell, saving, saved>>

TypeIn ==
    /\ ~saving /\ editing # 0
    /\ cells' = [cells EXCEPT ![editing].text = Typed(cells[editing].key)]
    /\ UNCHANGED <<at, lastCell, editing, data, saving, saved>>

\* The return key of a field, or a tap beside the cells.
EndEditing ==
    /\ ~saving /\ editing # 0
    /\ data' = Committed(data, editing)
    /\ editing' = 0
    /\ UNCHANGED <<cells, at, lastCell, saving, saved>>

didChangeDate(i, date) ==
    /\ ~saving /\ i \in Shown /\ cellType(Items[i]) = "datePicker"
    /\ cells' = [cells EXCEPT ![at[i]].date = date]
    /\ data' = Write(data, cells[at[i]].key, date)
    /\ UNCHANGED <<at, lastCell, editing, saving, saved>>

didSelectRow(i, row) ==
    LET options == getCorrectPickerData(Items[i])
    IN  /\ ~saving /\ i \in Shown /\ cellType(Items[i]) = "pickerView"
        /\ row < Len(options)
        /\ cells' = [cells EXCEPT ![at[i]].row = row]
        /\ data' = Write(data, cells[at[i]].key, options[row + 1])
        /\ UNCHANGED <<at, lastCell, editing, saving, saved>>

\* The value comes from the pair numbered segmentId, counted from 0.
didChangeValue(i, index) ==
    LET pair == allSegmentData[configureCorrectSegment(Items[i]).segmentId + 1]
    IN  /\ ~saving /\ i \in Shown /\ cellType(Items[i]) = "segment"
        /\ index # cells[at[i]].row
        /\ cells' = [cells EXCEPT ![at[i]].row = index]
        /\ data' = Write(data, cells[at[i]].key, pair[index + 1])
        /\ UNCHANGED <<at, lastCell, editing, saving, saved>>

------------------------------------------------------------------------------
(***************************************************************************)
(* Saving                                                                  *)
(***************************************************************************)

\* The button ends the editing of the text view laid out last, if it is that
\* one, and opens a pop-up over the form.
didTapOnSaveButton ==
    /\ ~saving
    /\ data' = IF editing = lastCell THEN Committed(data, editing) ELSE data
    /\ editing' = IF editing = lastCell THEN 0 ELSE editing
    /\ saving' = TRUE
    /\ UNCHANGED <<cells, at, lastCell, saved>>

\* The four saving methods, as the pop-ups call them: the value under each of
\* the titles of allTitles.  ProjectStore has their order and what a kill
\* between two of them leaves; a second save of the session raises there, so
\* one is the most a session has.
SaveChecklist ==
    /\ saving /\ Cardinality(saved) < MaxSaves
    /\ saved' = {[k \in {Titles[i] : i \in DOMAIN Titles} |-> data[k]]}
    /\ saving' = FALSE
    /\ UNCHANGED <<cells, at, lastCell, editing, data>>

Cancel ==
    /\ saving /\ saving' = FALSE
    /\ UNCHANGED <<cells, at, lastCell, editing, data, saved>>

CNext ==
    \/ \E i \in DOMAIN Items :
          \/ LineEnters(i) \/ LineLeaves(i) \/ BeginEditing(i)
          \/ \E date \in Dates : didChangeDate(i, date)
          \/ \E row \in PickedRows : didSelectRow(i, row)
          \/ \E index \in {0, 1} : didChangeValue(i, index)
    \/ TypeIn \/ EndEditing
    \/ didTapOnSaveButton \/ SaveChecklist \/ Cancel

CSpec == CInit /\ [][CNext]_listVars

------------------------------------------------------------------------------
(***************************************************************************)
(* Properties                                                              *)
(***************************************************************************)

\* The lines whose value comes with their cell and whose pair of values is
\* that of their titles: Internet takes its values from the pair of the
\* heating, and the heating takes those of Internet.
Faithful(k) ==
    ~IsText(k) /\ (cellType(k) = "segment" => k \notin {"Internet", "Type de chauffage"})

\* What a date, a picker or a yes-or-no line shows is what would be saved,
\* also after its cell was reused for a picker with fewer rows, or for a
\* segment that was on its second half.
ShownIsKept ==
    \A i \in Shown : Faithful(Items[i]) =>
        data[Items[i]] = Displayed(cells[at[i]])

\* A text line never keeps a text typed in another line: cells of texts are
\* reused, and a tap in the field and out of it writes what the cell holds.
TextIsOwn ==
    \A k \in DOMAIN data : IsText(k) => data[k] \in {NoText, Typed(k)}

(***************************************************************************)
(* The inductive invariant                                                 *)
(***************************************************************************)

ItemTitles == {Items[i] : i \in DOMAIN Items}
TextKinds == {"textView", "textField"}

Cell == [kind: {cellType(k) : k \in ItemTitles}, key: ItemTitles,
         text: {NoText} \cup {Typed(k) : k \in ItemTitles}, row: Int, date: Dates]

\* A line that is laid out has a cell of its own, configured for it, the cell
\* that is being edited is one of a text on screen, and a line that writes its
\* value when it is laid out has one in the dictionary.
CellsOK ==
    /\ cells \in Seq(Cell) /\ at \in [DOMAIN Items -> 0 .. Len(cells)]
    /\ \A i \in Shown : /\ cells[at[i]].kind = cellType(Items[i])
                        /\ cells[at[i]].key = Items[i]
                        /\ ~IsText(Items[i]) => Items[i] \in DOMAIN data
    /\ \A i, j \in Shown : at[i] = at[j] => i = j
    /\ editing = 0 \/ \E i \in Shown : at[i] = editing /\ IsText(Items[i])

\* The field of a line holds nothing but what was typed in that line.
FieldsOwn ==
    \A c \in DOMAIN cells : cells[c].kind \in TextKinds =>
        cells[c].text \in {NoText, Typed(cells[c].key)}

ListInv == CellsOK /\ FieldsOwn /\ ShownIsKept /\ TextIsOwn
=============================================================================
