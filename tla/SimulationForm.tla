---------------------------- MODULE SimulationForm ----------------------------
(***************************************************************************)
(* The two forms of the simulations tab, from the cells of the table to    *)
(* the page of results.  A cell belongs to the line it was last configured *)
(* for; the table view reuses cells of lines that scrolled away; what a    *)
(* text field holds reaches the data of the form when editing ends.        *)
(* Form says which of the two controllers is modelled: they differ in      *)
(* their lines, in the cell that is asked to end editing, and in the       *)
(* calculator.                                                             *)
(***************************************************************************)
EXTENDS Calculators, FiniteSets

CONSTANTS
    Form,            \* "credit" or "rentability"
    TypedIn,         \* the lines the user types in (a bound)
    Typed,           \* what the user types
    PickedRows,      \* the rows the user picks (a bound), counted from 0
    MaxShown,        \* lines on screen at rest
    MaxRate,         \* bound on the rate the stepper buttons set
    MaxCalculations  \* bound on the calculations of a session

ASSUME FormAssumption ==
    /\ Form \in {"credit", "rentability"}
    /\ Typed \subseteq Int \cup {NoText, Unreadable}
    /\ PickedRows \subseteq 0 .. 20
    /\ {MaxShown, MaxRate, MaxCalculations} \subseteq Nat

VARIABLES
    cells,      \* the cells created so far
    at,         \* at[i]: the cell of line i, 0 when it is not laid out
    lastCell,   \* lastCreditCell, lastRentaCell
    editing,    \* the cell whose text field is first responder, or 0
    data,       \* creditData, rentabilityData
    results,    \* the results array of the repository
    page,       \* "form", "results", "aborted"
    alert,      \* the key whose alert is shown, or "none"
    computed,   \* history: the data of the latest results
    saved       \* the records saved in this session, with their results

formVars == <<cells, at, lastCell, editing, data, results, page, alert,
              computed, saved>>

creditDuration == [row \in 0 .. 20 |-> 10 + row]
Durations == {creditDuration[row] : row \in DOMAIN creditDuration}

Lines(kinds, keys) == [i \in DOMAIN keys |-> [kind |-> kinds[i], key |-> keys[i]]]

CreditCells ==
    Lines(<<"textField", "pickerView", "stepper", "stepper", "textField">>,
          <<"Montant a financer", "Duree", "Taux", "Taux assurance",
            "Frais de dossier">>)

RentabilityCells ==
    Lines(<<"without", "without", "without", "subtitled", "subtitled",
            "subtitled", "subtitled", "without", "subtitled", "subtitled">>,
          <<"Prix du bien", "Cout des travaux", "Frais de notaire",
            "Loyer mensuel", "Taxe fonciere", "Frais d'entretien",
            "Charges de copropriete", "Frais de gerance",
            "Assurance loyers impayes", "Cout du credit">>)

Items == IF Form = "credit" THEN CreditCells ELSE RentabilityCells
Keys == {Items[i].key : i \in DOMAIN Items}

\* The screen is not longer than the table.
ASSUME ShownAssumption == MaxShown <= Len(Items)

\* The kind of cell the calculation button ends the editing of.
LastKind == IF Form = "credit" THEN "textField" ELSE "subtitled"

CalculationError(d) ==
    IF Form = "credit" THEN CreditError(d) ELSE RentabilityError(d)

CalculationResults(d) ==
    IF Form = "credit" THEN CreditResults(d) ELSE RentabilityResults(d)

------------------------------------------------------------------------------
Texts == Typed \cup {NoText} \cup 0 .. MaxRate

\* A new cell: an empty field, and the picker on its middle row, which it
\* also remembers.
NewCell(kind) ==
    [kind |-> kind, key |-> "none", text |-> NoText, row |-> 10, picked |-> 10]

Shown == {i \in DOMAIN at : at[i] # 0}
Spare(kind) == {c \in DOMAIN cells :
                    cells[c].kind = kind /\ \A i \in DOMAIN at : at[i] # c}

\* textFieldShouldEndEditing: the delegate writes the text under the key.
Committed(d, c) ==
    IF c = 0 THEN d ELSE [d EXCEPT ![cells[c].key] = cells[c].text]

OnForm == page = "form" /\ alert = "none"

\* The first layout is done before the user can touch the form: one new cell
\* for each of the first lines.
FInit ==
    /\ cells = [i \in 1 .. MaxShown |->
                  [NewCell(Items[i].kind) EXCEPT !.key = Items[i].key]]
    /\ at = [i \in DOMAIN Items |-> IF i <= MaxShown THEN i ELSE 0]
    /\ lastCell = LET last == {i \in 1 .. MaxShown : Items[i].kind = LastKind}
                  IN  IF last = {} THEN 0
                      ELSE CHOOSE i \in last : \A j \in last : j <= i
    /\ data = [k \in Keys |-> IF k = "Duree" /\ MaxShown >= 2
                              THEN creditDuration[10] ELSE NoText]
    /\ editing = 0 /\ results = << >> /\ page = "form" /\ alert = "none"
    /\ computed = [k \in Keys |-> NoText] /\ saved = {}

------------------------------------------------------------------------------
(***************************************************************************)
(* The table view                                                          *)
(***************************************************************************)

\* Mutation of Configured: configure forgets to set the key.
ConfiguredKeepsKey(cell, item) ==
    IF cell.key = "none" THEN [cell EXCEPT !.key = item.key] ELSE cell

\* configure sets the key and the labels; the text field and the picker keep
\* what they hold.
Configured(cell, item) == [cell EXCEPT !.key = item.key]

\* Line i scrolls in and getCorrectCell gives it a spare cell of its kind, or
\* a new one when there is none.  A picker writes the duration at the index
\* it remembers, which may be past the end of the list.
LineEnters(i) ==
    LET kind == Items[i].kind
        new == Len(cells) + 1
    IN  /\ OnForm /\ i \notin Shown /\ {i - 1, i + 1} \cap Shown # {}
        /\ Cardinality(Shown) <= MaxShown
        /\ \E c \in IF Spare(kind) # {} THEN Spare(kind) ELSE {new} :
              LET cell == Configured(IF c = new THEN NewCell(kind) ELSE cells[c],
                                     Items[i])
              IN  /\ cells' = IF c = new THEN Append(cells, cell)
                              ELSE [cells EXCEPT ![c] = cell]
                  /\ at' = [at EXCEPT ![i] = c]
                  /\ lastCell' = IF kind = LastKind THEN c ELSE lastCell
                  /\ IF kind # "pickerView" THEN UNCHANGED <<data, page>>
                     ELSE IF cell.picked \in DOMAIN creditDuration
                     THEN /\ data' = [data EXCEPT !["Duree"] =
                                                creditDuration[cell.picked]]
                          /\ UNCHANGED page
                     ELSE page' = "aborted" /\ UNCHANGED data
        /\ UNCHANGED <<editing, results, alert, computed, saved>>

\* A line at an end of the screen scrolls away and its cell becomes spare.
\* The table view keeps the cell that is being edited.
LineLeaves(i) ==
    /\ OnForm /\ i \in Shown /\ at[i] # editing
    /\ ~({i - 1, i + 1} \subseteq Shown)
    /\ Cardinality(Shown) > MaxShown
    /\ at' = [at EXCEPT ![i] = 0]
    /\ UNCHANGED <<cells, lastCell, editing, data, results, page, alert,
                   computed, saved>>

------------------------------------------------------------------------------
(***************************************************************************)
(* The cells                                                               *)
(***************************************************************************)

\* The user edits the text of a line; the field that was being edited until
\* then ends its editing first.
TypeIn(i, text) ==
    /\ OnForm /\ i \in Shown
    /\ Items[i].kind # "pickerView" /\ Items[i].key \in TypedIn
    /\ data' = IF editing = at[i] THEN data ELSE Committed(data, editing)
    /\ editing' = at[i]
    /\ cells' = [cells EXCEPT ![at[i]].text = text]
    /\ UNCHANGED <<at, lastCell, results, page, alert, computed, saved>>

\* The return key, a tap beside the fields, or the field losing its window
\* when the page of results covers the form.
EndEditing ==
    /\ page \in {"form", "results"} /\ alert = "none" /\ editing # 0
    /\ data' = Committed(data, editing)
    /\ editing' = 0
    /\ UNCHANGED <<cells, at, lastCell, results, page, alert, computed, saved>>

StepRate(i, rate) ==
    /\ OnForm /\ Items[i].kind = "stepper" /\ Items[i].key \in TypedIn
    /\ rate <= MaxRate
    /\ cells' = [cells EXCEPT ![at[i]].text = rate]
    /\ UNCHANGED <<at, lastCell, editing, data, results, page, alert, computed,
                   saved>>

\* The buttons of the stepper set the text of the field, and nothing else.
didTapOnPlusButton(i) ==
    LET rate == transformInDouble(cells[at[i]].text) + 1
    IN  i \in Shown /\ StepRate(i, rate)

didTapOnMinusButton(i) ==
    LET rate == transformInDouble(cells[at[i]].text) - 1
    IN  i \in Shown /\ StepRate(i, IF rate <= 0 THEN 0 ELSE rate)

\* The picker remembers the value of the row, not the row.
PickDuration(i, row) ==
    /\ OnForm /\ i \in Shown /\ Items[i].kind = "pickerView"
    /\ cells' = [cells EXCEPT ![at[i]].row = row,
                              ![at[i]].picked = creditDuration[row]]
    /\ data' = [data EXCEPT ![cells[at[i]].key] = creditDuration[row]]
    /\ UNCHANGED <<at, lastCell, editing, results, page, alert, computed, saved>>

------------------------------------------------------------------------------
(***************************************************************************)
(* The buttons and the page of results                                     *)
(***************************************************************************)

\* Mutation of ShowResults: the page is pushed whatever the calculator said.
ShowResultsAlways(d) ==
    /\ results' = IF CalculationError(d) = "none"
                  THEN results \o CalculationResults(d) ELSE results
    /\ computed' = d /\ page' = "results" /\ UNCHANGED alert

\* The error shows its alert; the four results are appended to those of the
\* calculations before, and the page is pushed.
ShowResults(d) ==
    LET error == CalculationError(d)
    IN  IF error # "none"
        THEN alert' = error /\ UNCHANGED <<results, computed, page>>
        ELSE /\ results' = results \o CalculationResults(d)
             /\ computed' = d /\ page' = "results" /\ UNCHANGED alert

\* The button ends the editing of the cell laid out last, if it is that
\* one, and calculates; without such a cell there is no field and it does
\* nothing.
didTapOnCalculButton ==
    /\ OnForm /\ lastCell # 0
    /\ Len(results) < 4 * MaxCalculations
    /\ data' = IF editing = lastCell THEN Committed(data, editing) ELSE data
    /\ editing' = IF editing = lastCell THEN 0 ELSE editing
    /\ ShowResults(data')
    /\ UNCHANGED <<cells, at, lastCell, saved>>

DismissAlert ==
    /\ alert # "none" /\ alert' = "none"
    /\ UNCHANGED <<cells, at, lastCell, editing, data, results, page, computed,
                   saved>>

Back ==
    /\ page = "results" /\ page' = "form"
    /\ UNCHANGED <<cells, at, lastCell, editing, data, results, alert, computed,
                   saved>>

\* The results page shows, and a save stores, the first four results.
FirstFour == SubSeq(results, 1, 4)

\* The record a pop-up of the results page saves.  The second save of a
\* session raises, as ProjectStore says, and saves nothing.
SaveSimulation ==
    /\ page = "results" /\ saved = {}
    /\ saved' = {[inputs |-> data, results |-> FirstFour]}
    /\ UNCHANGED <<cells, at, lastCell, editing, data, results, page, alert,
                   computed>>

FNext ==
    \/ \E i \in DOMAIN Items :
          \/ LineEnters(i) \/ LineLeaves(i)
          \/ \E text \in Typed : TypeIn(i, text)
          \/ didTapOnPlusButton(i) \/ didTapOnMinusButton(i)
          \/ \E row \in PickedRows : PickDuration(i, row)
    \/ EndEditing \/ didTapOnCalculButton \/ DismissAlert \/ Back
    \/ SaveSimulation

FSpec == FInit /\ [][FNext]_formVars

------------------------------------------------------------------------------
(***************************************************************************)
(* Properties                                                              *)
(***************************************************************************)

\* While the page of results is on screen its four lines exist in the array it
\* indexes, and they stay complete sets of four, whatever was tried before.  No
\* loan was computed without a duration of the list, which comes from a picker
\* that writes it when it is laid out, and is never typed.
PageHasItsResults ==
    /\ page = "results" => Len(results) >= 4
    /\ Len(results) % 4 = 0
    /\ \A r \in saved : Len(r.results) = 4
    /\ Form = "credit" /\ results # << >> =>
          computed["Duree"] \in Durations

\* What is written under the key of a text line is what the field of that
\* line shows on screen: with cells reused, an edit must not reach the line
\* the cell showed before.
WrittenIsShown ==
    [][\A k \in Keys \ {"Duree"} : data'[k] # data[k] =>
          \E i \in Shown : Items[i].key = k /\ cells[at[i]].text = data'[k]]_formVars

(***************************************************************************)
(* The inductive invariant                                                 *)
(***************************************************************************)

AnyText == Int \cup {NoText, Unreadable}

Cell == [kind: {Items[i].kind : i \in DOMAIN Items}, key: Keys, text: AnyText,
         row: 0 .. 20, picked: Int]

FormTypeOK ==
    /\ cells \in Seq(Cell)
    /\ at \in [DOMAIN Items -> 0 .. Len(cells)]
    /\ lastCell \in 0 .. Len(cells)
    /\ data \in [Keys -> AnyText]
    /\ computed \in [Keys -> AnyText]

\* A line that is laid out has a cell of its own, configured for it, and the
\* cell that is being edited is on screen and has a field.
LinesOK ==
    /\ \A i \in Shown : /\ cells[at[i]].kind = Items[i].kind
                        /\ cells[at[i]].key = Items[i].key
    /\ \A i, j \in Shown : at[i] = at[j] => i = j
    /\ editing = 0 \/ \E i \in Shown : at[i] = editing /\ Items[i].kind # "pickerView"

\* The rate, which no loan is computed without, is below the picker: the form
\* has a duration from the moment the picker was laid out.
DurationOK ==
    Form = "credit" /\ page # "aborted"
      /\ (data["Taux"] # NoText \/ \E i \in Shown : i >= 2)
        => data["Duree"] \in Durations

FormInv == FormTypeOK /\ LinesOK /\ DurationOK /\ PageHasItsResults
=============================================================================
