-------------------------------- MODULE MCTabs --------------------------------
(***************************************************************************)
(* Small instances of the map tab and of the details screen, which change  *)
(* behind each other's back what the project database holds.  A session    *)
(* looks at one of the two.                                                *)
(***************************************************************************)
EXTENDS MapTab, ProjectDetails

CONSTANTS villa, rueA, rueB

OneName == {villa}
NoApostrophe == {}
TwoAdresses == {rueA, rueB}

\* The features whose pages do more than show a copy of a record.
WithPages == {"checklist", "adress", "photo"}

VARIABLE tab

tabVars == <<everything, pageVars, tab>>

TInit == MInit /\ DInit /\ tab \in {"map", "details"}

TNext ==
    \/ tab = "map" /\ MNext /\ UNCHANGED <<pageVars, tab>>
    \/ tab = "details" /\ DNext /\ UNCHANGED <<mapVars, saved, tab>>

TSpec == TInit /\ [][TNext]_tabVars
===============================================================================
