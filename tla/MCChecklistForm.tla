--------------------------- MODULE MCChecklistForm ---------------------------
(***************************************************************************)
(* Small instances of ChecklistForm for TLC.                               *)
(***************************************************************************)
EXTENDS ChecklistForm

TwoDays == {"today", "another day"}

\* The room view has three rows, the type of estate eight.
Far == {4}

\* The date, a picker of eight rows and one of three (Type de bien, Vue de la
\* chambre), two text views (Nuisances, Atouts) and a segment (Syndicat).
MixedLines == << <<1, 1>>, <<1, 2>>, <<2, 1>>, <<2, 2>>, <<3, 4>>, <<4, 11>> >>
=============================================================================
