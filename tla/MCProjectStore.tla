--------------------------- MODULE MCProjectStore ---------------------------
(***************************************************************************)
(* Small instances of ProjectStore for TLC.                                *)
(***************************************************************************)
EXTENDS ProjectStore

CONSTANTS villa, lApart \* two names; lApart stands for "L'appart"

TwoNames == {villa, lApart}
WithApostrophe == {lApart}
NoApostrophe == {}

Everything == Savable \cup {"photo"}
OnlyCredit == {"credit"}

\* Bound: at most three things are saved at a time, so that a name can hold two
\* while another holds one.
Saved == {<<f, n>> \in Everything \X Names : rec[First(f)][n] > 0}
FewSaved == Cardinality(Saved) <= 3
=============================================================================
