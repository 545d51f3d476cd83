--------------------------- MODULE ProjectLibrary ---------------------------
(***************************************************************************)
(* What the project database promises: a list of projects, and for each    *)
(* name how often each feature was saved for it.  One step is one saved,   *)
(* erased or deleted thing, as the user sees it in the saved projects tab. *)
(* Pop-ups, handlers, the four tables of a checklist, the objects in       *)
(* memory and the life of the process do not show at this level.           *)
(***************************************************************************)
EXTENDS Integers, Sequences, FiniteSets

CONSTANTS Names

Things == {"rentability", "credit", "checklist", "adress", "photo"}

VARIABLES
    projects, \* the names of the projects, in listing order
    saved     \* saved[f][n]: how many f the projects named n have

vars == <<projects, saved>>

Count(s, n) == Cardinality({i \in DOMAIN s : s[i] = n})

Listed(s, n) == \E i \in DOMAIN s : s[i] = n

Init ==
    /\ projects = <<>>
    /\ saved = [f \in Things |-> [n \in Names |-> 0]]

\* A project appears at the end of the list, empty or with one feature.
Create(n) ==
    /\ projects' = Append(projects, n)
    /\ \/ saved' = saved
       \/ \E f \in Things \ {"photo"} :
             saved' = [saved EXCEPT ![f][n] = @ + 1]

\* A feature is added only to a project in the list, and only a photo to one
\* that has the feature.
Attach(f, n) ==
    /\ Listed(projects, n)
    /\ f # "photo" => saved[f][n] = 0
    /\ saved' = [saved EXCEPT ![f][n] = @ + 1]
    /\ UNCHANGED projects

\* The first half of a replacement.
Erase(f, n) ==
    /\ f # "photo" /\ saved[f][n] > 0
    /\ saved' = [saved EXCEPT ![f][n] = 0]
    /\ UNCHANGED projects

\* Deleting a project takes all projects of its name and all they have; the
\* other projects keep their number, though not their place in the list.
Delete(n) ==
    /\ Listed(projects, n)
    /\ Count(projects', n) = 0
    /\ \A m \in Names \ {n} : Count(projects', m) = Count(projects, m)
    /\ saved' = [f \in Things |-> [saved[f] EXCEPT ![n] = 0]]

Next ==
    \E n \in Names :
        \/ Create(n)
        \/ \E f \in Things : Attach(f, n) \/ Erase(f, n)
        \/ Delete(n)

Spec == Init /\ [][Next]_vars
=============================================================================
