---------------------------- MODULE ProjectStore ----------------------------
(***************************************************************************)
(* The project database of Invest'Immo and the handlers that write to it.  *)
(*                                                                         *)
(* A Project is a name.  Everything else the user saves (a rentability     *)
(* simulation, a credit simulation, the four parts of a checklist, photos, *)
(* an address) is a record of its own table that points to its project by  *)
(* that name only: Realm keeps no link and enforces no uniqueness.         *)
(*                                                                         *)
(* Handlers run on the main thread and nothing else runs until they        *)
(* return, but a handler commits several Realm transactions one after the  *)
(* other; the system may kill the app between two of them, and Realm       *)
(* raises an exception when a property of a record that was already added  *)
(* is set outside a transaction.  "job" is the handler that is running:    *)
(* the repository call it makes next, for which project.                   *)
(***************************************************************************)
EXTENDS Integers, Sequences, FiniteSets

CONSTANTS
    Names,       \* texts a user types as a project name
    Quoted,      \* the names that hold an apostrophe
    NoProject,   \* no project is meant
    Features,    \* what the user of this instance saves
    PageSheets,  \* TRUE on iOS 13: pop-ups are sheets, a swipe closes them
    MaxProjects, \* bound on the length of the project list
    MaxPhotos    \* bound on the photos of one project

ChecklistParts == {"general", "district", "block", "apartment"}

\* The tables that point to a project.
Kinds == ChecklistParts \cup {"rentability", "credit", "adress", "photo"}

\* What a pop-up saves; "empty" is the pop-up that only creates a project.
Savable == {"rentability", "credit", "checklist", "adress"}

StoreAssumption ==
    /\ Quoted \subseteq Names
    /\ NoProject \notin Names
    /\ Features \subseteq Savable \cup {"photo"}
    /\ PageSheets \in BOOLEAN
    /\ MaxProjects \in Nat /\ MaxPhotos \in Nat
ASSUME StoreAssumption

VARIABLES
    projects, \* Results<Project>: the names, in the order Realm returns them
    rec,      \* rec[k][n]: number of records of table k that carry name n
    managed,  \* tables whose long-lived record object was already added
    screen,   \* the pop-ups on screen
    details,  \* the project whose details are open in the projects tab
    job,      \* the running handler
    app,      \* "running", "crashed" (uncaught exception) or "killed"
    torn      \* history: names whose checklist save was cut by a kill

vars == <<projects, rec, managed, screen, details, job, app, torn>>

memory == <<managed, screen, details>>

-----------------------------------------------------------------------------
Pages == {"none", "existant", "new", "newOverExistant", "replace"}

Screen == [page: Pages, feature: Savable \cup {"empty"},
           name: Names \cup {NoProject}, alert: BOOLEAN]

NoPopUp == [page |-> "none", feature |-> "empty", name |-> NoProject,
            alert |-> FALSE]

PopUp(p, f, n) == [page |-> p, feature |-> f, name |-> n, alert |-> FALSE]

\* The calls that add one record for a project that is already there; after
\* an "erase" the same repository method runs as "resave".
SaveCalls == {"saveToExistant", "resave", "saveDistrict", "saveBlock",
              "saveApartment", "savePhoto"}

Calls == SaveCalls \cup {"none", "saveNew", "erase", "drop"}

Job == [call: Calls, feature: Savable \cup {"empty"},
        name: Names \cup {NoProject}]

NoJob == [call |-> "none", feature |-> "empty", name |-> NoProject]

Run(c, f, n) == [call |-> c, feature |-> f, name |-> n]

\* The table whose record is written first, the one a pop-up looks into.
First(f) == IF f = "checklist" THEN "general" ELSE f

\* Mutation of PartsOf: a replacement deletes the general part only.
PartsOfGeneralOnly(f) == {First(f)}

PartsOf(f) == IF f = "checklist" THEN ChecklistParts ELSE {f}

Has(s, n) == \E i \in DOMAIN s : s[i] = n

Occ(s, n) == Cardinality({i \in DOMAIN s : s[i] = n})

\* Mutation of Without: only one of the projects of the name goes.
WithoutOne(s, n) ==
    {t \in UNION {[1..k -> Names] : k \in 0..Len(s)} :
        \A m \in Names : Occ(t, m) = IF m = n THEN Occ(s, m) - 1 ELSE Occ(s, m)}

\* The listings without n: Realm does not promise an order after a delete.
Without(s, n) ==
    {t \in UNION {[1..k -> Names] : k \in 0..Len(s)} :
        \A m \in Names : Occ(t, m) = IF m = n THEN 0 ELSE Occ(s, m)}

\* The loop overwrites its result at every project: the last one decides.
isMyProjectNameUnique(n) == projects = <<>> \/ projects[Len(projects)] # n

Idle == app = "running" /\ job = NoJob

-----------------------------------------------------------------------------
Init ==
    /\ projects = <<>>
    /\ rec = [k \in Kinds |-> [n \in Names |-> 0]]
    /\ managed = {}
    /\ screen = NoPopUp
    /\ details = NoProject
    /\ job = NoJob
    /\ app = "running"
    /\ torn = {}

\* The process is gone: what it held in memory is lost, and a checklist of
\* which only the first parts were committed stays as it is.
Stop(how) ==
    /\ app' = how
    /\ managed' = {}
    /\ screen' = NoPopUp
    /\ details' = NoProject
    /\ job' = NoJob
    /\ torn' = IF job.call \in {"saveDistrict", "saveBlock", "saveApartment"}
                 THEN torn \cup {job.name} ELSE torn

-----------------------------------------------------------------------------
(* Taps: a handler starts, or a pop-up opens or closes.                    *)

Show(s) == screen' = s /\ UNCHANGED <<projects, rec, managed, details, job, app, torn>>

\* The save button of the results, checklist and map screens.
TapSave(f) ==
    /\ f \in Features /\ Idle /\ screen = NoPopUp
    /\ Show(PopUp(IF projects = <<>> THEN "new" ELSE "existant", f, NoProject))

\* The "+" button of the saved projects list.
TapNewProject ==
    /\ Idle /\ screen = NoPopUp /\ details = NoProject
    /\ Show(PopUp("new", "empty", NoProject))

\* "Créer Nouveau Projet" on the list of existing projects.  The rentability
\* pop-up dismisses itself first and then presents on itself: nothing shows.
TapNewOnExistant ==
    /\ Idle /\ screen.page = "existant"
    /\ Show(IF screen.feature = "rentability" THEN NoPopUp
            ELSE [screen EXCEPT !.page = "newOverExistant"])

\* A handler takes over; it closes the top pop-up, and the notification it
\* posts asks the list under it to close too.  Both dismissals overlap, so
\* the list may stay.
Start(j, closed) ==
    /\ job' = j
    /\ screen' \in closed
    /\ UNCHANGED <<projects, rec, managed, details, app, torn>>

ListMayStay == {NoPopUp, PopUp("existant", screen.feature, NoProject)}

\* Mutation of ConfirmNew: the text of the name field is not read.
ConfirmNewBlank(n) ==
    /\ Idle /\ screen.page = "new" /\ Len(projects) < MaxProjects
    /\ Start(Run("saveNew", "empty", NoProject), {NoPopUp})

ConfirmNew(n) ==
    /\ Idle /\ ~screen.alert /\ screen.page \in {"new", "newOverExistant"}
    /\ Len(projects) < MaxProjects
    /\ IF isMyProjectNameUnique(n)
         THEN Start(Run("saveNew", screen.feature, n),
                    IF screen.page = "new" THEN {NoPopUp} ELSE ListMayStay)
         ELSE Show([screen EXCEPT !.alert = TRUE])

AlreadyHas(f, n) == rec[First(f)][n] > 0

\* The query is built by pasting the name between quotes: a name with an
\* apostrophe does not parse and the app stops.
SelectProject(i) ==
    /\ Idle /\ screen.page = "existant"
    /\ IF projects[i] \in Quoted
         THEN Stop("crashed") /\ UNCHANGED <<projects, rec>>
         ELSE IF AlreadyHas(screen.feature, projects[i])
           THEN Show(PopUp("replace", screen.feature, projects[i]))
           ELSE Start(Run("saveToExistant", screen.feature, projects[i]),
                      {NoPopUp})

ConfirmReplace ==
    /\ Idle /\ screen.page = "replace"
    /\ Start(Run("erase", screen.feature, screen.name), ListMayStay)

\* The pop-up under the one on top.
Under == CASE screen.alert -> [screen EXCEPT !.alert = FALSE]
           [] ~screen.alert /\ screen.page \in {"replace", "newOverExistant"} ->
                PopUp("existant", screen.feature, NoProject)
           [] OTHER -> NoPopUp

\* "Annuler", or "OK" on the alert.  The button of the credit pop-up that
\* asks for a replacement has an empty handler.
Cancel ==
    /\ Idle /\ screen # NoPopUp
    /\ ~(screen.page = "replace" /\ screen.feature = "credit")
    /\ Show(Under)

SwipeDown == PageSheets /\ Idle /\ screen # NoPopUp /\ Show(Under)

-----------------------------------------------------------------------------
(* The saved projects tab.                                                 *)

OpenDetails(i) ==
    /\ Idle /\ screen = NoPopUp /\ details = NoProject
    /\ details' = projects[i]
    /\ managed' = managed \ {"photo"}    \* a new controller, a new Photo()
    /\ UNCHANGED <<projects, rec, screen, job, app, torn>>

CloseDetails ==
    /\ Idle /\ screen = NoPopUp /\ details # NoProject
    /\ details' = NoProject
    /\ UNCHANGED <<projects, rec, managed, screen, job, app, torn>>

PickPhoto ==
    /\ Idle /\ screen = NoPopUp /\ details # NoProject
    /\ "photo" \in Features /\ rec["photo"][details] < MaxPhotos
    /\ Start(Run("savePhoto", "empty", details), {NoPopUp})

\* Mutation of DeleteProject: the list can be edited behind open details.
DeleteBehindDetails(i) ==
    /\ Idle /\ screen = NoPopUp
    /\ Start(Run("drop", "empty", projects[i]), {NoPopUp})

DeleteProject(i) ==
    /\ Idle /\ screen = NoPopUp /\ details = NoProject
    /\ IF projects[i] \in Quoted
         THEN Stop("crashed") /\ UNCHANGED <<projects, rec>>
         ELSE Start(Run("drop", "empty", projects[i]), {NoPopUp})

-----------------------------------------------------------------------------
(* The repository calls: one Realm transaction each.                       *)

\* Mutation of Raises: the general part is a new object at every save.
RaisesButGeneral(k) == k \in managed \ {"general"}

\* Setting a property of a record that is already in Realm, outside a
\* transaction, raises before the transaction of the call begins.
Raises(k) == k \in managed

Written == CASE job.call \in {"saveNew", "saveToExistant", "resave"} ->
                  First(job.feature)
             [] job.call = "saveDistrict" -> "district"
             [] job.call = "saveBlock" -> "block"
             [] job.call = "saveApartment" -> "apartment"
             [] job.call = "savePhoto" -> "photo"

\* Mutations of NextCall: the last part is forgotten; two parts swap places.
NextCallForgets ==
    CASE /\ job.call \in {"saveNew", "saveToExistant", "resave"}
         /\ job.feature = "checklist" -> [job EXCEPT !.call = "saveDistrict"]
      [] job.call = "saveDistrict" -> [job EXCEPT !.call = "saveBlock"]
      [] OTHER -> NoJob

NextCallSwapped ==
    CASE /\ job.call \in {"saveNew", "saveToExistant", "resave"}
         /\ job.feature = "checklist" -> [job EXCEPT !.call = "saveBlock"]
      [] job.call = "saveBlock" -> [job EXCEPT !.call = "saveDistrict"]
      [] job.call = "saveDistrict" -> [job EXCEPT !.call = "saveApartment"]
      [] OTHER -> NoJob

NextCall ==
    CASE /\ job.call \in {"saveNew", "saveToExistant", "resave"}
         /\ job.feature = "checklist" -> [job EXCEPT !.call = "saveDistrict"]
      [] job.call = "saveDistrict" -> [job EXCEPT !.call = "saveBlock"]
      [] job.call = "saveBlock" -> [job EXCEPT !.call = "saveApartment"]
      [] OTHER -> NoJob

Add(k, n) == rec' = [rec EXCEPT ![k][n] = @ + 1]

\* Address records are new for every pop-up, the other objects live as long
\* as their repository: the session (photos: the details screen).
Manage(k) == managed' = IF k = "adress" THEN managed ELSE managed \cup {k}

\* saveNew...: the record and its project in one transaction.
SaveNew ==
    /\ app = "running" /\ job.call = "saveNew"
    /\ projects' = Append(projects, job.name)
    /\ IF job.feature = "empty"
         THEN UNCHANGED <<rec, managed>>
         ELSE /\ ~Raises(Written)
              /\ Add(Written, job.name)
              /\ Manage(Written)
    /\ job' = NextCall
    /\ UNCHANGED <<screen, details, app, torn>>

\* The other save calls: one record, for a project that is already there.
SaveRecord ==
    /\ app = "running" /\ job.call \in SaveCalls
    /\ ~Raises(Written)
    /\ Add(Written, job.name)
    /\ Manage(Written)
    /\ job' = NextCall
    /\ UNCHANGED <<projects, screen, details, app, torn>>

Raise ==
    /\ app = "running"
    /\ job.call \in SaveCalls \/ (job.call = "saveNew" /\ job.feature # "empty")
    /\ Raises(Written)
    /\ Stop("crashed")
    /\ UNCHANGED <<projects, rec>>

Cleared(kinds, n) ==
    [k \in Kinds |-> IF k \in kinds THEN [rec[k] EXCEPT ![n] = 0] ELSE rec[k]]

\* Replace..., first transaction: every record of the feature is deleted.
Erase ==
    /\ app = "running" /\ job.call = "erase"
    /\ rec' = Cleared(PartsOf(job.feature), job.name)
    /\ torn' = IF job.feature = "checklist" THEN torn \ {job.name} ELSE torn
    /\ job' = [job EXCEPT !.call = "resave"]
    /\ UNCHANGED <<projects, managed, screen, details, app>>

\* Mutation of Deleted: a table is forgotten.
DeletedButBlock == Kinds \ {"block"}

\* The tables the swipe-to-delete of the list empties.
Deleted == Kinds

\* The swipe-to-delete of the list: all tables in one transaction, then ONE
\* row is removed from the table view.  If several projects had the name the
\* row count does not match and UIKit raises.
Drop ==
    /\ app = "running" /\ job.call = "drop"
    /\ projects' \in Without(projects, job.name)
    /\ rec' = Cleared(Deleted, job.name)
    /\ torn' = torn \ {job.name}
    /\ IF Occ(projects, job.name) = 1
         THEN job' = NoJob /\ UNCHANGED <<memory, app>>
         ELSE /\ app' = "crashed" /\ job' = NoJob
              /\ managed' = {} /\ screen' = NoPopUp /\ details' = NoProject

-----------------------------------------------------------------------------
(* The handlers and the repository methods, by their names in the source.   *)

TapOnSaveChecklist == TapSave("checklist")
TapOnSaveCredit == TapSave("credit")
TapOnSaveRentability == TapSave("rentability")
TapOnSaveAdress == TapSave("adress")

CreateNewProject(n) == screen.feature = "empty" /\ ConfirmNew(n)
AddChecklistToNewProject(n) == screen.feature = "checklist" /\ ConfirmNew(n)
AddCreditToNewProject(n) == screen.feature = "credit" /\ ConfirmNew(n)
AddRentabilityToNewProject(n) == screen.feature = "rentability" /\ ConfirmNew(n)
AddAdressToNewProject(n) == screen.feature = "adress" /\ ConfirmNew(n)

AddChecklistToExistantProject(i) == screen.feature = "checklist" /\ SelectProject(i)
AddCreditToExistantProject(i) == screen.feature = "credit" /\ SelectProject(i)
AddRentabilityToExistantProject(i) == screen.feature = "rentability" /\ SelectProject(i)
AddAdressToExistantProject(i) == screen.feature = "adress" /\ SelectProject(i)

ReplaceProjectChecklist == screen.feature = "checklist" /\ ConfirmReplace
ReplaceCredit == screen.feature = "credit" /\ ConfirmReplace
ReplaceRentability == screen.feature = "rentability" /\ ConfirmReplace
ReplaceAdress == screen.feature = "adress" /\ ConfirmReplace

saveEmptyNewProject == job.feature = "empty" /\ SaveNew
saveNewChecklistGeneral == job.feature = "checklist" /\ SaveNew
saveNewCreditSimulation == job.feature = "credit" /\ SaveNew
saveNewRentabilitySimulation == job.feature = "rentability" /\ SaveNew
saveMapAdressWithNewProject == job.feature = "adress" /\ SaveNew

saveChecklistGeneralToExistantProject == SaveRecord /\ Written = "general"
saveChecklistDistrict == SaveRecord /\ Written = "district"
saveChecklistApartmentBlock == SaveRecord /\ Written = "block"
saveChecklistApartment == SaveRecord /\ Written = "apartment"
addCreditSimulationToExistantProject == SaveRecord /\ Written = "credit"
addRentabilitySimulationToExistantProject == SaveRecord /\ Written = "rentability"
saveMapAdressInExistantProject == SaveRecord /\ Written = "adress"
didFinishPickingMedia == SaveRecord /\ Written = "photo"

deleteChecklist == job.feature = "checklist" /\ Erase
deleteCreditSimulation == job.feature = "credit" /\ Erase
deleteRentabilitySimulation == job.feature = "rentability" /\ Erase
deleteProjectAdress == job.feature = "adress" /\ Erase

TapOnSave == TapOnSaveChecklist \/ TapOnSaveCredit \/ TapOnSaveRentability \/ TapOnSaveAdress

TapOnCreate(n) ==
    \/ CreateNewProject(n)
    \/ AddChecklistToNewProject(n) \/ AddCreditToNewProject(n)
    \/ AddRentabilityToNewProject(n) \/ AddAdressToNewProject(n)

TapOnProject(i) ==
    \/ AddChecklistToExistantProject(i) \/ AddCreditToExistantProject(i)
    \/ AddRentabilityToExistantProject(i) \/ AddAdressToExistantProject(i)

TapOnYes ==
    \/ ReplaceProjectChecklist \/ ReplaceCredit
    \/ ReplaceRentability \/ ReplaceAdress

SaveCall ==
    \/ saveEmptyNewProject \/ saveNewChecklistGeneral \/ saveNewCreditSimulation
    \/ saveNewRentabilitySimulation \/ saveMapAdressWithNewProject
    \/ saveChecklistGeneralToExistantProject \/ saveChecklistDistrict
    \/ saveChecklistApartmentBlock \/ saveChecklistApartment
    \/ addCreditSimulationToExistantProject
    \/ addRentabilitySimulationToExistantProject
    \/ saveMapAdressInExistantProject \/ didFinishPickingMedia

EraseCall ==
    \/ deleteChecklist \/ deleteCreditSimulation
    \/ deleteRentabilitySimulation \/ deleteProjectAdress

-----------------------------------------------------------------------------
Kill == app = "running" /\ Stop("killed") /\ UNCHANGED <<projects, rec>>

Relaunch ==
    /\ app # "running"
    /\ app' = "running"
    /\ UNCHANGED <<projects, rec, memory, job, torn>>

\* A handler of another screen raises an exception: the pages of the details
\* read records that are gone or incomplete.
Abort == Idle /\ Stop("crashed") /\ UNCHANGED <<projects, rec>>

PopUpTap ==
    \/ TapOnSave
    \/ TapNewProject
    \/ TapNewOnExistant
    \/ \E n \in Names : TapOnCreate(n)
    \/ \E i \in DOMAIN projects : TapOnProject(i)
    \/ TapOnYes
    \/ Cancel
    \/ SwipeDown
    \/ \E i \in DOMAIN projects : DeleteProject(i)

DetailsTap == (\E i \in DOMAIN projects : OpenDetails(i)) \/ CloseDetails \/ PickPhoto

Tap == PopUpTap \/ DetailsTap

Call == SaveCall \/ Raise \/ EraseCall \/ Drop

Next == Tap \/ Call \/ Kill \/ Abort \/ Relaunch

\* The main thread finishes the handler it runs; users tap when they like.
Spec == Init /\ [][Next]_vars /\ WF_vars(Call)

-----------------------------------------------------------------------------
TypeOK ==
    /\ projects \in Seq(Names)
    /\ rec \in [Kinds -> [Names -> Nat]]
    /\ managed \subseteq Kinds
    /\ screen \in Screen
    /\ details \in Names \cup {NoProject}
    /\ job \in Job
    /\ app \in {"running", "crashed", "killed"}
    /\ torn \subseteq Names

\* No record outlives its project: records point to projects by name only,
\* and the delete handler has to name every one of the eight tables.
NoOrphanRecords ==
    \A k \in Kinds, n \in Names : rec[k][n] > 0 => Has(projects, n)

\* A project has at most one record of each table but photos: the pop-ups look
\* for a record before they save one, and a replacement deletes the old one.
\* Projects may share a name, so records are counted per project of the name.
OneRecordPerProject ==
    \A k \in Kinds \ {"photo"}, n \in Names : rec[k][n] <= Occ(projects, n)

\* The four tables of a checklist fill in one order, so a record of a later
\* part never stands without its earlier parts, whenever the app was stopped;
\* the pop-ups rely on it when they look only for the general part.
ChecklistInOrder ==
    \A n \in Names :
        /\ rec["apartment"][n] <= rec["block"][n]
        /\ rec["block"][n] <= rec["district"][n]
        /\ rec["district"][n] <= rec["general"][n]

\* Between handlers, a checklist that no kill cut has all of its parts; the
\* checklist page indexes all four sections when the first one is there.
ChecklistComplete ==
    job = NoJob =>
        \A n \in Names \ torn : rec["general"][n] = rec["apartment"][n]

\* The details screen and the replace pop-up keep a Project object across
\* handlers: the project they hold is never one that was deleted.
HeldProjectsExist ==
    /\ details # NoProject => Has(projects, details)
    /\ screen.name # NoProject => Has(projects, screen.name)

\* An exception raised inside a save never cuts a checklist in two: only a
\* kill of the process does.
CrashNeverTears == [][torn' \subseteq torn \/ app' = "killed"]_vars

\* A save that started to write a checklist completes it, unless it is killed.
ChecklistCompletes ==
    \A n \in Names :
        rec["general"][n] # rec["apartment"][n]
            ~> (rec["general"][n] = rec["apartment"][n] \/ n \in torn)

(***************************************************************************)
(* The inductive invariant: what holds between any two steps and makes the *)
(* properties above survive every step.                                    *)
(***************************************************************************)

\* A pop-up that saves a feature, and one that replaces it, know their feature
\* and their project.
ScreenOK ==
    /\ screen.page \in {"existant", "newOverExistant", "replace"}
         => screen.feature \in Savable
    /\ IF screen.page = "replace" THEN screen.name \in Names
                                  ELSE screen.name = NoProject

\* What the handler has established before each of its calls.
JobOK ==
    /\ job.call = "none" => job = NoJob
    /\ job.call # "none" => job.name \in Names
    /\ job.call \in {"saveToExistant", "resave", "erase"} => job.feature \in Savable
    /\ job.call \in SaveCalls \cup {"erase", "drop"} => Has(projects, job.name)
    /\ job.call \in {"saveToExistant", "resave"}
         => rec[First(job.feature)][job.name] = 0
    /\ job.call = "drop" => screen = NoPopUp /\ details = NoProject

\* How many of the four parts of n's newest checklist are written: while a
\* save runs, the parts it has reached are one ahead of the others.
Behind(n, calls) == IF job.name = n /\ job.call \in calls THEN 1 ELSE 0

PartsInStep ==
    \A n \in Names :
        LET d == Behind(n, {"saveDistrict"})
            b == Behind(n, {"saveDistrict", "saveBlock"})
            a == Behind(n, {"saveDistrict", "saveBlock", "saveApartment"})
        IN  /\ rec["district"][n] + d <= rec["general"][n]
            /\ rec["block"][n] + b <= rec["district"][n] + d
            /\ rec["apartment"][n] + a <= rec["block"][n] + b
            /\ n \notin torn => rec["apartment"][n] + a = rec["general"][n]

\* The later record objects of the checklist are added after the general one,
\* and none of those a running save still has to write is in Realm already.
ManagedInStep ==
    /\ "general" \notin managed => managed \cap ChecklistParts = {}
    /\ job.call \in {"saveDistrict", "saveBlock", "saveApartment"} => "general" \in managed
    /\ job.call = "saveDistrict" => managed \cap {"district", "block", "apartment"} = {}
    /\ job.call = "saveBlock" => managed \cap {"block", "apartment"} = {}
    /\ job.call = "saveApartment" => "apartment" \notin managed

IInv ==
    /\ TypeOK /\ ScreenOK /\ JobOK
    /\ NoOrphanRecords /\ OneRecordPerProject /\ HeldProjectsExist
    /\ PartsInStep /\ ManagedInStep

\* The database implements the library: a checklist counts from its general
\* part on, which a save writes first and a deletion takes with the others.
Library == INSTANCE ProjectLibrary WITH
    saved <- [f \in Savable \cup {"photo"} |-> rec[First(f)]]

ImplementsLibrary == Library!Spec

-----------------------------------------------------------------------------
(* What the texts of the app say, and its code does not keep.              *)

\* "... voulez-vous la remplacer ?": after "Oui" the project has a record
\* again, the replacement of the old one, once the handler is over.
ReplaceKeepsARecord ==
    [][\A f \in Savable, n \in Names :
          (job = Run("resave", f, n) /\ job' = NoJob /\ app' # "killed")
              => rec'[First(f)][n] > 0]_vars
=============================================================================
