------------------------------- MODULE MapTab -------------------------------
(***************************************************************************)
(* The map tab, composed with the project database: an address is looked   *)
(* up by the geocoder of the system, which answers later and in any order, *)
(* the answer is kept until the user adds it to a project, and the map     *)
(* shows a marker for every address that was saved.                        *)
(*                                                                         *)
(* ProjectStore says when an address record is added or deleted; this      *)
(* module says what the record holds.  An address stands for the text and, *)
(* where a coordinate is meant, for the place the text names.              *)
(***************************************************************************)
EXTENDS ProjectStore

CONSTANTS
    Adresses,   \* texts the user looks up
    NoAdress,   \* the empty text
    MaxPending  \* bound on the searches of one text that are in flight

ASSUME MapAssumption == NoAdress \notin Adresses /\ MaxPending \in Nat

VARIABLES
    loaded,    \* the view of the tab was loaded in this run of the app
    pending,   \* pending[a]: searches of a the geocoder has not answered
    searched,  \* searchedAdress, searchResultLatitude, searchResultLongitude
    offered,   \* the copy of these three that the pop-up on screen received
    saved,     \* the address records of the database
    markers,   \* annotations
    unshown,   \* history: the records that replacements saved since the
               \* markers were last set
    mapAlert   \* the alert on the map screen

mapVars == <<loaded, pending, searched, offered, markers, unshown, mapAlert>>
everything == <<vars, mapVars, saved>>

Nowhere == [adress |-> NoAdress, latitude |-> NoAdress, longitude |-> NoAdress]

\* What the completion handler receives: no placemark with an error, or
\* placemarks without an error, the first of which may lack a location.
Answers == [placemark: {FALSE}, error: {TRUE}, location: {FALSE}]
            \cup [placemark: {TRUE}, error: {FALSE}, location: BOOLEAN]

MInit ==
    /\ Init
    /\ loaded = FALSE
    /\ pending = [a \in Adresses |-> 0]
    /\ searched = Nowhere /\ offered = Nowhere
    /\ saved = {} /\ markers = {} /\ unshown = {}
    /\ mapAlert = "none"

\* The process is gone and the map tab with it.
Forget ==
    /\ loaded' = FALSE
    /\ pending' = [a \in Adresses |-> 0]
    /\ searched' = Nowhere /\ offered' = Nowhere
    /\ markers' = {} /\ unshown' = {}
    /\ mapAlert' = "none"

MapFree == Idle /\ screen = NoPopUp /\ mapAlert = "none"

\* configureMapViewAnnotations: the markers are taken off the map, but the
\* array they are in only grows.
Annotated(records) == markers \cup records

\* The tab is opened for the first time.
viewDidLoad ==
    /\ MapFree /\ ~loaded
    /\ loaded' = TRUE
    /\ markers' = Annotated(saved) /\ unshown' = {}
    /\ UNCHANGED <<vars, saved, pending, searched, offered, mapAlert>>

\* Mutation of SearchAdress: the text is kept at once, the place later.
SearchAdressKeepsText(a) ==
    /\ MapFree /\ loaded /\ pending[a] < MaxPending
    /\ pending' = [pending EXCEPT ![a] = @ + 1]
    /\ searched' = [searched EXCEPT !.adress = a]
    /\ UNCHANGED <<vars, saved, loaded, offered, markers, unshown, mapAlert>>

\* The search pop-up hands the text over and closes.
SearchAdress(a) ==
    /\ MapFree /\ loaded /\ pending[a] < MaxPending
    /\ pending' = [pending EXCEPT ![a] = @ + 1]
    /\ UNCHANGED <<vars, saved, loaded, searched, offered, markers, unshown,
                   mapAlert>>

\* The geocoder answers on the main queue, whatever is on screen by then.
\* Without a placemark the handler returns before it looks at the error.
GeocoderAnswers(a, answer) ==
    /\ Idle /\ pending[a] > 0
    /\ pending' = [pending EXCEPT ![a] = @ - 1]
    /\ mapAlert' = IF answer.placemark /\ answer.error THEN "notFound" ELSE mapAlert
    /\ searched' = IF answer.placemark /\ ~answer.error /\ answer.location
                     THEN [adress |-> a, latitude |-> a, longitude |-> a]
                     ELSE searched
    /\ UNCHANGED <<vars, saved, loaded, offered, markers, unshown>>

\* The add button: the pop-up receives a copy of what was found last.
TapOnAddAdress ==
    /\ MapFree /\ loaded
    /\ IF searched.adress = NoAdress
         THEN mapAlert' = "searchFirst" /\ UNCHANGED <<vars, offered>>
         ELSE TapOnSaveAdress /\ offered' = searched /\ UNCHANGED mapAlert
    /\ UNCHANGED <<saved, loaded, pending, searched, markers, unshown>>

DismissAlert ==
    /\ Idle /\ mapAlert # "none" /\ mapAlert' = "none"
    /\ UNCHANGED <<vars, saved, loaded, pending, searched, offered, markers,
                   unshown>>

\* Mutation of AnnotatedAfterSave: "ConfigureMapView" is posted for a new
\* project only.
AnnotatedForNewOnly(records) ==
    IF job.call = "saveNew" THEN Annotated(records) ELSE markers

\* The handlers that save for a new or an existing project post
\* "ConfigureMapView" when the record is in; the replacement does not.
AnnotatedAfterSave(records) ==
    IF job.call = "resave" THEN markers ELSE Annotated(records)

\* A repository call for an address fills the record from the pop-up's copy.
SaveAdress ==
    /\ saveMapAdressWithNewProject \/ saveMapAdressInExistantProject
    /\ LET new == [name |-> job.name, place |-> offered]
       IN  /\ saved' = saved \cup {new}
           /\ unshown' = IF job.call = "resave" THEN unshown \cup {new} ELSE {}
    /\ markers' = AnnotatedAfterSave(saved')
    /\ UNCHANGED <<loaded, pending, searched, offered, mapAlert>>

\* The rest of the app.  Deletions take the records of the name.
AnyOtherStep ==
    /\ \/ mapAlert = "none" /\ (Tap \/ Abort) /\ ~TapOnSaveAdress
       \/ Call /\ ~SaveCall
       \/ SaveCall /\ Written # "adress"
       \/ Kill
       \/ Relaunch
    /\ saved' = {r \in saved : rec'["adress"][r.name] > 0}
    /\ IF app' # "running" THEN Forget ELSE UNCHANGED mapVars

MNext ==
    \/ viewDidLoad
    \/ \E a \in Adresses : SearchAdress(a)
    \/ \E a \in Adresses, answer \in Answers : GeocoderAnswers(a, answer)
    \/ TapOnAddAdress
    \/ DismissAlert
    \/ SaveAdress
    \/ AnyOtherStep

MSpec == MInit /\ [][MNext]_everything /\ WF_everything(Call)

-----------------------------------------------------------------------------
\* The place saved for a project is that of the address saved with it, and it
\* was found by a search: the three fields travel from the answer to the map
\* screen, to the pop-up and to the record, while other searches are answered.
SavedPlaceIsRight ==
    \A r \in saved : /\ r.place.adress \in Adresses
                     /\ r.place.latitude = r.place.adress
                     /\ r.place.longitude = r.place.adress

\* Once the map was shown every saved address has its own marker, with one
\* exception: a replacement does not refresh the map, so until the markers are
\* next set its address is without one, and the marker of an address that was
\* replaced, which no project has any more, stands in for it.
EverySavedIsMarked ==
    loaded =>
        \A r \in saved \ markers :
            r \in unshown /\ \E m \in markers \ saved : m.name = r.name

(***************************************************************************)
(* The inductive invariant, beside the one of ProjectStore.                *)
(***************************************************************************)

\* What the map screen may hold: nothing, or an address with its own place.
Places == {Nowhere} \cup {[adress |-> a, latitude |-> a, longitude |-> a] : a \in Adresses}

\* A pop-up or a handler is about an address.
AdressInHand == "adress" \in {screen.feature, job.feature}

\* The place keeps its address on the way, and the pop-up has one to save.
PlaceOK ==
    /\ searched \in Places /\ offered \in Places
    /\ AdressInHand => loaded /\ offered # Nowhere
    /\ SavedPlaceIsRight

Marked(n) == \E m \in markers : m.name = n

\* Those who are counted are those who have a record, so there is none left when
\* a replacement saves again; what is about to be replaced has a marker, which
\* will then be the only one.
MarkersOK ==
    /\ \A n \in Names : rec["adress"][n] > 0 => \E r \in saved : r.name = n
    /\ \A r \in saved : r.name \in Names /\ rec["adress"][r.name] > 0
    /\ EverySavedIsMarked
    /\ screen.page = "replace" /\ screen.feature = "adress" => Marked(screen.name)
    /\ job.call \in {"erase", "resave"} /\ job.feature = "adress" => Marked(job.name)

MapInv == IInv /\ PlaceOK /\ MarkersOK
=============================================================================
