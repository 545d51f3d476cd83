--------------------------- MODULE ProjectDetails ---------------------------
(***************************************************************************)
(* The details screen of a project: five pages, each of which reads the    *)
(* database once, when its view is loaded, and never again.  The screen    *)
(* stays open in its tab while the user works in the others, so every      *)
(* handler of ProjectStore can run behind it.                              *)
(*                                                                         *)
(* The pages keep copies of what they read, but two keep more: the gallery *)
(* waits for images that the photo library delivers later, one by one, and *)
(* the map page keeps the address record itself, which a replacement in    *)
(* the map tab deletes.                                                    *)
(***************************************************************************)
EXTENDS ProjectStore

VARIABLES
    front,   \* the page in front, "none" while the screen is closed
    seen,    \* the pages whose view is loaded
    found,   \* the tables in which a loaded page found a record
    gone,    \* the address record the map page holds was deleted
    picker,  \* the photo picker covers the app
    gallery  \* the collection view of the photos page

pageVars == <<front, seen, found, gone, picker, gallery>>
allVars == <<vars, pageVars>>

\* The pages, as the menu bar and the swipes order them.
viewControllers == <<"credit", "rentability", "checklist", "photos", "map">>

DetailPages == {viewControllers[i] : i \in DOMAIN viewControllers}

\* The table a page looks into to decide whether it has anything to show.
MainKind(p) == CASE p = "checklist" -> "general" [] p = "photos" -> "photo"
                 [] p = "map" -> "adress" [] OTHER -> p

TablesOf(p) == PartsOf(IF p = "checklist" THEN p ELSE MainKind(p))

Neighbours(p, q) == \E i \in 1..(Len(viewControllers) - 1) :
                        {p, q} = {viewControllers[i], viewControllers[i + 1]}

\* due: deliveries the photo library still owes; images: photosToDisplay;
\* items: how many cells the view laid out; dirty: it will lay out again.
NoGallery == [due |-> 0, images |-> 0, items |-> 0, dirty |-> FALSE]

DInit ==
    /\ Init
    /\ front = "none" /\ seen = {} /\ found = {}
    /\ gone = FALSE /\ picker = FALSE /\ gallery = NoGallery

\* The controllers of the screen are released.
Close ==
    /\ front' = "none" /\ seen' = {} /\ found' = {}
    /\ gone' = FALSE /\ picker' = FALSE /\ gallery' = NoGallery

\* Nothing covers the screen and no handler runs.
Free == Idle /\ screen = NoPopUp /\ ~picker /\ details # NoProject

-----------------------------------------------------------------------------
(* Pages.                                                                  *)

\* What the page of project n reads when its view is loaded.
Read(p, n) == {k \in TablesOf(p) : rec[k][n] > 0}

\* The gallery asks the photo library for the images of n's identifiers: none
\* for a photo that left the library, else a thumbnail and perhaps a better one.
getImages(n) == {[NoGallery EXCEPT !.due = d, !.dirty = TRUE] :
                    d \in 0..(2 * rec["photo"][n])}

\* A page comes to the front: its view is loaded the first time only.
Load(p) ==
    IF p \in seen THEN UNCHANGED <<seen, found, gallery>>
    ELSE /\ seen' = seen \cup {p}
         /\ found' = found \cup Read(p, details)
         /\ gallery' \in IF p = "photos" THEN getImages(details) ELSE {gallery}

OpenPages(i) ==
    /\ ~picker /\ OpenDetails(i)
    /\ front' = viewControllers[1]
    /\ seen' = {viewControllers[1]}
    /\ found' = Read(viewControllers[1], projects[i])
    /\ UNCHANGED <<gone, picker, gallery>>

ClosePages == ~picker /\ CloseDetails /\ Close

\* A tap in the menu bar.
scrollToMenuIndex(p) ==
    /\ Free
    /\ front' = p
    /\ Load(p)
    /\ UNCHANGED <<vars, gone, picker>>

\* A swipe loads the next page even if the finger takes it back.
Swipe(p) ==
    /\ Free /\ Neighbours(front, p)
    /\ front' \in {front, p}
    /\ Load(p)
    /\ UNCHANGED <<vars, gone, picker>>

\* A row of a checklist part that was not found, although the general part
\* was: its result is not in the array.
ShowMissingRow(k) ==
    /\ Free /\ front = "checklist"
    /\ "general" \in found /\ k \in ChecklistParts \ found
    /\ Abort /\ Close

\* The GPS button reads the address record before anything else.
TapGpsOnGone ==
    /\ Free /\ front = "map" /\ "adress" \in found /\ gone
    /\ Abort /\ Close

-----------------------------------------------------------------------------
(* Photos.                                                                 *)

\* The notification posted by the camera button.
modifyLabel(g) == [g EXCEPT !.dirty = TRUE]

\* The camera button; whether the picker opens is up to the permission.
TapAddPhoto ==
    /\ Free /\ front = "photos"
    /\ gallery' = modifyLabel(gallery)
    /\ picker' \in BOOLEAN
    /\ UNCHANGED <<vars, front, seen, found, gone>>

DismissPicker ==
    /\ Idle /\ picker /\ picker' = FALSE
    /\ UNCHANGED <<vars, front, seen, found, gone, gallery>>

TakePhoto ==
    /\ picker /\ PickPhoto /\ picker' = FALSE
    /\ UNCHANGED <<front, seen, found, gone, gallery>>

\* The photo library delivers an image on the main queue.
ImageArrives ==
    /\ Idle /\ gallery.due > 0
    /\ gallery' = [gallery EXCEPT !.due = @ - 1, !.images = @ + 1]
    /\ UNCHANGED <<vars, front, seen, found, gone, picker>>

\* The collection view asks for its number of items after a reload.
LayOut ==
    /\ Idle /\ gallery.dirty
    /\ gallery' = [gallery EXCEPT !.dirty = FALSE, !.items = gallery.images]
    /\ UNCHANGED <<vars, front, seen, found, gone, picker>>

-----------------------------------------------------------------------------
\* The rest of the app, behind the open screen.  The transaction that begins
\* the replacement of an address deletes the record the map page holds.
Elsewhere ==
    /\ (PopUpTap /\ ~picker) \/ Call \/ Kill \/ Relaunch
    /\ IF details' = NoProject THEN Close
       ELSE /\ gone' = (gone \/ (job = Run("erase", "adress", details)
                                 /\ "adress" \in found))
            /\ UNCHANGED <<front, seen, found, picker, gallery>>

DNext ==
    \/ \E i \in DOMAIN projects : OpenPages(i)
    \/ ClosePages
    \/ \E p \in DetailPages : scrollToMenuIndex(p) \/ Swipe(p)
    \/ \E k \in ChecklistParts : ShowMissingRow(k)
    \/ TapGpsOnGone
    \/ TapAddPhoto \/ DismissPicker \/ TakePhoto
    \/ ImageArrives \/ LayOut
    \/ Elsewhere

DSpec == DInit /\ [][DNext]_allVars /\ WF_vars(Call)

-----------------------------------------------------------------------------
\* What a page shows was not deleted behind it: between handlers the project
\* still has a record of every table in which a page found one, although it
\* may be another record.
FoundStaysSaved == job = NoJob => \A k \in found : rec[k][details] > 0

\* The tables the running handler still has to write for the open project: a
\* replacement deletes the records of all the parts and saves them one by one.
ToBeWritten ==
    IF job.name # details THEN {}
    ELSE CASE job.call = "resave" -> PartsOf(job.feature)
           [] job.call = "saveDistrict" -> {"district", "block", "apartment"}
           [] job.call = "saveBlock" -> {"block", "apartment"}
           [] job.call = "saveApartment" -> {"apartment"}
           [] OTHER -> {}

\* The inductive invariant: what a page found is saved, or about to be.
DetailsInv ==
    /\ IInv
    /\ found \subseteq Kinds
    /\ details = NoProject => found = {}
    /\ \A k \in found : rec[k][details] > 0 \/ k \in ToBeWritten
=============================================================================
