# Invest'Immo: a TLA+ development

Invest'Immo is an iOS application (Swift, UIKit, Realm) with which a buyer of
real estate estimates the yield and the credit of a purchase, fills in a
check-list on a visit, looks up an address, takes photos, and saves all of these
under *projects*. The repository holds the application and, under
`Pods/Realm`, the source of the Realm database it runs on.

This directory models two things. Of the application: the database, every handler
that writes to it, the details screen that reads from it, the map tab, the
simulation forms with their calculators and the check-list form that feed it. Of
Realm: the machinery that makes concurrency hard, that is transactions and
notifiers with their worker thread, change sets, the transaction log with the
observers of objects, synchronised sessions, and the update of a file's schema
by several processes. TLC checks the models on small
instances; TLAPS proves the invariants of everything but the change sets and the
log for every value of the constants.

Paths of the application are relative to `src/InvestImmo/InvestImmo/`, those of
Realm to `src/InvestImmo/Pods/Realm/`; `ObjectStore` is short for
`Realm/ObjectStore/src`.

## 1. Inventory

### 1.1 The application

| Component | Source | State | Operations |
|---|---|---|---|
| Project database | `*/Model/*Repository.swift`, `SavedProjects/Model/Project.swift` | nine Realm tables (`Project`, `CreditSimulation`, `RentabilitySimulation`, four `Checklist...` tables, `MapAdress`, `Photo`); one long-lived record object per table in each repository | save for a new project, save for an existing one, delete by name, read by name |
| Pop-ups | `Pop Up/**/Controller` | the stack of presented view controllers, the chosen project, a copy of what is to be saved | choose a project, name a new one, confirm a replacement, cancel |
| Saved projects list | `SavedProjects/Controller/SavedProjectsViewController.swift` | a live query of `Project`, the rows UIKit believes are there | open details, create, swipe to delete |
| Details screen | `SavedProjects/Controller/*` | five pages, each with what it read in `viewDidLoad`; the gallery's images; one `Photo` object | turn pages, pick a photo, reload the gallery, GPS |
| Map tab | `Map/Controller/MapViewController.swift`, `Pop Up/Map PopUp` | the address and the coordinate found last, the array of annotations | search, add the address to a project |
| Simulation forms | `Simulations/Controller`, `Simulations/View` | a dictionary from titles to texts, lists of cells, a list of results | edit cells, calculate, show, save |
| Calculators | `Simulations/Model/*Calculator.swift` | a copy of the form's dictionary | yields, cash flow, monthly payment, which input is missing |
| Check-list form | `Checklist/Controller/ChecklistViewController.swift` | four dictionaries, the cells | edit cells, save |
| Simulations tab, info page, alerts, views | `Simulations/Controller/SimulationsViewController.swift`, `Infos`, `Alerts`, `Extensions` | the page in front | navigation, layout |
| Core Data template | `AppDelegate.swift`, `SceneDelegate.swift` | - | generated |

**How they interact.** In the application everything runs on the main thread. A
screen that has something to save presents a pop-up and hands it a copy, or the
repository object itself. The pop-up calls a repository method, dismisses itself
and posts a notification through the `NotificationCenter`: `DismissFirstAlert`
and `DismissAlertFromReplaceVC` ask the list under it to close too,
`ConfigureMapView` asks the map to place its markers again,
`ReloadPhotoCollectionView` asks the gallery to lay out again. Records point to
their project by *name*: there is no link, no cascade and no key. Three things
arrive asynchronously: the geocoder's answers, the photo library's images and
its permission.

**What is hard.** One handler commits several transactions, and the process can
be killed between them. Realm raises when a property of a record that is
already in the database is set outside a transaction, and several repositories
reuse one record object for a session. Pop-ups overlap. Pages show what they
read long ago while other tabs change the database. Answers arrive late and out
of order.

**What makes each component correct.**

- *Database and pop-ups*: no record without its project; at most one record of
  a kind per project, although the look-up and the save are separate steps; a
  check-list's four records appear in one order and, unless a kill cuts the
  save, all four of them; no pop-up or page holds a deleted project.
- *Details*: what a page found when it was loaded is still in the database.
- *Map*: the coordinate saved for a project is that of the address saved with it;
  every saved address has its marker, but for one that a replacement has just
  saved, in whose place an old one stands.
- *Forms*: what is written under a title is what the line of that title shows,
  though cells are reused; the page of results has the results it indexes; a line
  of the check-list keeps what it shows and no other line's text.
- *Calculators*: an error exactly for a blank line that is needed; the figures of
  a page agree with each other.

### 1.2 Realm

| Component | Source | State | Operations |
|---|---|---|---|
| Transactions and notifiers | `ObjectStore/shared_realm.cpp`, `impl/realm_coordinator.*`, `impl/collection_notifier.*`, `impl/results_notifier.cpp` | a version per Realm, the write lock, the two lists of notifiers, each with callbacks, rows and changes to hand over, the pinned versions | observe, add and remove callbacks, begin, commit, cancel, refresh, notify; the worker's rounds |
| Change sets | `impl/collection_change_builder.cpp`, `index_set.cpp` | sets of indices (deletions, insertions, modifications) and moves | instructions of rows and of lists, merge, comparison of results |
| Transaction log and object observers | `include/core/realm/impl/transact_log.hpp`, `impl/transact_log_handler.cpp` | the table and the list selected last, the instructions; per observed object its changes | write, read, reverse; tell the observers |
| Synchronised sessions | `sync/sync_session.cpp`, `sync_user.cpp`, `sync_manager.cpp` | the state of a session, its `sync::Session`, waiting blocks, references, two mutexes | get, drop, log in and out, suspend, wait, commit, errors, tokens |
| Schema updates | `ObjectStore/object_store.cpp`, `schema.cpp`, `shared_realm.cpp`, `impl/realm_coordinator.cpp`, `Realm/RLMRealm.mm` | the tables and the version in the file; per instance its schema with columns, its version, the transaction they are of; per process a cache with a range of transactions | open, compare, update, migrate, read, advance, cache |
| Objects, lists, permissions, partial sync | `list.cpp`, `object.cpp`, `sync/partial_sync.cpp`, ... | - | accessors |
| Storage core, Objective-C binding | `include/core`, `Realm/*.mm` | - | the core is a binary with inline headers |

**How they interact.** Every Realm belongs to one thread, which reads one version
of the file; a commit makes the next one. The coordinator of a file gives the
observed queries to *one* worker thread, which follows the file with a
transaction of its own, reruns the queries outside the lock, and hands rows and
changes over under it. A Realm's thread packages what was handed over when it
advances, and calls the blocks. While it advances, the transaction log of the
versions in between is read by an observer, which says what became of rows; what
a writer logged and then cancels is read backwards. A synchronised Realm holds a
reference on a session; references, the user and the client of the server move
the session between its states, each in a thread of its own. The first instance a
process opens compares the schema of the application with that of the file and
changes the file in a write transaction; the others take the schema from one that
is open or from the coordinator's cache. Another process, say an extension of the
application, may have the file open with other code.

**What is hard.** Threads meet at three mutexes and an unlocked flag. Blocks of
the user run in the middle of a delivery and add, remove, write and release.
Versions are skipped on request, and several rounds are merged before they are
delivered. A row is an index and moves when another one is deleted. A session
may be wanted again while it is ending, and the server's answers arrive after
the question has lost its sense. A property is the index of a column, and columns
come and go while instances are open.

**What makes each component correct.** A block is told every change once, at a
version it can read, and none that did not happen; writers never overwrite each
other; what is handed over fits the version at which it is imported. A change
set turns the old results into the new ones. A log leads from the group as it
was to the group as it is. Nobody who waits for a session is forgotten, what was
committed is announced, and a session somebody holds stays registered. An
instance knows the columns of the snapshot it reads, a cached schema is that of
the snapshots it is cached for, and a file is migrated forward, once.

`PROJECT.json` lists the hazards of both halves at the lines where they bite.

## 2. Modules

| Module | Role |
|---|---|
| `ProjectStore` | the database, the pop-ups, the saved projects list; the core of the application |
| `ProjectLibrary` | what the database promises: an abstract library of projects and saved items |
| `ProjectStoreProofs` | the inductive invariant of `ProjectStore`, its consequences, and that `ProjectStore` implements `ProjectLibrary`, proved; then the invariants of `ProjectDetails` and `MapTab` over it |
| `ProjectDetails` | `ProjectStore` composed with the details screen |
| `MapTab` | `ProjectStore` composed with the map tab and the geocoder |
| `Calculators` | the two calculators, as functions of the dictionary of a form |
| `SimulationForm` | the credit and rentability forms, from cells to results; uses `Calculators` |
| `FormProofs` | what the calculators throw and that their figures agree; the inductive invariant of `SimulationForm`, proved |
| `ChecklistForm` | the check-list form, from cells to what is saved and read back |
| `ChecklistProofs` | the inductive invariant of `ChecklistForm`, proved |
| `RealmNotifications` | transactions, notifiers, the worker, deliveries |
| `VersionedFile` | what transactions promise: a file of versions with one writer |
| `RealmProofs` | the inductive invariant of `RealmNotifications`, the refinement of `VersionedFile`, the types, proved |
| `DeliveryProofs` | that deliveries are readable, right and not repeated, proved; uses `RealmProofs` |
| `LossProofs` | that no change is lost, proved; uses `DeliveryProofs` |
| `ChangeSets` | the operations of a change set |
| `ResultsDiff` | the comparison of old and new results |
| `TableChanges` | a table that is written, its log, the runs of a notifier and its deliveries; composes the two before |
| `TransactLog` | tables with lists, the encoder, the reverser, the observer, what observers are told; uses `ChangeSets` |
| `SyncSessions` | a session, its user, the manager, the client, as steps of threads |
| `SyncProofs` | that a session that is held stays registered, that waits, deaths and commits are not lost, proved |
| `Schemas` | the comparison of schemas and the changes of the tables of a file |
| `SchemaUpdate` | instances, processes and a file whose schema is brought up to date; uses `Schemas` |
| `SchemaProofs` | that the history of the file is in order, the caches are right and instances know the file they read, proved, with what the operators of `Schemas` return |
| `MC*` | small instances for TLC; `MCSimulationForm` also has the inputs of the calculators, `MCTabs` composes the two screens |

Operators named "Mutation of ..." are variants of the definition that follows
them, with a plausible bug; no specification uses them. They serve to show that
each property notices such a bug.

### 2.1 `ProjectStore`

State and code:

- `projects` is `ProjectRepository.myProjects`, the names in the order Realm
  lists them. A deletion may leave any order (`Without`).
- `rec[k][n]` counts the records of table `k` that carry name `n`. What else a
  record holds is abstracted: no decision of the store depends on it.
- `managed` holds the tables whose long-lived record object has already been
  added to Realm (`CreditRepository.creditSimulation`, the four objects of
  `ChecklistRepository`, `RentabilityRepository`'s, the `Photo` of the details
  screen). The address pop-ups make a new object each, so `"adress"` never
  enters.
- `screen` is the pop-up on top and enough of what lies under it (`Under`).
- `details` is the `selectedProject` of the details screen.
- `job` is the handler that is running: its next repository call, for which
  feature and project. A handler is the sequence of calls the source makes, each
  one transaction; `NextCall` is that sequence. While `job` runs nothing else on
  the main thread can, so every tap requires `Idle`; a kill needs nothing.
- `app` is `"running"`, `"crashed"` or `"killed"`; `torn` is a history variable,
  the names whose check-list save was cut by a kill.

Each tap is one action (`TapSave`, `ConfirmNew`, `SelectProject`,
`ConfirmReplace`, `DeleteProject`, ...), each repository call another
(`SaveNew`, `SaveRecord`, `Erase`, `Drop`, and `Raise` for the exception). The
names of the source (`AddCreditToExistantProject`, `saveChecklistDistrict`, ...)
are the instances of these for each feature. Four behaviours come from details
of the source that are easy to miss:

- `isMyProjectNameUnique` overwrites its answer in every turn of its loop: only
  the last project of the list decides. Names can be shared.
- Queries paste the name between quotes: a name with an apostrophe (`Quoted`)
  raises at every query.
- The rentability list dismisses itself before it presents the new-project
  pop-up on itself; nothing appears.
- The swipe-to-delete removes every project of the name in one transaction, and
  one row of the table: with a shared name UIKit raises after the commit.

`PageSheets` says whether pop-ups are iOS 13 sheets that a swipe closes.
`Abort` is an exception raised by a handler of another screen; the details
screen raises two of that kind.

### 2.2 `ProjectLibrary`

The abstract specification: a library of projects, each with saved items, in
which one step creates a project (with at most one item), adds an item, removes
the items of one kind or deletes a project with everything it has. A
replacement is two steps, for the code makes it two. `ImplementsLibrary` maps
the eight tables to five kinds of items, a check-list counting from its general
part on: the first that is written and one of those that go together. Under this
mapping the three later saves of a check-list, every tap, kill and relaunch are
stuttering steps.

### 2.3 `ProjectDetails`

`front`, `seen`, `found` and `gone` are the page in front, the pages whose view
is loaded, the tables in which a loaded page found a record, and whether the
address record the map page holds has been deleted. `picker` says that the photo
picker covers the app. `gallery` has the images delivered, those still due, the
number of cells and whether a layout is pending. `OpenPages`, `scrollToMenuIndex`
and `Swipe` load a page (`Load`) the first time it comes to the front, and a swipe
loads its neighbour even when it is taken back. `Elsewhere` is any handler of the
store, running behind the open screen: the tab bar lets the user go and save in
another tab. The photo library may deliver a degraded image before the final
one, hence up to two deliveries per photo.

### 2.4 `MapTab`

`pending` counts the searches the geocoder has not answered; `searched` is the
address and the coordinate of the last successful answer; `offered` is the copy
the add pop-up received; `saved` has the contents of the address records, whose
number `rec["adress"]` counts; `markers` is the array of annotations, which only
grows. `unshown` is a history variable: which records replacements saved since
the markers were last set, for a replacement does not post `ConfigureMapView`.
A coordinate is modelled by the address whose place it is, so a mixture
of two answers is visible. The geocoder is external: it answers any pending
search, with an error and no placemark, or with placemarks, the first of which
may lack a location. In `ProjectStore` the save button of the map needs
nothing; `TapOnAddAdress` adds the guard that something was found.

### 2.5 `Calculators`

A dictionary maps titles to texts: the empty text, a text that is no number
(both count as zero, but only the empty one is missing) or an integer, the
number of hundredths. `Thrown` is the first blank line among those a function
tests, in the order of its tests and of its calls. What the functions keep in
properties of the calculator between calls is written again before each use, so
it is not state. The annuity is the constant `Annuity`; `NotANumber` is the
outcome of a division by zero.

On the way to a result the code computes with Doubles and rounds nothing, so the
model computes with fractions of hundredths; each result is rounded on its own
when `"%.02f"` formats it (`Rounded`, `Formatted`, `Ratio`), to the nearest
hundredth. A quotient half-way between two is the one case in which the error of
the Doubles decides, so the constant `HalfUp` says which way it goes, for each
form and quotient, and nothing is assumed of it. Sums of hundredths are taken as
exact, which after the rounding they are as long as the amounts are not so large
that a Double has no hundredths left. A result a little below zero is formatted
as `-0.00` and becomes the text `-0`, which `isResultPositive` counts as positive:
five hundredths lost in a year are shown as a loss of the year and not of the
month. In the model that result is zero.

### 2.6 `SimulationForm`

`cells` are the cells the table view created, `at` says which line each is laid
out for; the others are spare and may be reused for a line of their kind. A cell
has its key, the text of its field, and for the duration the row the picker
shows and the number it remembers (`selectedPickerData`). `editing` is the cell
with the first responder; `Committed` is what `textFieldShouldEndEditing` does,
and each way an editing ends is an action that applies it. `LineEnters` is
`getCorrectCell`, `LineLeaves` a line scrolling away. `computed` remembers the
data of the latest results and `saved` the record a save of the session stores.
The table view is external: it reuses any spare cell of the kind, keeps the one
being edited, and lays out a window of neighbouring lines that is at rest
`MaxShown` long and one longer while it moves.

### 2.7 `ChecklistForm`

The same table view with cells of five kinds. Laying a line out configures the
cell and writes what it shows (`LaidOut`), except for texts, which are emptied
and not written. `sections` are the titles of the form, `allTitles` those of the
saved check-list and the keys of the dictionary. A line is an index path, a
section and a row; `Lines` restricts an instance to some of the forty-two. `saving` is a pop-up over the form; the order of
the four saves, a kill between them and the exception of a second save are in
`ProjectStore`. The picker view is taken to move to its last row when a reload
leaves it fewer.

### 2.8 `RealmNotifications` and `VersionedFile`

A version of the file either changes the rows the queries select (`touched`) or
not, and a change set is the set of versions whose changes it describes; 0 stands
for changes computed between the wrong rows. `rv[r]` is the version Realm `r`
reads, `writer` who has the write lock. `nt[n]` has the members of a notifier:
its list, the version and rows it has to hand over (`tvHandover`, `tvDeliver`),
and per callback what is accumulated (`acc`, `accumulated_changes`) and packaged
(`del`, `changes_to_deliver`). Four fields of a callback are history: `told`,
`base`, `mute`, `muted`. `co` has the coordinator's two `SharedGroup`s, each the
version it pins, and the skip version. `wk` is the worker in the middle of
`run_async_notifiers`: the versions it goes to and the notifiers it took.

A critical section of the notifier mutex is one step. `th[r].pc` says where
thread `r` is: waiting on the condition variable (`Sleep`, `PackageAndAdvance`),
in the blocks of `did_change` (`changed`), delivering (`Deliver`), or in the
`i`-th block of a notifier (`CallNext`). In a block (`InBlock`) the user's code
may register, add and remove callbacks, write (`BeginNested`), suppress and
release. The worker's round is `WorkerStart` (choose the version, under the
mutex), `WorkerAdvance`, `WorkerRun` (without it), `WorkerHandover` (under it
again) and `WorkerAnnounce`, the middle three once more when a version is to be
skipped. `Notify` and `Refresh` are what the run loop and the user call.

`VersionedFile` is the abstract specification: a latest version, a version per
Realm, a writer who starts from the latest. A write that waits for notifiers
holds the lock but has not begun (`begun`); with this mapping every step of the
machinery is a step of the file or a stutter.

### 2.9 `ChangeSets`, `ResultsDiff`, `TableChanges`

`ChangeSets` has `CollectionChangeBuilder` as a record of sets and a sequence of
moves, each operation a function of it: `Insert`, `MoveOver`, `Swap`, `Clear`, the
ones of lists (`Erase`, `MoveEntry`, `ClearList`), `ParseComplete`, `Merge`,
`Finalize`. An `IndexSet`, which keeps ranges in chunks, is the set of its indices;
its shifts and unshifts are the arithmetic of the source. `ResultsDiff` is
`calculate`, with the search for longest matches of the sorted case as a recursive
function. `TableChanges` composes them: a table is written, the log becomes a
builder, the notifier runs (`Run`) whenever it likes and merges into `acc`, and a
delivery (`Deliver`) takes `acc`. `given` and `ran` are the results at the last
delivery and at the last run.

### 2.10 `TransactLog`

`group` is a sequence of tables, a table a sequence of rows with an identity, a
value and a list; `base` is the group when the transaction began. `views[a]` is
whose list the accessor at address `a` is of. `selTable`, `selList` are
`m_selected_table` and `m_selected_link_list`; `log` has the instructions, of
which a selection is left out when the encoder thinks it is selected. Every
change of a table goes through `WriteTable` (`select_table`, which also forgets
the list), every change of a list through `WriteList` (`select_link_list`). `Drop`
destroys an accessor; its address may be used again by the next.

What is done with the log is a function of it. `Reversed` is `TransactReverser`
with its pending selections. `Observe` folds `ObserveOne`, which is
`TransactLogObserver`, over the log; `ToldOf` is `KVOAdapter::before`, from the
observer's changes to what it is told. `Meant` and `Placed` give the instructions
the meaning the core gives them, independently of encoder and observer; they are
what the properties compare with.

### 2.11 `SyncSessions`

A critical section of `m_state_mutex` is one step. The mutexes of manager and
user are held over several steps: what a thread still has to do in the call it
is in is a sequence `todo[t]`, and a step that needs a mutex waits for it. `s` has
the members of the session, `lists` the blocks that wait, `life` whether the
manager has it, `link` the client with its handlers and the versions announced
and uploaded. The four states of the source (`WaitingForAccessToken`, `Active`,
`Dying`, `Inactive`) are values of `s.state`; their virtual functions are the cases
of `Close`, `Revive`, `LogOut`, `Notify`, `HandleError`. `ghost` is history: the
version a thread noted before it announces it, and the version a death owes.
`broken` says that `unregister_session` dereferenced the end of its map, where
the model stops. The session object is made once.

### 2.12 `Schemas`, `SchemaUpdate`

`file` is the sequence of committed snapshots, each with the version in the
metadata table, its tables (per class a sequence of columns, a name and a kind),
and two things the properties and the log need: which migration blocks were called
so far (`migrated`) and whether columns were inserted or erased since the snapshot
before (`log`). A kind is a type with its nullability. Every process has a
configuration, that is a version of the application's code; `Restart` kills it at
any point and starts it with another. `cache[p]` refers to the snapshot its
schema was read from and has the range `m_schema_transaction_version_min`,
`..._max`. An instance has `group` (the snapshot `m_group` reads), `schema`
(properties with the index of their column), `version`, `transaction` and
`newSchema`, after the members of `Realm`.

`pc` follows an instance through `realmWithConfiguration`, which holds `initLock`
from the construction to the end of the update: `OpenFromCache` or `OpenFromFile`
with `CacheConstructed`; `AlignWithThread` (`set_schema_subset`) if another thread
of the process has the file open, otherwise `AlignWithFile`, the first half of
`update_schema`; the wait for the write lock; `BeginUpdate`, which asks again if
the file has changed; `CommitUpdate` or `UpdateFails`; and `FinishUpdate`, which
empties the cache. Whatever moves the snapshot of an instance (`Advance`) is
followed by `CacheNewSchema` in a step of its own, for other threads read the
cache in between. `Verdict` is `schema_change_needs_write_transaction`,
`ApplySchemaChanges` the function of that name for the modes Automatic and
Additive. `Told` says whether the core calls the schema change handler, which is
external: a new table or column does, a new number in the metadata table does not.

## 3. Runs

Names, projects, addresses, Realms and threads are model values or strings; the
user may do everything the interface offers, in any order.

| Run | Instance | Shows |
|---|---|---|
| `store` | all features; two names, one with an apostrophe; three projects; sheets | no orphans, one record per project, parts in order, complete check-lists, held projects exist; exceptions never tear a check-list; the library is implemented; a save that began is completed unless the process is killed |
| `store_replace` | violated | `ReplaceKeepsARecord`: the second half of a replacement raises and the record is gone |
| `tabs` | the map tab with two addresses, and the details screen with check-list, address and up to two photos; one project | the saved coordinate is that of the saved address; every saved address has its marker, or is one a replacement has just saved and has an old one of its project; what a page found stays saved |
| `credit_form` | five lines, two or three on screen, one amount typed, durations 12 and 30, two calculations; all lines of both forms with three to five texts each | the page of results has its results, and no loan is without a duration; an edit is written to the line it is seen in; errors exactly for blank lines, and the four rentability figures agree as far as rounding allows (`CalculatorsAreRight`) |
| `checklist_form` | six lines, two or three on screen: a date, pickers of eight and of three rows, a segment, two text views; one save | what a line shows is what is kept; a text line keeps only its own text |
| `realm_notify` | a Realm with a run loop and an observed Results, a Realm that writes; three versions, two callbacks | nothing lost, told twice, wrong, or told too early; handovers match and stay pinned; indices and counts of callbacks do not wrap round; the versions implement `VersionedFile` |
| `realm_live` | the same with one callback, and fairness | who waits is woken; every block is told everything |
| `realm_stale` | violated | `NothingLost`: a callback added while the worker runs without one misses a change |
| `realm_changes` | tables of three rows, two values, four writes; in table order and sorted | the merged set turns the results given into the new ones; exactly what was written is modified; moves are right |
| `realm_log` | one or two tables of up to three rows, lists of three, two accessors, three changes | the log leads to the group; an observer is told right; a cancel puts the rows back |
| `sync_session` | two callers and the client, three policies, two versions, two waits, five calls | nobody who waits is forgotten or called twice; commits are announced; a dying session uploads first; a session that is held is registered |
| `realm_schema` | an application with two threads and its extension, four versions of the code (one class; one more without a new version; a new version with another column; one that forgot to count up), modes Automatic and Additive, four snapshots, kills | an instance knows the columns of its snapshot; the cache is right where it claims to be; versions and migrations go forward |

**Bounds of the application.** `MaxProjects = 3` with two names is the least that
has a shared name *and* another project, in every order, so that the faulty
uniqueness test, the row count and the queries by name all matter. `FewSaved`
lets three things be saved at a time, so that one name can have two while the
other has one; a run of the whole product would say no more, for features meet
only through projects. One project is enough for the details and the map, whose
properties concern one record each; a session of `tabs` looks at one of the two
screens, for they share nothing but the database. `MaxPhotos = 2` lets a second photo meet the `Photo` object of the
first. Two addresses let two answers cross; `MaxPending = 1` bounds the searches
per address, not their number. Counters never stop a handler half-way, they only
limit what taps may begin. In the forms a window shorter than the list by three
lines or more makes a text cell, a stepper and a picker be reused for another
line; a picker row past the end of a shorter picker, and a duration past the end
of the list of durations, are among the rows picked. The calculators are
evaluated in the initial state of the form, over all inputs; the amounts are so
small that quotients half-way between two hundredths, and months that are `-0`
in a year that is in the red, are among them. The form runs may
stop: the bounds end a session.

**Bounds of Realm.** Three versions are one the Results is observed at, one that
is handed over and one that arrives in between or is skipped. Two callbacks let
one remove the other. There is one notifier: what the run shows is proved for any
number of notifiers, callbacks and Realms (section 4.5), with one exception that
needs two notifiers and is described in section 5, the skip version.
Three flags leave out what breaks a property and is described in section 5:
`LateCallbacks` (only `realm_stale` has it), `RemovesYoung`, `Unused`. Three rows
let a row be moved onto a removed one with a third beside it; four writes cut
into runs give a merge of merges. In `realm_log` two addresses let an accessor
take the place of another, two tables let a selection be of the other one;
observers are taken one at a time and lists have three entries, since with more
of either the code does break the property (section 5). Lists are those of the
first table. In `sync_session` one thread commits: with two the order of the
deferred versions is broken (section 5). In `realm_schema` four snapshots are the empty file, the first
version, the second and a write or a change without a new version; two threads
share a cache, and a third party changes the file behind it; the threads of a
process are symmetric. `UsesAfterError` leaves out an instance that is used after
reading raised, and no configuration changes only its number (section 5). The three runs that count calls or
writes end, so they do not check for deadlock; `sync_session` could not, for the
code can deadlock.

**Fairness.** `ProjectStore`: only `WF(Call)`, the main thread finishes a handler
it has begun. Users, the system that kills, the geocoder and the photo library
owe nothing; a kill excuses an unfinished save. `RealmNotifications`: weak
fairness of the worker, whose thread waits for commits in a loop; strong fairness
of `Send(r)`, since a block returns and a run loop comes round however often the
user's code writes in between; weak fairness of ending a write, which
`Realm.write` does and nobody else has to begin. `SyncSessions` is checked for safety only.

## 4. Proofs

Every theorem is for all values of the constants that satisfy the named
assumptions of the module (`StoreAssumption`, `MapAssumption`, ...): any names,
Realms, notifiers, threads, lines, any bounds. The bounds in the guards only
limit how long a behaviour is. Where a theorem needs more, it has a hypothesis,
and the hypothesis is there because without it the code breaks the property.

### 4.1 `ProjectStoreProofs`

For any sets of names and any bounds satisfying `StoreAssumption` (quoted names
are names, `NoProject` is not one, the features are known ones, the bounds are
naturals): `Spec => []IInv` (`Invariance`), and from it `TypeCorrect`,
`NoOrphans`, `OneRecord`, `HeldExist`, `PartsInOrder`, `WholeChecklists` and
`OnlyKillsTear`.

None of the properties is inductive alone; `IInv` adds what the code relies on:

- `JobOK` is what a handler has established before each of its calls: the
  project of a running save exists, and the table it will add to has no record of
  it yet. It carries the answer of `AlreadyHas` from the tap to the save, and is
  why one record per project survives although check and save are separate.
- `ScreenOK`: only the replace pop-up holds a project, and it knows its feature;
  `ConfirmReplace` needs both.
- `PartsInStep` counts the four check-list tables *during* a save: those that it
  has written are one ahead. Order and completeness between handlers follow.
- `ManagedInStep`: the general part's record object is added first, so an
  exception can only hit the first call of a check-list save; if a later
  object could be managed while the general one is not, a raise could tear the
  check-list. `OnlyKillsTear` is exactly this.

The argument takes each action in turn; `Append`, the removal of a name and the
counting of `Occ` have lemmas of their own.

The last section shows from `IInv` that the database implements the library
(`LibraryRefinement`: `Spec => ImplementsLibrary`). Two features never share their
first table, so one more record of a first table is one more of its feature, and
the later parts of a check-list do not show (`AddMaps`). `SaveNew` is then a
`Create`; `SaveRecord` an `Attach`, for which `JobOK` supplies that the project is
listed and has none of the feature; `Erase` an `Erase`, or a stutter if the
record is gone already; `Drop` a `Delete`; and taps, exceptions, kills and
relaunches do not write.

### 4.2 The two screens, also in `ProjectStoreProofs`

The details screen and the map tab are composed with the database in modules of
their own (`DSpec`, `MSpec`). They take only steps of `ProjectStore`, so
`IInv` is theirs too; each adds what its copies need.

- `MapInv` (`MapInvariance`), hence `SavedPlaceIsRight` (`SavedPlaces`) and
  `EverySavedIsMarked` (`SavedAreMarked`). `PlaceOK`: the place keeps its address
  from the answer to the pop-up and to the record, and a pop-up or a handler about
  an address has one to save. `MarkersOK`: a replacement does not place its
  marker, so a project that is asked about, or that a replacement is under way
  for, must already have one (`Marked`, carried from the tap through the erasing
  to the second save). When the second save comes no record of the project is
  left, since those that are counted are those that have a record and `JobOK` says
  that none is counted: so the marker is that of an address that is gone, which is
  what `EverySavedIsMarked` claims of an address without one of its own.
- `DetailsInv` (`DetailsInvariance`), hence `FoundStaysSaved` (`FoundIsSaved`).
  `ToBeWritten` are the tables the running handler has still to write for the open
  project: in a replacement a table that a page has found is empty for some steps,
  and the job says that it will not stay so.

### 4.3 `FormProofs`, `ChecklistProofs`

`FormInv` (`FormInvariance`) for either form, any texts, any number of lines on
screen up to all of them (`ShownAssumption`) and any formula: every line that is
laid out has a cell of its own, of its kind and configured for its title; the
data has a duration of the list as soon as it has a loan; the page of results is
on screen only with the list it indexes. From it `ResultsExist`
(`PageHasItsResults`) and the action property `EditReachesItsLine`
(`WrittenIsShown`): a cell that is reused cannot carry an edit to another line,
because whatever lays a line out ends or renames the editing.

`CreditErrors` and `RentabilityErrors` are about every dictionary of texts: an
error exactly if a needed line is blank, and for one that is. The tests are
spread over the functions in the order of their calls, so the proof splits the
concatenation of their lists. `RentabilityFigures` is that the four figures agree, as far as
rounding allows, for all numbers that are not negative, which is what the fields'
keyboards can type, and for any `HalfUp`. It rests on two lemmas about `Rounded`:
it is at most half a hundredth away from the quotient, and it keeps the order and
the sign of quotients by the same number. `CalculatorsRight` (`CalculatorsAreRight`) is the part of the three that the
run evaluates.

`ListInv` (`ListInvariance`) is the same for the check-list, for any of its
lines in their order (`LinesAssumption`) and any window: with it `ShownKept`
(`ShownIsKept`) and `TextsOwn` (`TextIsOwn`). That no two lines share a title
(`TitlesAreUnique`, which TLC evaluates on the source's lists) is what makes one
line's writing harmless to the others.

### 4.4 `RealmProofs`

For any Realms, notifiers, owners and bounds: `VersionsFit` (`Spec => []IInv`),
and from it `ReadTransactionsKept` (`HandoverPinned`), `SkipsGoForward`,
`PackagesHaveOneVersion`, and the refinement: `TransactionsAreOfAFile`
(`ImplementsVersionedFile`), through it `NoUpdateLost` and
`SnapshotsOnlyGoForward`. `IInv` has two halves, for a step is either of a thread
or of the worker. *Threads*: no version beyond the latest is read; a thread that
waits to begin has the lock; who writes reads the latest version, since the lock
is taken before the snapshot moves. *Work*: what the worker took from the lists
under the mutex is still what they say when it comes back to it, because only
clean-up, which is its own, takes notifiers out; the skip version is ahead of
whatever it is doing; all notifiers that have run are at one version. Each half
has lemmas that it survives the other's steps (`WorkStays`, `ThreadsStay`).

`NotificationsTyped` (`RTypeOK`) needs two more facts: a thread calls notifiers of
its own that have run (`CallsOwn`), and the index and the count of a loop over
callbacks stay among them while blocks remove callbacks before, at and behind the
index (`Counted`). The two `size_t`s of the source do not wrap round because of
the latter.

### 4.5 `DeliveryProofs`, `LossProofs`

What is delivered, in five steps, each with its own invariant over the one before
(`Typed` is `IInv` with the types):

- `RowsAreImported` (`HandoverMatches`) from `RowsFit`: the rows a notifier has to
  hand over are of the version it has run at, and those packaged of the version the
  Realm will be brought to.
- `BlocksCanRead` (`ToldIsReadable`) from `AllReadable`: what is accumulated is
  not newer than the notifier, what is packaged not newer than the package, what
  was told not newer than the Realm. `Sources` says the same of the change sets the
  worker holds.
- `NoChangeIsToldTwice` (`ToldOnce`) and `OnlyRightChanges` (`NoWrongChange`) from
  `AllApart` and `AllCurrent`: the rows a notifier compares with are those of its
  version, so what it calculates is disjoint from everything before. They assume
  `~Unused` and `~LateCallbacks`: a Results nobody reads, or a first callback that
  comes while the worker runs, does break this (section 5).
- `NoChangeIsLost` (`NothingLost`) from `AllPrepared`, that what changed since the
  last handover is with the worker, and `AllFine`, which follows it to the block.
  `Kept` is the property in the form that is inductive: what changed since the
  version a block knows is accumulated, in its package, told or muted. Four facts
  carry it. A package reaches everyone it was made for (`InTurn`, `CountFits`).
  A Realm is ahead of its notifier only by its own commit (`Ahead`), since a write
  begins when the notifiers have caught up and told everything (`UpToDate`,
  `BeforeWrite`). Only a Realm's own commit mutes (`Muting`). And while a block
  skips, the worker stops at that commit before it goes on (`Skipping`): here the
  proof failed at first, and the reason is the finding on the skip version
  (section 5); hence the hypothesis that only one Realm has notifiers if commits
  suppress blocks at all. The other hypotheses are `~RemovesYoung` and
  `~LateCallbacks`, whose negations break the property too. `Unused` is allowed.

The invariants were run by TLC on the instance of `realm_notify` before they were
proved.

### 4.6 `SyncProofs`

For any threads, writers, policies, waiting blocks and bounds.

`HeldStaysRegistered` (`ReferredIsRegistered`) from `OneInTheMutex`. The invariant
`LInv` says that a thread with one of the steps that need the manager's mutex
(take a reference, unlock, release the temporary reference) holds it, that it has
at most one such step, and that a thread about to refer finds the session in the
map. So an unregistration, which needs the mutex, cannot come between the look-up
and the reference, and `MustStay` then sees the reference.

`WaitsAreKept` (`NobodyIsForgotten`) and `DeathsAreNotMixed`
(`DyingLosesNothing`) from `SyncInv`: a live session with waiting blocks has a
handler with the client for the direction (`Attended`); a block is in one list,
with one thread that will call it, or called, and never in two of these
(`InOnePlace`); the handler that ends a death bears its number and waits for what
was owed then (`DeathsCounted`), since revivals leave the handlers of earlier
deaths with the client.

`CommitsAreAnnounced` (`ActiveHasAnnounced`) from `Noticed` and `Announced`: what
was noted is announced, or kept for the session in `deferredCommit` while a token
is awaited. It is for one writing thread. With two, the later call of
`nonsync_transact_notify` may be the one about the older commit and replaces the
newer (section 5).

### 4.7 `SchemaProofs`

For any processes, threads, configurations (valid schemas, `TargetAssumption`) and
any number of snapshots. Nobody is told of a change of the number alone, and then
the code breaks all three properties (finding (a) on schemas, section 5). The
theorems are therefore about the behaviours with `[]NumbersShow`: every new number
comes with a change of the tables, as it does in the run. `SchemaTypes` is for all
behaviours.

`HistoryIsInOrder` (`HistoryInOrder`) and `CachesAreRight` (`CacheIsRight`) follow
from `SInv`:

- `History`: two snapshots between which the log is empty (`Quiet`) have one version
  and the same tables; versions go up; migrations end at the version of the file.
- `OneWriter`: one instance at a time is in a write transaction, and `Standing`
  says it reads the latest snapshot, and where every other instance is.
- `Informed`: an instance that was not told has missed nothing (`Quiet`), its version
  is that of what it reads, and whoever waits or updates does not want an
  older number. This is the second question of `update_schema`.
- `OpensAlone`: `initLock` and the schema a sibling has already aligned.
- `CacheFits` is `CacheIsRight` in terms of `Quiet`. It is not inductive alone:
  `advance_schema_cache` joins its range with the stretch from the transaction of an
  instance to its snapshot, and if the two did not meet, a change could lie
  between them. `Near` says that nothing that changed the tables lies between what
  the cache has seen (`Seen`) and where an instance is (`RangesMeet`).

`InstancesKnowTheFile` (`RealmKnowsFile`) is from `KInv`, over `SInv`, and assumes
`~UsesAfterError` (finding (b)). `Has(s, t)` says that the properties of a schema have
columns in the tables, `Fits(s, t)` that the schema also has their right indices:

- `Columnwise`: the columns of a table have different names, and unless the log has
  an erasure between two snapshots, every column of the earlier one is at its place
  in the later one (`Extends`). A validator that lets a Realm advance thus
  leaves it every property.
- `Reads`: what an instance that is being opened compares with is the schema of a
  snapshot, and once it has decided that there is nothing to do, or has done it, the
  snapshot has everything its configuration asks for.
- `Holds`: an open instance `Fits` the snapshot it reads, and `Has` the one it last
  cached, which is what another thread may copy.
- `Covers`: an instance under `initLock` has seen the classes of those that are open
  beside it; they were cached no later. Without it `set_schema_subset` could take a
  class that the file at hand has not.

The lemmas on `Schemas` are the other half of the work. `CompareFacts` says what a
comparison finds; `NothingMissing` and `NothingLost` what follows when it finds
nothing of some kind; `GrownTables`, `ReplacedTables` and `ShrunkTables` what each
part of an update makes of the tables, and `UpdatedTables` that together they leave
every property of the target, with its kind, in a column of an unambiguous table;
`CopyFacts` what `copy_table_columns_from` finds there. `SubsequenceFacts` and
`RankIsOnto` show that choosing places of a sequence loses and doubles none: ranks
rise, and so many different numbers below a bound are all of them.

### 4.8 Only model-checked

- Liveness, which the prover cannot reach: `WaitEnds`, `EverybodyIsTold`,
  `ChecklistCompletes`.
- Computations over sequences of data, where what a recursive definition computes
  would need an induction over the data: `SetGivesResults`, `ModifiedAreTold`,
  `MovesAreRight` (change sets), `LogLeadsHere`, `AdvanceTellsKvo`,
  `CancelPutsRowsBack` (log).

## 5. Findings

Two runs are violated, and `PROJECT.json` quotes what they contradict: a
replacement can end with the record deleted and the app stopped
(`store_replace`); a callback added between the worker's unlocked read of
`m_have_callbacks` and its handover misses a change, though the comment beside
the flag calls a stale value harmless (`realm_stale`).

Modelling met more differences of the kind, which the actions have and no run
states.

*Application.* Two projects of one name are accepted (`isMyProjectNameUnique`). A
second calculation shows the first one's results (`FirstFour`). Management fees
change nothing (`getAnnualManagementFeesAmount`). The transports typed in the
check-list are nowhere in what is saved (`allTitles`). The details pages, read
once, keep saying that nothing is saved after a save in another tab (`Load`), also
for the photo just picked (`TapAddPhoto`); the gallery reloads before its images
come. The GPS button of a page whose address was replaced elsewhere reads a
deleted record and raises. The alert for a failed address search is behind a
return that always comes first (`GeocoderAnswers`), and every tap on the add
button of the map registers one more observer. A rate set with the stepper's
buttons does not reach the data and is reported missing (`StepRate`); a rate of
zero makes the annuity 0/0. A loss of up to five hundredths a year is shown in red
for the year and not for the month (`isResultPositive`). After a replacement the
map has no marker for the new address until it is refreshed, and the marker of the
old one until the app is launched again (`AnnotatedAfterSave`). A picker that scrolls back writes another duration,
or indexes past the list (`PickDuration`, `LineEnters`). Two segmented controls of
the check-list save each other's values (`allSegmentData`).

*Notifications.* A block that removes a callback added during the same delivery
takes one from `m_callback_count`, and the last packaged block is not called
(`RemovesYoung`). A Results that nobody reads stops asking for rows, and change
sets are then calculated from rows of an older version (`Unused`). The coordinator
keeps *one* version whose changes the skipped blocks shall not hear of, and
`commit_write` overwrites it (`realm_coordinator.cpp:525`). If a Realm commits and
suppresses a block, and before the worker runs another Realm that observes
something commits too, the worker goes to the second version in one handover and
the first Realm's block hears of neither, although `RLMRealm.h:336` speaks of
"the changes made in this write transaction". It takes two Realms with notifiers;
with `Realms` both owners and two notifiers TLC finds it in 24 steps as a
violation of `NothingLost`, and the proof of that invariant has the hypothesis
that only one Realm has notifiers if commits suppress at all.

*Change sets.* Moves of sorted results need not be the fewest.

*Transaction log.* (a) With two observed objects that have lists, the loop of
`erase_rows` (`transact_log_handler.cpp:570`) replaces the removed object's list by
the last one and goes on behind it: if that list is of the row that moves, its
row is not corrected, and its observer is not told of later changes. (b) In a
list of four, a move from 1 to 0 and then one from 3 to 0 insert two neighbouring
entries; the running shift of `KVOAdapter::before` counts one, and entry 2 is not
reported. (c) On a cancel `insert_empty_rows` ignores `unordered` and `erase` the
rows that were swapped, so an observer that reads the reversed log follows the
wrong rows; the rows themselves are put back right (`CancelPutsRowsBack`). (d) The
reverser does not write a pending list selection before an instruction about
rows, so in the reversed log a list may be read as another's. (e) A move within
a list is reversed with the same two places. (f) A table that was made in a
cancelled transaction is reversed to its deletion, which the observer answers
with a schema error.

*Sessions.* Two threads that end the same session both unregister it; the
assertion is compiled out and the end of the map is dereferenced. Two deadlocks:
`get_session` and `SyncUser::log_out` take the two mutexes in opposite order, and the
temporary reference of `unregister_session` may be the last one and needs the
mutex under which it is dropped. With two writers an older deferred version may
replace a newer one. A commit made while the session is dying is not announced
when it is revived. A token that expires while the session is dying is swallowed
(the FIXME in `Dying::handle_error`), and the death may never end. `get_session`
revives the session before it has the reference, so it may return one that is
closing. A second wait for uploads is answered by the first one's handler, maybe
before its own changes are uploaded.

*Schemas.* (a) Whoever has waited for the write lock asks again only if the handler
has stored a new schema (`shared_realm.cpp:478`), and a version that changes only
data changes no table: two processes that both want such a version run its
migration block twice, and one that wants version 2 may write it over the 3 another has
just migrated to. With `Configs = {one, same}` and `HasMigration = {same}` TLC
shows the first as a violation of `HistoryInOrder`; an open instance, which is not
told either, keeps the old number (`RealmKnowsFile`). (b) `read_schema_from_group_if_needed`
notes the transaction before it verifies; an instance that is used after the
exception reads with the columns of another snapshot (`UsesAfterError = TRUE`
violates `RealmKnowsFile`). (c) Between the commit of an update and the call of
`clear_schema_cache_and_set_schema_version` the cache claims the old schema for the
new snapshot. `initLock` keeps other threads of the binding from opening then; the
C++ interface has no such lock (`CacheIsRight` excepts these two places). (d) An
exception of the second comparison (line 481) comes before the scope exit that
would cancel the write transaction (line 492): it stays open until the instance
is destroyed.

## 6. Not modelled

*Application.*

- Arithmetic in floating point, the power function, number formatting.
- Location, map types, Waze and Plans; keyboards, layout, colours, menu bars.
- Realm's refusal to open. In the modules of the application Realm is atomic
  transactions, the exception for a managed object and deletion by query.
- The Core Data stack: template code without an entity.
- `AddCreditTo{New,Existant}ProjectAlertVC.swift`: not part of the Xcode project.
- Many observers of one notification: the handlers are idempotent.

*Realm.*

- Nine tenths of the C++ lines are `include/core`: the inline headers of a binary
  library (arrays, columns, B+-trees, queries, expressions, file mapping,
  sockets). They are accessors and data structures without the code that calls
  them; what the object store uses of them appears as external operators or, for
  the transaction log, as a module. This is why most of the repository's lines
  stand under no definition.
- Schemas: indexes and primary keys, the modes ResetFile, Manual, Immutable and
  ReadOnly, renames and deletions in a migration block, what becomes of the
  objects, a class with several properties of one name (refused by `validate`).
- Notifications: schema changes, `invalidate` and `close`, errors of the worker,
  notifiers of lists and objects, the merge of what new notifiers ask to record,
  the order of notifiers in a package. That a signal may come between
  registering a notifier and its first callback is not told apart.
- Change sets: `subsume`, the instructions of columns, results whose rows link to
  changed rows, sets per column.
- Log: instructions of the schema, subtables, ordered deletion, `merge_rows`,
  `move_row`, rows with a key, default and unique values. The deletion of a row
  that others link to is `LinkErase` by itself.
- Sessions: progress notifications, reconnection, client resync (the binding asks
  for the manual mode), metadata and file actions, permissions and partial sync,
  the second session object for a path that was unregistered.

## 7. Plan

Done: the application (`ProjectStore`, `ProjectLibrary`, `ProjectDetails`, `MapTab`,
`Calculators`, `SimulationForm`, `ChecklistForm`), with the invariant of each and the
refinement of the library proved; Realm's notifications with the proofs of all
their safety properties; synchronised sessions and the update of schemas with theirs;
change sets and the transaction log, model-checked.

Left, in order of importance:

1. Proofs about the log: that the list the encoder thinks selected has an accessor
   and is the one the log selected.
2. `NoChangeIsLost` with several Realms whose commits suppress blocks, for the
   blocks of the Realm that committed last.
3. Notifiers of lists and objects beside the one of results; progress
   notifications of a session.
4. The forms composed with the save of `ProjectStore`: the contents of the
   records a replacement leaves, and of those a second save of a session would.
