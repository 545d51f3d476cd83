--------------------------- MODULE RealmNotifications ---------------------------
(***************************************************************************)
(* The notification machinery of the Realm database the application uses   *)
(* (ObjectStore: shared_realm, realm_coordinator, collection_notifier,     *)
(* results_notifier, transact_log_handler, external_commit_helper).        *)
(*                                                                         *)
(* Every Realm instance belongs to one thread.  A Results that is observed *)
(* has a ResultsNotifier, which one background worker brings forward: the  *)
(* worker picks a version under the notifier mutex, advances its own       *)
(* SharedGroup, reruns the queries without the mutex, and hands the rows   *)
(* and the changes over under the mutex.  The thread of the Realm packages *)
(* what was handed over when its run loop, a refresh or a write makes it   *)
(* advance, moves its snapshot to that very version and calls the          *)
(* callbacks, during which the user's code may do almost anything.         *)
(*                                                                         *)
(* The data is abstract.  A version either touches the rows the queries    *)
(* select or not, and a change set is the set of versions whose changes it *)
(* describes; the version 0 stands in a change set for changes that are    *)
(* wrong (computed against the wrong rows).                                *)
(***************************************************************************)
EXTENDS Integers, Sequences, FiniteSets, SequencesExt

CONSTANTS Realms,        \* the Realm instances, one thread each
          none,          \* no Realm
          RunLoops,      \* the Realms whose thread has a run loop
          Notifiers,     \* the ResultsNotifiers that may be registered
          Owner,         \* Owner[n]: the Realm of the Results of n
          MaxVersion,    \* bound: the versions of the file
          MaxCallbacks,  \* bound: the callbacks ever added to a notifier
          LateCallbacks, \* the first callback may come while the worker runs
          NestedWrites,  \* callbacks may write
          RemovesYoung,  \* callbacks may remove a callback added while sending
          Unused,        \* a Results may stay unread between two deliveries
          Suppresses     \* commits may ask to skip callbacks

ASSUME RealmsAssumption == none \notin Realms /\ RunLoops \subseteq Realms
ASSUME OwnerAssumption == Owner \in [Notifiers -> Realms] /\ IsFiniteSet(Notifiers)
ASSUME BoundsAssumption == MaxVersion \in Nat \ {0} /\ MaxCallbacks \in Nat \ {0}
ASSUME UsersAssumption ==
  {LateCallbacks, NestedWrites, RemovesYoung, Unused, Suppresses} \subseteq BOOLEAN

VARIABLES
  latest,   \* the newest version of the file
  touched,  \* the versions that changed the rows of the queries
  writer,   \* the Realm that holds the write lock, or none
  rv,       \* rv[r]: the version Realm r reads
  th,       \* th[r]: what the thread of Realm r is doing
  nt,       \* nt[n]: the notifier n
  co,       \* the coordinator
  wk        \* the worker thread

vars == <<latest, touched, writer, rv, th, nt, co, wk>>

Versions == 1 .. MaxVersion

\* A count below zero is the largest size_t: beyond every real count.
Huge == MaxCallbacks + 1

---------------------------------------------------------------------------------
(* Types.  The position m_callback_index counts from 1 here, and 0 is npos. *)

\* The last four are not in the code: told, the versions the block was called
\* about; base, the version it was told at first; mute and muted, what the
\* commits asked it to skip.
CallbackType ==
  [acc: SUBSET (0 .. MaxVersion), del: SUBSET (0 .. MaxVersion),
   initial: BOOLEAN, skip: BOOLEAN,
   told: SUBSET (0 .. MaxVersion), base: 0 .. MaxVersion,
   mute: BOOLEAN, muted: SUBSET Versions]

NotifierType ==
  [list: {"none", "new", "main", "gone"}, alive: BOOLEAN,
   version: 0 .. MaxVersion, hasRun: BOOLEAN, have: BOOLEAN,
   changes: SUBSET (0 .. MaxVersion), prev: 0 .. MaxVersion,
   tv: BOOLEAN, tvHandover: 0 .. MaxVersion, tvDeliver: 0 .. MaxVersion,
   view: BOOLEAN, wants: BOOLEAN,
   index: 0 .. MaxCallbacks, count: 0 .. Huge, added: 0 .. MaxCallbacks,
   callbacks: Seq(CallbackType)]

ThreadType ==
  [pc: {"idle", "wait", "changed", "ready", "tell", "callback"},
   job: {"none", "begin", "refresh", "notify"}, target: 0 .. MaxVersion,
   package: SUBSET Notifiers, first: BOOLEAN, to: 0 .. MaxVersion,
   calls: Seq(Notifiers), loop: BOOLEAN]

CoordinatorType ==
  [advancer: 0 .. MaxVersion, notifierSG: 0 .. MaxVersion,
   skip: 0 .. MaxVersion, asleep: SUBSET Realms, signal: BOOLEAN]

WorkerType ==
  [pc: {"idle", "advance", "run", "handover", "announce"},
   targets: Seq(Versions), old: SUBSET Notifiers, new: SUBSET Notifiers,
   info: SUBSET Notifiers, from: 0 .. MaxVersion]

NewCallback ==
  [acc |-> {}, del |-> {}, initial |-> FALSE, skip |-> FALSE,
   told |-> {}, base |-> 0, mute |-> FALSE, muted |-> {}]

NewNotifier ==
  [list |-> "none", alive |-> FALSE, version |-> 0, hasRun |-> FALSE, have |-> FALSE,
   changes |-> {}, prev |-> 0, tv |-> FALSE, tvHandover |-> 0, tvDeliver |-> 0,
   view |-> FALSE, wants |-> FALSE, index |-> 0, count |-> Huge, added |-> 0,
   callbacks |-> <<>>]

Init ==
  /\ latest = 1 /\ touched = {} /\ writer = none
  /\ rv = [r \in Realms |-> 1]
  /\ th = [r \in Realms |-> [pc |-> "idle", job |-> "none", target |-> 0, package |-> {},
                             first |-> TRUE, to |-> 0, calls |-> <<>>, loop |-> FALSE]]
  /\ nt = [n \in Notifiers |-> NewNotifier]
  /\ co = [advancer |-> 0, notifierSG |-> 0, skip |-> 0, asleep |-> {}, signal |-> FALSE]
  /\ wk = [pc |-> "idle", targets |-> <<>>, old |-> {}, new |-> {}, info |-> {}, from |-> 0]

---------------------------------------------------------------------------------
(* The two lists of the coordinator, and where user code may run. *)

Listed(l) == {n \in Notifiers : nt[n].list = l}

\* notifiers_for_realm: the ones whose Results still exists.
NotifiersFor(r) ==
  {n \in Listed("new") \cup Listed("main") : Owner[n] = r /\ nt[n].alive}

InWrite(r) == writer = r /\ th[r].pc # "wait"

\* Suppressing and committing are one call of the binding.
Committing(r) ==
  \E n \in Notifiers : Owner[n] = r /\ \E i \in DOMAIN nt[n].callbacks : nt[n].callbacks[i].mute

\* m_is_sending_notifications, while a block of the user runs.
InBlock(r) == th[r].pc \in {"changed", "callback"}

UserCode(r) == (th[r].pc = "idle" \/ InBlock(r)) /\ ~Committing(r)

\* The versions after v, up to w, that changed the rows.
ChangedIn(v, w) == {x \in touched : v < x /\ x <= w}

---------------------------------------------------------------------------------
(* The calls of the user: observing a Results. *)

\* Results::prepare_async makes the notifier; register_notifier pins the oldest
\* version that a new notifier must be handed over from.
Register(n) ==
  LET r == Owner[n]
      pinned == co.advancer IN
  /\ UserCode(r) /\ ~InWrite(r)
  /\ nt[n].list = "none"
  /\ nt' = [nt EXCEPT ![n] = [nt[n] EXCEPT !.list = "new", !.alive = TRUE, !.wants = TRUE,
                                           !.version = rv[r]]]
  /\ co' = [co EXCEPT !.advancer =
              IF Listed("new") = {} \/ rv[r] < pinned THEN rv[r] ELSE pinned]
  /\ UNCHANGED <<latest, touched, writer, rv, th, wk>>

\* CollectionNotifier::add_callback; the binding refuses it in a write.
AddCallback(n) ==
  LET sending == nt[n].index # 0 IN
  /\ UserCode(Owner[n]) /\ ~InWrite(Owner[n])
  /\ nt[n].alive
  /\ nt[n].added < MaxCallbacks
  /\ n \in wk.old /\ wk.pc \in {"run", "handover"} => nt[n].have \/ LateCallbacks
  /\ nt' = [nt EXCEPT ![n] = [nt[n] EXCEPT !.callbacks = Append(@, NewCallback),
                                           !.added = @ + 1,
                                           !.have = @ \/ ~sending]]
  /\ co' = [co EXCEPT !.signal = @ \/ ~sending]
  /\ UNCHANGED <<latest, touched, writer, rv, th, wk>>

\* Packaged, and its callbacks not all called yet.
Delivering(n) == \E k \in DOMAIN th[Owner[n]].calls : th[Owner[n]].calls[k] = n

\* Mutation of OneLess: the count does not wrap round.
OneLessUnguarded(count) == count - 1

OneLess(count) == IF count \in {0, Huge} THEN Huge ELSE count - 1

\* The loop over the callbacks stays at the one it is at, or before the next one.
IndexAfter(index, i) == IF index >= i THEN index - 1 ELSE index

\* CollectionNotifier::remove_callback, called by invalidating the token.
RemoveCallback(n, i) ==
  /\ UserCode(Owner[n])
  /\ Delivering(n) /\ i > nt[n].count => RemovesYoung
  /\ nt' = [nt EXCEPT ![n] = [nt[n] EXCEPT !.index = IndexAfter(@, i),
                                           !.count = OneLess(@),
                                           !.callbacks = RemoveAt(@, i),
                                           !.have = Len(nt[n].callbacks) > 1]]
  /\ UNCHANGED <<latest, touched, writer, rv, th, co, wk>>

\* The Results goes away (the blocks hold it, so it has none left): unregister.
Release(n) ==
  /\ UserCode(Owner[n])
  /\ nt[n].alive /\ nt[n].callbacks = <<>>
  /\ nt' = [nt EXCEPT ![n].alive = FALSE]
  /\ UNCHANGED <<latest, touched, writer, rv, th, co, wk>>

---------------------------------------------------------------------------------
(* Delivering: package what was handed over, advance, call the callbacks. *)

\* The callbacks of a notifier, each changed by F.
Each(s, F(_)) == [i \in DOMAIN s.callbacks |-> F(s.callbacks[i])]

\* Mutation of PackageForDelivery: the accumulated changes are not taken out.
PackageCopies(s) ==
  LET Copy(c) == [c EXCEPT !.del = c.acc] IN
  [s EXCEPT !.callbacks = Each(s, Copy),
            !.count = Len(s.callbacks),
            !.tvDeliver = s.tvHandover, !.tvHandover = 0]

\* CollectionNotifier::package_for_delivery, under the notifier mutex: what was
\* packaged before and not told is overwritten.
PackageForDelivery(s) ==
  LET Move(c) == [c EXCEPT !.del = c.acc, !.acc = {}] IN
  [s EXCEPT !.callbacks = Each(s, Move),
            !.count = Len(s.callbacks),
            !.tvDeliver = s.tvHandover, !.tvHandover = 0]

Package(S) == [n \in Notifiers |-> IF n \in S THEN PackageForDelivery(nt[n]) ELSE nt[n]]

\* The version of a package; 0 when nothing is in it.
VersionOf(S) == IF S = {} THEN 0 ELSE nt[CHOOSE n \in S : TRUE].version

\* Thread r is at version v, and goes on to the blocks of the notifiers in S: if
\* the version changed, the blocks of the Realm itself (did_change) come first.
StartSending(r, job, S, v) ==
  /\ rv' = [rv EXCEPT ![r] = v]
  /\ th' = [th EXCEPT ![r] = [th[r] EXCEPT !.pc = IF v # rv[r] THEN "changed" ELSE "ready",
                                           !.job = job, !.to = v, !.calls = SetToSeq(S),
                                           !.package = {}, !.target = 0, !.first = TRUE,
                                           !.loop = IF job = "notify" THEN FALSE ELSE @]]

\* package_and_wait for a version: every notifier with callbacks is there.
AllReady(r) ==
  \A n \in th[r].package :
    nt[n].have => nt[n].hasRun /\ nt[n].version >= th[r].target

StartWaiting(r, job) ==
  th' = [th EXCEPT ![r] = [th[r] EXCEPT !.pc = "wait", !.job = job, !.target = latest,
                                        !.package = NotifiersFor(r)]]

\* wait_for_notifiers: the first time it has to wait it wakes the worker.
Sleep(r) ==
  /\ th[r].pc = "wait" /\ r \notin co.asleep /\ ~AllReady(r)
  /\ co' = [co EXCEPT !.asleep = @ \cup {r}, !.signal = @ \/ th[r].first]
  /\ th' = [th EXCEPT ![r].first = FALSE]
  /\ UNCHANGED <<latest, touched, writer, rv, nt, wk>>

\* The rest of package_and_wait, and the advance: to the version of the package,
\* or to the latest one when nothing is to be delivered (and in a write).
PackageAndAdvance(r) ==
  LET job == th[r].job
      ready == {n \in th[r].package : nt[n].hasRun /\ nt[n].alive}
      kept == IF VersionOf(ready) < th[r].target THEN {} ELSE ready IN
  /\ th[r].pc = "wait" /\ r \notin co.asleep /\ AllReady(r)
  /\ nt' = Package(ready)
  /\ StartSending(r, job, kept,
                  IF kept = {} \/ job = "begin" THEN latest ELSE VersionOf(kept))
  /\ UNCHANGED <<latest, touched, writer, co, wk>>

\* NotifierPackage::deliver: the Results get their rows, unless a write is going
\* on or a block of did_change moved the version.  A Results that was not read
\* since the delivery before stops asking for rows (set_table_view).
Deliver(r) ==
  LET given == {n \in Notifiers : Delivering(n) /\ Owner[n] = r /\ nt[n].alive
                                   /\ nt[n].tvDeliver # 0} IN
  /\ th[r].pc \in {"changed", "ready"} /\ ~Committing(r)
  /\ writer = r => th[r].job = "begin"
  /\ \E used \in IF Unused THEN BOOLEAN ELSE {TRUE} :
       nt' = [n \in Notifiers |->
                IF n \in given /\ writer # r /\ rv[r] = th[r].to
                THEN [nt[n] EXCEPT !.tvDeliver = 0, !.view = TRUE,
                                   !.wants = IF nt[n].view THEN used ELSE @]
                ELSE nt[n]]
  /\ th' = [th EXCEPT ![r] = [th[r] EXCEPT !.pc = IF th[r].calls = <<>> THEN "idle" ELSE "tell",
                                           !.job = IF th[r].calls = <<>> THEN "none" ELSE @]]
  /\ UNCHANGED <<latest, touched, writer, rv, co, wk>>

\* Mutation of Told: the block is given what is accumulated too.
ToldAll(c, version) ==
  [c EXCEPT !.initial = TRUE, !.del = {},
            !.base = IF c.initial THEN @ ELSE version,
            !.told = IF c.initial THEN @ \cup c.del \cup c.acc ELSE @]

\* The block of c is called: at first about the rows as they are, then about the
\* changes packaged for it.
Told(c, version) ==
  [c EXCEPT !.initial = TRUE, !.del = {},
            !.base = IF c.initial THEN @ ELSE version,
            !.told = IF c.initial THEN @ \cup c.del ELSE @]

\* Mutation of HasNews: the condition of before_advance.
NewsIsChanges(c) == c.del # {}

\* A block that was never called is called even without changes.
HasNews(c) == ~c.initial \/ c.del # {}

\* for_each_callback of after_advance: the block that was running has returned,
\* and the next one that has something to be told is called.
CallNext(r) ==
  LET n == Head(th[r].calls)
      s == nt[n]
      todo == {i \in DOMAIN s.callbacks :
                 s.index < i /\ i <= s.count /\ HasNews(s.callbacks[i])}
      rest == Tail(th[r].calls) IN
  /\ th[r].pc \in {"tell", "callback"} /\ ~Committing(r)
  /\ writer = r => th[r].job = "begin"
  /\ IF todo = {}
     THEN /\ nt' = [nt EXCEPT ![n].index = 0]
          /\ th' = [th EXCEPT ![r] = [th[r] EXCEPT !.calls = rest,
                                                   !.pc = IF rest = <<>> THEN "idle" ELSE "tell",
                                                   !.job = IF rest = <<>> THEN "none" ELSE @]]
     ELSE LET i == Min(todo) IN
          /\ nt' = [nt EXCEPT ![n] = [nt[n] EXCEPT !.index = i, !.callbacks[i] = Told(@, rv[r])]]
          /\ th' = [th EXCEPT ![r].pc = "callback"]
  /\ UNCHANGED <<latest, touched, writer, rv, co, wk>>

---------------------------------------------------------------------------------
(* Transactions. *)

\* Realm::begin_transaction with nobody to notify.
BeginAlone(r) ==
  /\ th[r].pc = "idle" /\ writer = none /\ latest < MaxVersion
  /\ NotifiersFor(r) = {}
  /\ writer' = r
  /\ rv' = [rv EXCEPT ![r] = latest]
  /\ UNCHANGED <<latest, touched, th, nt, co, wk>>

\* promote_to_write: the write lock first, then the notifiers are waited for at
\* the version the write starts from.
BeginNotifying(r) ==
  /\ th[r].pc = "idle" /\ writer = none /\ latest < MaxVersion
  /\ NotifiersFor(r) # {}
  /\ writer' = r
  /\ StartWaiting(r, "begin")
  /\ UNCHANGED <<latest, touched, rv, nt, co, wk>>

\* The callbacks of Realm r start again at version v: whatever the user's own
\* write inside a block moved it over is no longer promised.
Rebase(r, v) ==
  LET AtV(c) == [c EXCEPT !.base = IF c.initial THEN v ELSE @] IN
  [n \in Notifiers |->
     IF Owner[n] = r THEN [nt[n] EXCEPT !.callbacks = Each(nt[n], AtV)] ELSE nt[n]]

\* A write from a block: no notifications, and the snapshot jumps.
BeginNested(r) ==
  /\ NestedWrites
  /\ InBlock(r) /\ writer = none /\ latest < MaxVersion
  /\ writer' = r
  /\ rv' = [rv EXCEPT ![r] = latest]
  /\ nt' = Rebase(r, latest)
  /\ UNCHANGED <<latest, touched, th, co, wk>>

\* The user's code ends the writes it began: a block called by begin_transaction
\* itself does not end that one.
OwnWrite(r) == InWrite(r) /\ (th[r].pc = "idle" \/ (InBlock(r) /\ th[r].job # "begin"))

\* suppress_next_notification, for a token given to commitWithoutNotifying.
Suppress(n, i) ==
  /\ Suppresses
  /\ OwnWrite(Owner[n])
  /\ ~nt[n].callbacks[i].mute
  /\ nt' = [nt EXCEPT ![n].callbacks[i] = [nt[n].callbacks[i] EXCEPT !.skip = TRUE, !.mute = TRUE]]
  /\ UNCHANGED <<latest, touched, writer, rv, th, co, wk>>

\* have_notifiers: only the main ones skip versions.
SkipsVersions(r) == \E n \in Listed("main") : Owner[n] = r /\ nt[n].alive

\* RealmCoordinator::commit_write, under the notifier mutex: the versions a
\* worker may skip end with the last one written here.
Commit(r) ==
  LET next == latest + 1
      base == IF InBlock(r) THEN Rebase(r, next) ELSE nt
      Muted(c) == IF c.mute THEN [c EXCEPT !.mute = FALSE, !.muted = @ \cup {next}] ELSE c IN
  /\ OwnWrite(r)
  /\ latest' = next
  /\ touched' \in {touched, touched \cup {next}}
  /\ writer' = none
  /\ rv' = [rv EXCEPT ![r] = next]
  /\ co' = [co EXCEPT !.skip = IF SkipsVersions(r) THEN next ELSE @, !.signal = TRUE]
  /\ nt' = [n \in Notifiers |-> [base[n] EXCEPT !.callbacks = Each(base[n], Muted)]]
  /\ UNCHANGED <<th, wk>>

Cancel(r) ==
  /\ OwnWrite(r) /\ ~Committing(r)
  /\ writer' = none
  /\ UNCHANGED <<latest, touched, rv, th, nt, co, wk>>

\* Realm::refresh, which returns at once in a write and while sending.
Refresh(r) ==
  /\ th[r].pc = "idle" /\ writer # r
  /\ IF NotifiersFor(r) = {}
     THEN rv' = [rv EXCEPT ![r] = latest] /\ th' = th
     ELSE StartWaiting(r, "refresh") /\ rv' = rv
  /\ UNCHANGED <<latest, touched, writer, nt, co, wk>>

\* Mutation of Outdated: an old package is delivered.
NeverOutdated(r, S) == FALSE

\* A package older than the snapshot, which a nested write moved.
Outdated(r, S) == S # {} /\ VersionOf(S) < rv[r]

\* Realm::notify, from the run loop: nothing in a write; at the latest version,
\* what was handed over for it (process_available_async); behind it, whatever is
\* there (advance_to_ready), thrown away when it is older than the snapshot.
Notify(r) ==
  LET run == {n \in NotifiersFor(r) : nt[n].hasRun}
      here == {n \in run : nt[n].version = rv[r]}
      nothing == th' = [th EXCEPT ![r].loop = FALSE] /\ rv' = rv IN
  /\ th[r].pc = "idle" /\ th[r].loop
  /\ \/ writer = r /\ nothing /\ nt' = nt
     \/ /\ writer # r /\ rv[r] = latest
        /\ nt' = Package(here)
        /\ IF here = {} THEN nothing ELSE StartSending(r, "notify", here, rv[r])
     \/ /\ writer # r /\ rv[r] < latest
        /\ nt' = Package(run)
        /\ IF Outdated(r, run) THEN nothing
           ELSE StartSending(r, "notify", run, IF run = {} THEN latest ELSE VersionOf(run))
  /\ UNCHANGED <<latest, touched, writer, co, wk>>

---------------------------------------------------------------------------------
(* The worker: the thread of ExternalCommitHelper, run_async_notifiers. *)

\* clean_up_dead_notifiers and the lists it leaves.
Buried == [n \in Notifiers |->
             IF nt[n].list \in {"new", "main"} /\ ~nt[n].alive
             THEN [nt[n] EXCEPT !.list = "gone"] ELSE nt[n]]
Living(l) == {n \in Listed(l) : nt[n].alive}

\* Mutation of CleanedUp: the advancer keeps its read transaction.
CleanedUpKeepsPin(c) ==
  LET emptied == Listed("main") # {} /\ Living("main") = {} IN
  [c EXCEPT !.notifierSG = IF emptied THEN 0 ELSE @, !.skip = IF emptied THEN 0 ELSE @]

\* The coordinator after the dead are gone: a list that was emptied so gives its
\* read transaction back, and the last one its skip version too.
CleanedUp(c) ==
  LET emptied(l) == Listed(l) # {} /\ Living(l) = {} IN
  [c EXCEPT !.notifierSG = IF emptied("main") THEN 0 ELSE @,
            !.skip = IF emptied("main") THEN 0 ELSE @,
            !.advancer = IF emptied("new") THEN 0 ELSE @]

\* Mutation of WakeAll: the waiting threads are not woken.
WakeNobody(c) == c

\* m_notifier_cv.notify_all.
WakeAll(c) == [c EXCEPT !.asleep = {}]

\* Mutation of TargetsOf: the skipped version is not handed over on its own.
TargetsInOneGo(skip) == <<latest>>

\* The versions to bring the old notifiers to: first the one to be skipped.
TargetsOf(skip) == IF skip # 0 THEN <<skip, latest>> ELSE <<latest>>

\* Under the mutex: the version to go to is chosen, the skip version and the new
\* notifiers are taken.
WorkerStart ==
  LET clean == CleanedUp(co)
      old == Living("main")
      new == Living("new") IN
  /\ wk.pc = "idle" /\ co.signal
  /\ IF old \cup new = {}
     THEN /\ co' = [WakeAll(clean) EXCEPT !.signal = FALSE]
          /\ wk' = [wk EXCEPT !.pc = "announce"]
          /\ nt' = Buried
     ELSE /\ co' = [clean EXCEPT !.signal = FALSE, !.skip = 0, !.advancer = 0,
                                 !.notifierSG = IF old = {} THEN latest ELSE @]
          /\ wk' = [wk EXCEPT !.pc = "advance", !.old = old, !.new = new,
                      !.targets = TargetsOf(clean.skip)]
          /\ nt' = [n \in Notifiers |->
                      IF n \in new THEN [nt[n] EXCEPT !.list = "main"] ELSE Buried[n]]
  /\ UNCHANGED <<latest, touched, writer, rv, th>>

LastPhase == Len(wk.targets) = 1

\* The notifiers of the current phase: the new ones only go to the last version.
Phase == IF LastPhase THEN wk.old \cup wk.new ELSE wk.old

\* The SharedGroup of the notifiers advances; info is who asked for the changes
\* to be recorded on the way.
WorkerAdvance ==
  /\ wk.pc = "advance"
  /\ co' = [co EXCEPT !.notifierSG = Head(wk.targets)]
  /\ wk' = [wk EXCEPT !.pc = "run", !.from = co.notifierSG,
                      !.info = {n \in wk.old : nt[n].hasRun /\ nt[n].have}]
  /\ UNCHANGED <<latest, touched, writer, rv, th, nt>>

\* Mutation of NeedToRun: nothing is run in the background without callbacks.
NeedToRunForCallbacks(n) ==
  /\ nt[n].alive
  /\ nt[n].have
  /\ nt[n].hasRun => ChangedIn(nt[n].prev, co.notifierSG) # {}

\* need_to_run.
NeedToRun(n) ==
  /\ nt[n].alive
  /\ nt[n].have \/ nt[n].wants
  /\ nt[n].hasRun => ChangedIn(nt[n].prev, co.notifierSG) # {}

\* calculate_changes: right if the changes were recorded, and the rows seen last
\* are still the rows at the version the recording starts from.
CalculatedChanges(n) ==
  LET seen == ChangedIn(nt[n].prev, co.notifierSG) IN
  IF ~nt[n].hasRun \/ ~nt[n].have THEN {}
  ELSE IF n \in wk.info /\ ChangedIn(nt[n].prev, wk.from) = {} THEN seen
  ELSE seen \cup {0}

\* ResultsNotifier::run for each of them, without the mutex.
WorkerRun ==
  /\ wk.pc = "run"
  /\ nt' = [n \in Notifiers |->
              IF n \in Phase /\ NeedToRun(n)
              THEN [nt[n] EXCEPT !.changes = CalculatedChanges(n), !.prev = co.notifierSG,
                                 !.tv = TRUE]
              ELSE nt[n]]
  /\ wk' = [wk EXCEPT !.pc = "handover"]
  /\ UNCHANGED <<latest, touched, writer, rv, th, co>>

\* add_changes: a callback that is to skip keeps what it had.
AddChanges(s) ==
  LET Merge(c) == IF c.skip THEN [c EXCEPT !.skip = FALSE]
                  ELSE [c EXCEPT !.acc = @ \cup s.changes] IN
  Each(s, Merge)

\* Mutation of PrepareHandover: rows that did not change keep their old version.
PrepareHandoverNoBump(s) ==
  [s EXCEPT !.version = co.notifierSG, !.hasRun = TRUE, !.tv = FALSE, !.changes = {},
            !.tvHandover = IF s.tv THEN co.notifierSG ELSE @,
            !.callbacks = AddChanges(s)]

\* prepare_handover: without new rows the ones not yet fetched serve again.
PrepareHandover(s) ==
  [s EXCEPT !.version = co.notifierSG, !.hasRun = TRUE, !.tv = FALSE, !.changes = {},
            !.tvHandover = IF s.tv \/ s.tvHandover # 0 THEN co.notifierSG ELSE 0,
            !.callbacks = AddChanges(s)]

\* Under the mutex again.  After the last version the dead are removed and those
\* who wait are woken.
WorkerHandover ==
  LET handed == [n \in Notifiers |->
                   IF n \in Phase THEN PrepareHandover(nt[n]) ELSE nt[n]] IN
  /\ wk.pc = "handover"
  /\ IF LastPhase
     THEN /\ nt' = [n \in Notifiers |-> [handed[n] EXCEPT !.list = Buried[n].list]]
          /\ co' = WakeAll(CleanedUp(co))
          /\ wk' = [wk EXCEPT !.pc = "announce", !.targets = <<>>, !.old = {}, !.new = {},
                              !.info = {}, !.from = 0]
     ELSE /\ nt' = handed /\ co' = co
          /\ wk' = [wk EXCEPT !.pc = "advance", !.targets = Tail(@)]
  /\ UNCHANGED <<latest, touched, writer, rv, th>>

\* on_change: every Realm that has a run loop is notified through it.
WorkerAnnounce ==
  /\ wk.pc = "announce"
  /\ th' = [r \in Realms |-> [th[r] EXCEPT !.loop = r \in RunLoops]]
  /\ wk' = [wk EXCEPT !.pc = "idle"]
  /\ UNCHANGED <<latest, touched, writer, rv, nt, co>>

Worker == WorkerStart \/ WorkerAdvance \/ WorkerRun \/ WorkerHandover \/ WorkerAnnounce

---------------------------------------------------------------------------------
Observe(n) ==
  \/ Register(n) \/ AddCallback(n) \/ Release(n)
  \/ \E i \in DOMAIN nt[n].callbacks : RemoveCallback(n, i) \/ Suppress(n, i)

Transact(r) ==
  \/ BeginAlone(r) \/ BeginNotifying(r) \/ BeginNested(r)
  \/ Commit(r) \/ Cancel(r) \/ Refresh(r)

Send(r) ==
  Sleep(r) \/ PackageAndAdvance(r) \/ Deliver(r) \/ CallNext(r) \/ Notify(r)

Next ==
  \/ \E n \in Notifiers : Observe(n)
  \/ \E r \in Realms : Transact(r) \/ Send(r)
  \/ Worker

Spec == Init /\ [][Next]_vars

\* The worker goes on.  A block returns and a run loop comes round, however often
\* the user's code may write before: strong fairness.  A write that was begun is
\* committed or cancelled, as Realm.write does; nobody has to begin one.
Fairness ==
  /\ WF_vars(Worker)
  /\ \A r \in Realms : SF_vars(Send(r)) /\ WF_vars(Commit(r) \/ Cancel(r))

LiveSpec == Spec /\ Fairness
---------------------------------------------------------------------------------
(* What must be true. *)

RTypeOK ==
  /\ latest \in Versions /\ touched \subseteq Versions /\ writer \in Realms \cup {none}
  /\ rv \in [Realms -> Versions]
  /\ th \in [Realms -> ThreadType]
  /\ nt \in [Notifiers -> NotifierType]
  /\ co \in CoordinatorType
  /\ wk \in WorkerType

\* No change is lost between the worker, the handover and the delivery: whatever
\* changed the rows since a block was first called, up to the version handed
\* over, the block was told, is about to be told, or was asked not to be told.
NothingLost ==
  \A n \in Notifiers : \A i \in DOMAIN nt[n].callbacks :
    LET c == nt[n].callbacks[i] IN
    c.initial /\ nt[n].alive =>
      ChangedIn(c.base, nt[n].version) \subseteq c.acc \cup c.del \cup c.told \cup c.muted

\* No change is told twice: what is accumulated, what is packaged and what was
\* told are always different changes, through skipped versions and refreshes.
ToldOnce ==
  \A n \in Notifiers : \A i \in DOMAIN nt[n].callbacks :
    LET c == nt[n].callbacks[i] IN
    c.initial => /\ c.acc \cap c.del = {}
                 /\ (c.acc \cup c.del) \cap c.told = {}

\* Changes are calculated from the rows that were seen last: a block that was
\* called before is never given changes between other rows.
NoWrongChange ==
  \A n \in Notifiers : \A i \in DOMAIN nt[n].callbacks :
    LET c == nt[n].callbacks[i] IN
    c.initial => 0 \notin c.acc \cup c.del \cup c.told

\* Nobody hears of a version before the snapshot of the Realm is there: the
\* packaged changes of the block that runs are about rows it can read.
ToldIsReadable ==
  \A n \in Notifiers : \A i \in DOMAIN nt[n].callbacks :
    \A v \in nt[n].callbacks[i].told : v <= rv[Owner[n]]

\* The rows handed over are imported at the version they were exported at; at
\* any other one import_from_handover throws BadVersion.
HandoverMatches ==
  \A n \in Notifiers :
    LET r == Owner[n] IN
    Delivering(n) /\ th[r].pc \in {"changed", "ready"} /\ writer # r /\ rv[r] = th[r].to =>
      nt[n].tvDeliver \in {0, rv[r]}

\* The advancer keeps a read transaction exactly as long as a new notifier waits
\* for the worker, at a version no newer than the one that notifier was made at,
\* so that its query can still be imported (the assertions of pin_version and
\* run_async_notifiers); the notifier SharedGroup, as long as there is a main one.
HandoverPinned ==
  /\ (co.advancer = 0) <=> (Listed("new") = {})
  /\ \A n \in Listed("new") : co.advancer <= nt[n].version
  /\ wk.pc \in {"idle", "announce"} => ((co.notifierSG = 0) <=> (Listed("main") = {}))

\* A phase for a skipped version has notifiers to bring there, does not go past
\* the version chosen under the mutex, and never backwards.
SkipIsOnTheWay ==
  LET targets == wk.targets IN
  /\ Len(targets) = 2 => wk.old # {} /\ targets[1] <= targets[2]
  /\ wk.pc = "advance" => co.notifierSG <= Head(targets)

---------------------------------------------------------------------------------
(* The inductive invariant behind the versions, and what it is made of.      *)

\* The fields the rest speaks of are there.
ShapeOK ==
  /\ DOMAIN th = Realms /\ \A r \in Realms : {"pc", "job", "target", "package"} \subseteq DOMAIN th[r]
  /\ DOMAIN nt = Notifiers
  /\ \A n \in Notifiers : {"version", "list", "hasRun", "alive"} \subseteq DOMAIN nt[n]
  /\ {"advancer", "notifierSG", "skip"} \subseteq DOMAIN co
  /\ {"pc", "targets", "old", "new"} \subseteq DOMAIN wk

\* Nobody reads a version that does not exist.
FileVersions ==
  /\ latest \in Nat \ {0} /\ writer \in Realms \cup {none}
  /\ rv \in [Realms -> Nat]
  /\ \A r \in Realms : 1 <= rv[r] /\ rv[r] <= latest

\* Nor is one written down anywhere.
VersionsNoted ==
  /\ co.advancer \in Nat /\ co.notifierSG \in Nat /\ co.skip \in Nat
  /\ co.advancer <= latest /\ co.notifierSG <= latest /\ co.skip <= latest
  /\ \A n \in Notifiers : nt[n].version \in Nat /\ nt[n].version <= latest
  /\ \A n \in Listed("new") : nt[n].version # 0
  /\ wk.targets \in Seq(Nat)
  /\ \A k \in DOMAIN wk.targets : 1 <= wk.targets[k] /\ wk.targets[k] <= latest

\* A thread waits to begin the write whose lock it has, or to refresh without
\* it, and for no version older than its snapshot.
WaitsForItsOwn ==
  \A r \in Realms : th[r].pc = "wait" =>
    /\ th[r].job \in {"begin", "refresh"}
    /\ th[r].job = "begin" <=> writer = r
    /\ th[r].target \in Nat /\ rv[r] <= th[r].target
    /\ th[r].package \subseteq Notifiers

\* Who writes, reads the latest version.
WriterIsLatest == writer \in Realms /\ th[writer].pc # "wait" => rv[writer] = latest

WorkerIsFree == wk.pc \in {"idle", "announce"}

\* What the worker took under the mutex stays what the lists say, and the skip
\* version is ahead of whatever it is doing.
WorkerInv ==
  /\ wk.pc \in {"idle", "advance", "run", "handover", "announce"}
  /\ WorkerIsFree => wk.targets = <<>>
  /\ ~WorkerIsFree =>
       /\ Len(wk.targets) \in {1, 2}
       /\ Len(wk.targets) = 2 => wk.old # {} /\ wk.targets[1] <= wk.targets[2]
       /\ Listed("main") = wk.old \cup wk.new /\ Listed("main") # {}
       /\ \A n \in Listed("main") : nt[n].hasRun => n \in wk.old
       /\ co.notifierSG # 0
  /\ wk.pc = "advance" => co.notifierSG <= wk.targets[1]
  /\ wk.pc \in {"run", "handover"} => co.notifierSG = wk.targets[1]
  /\ \A n \in Notifiers : nt[n].hasRun => nt[n].list \in {"main", "gone"}
  /\ co.skip # 0 =>
       /\ Listed("main") # {} /\ co.notifierSG <= co.skip
       /\ \A k \in DOMAIN wk.targets : wk.targets[k] <= co.skip

\* Whenever the mutex is free the notifiers that have run are all at one version,
\* so a package has one version, whichever notifier package_and_wait saw last.
OneVersion ==
  \A m, n \in Listed("main") :
    nt[m].hasRun /\ nt[n].hasRun => nt[m].version = nt[n].version

IInv ==
  ShapeOK /\ FileVersions /\ VersionsNoted /\ WaitsForItsOwn /\ WriterIsLatest /\ WorkerInv
  /\ HandoverPinned /\ OneVersion

---------------------------------------------------------------------------------
(* The transactions underneath: a write has begun when its waiting is over. *)

begun == IF writer \in Realms /\ th[writer].pc = "wait" THEN none ELSE writer

File == INSTANCE VersionedFile WITH writer <- begun

\* Whatever is packaged, delivered or skipped, the versions read and written are
\* those of a versioned file.
ImplementsVersionedFile == File!VFSpec

\* A thread that waits for the notifiers, with or without the write lock, is
\* always woken with what it waits for.
WaitEnds == \A r \in Realms : th[r].pc = "wait" ~> th[r].pc # "wait"

\* Every block that is observing gets its first call, and is told of the changes
\* made since, as long as it stays.
EverybodyIsTold ==
  \A n \in Notifiers :
    LET owed == \E i \in DOMAIN nt[n].callbacks :
                  LET c == nt[n].callbacks[i] IN
                  \/ ~c.initial
                  \/ ~(ChangedIn(c.base, latest) \subseteq c.told \cup c.muted)
    IN owed ~> ~owed
=================================================================================
