------------------------------ MODULE RealmProofs -------------------------------
(***************************************************************************)
(* Proofs about RealmNotifications, for any Realms, notifiers, run loops   *)
(* and habits of the users: the versions that are pinned, targeted,        *)
(* skipped, handed over and waited for fit together, and so the            *)
(* transactions are those of a versioned file.  IInv (in                   *)
(* RealmNotifications) is the inductive invariant; Threads and Work are    *)
(* its two halves, what the threads of the Realms rely on and what the     *)
(* worker does.                                                            *)
(*                                                                         *)
(* The last sections prove the types (NotificationsTyped), with what keeps *)
(* them: a thread calls only notifiers of its own that have run, and the   *)
(* positions of the loops over callbacks stay among them.  DeliveryProofs  *)
(* and LossProofs build on both.                                           *)
(***************************************************************************)
EXTENDS RealmNotifications, FiniteSetTheorems, SequenceTheorems, WellFoundedInduction, TLAPS

Threads == FileVersions /\ WaitsForItsOwn /\ WriterIsLatest
Work == VersionsNoted /\ WorkerInv /\ HandoverPinned /\ OneVersion

\* A step that leaves alone what Work speaks of: nearly every step of a thread.
SameNotifiers ==
  /\ DOMAIN nt' = Notifiers
  /\ \A n \in Notifiers :
       /\ {"version", "list", "hasRun", "alive"} \subseteq DOMAIN nt'[n]
       /\ nt'[n].version = nt[n].version /\ nt'[n].list = nt[n].list
       /\ nt'[n].hasRun = nt[n].hasRun

SamePins ==
  /\ {"advancer", "notifierSG", "skip"} \subseteq DOMAIN co'
  /\ co'.advancer = co.advancer /\ co'.notifierSG = co.notifierSG /\ co'.skip = co.skip

SameWork == SameNotifiers /\ SamePins /\ wk' = wk

\* A step that leaves every thread waiting, or not, as it was.
SameThreads ==
  /\ DOMAIN th' = Realms
  /\ \A r \in Realms :
       /\ {"pc", "job", "target", "package"} \subseteq DOMAIN th'[r]
       /\ (th'[r].pc = "wait") <=> (th[r].pc = "wait")
       /\ th[r].pc = "wait" => /\ th'[r].job = th[r].job /\ th'[r].target = th[r].target
                               /\ th'[r].package = th[r].package

---------------------------------------------------------------------------------
\* A version is still there when the file has a newer one.
LEMMA WorkStays ==
  ASSUME ShapeOK, Work, SameWork, latest \in Nat, latest' \in Nat, latest <= latest'
  PROVE  Work'
<1>1. Listed("new")' = Listed("new") /\ Listed("main")' = Listed("main")
  BY DEF SameWork, SameNotifiers, Listed
<1>2. \A l \in {"new", "main"} : Listed(l) \subseteq Notifiers
  BY DEF Listed
<1>3. VersionsNoted'
  BY <1>1, <1>2 DEF Work, VersionsNoted, SameWork, SameNotifiers, SamePins
<1>4. WorkerInv'
  BY <1>1, <1>2 DEF Work, WorkerInv, WorkerIsFree, SameWork, SameNotifiers, SamePins
<1>5. HandoverPinned'
  BY <1>1, <1>2 DEF Work, HandoverPinned, SameWork, SameNotifiers, SamePins
<1>6. OneVersion'
  BY <1>1, <1>2 DEF Work, OneVersion, SameWork, SameNotifiers
<1>7. QED
  BY <1>3, <1>4, <1>5, <1>6 DEF Work

\* Threads does not read the notifiers.
LEMMA ThreadsStay ==
  ASSUME Threads, SameThreads, UNCHANGED <<latest, writer, rv>>
  PROVE  Threads'
BY DEF Threads, FileVersions, WaitsForItsOwn, WriterIsLatest, SameThreads

\* What the code of the user does to its notifier leaves the rest alone.
LEMMA QuietActions ==
  ASSUME ShapeOK, NEW n \in Notifiers,
         AddCallback(n) \/ Release(n) \/ \E i \in DOMAIN nt[n].callbacks : RemoveCallback(n, i) \/ Suppress(n, i)
  PROVE  ShapeOK' /\ SameWork /\ SameThreads /\ UNCHANGED <<latest, writer, rv>>
<1>1. CASE AddCallback(n)
  BY <1>1 DEF AddCallback, ShapeOK, SameWork, SameNotifiers, SamePins, SameThreads
<1>2. CASE Release(n)
  BY <1>2 DEF Release, ShapeOK, SameWork, SameNotifiers, SamePins, SameThreads
<1>3. ASSUME NEW i \in DOMAIN nt[n].callbacks, RemoveCallback(n, i)
      PROVE  ShapeOK' /\ SameWork /\ SameThreads /\ UNCHANGED <<latest, writer, rv>>
  BY <1>3 DEF RemoveCallback, ShapeOK, SameWork, SameNotifiers, SamePins, SameThreads
<1>4. ASSUME NEW i \in DOMAIN nt[n].callbacks, Suppress(n, i)
      PROVE  ShapeOK' /\ SameWork /\ SameThreads /\ UNCHANGED <<latest, writer, rv>>
  BY <1>4 DEF Suppress, ShapeOK, SameWork, SameNotifiers, SamePins, SameThreads
<1>5. QED
  BY <1>1, <1>2, <1>3, <1>4

---------------------------------------------------------------------------------
(* Steps of the threads, each with the step of the versioned file it is.     *)

FileStep == File!VFNext \/ UNCHANGED <<latest, begun, rv>>

\* Thread r goes on, not waiting; the others stay where they are.
OnlyGoesOn(r) ==
  /\ DOMAIN th' = Realms /\ \A s \in Realms : {"pc", "job", "target", "package"} \subseteq DOMAIN th'[s]
  /\ \A s \in Realms \ {r} : th'[s] = th[s]
  /\ th'[r].pc # "wait"

\* Which Realm has begun a write depends on the threads and the writer only.
LEMMA StillBegun ==
  ASSUME SameThreads, writer' = writer
  PROVE  begun' = begun
BY DEF SameThreads, begun

\* The notifiers of a Realm are notifiers.
LEMMA ForRealm ==
  ASSUME NEW r \in Realms
  PROVE  NotifiersFor(r) \subseteq Notifiers
BY DEF NotifiersFor, Listed

\* Packaging moves no notifier's list or version.
LEMMA PackageIsQuiet ==
  ASSUME ShapeOK, NEW S \in SUBSET Notifiers, nt' = Package(S)
  PROVE  SameNotifiers
BY DEF ShapeOK, SameNotifiers, Package, PackageForDelivery, Each

\* What is packaged has a version of the file.
LEMMA PackagedExists ==
  ASSUME Work, Threads, NEW S \in SUBSET Notifiers
  PROVE  VersionOf(S) \in Nat /\ VersionOf(S) <= latest
BY DEF Work, Threads, VersionsNoted, FileVersions, VersionOf

\* A Realm that is not writing reads a later version.
LEMMA AdvanceIsAFileStep ==
  ASSUME Threads, NEW r \in Realms, NEW v \in Nat, rv[r] <= v, v <= latest,
         rv' = [rv EXCEPT ![r] = v], UNCHANGED <<latest, writer>>,
         OnlyGoesOn(r), writer # r
  PROVE  Threads' /\ FileStep
<1>1. FileVersions'
  BY DEF Threads, FileVersions
<1>2. WaitsForItsOwn'
  BY DEF Threads, FileVersions, WaitsForItsOwn, OnlyGoesOn
<1>3. WriterIsLatest'
  BY DEF Threads, FileVersions, WriterIsLatest, OnlyGoesOn
<1>4. begun' = begun /\ begun # r
  BY RealmsAssumption DEF begun, OnlyGoesOn
<1>5. File!VFAdvance(r)
  <2>1. v \in rv[r] .. latest
    BY DEF Threads, FileVersions
  <2>2. QED
    BY <1>4, <2>1 DEF File!VFAdvance
<1>6. QED
  BY <1>1, <1>2, <1>3, <1>5 DEF Threads, FileStep, File!VFNext

\* The write lock is taken, or was, and the write starts at the latest version.
LEMMA BeginIsAFileStep ==
  ASSUME Threads, NEW r \in Realms, begun = none,
         rv' = [rv EXCEPT ![r] = latest], latest' = latest, writer' = r,
         OnlyGoesOn(r), \A s \in Realms \ {r} : writer # s
  PROVE  Threads' /\ FileStep
<1>1. FileVersions'
  BY DEF Threads, FileVersions
<1>2. WaitsForItsOwn'
  BY DEF Threads, FileVersions, WaitsForItsOwn, OnlyGoesOn
<1>3. WriterIsLatest'
  BY DEF Threads, FileVersions, WriterIsLatest, OnlyGoesOn
<1>4. begun' = r
  BY DEF begun, OnlyGoesOn
<1>5. QED
  BY <1>1, <1>2, <1>3, <1>4 DEF Threads, FileStep, File!VFNext, File!VFBegin

\* Beginning a write with no notifier to wait for keeps the invariant, and is a
\* step of the file.
LEMMA BeginAloneStep ==
  ASSUME ShapeOK, Threads, NEW r \in Realms, BeginAlone(r)
  PROVE  ShapeOK' /\ SameWork /\ Threads' /\ FileStep
<1>1. ShapeOK' /\ SameWork /\ OnlyGoesOn(r)
  BY DEF BeginAlone, ShapeOK, SameWork, SameNotifiers, SamePins, OnlyGoesOn
<1>2. begun = none /\ \A s \in Realms \ {r} : writer # s
  BY RealmsAssumption DEF BeginAlone, begun
<1>3. QED
  BY <1>1, <1>2, BeginIsAFileStep DEF BeginAlone

\* Beginning a write in a block keeps the invariant, and is a step of the file.
LEMMA BeginNestedStep ==
  ASSUME ShapeOK, Threads, NEW r \in Realms, BeginNested(r)
  PROVE  ShapeOK' /\ SameWork /\ Threads' /\ FileStep
<1>1. ShapeOK' /\ SameWork /\ OnlyGoesOn(r)
  BY DEF BeginNested, InBlock, Rebase, Each, ShapeOK, SameWork, SameNotifiers, SamePins, OnlyGoesOn
<1>2. begun = none /\ \A s \in Realms \ {r} : writer # s
  BY RealmsAssumption DEF BeginNested, begun
<1>3. QED
  BY <1>1, <1>2, BeginIsAFileStep DEF BeginNested

\* Waiting with the lock is not yet writing.
LEMMA BeginNotifyingStep ==
  ASSUME ShapeOK, Threads, NEW r \in Realms, BeginNotifying(r)
  PROVE  ShapeOK' /\ SameWork /\ Threads' /\ FileStep
<1>1. ShapeOK' /\ SameWork
  BY DEF BeginNotifying, StartWaiting, ShapeOK, SameWork, SameNotifiers, SamePins
<1>2. /\ th'[r].pc = "wait" /\ th'[r].job = "begin" /\ th'[r].target = latest
      /\ th'[r].package = NotifiersFor(r)
      /\ \A s \in Realms \ {r} : th'[s] = th[s]
  BY DEF BeginNotifying, StartWaiting, ShapeOK
<1>3. Threads'
  BY <1>2, ForRealm, RealmsAssumption
  DEF BeginNotifying, Threads, FileVersions, WaitsForItsOwn, WriterIsLatest
<1>4. UNCHANGED <<latest, begun, rv>>
  BY <1>2, RealmsAssumption DEF BeginNotifying, begun
<1>5. QED
  BY <1>1, <1>3, <1>4 DEF FileStep

\* Cancelling a write keeps the invariant, and is a step of the file.
LEMMA CancelStep ==
  ASSUME ShapeOK, Threads, NEW r \in Realms, Cancel(r)
  PROVE  ShapeOK' /\ SameWork /\ Threads' /\ FileStep
<1>1. ShapeOK' /\ SameWork
  BY DEF Cancel, ShapeOK, SameWork, SameNotifiers, SamePins
<1>2. begun = r /\ begun' = none /\ th[r].pc # "wait"
  BY RealmsAssumption DEF Cancel, OwnWrite, InWrite, begun
<1>3. Threads'
  BY <1>2, RealmsAssumption
  DEF Cancel, OwnWrite, InWrite, Threads, FileVersions, WaitsForItsOwn, WriterIsLatest
<1>4. QED
  BY <1>1, <1>2, <1>3 DEF Cancel, FileStep, File!VFNext, File!VFCancel

\* Starting a refresh keeps the invariant, and is a step of the file.
LEMMA RefreshStep ==
  ASSUME ShapeOK, Threads, NEW r \in Realms, Refresh(r)
  PROVE  ShapeOK' /\ SameWork /\ Threads' /\ FileStep
<1>1. ShapeOK' /\ SameWork
  BY DEF Refresh, StartWaiting, ShapeOK, SameWork, SameNotifiers, SamePins
<1>2. CASE NotifiersFor(r) = {}
  <2>1. OnlyGoesOn(r) /\ rv' = [rv EXCEPT ![r] = latest]
    BY <1>2 DEF Refresh, ShapeOK, OnlyGoesOn
  <2>2. latest \in Nat /\ rv[r] <= latest /\ latest <= latest
    BY DEF Threads, FileVersions
  <2>3. UNCHANGED <<latest, writer>> /\ writer # r
    BY DEF Refresh
  <2>4. QED
    BY <1>1, <2>1, <2>2, <2>3, AdvanceIsAFileStep
<1>3. CASE NotifiersFor(r) # {}
  <2>1. /\ th'[r].pc = "wait" /\ th'[r].job = "refresh" /\ th'[r].target = latest
        /\ th'[r].package = NotifiersFor(r)
        /\ \A s \in Realms \ {r} : th'[s] = th[s]
    BY <1>3 DEF Refresh, StartWaiting, ShapeOK
  <2>2. Threads'
    BY <1>3, <2>1, ForRealm DEF Refresh, Threads, FileVersions, WaitsForItsOwn, WriterIsLatest
  <2>3. UNCHANGED <<latest, begun, rv>>
    BY <1>3, <2>1 DEF Refresh, begun
  <2>4. QED
    BY <1>1, <2>2, <2>3 DEF FileStep
<1>4. QED
  BY <1>2, <1>3

\* Commit is the one step of a thread that makes a version: the skip version it
\* may set is ahead of everything the worker has.
LEMMA CommitStep ==
  ASSUME ShapeOK, Threads, Work, NEW r \in Realms, Commit(r)
  PROVE  ShapeOK' /\ Work' /\ Threads' /\ FileStep
<1>1. ShapeOK' /\ SameNotifiers /\ wk' = wk /\ th' = th
  BY DEF Commit, Rebase, Each, ShapeOK, SameNotifiers
<1>2. /\ co'.advancer = co.advancer /\ co'.notifierSG = co.notifierSG
      /\ co'.skip = IF SkipsVersions(r) THEN latest + 1 ELSE co.skip
  BY DEF Commit, ShapeOK
<1>3. latest \in Nat /\ latest' = latest + 1 /\ rv' = [rv EXCEPT ![r] = latest + 1] /\ writer' = none
  BY DEF Commit, Threads, FileVersions
<1>4. begun = r /\ begun' = none /\ th[r].pc # "wait"
  BY <1>1, <1>3, RealmsAssumption DEF Commit, OwnWrite, InWrite, begun
<1>5. Threads'
  <2>1. FileVersions'
    BY <1>3 DEF Threads, FileVersions
  <2>2. WaitsForItsOwn'
    <3> SUFFICES ASSUME NEW s \in Realms, th[s].pc = "wait"
                 PROVE  /\ th[s].job \in {"begin", "refresh"}
                        /\ th[s].job = "begin" <=> writer' = s
                        /\ th[s].target \in Nat /\ rv'[s] <= th[s].target
                        /\ th[s].package \subseteq Notifiers
      BY <1>1 DEF WaitsForItsOwn
    <3>1. s # r /\ writer # s /\ writer' # s /\ rv'[s] = rv[s]
      BY <1>3, <1>4, RealmsAssumption DEF Commit, OwnWrite, InWrite, Threads, FileVersions
    <3>2. QED
      BY <3>1 DEF Threads, WaitsForItsOwn
  <2>3. WriterIsLatest'
    BY <1>3, RealmsAssumption DEF WriterIsLatest
  <2>4. QED
    BY <2>1, <2>2, <2>3 DEF Threads
<1>6. Work'
  <2>1. Listed("new")' = Listed("new") /\ Listed("main")' = Listed("main")
        /\ Listed("new") \subseteq Notifiers /\ Listed("main") \subseteq Notifiers
    BY <1>1 DEF SameNotifiers, Listed
  <2>2. SkipsVersions(r) => Listed("main") # {}
    BY DEF SkipsVersions
  <2>3. VersionsNoted'
    BY <1>1, <1>2, <1>3, <2>1 DEF Work, VersionsNoted, SameNotifiers
  <2>4. WorkerInv'
    <3>1. co'.skip # 0 => /\ Listed("main") # {} /\ co.notifierSG <= co'.skip
                          /\ \A k \in DOMAIN wk.targets : wk.targets[k] <= co'.skip
      BY <1>2, <1>3, <2>2 DEF Work, WorkerInv, VersionsNoted
    <3>2. QED
      BY <1>1, <1>2, <2>1, <3>1 DEF Work, WorkerInv, WorkerIsFree, SameNotifiers
  <2>5. HandoverPinned'
    BY <1>1, <1>2, <2>1 DEF Work, HandoverPinned, SameNotifiers
  <2>6. OneVersion'
    BY <1>1, <2>1 DEF Work, OneVersion, SameNotifiers
  <2>7. QED
    BY <2>3, <2>4, <2>5, <2>6 DEF Work
<1>7. QED
  BY <1>1, <1>3, <1>4, <1>5, <1>6 DEF FileStep, File!VFNext, File!VFCommit, Commit

\* Waiting, which wakes the worker, keeps the invariant, and is a step of the file.
LEMMA SleepStep ==
  ASSUME ShapeOK, Threads, NEW r \in Realms, Sleep(r)
  PROVE  ShapeOK' /\ SameWork /\ Threads' /\ FileStep
<1>1. ShapeOK' /\ SameWork /\ SameThreads
  BY DEF Sleep, ShapeOK, SameWork, SameNotifiers, SamePins, SameThreads
<1>2. UNCHANGED <<latest, writer, rv>>
  BY DEF Sleep
<1>3. QED
  BY <1>1, <1>2, ThreadsStay, StillBegun DEF FileStep

\* The end of a wait: a write begins where the file is, a refresh goes to the
\* version of the package.
LEMMA PackageAndAdvanceStep ==
  ASSUME ShapeOK, Threads, Work, NEW r \in Realms, PackageAndAdvance(r)
  PROVE  ShapeOK' /\ SameWork /\ Threads' /\ FileStep
<1> DEFINE ready == {n \in th[r].package : nt[n].hasRun /\ nt[n].alive}
           kept == IF VersionOf(ready) < th[r].target THEN {} ELSE ready
           v == IF kept = {} \/ th[r].job = "begin" THEN latest ELSE VersionOf(kept)
<1>1. th[r].pc = "wait" /\ nt' = Package(ready) /\ UNCHANGED <<latest, writer, co, wk>>
      /\ rv' = [rv EXCEPT ![r] = v]
  BY DEF PackageAndAdvance, StartSending
<1>2. ShapeOK' /\ SameWork
  BY DEF PackageAndAdvance, StartSending, Package, PackageForDelivery, Each,
         ShapeOK, SameWork, SameNotifiers, SamePins
<1>3. OnlyGoesOn(r)
  BY DEF PackageAndAdvance, StartSending, ShapeOK, OnlyGoesOn
<1>4. CASE th[r].job = "begin"
  <2>1. writer = r /\ begun = none /\ \A s \in Realms \ {r} : writer # s
    BY <1>1, <1>4 DEF Threads, WaitsForItsOwn, begun
  <2>2. QED
    BY <1>1, <1>2, <1>3, <1>4, <2>1, BeginIsAFileStep
<1>5. CASE th[r].job # "begin"
  <2>1. /\ writer # r /\ th[r].target \in Nat /\ rv[r] <= th[r].target
        /\ ready \in SUBSET Notifiers
    BY <1>1, <1>5 DEF Threads, WaitsForItsOwn
  <2>2. v \in Nat /\ rv[r] <= v /\ v <= latest
    <3>1. CASE kept = {}
      BY <3>1 DEF Threads, FileVersions
    <3>2. CASE kept # {}
      BY <1>5, <2>1, <3>2, PackagedExists DEF Threads, FileVersions
    <3>3. QED
      BY <3>1, <3>2
  <2>3. QED
    BY <1>1, <1>2, <1>3, <2>1, <2>2, AdvanceIsAFileStep
<1>6. QED
  BY <1>4, <1>5

\* Handing over the rows keeps the invariant, and is a step of the file.
LEMMA DeliverStep ==
  ASSUME ShapeOK, Threads, NEW r \in Realms, Deliver(r)
  PROVE  ShapeOK' /\ SameWork /\ Threads' /\ FileStep
<1>1. SameNotifiers
  <2>1. /\ DOMAIN nt' = Notifiers
        /\ \A n \in Notifiers :
             \/ nt'[n] = nt[n]
             \/ \E w : nt'[n] = [nt[n] EXCEPT !.tvDeliver = 0, !.view = TRUE, !.wants = w]
    BY Zenon DEF Deliver
  <2>2. QED
    BY <2>1 DEF ShapeOK, SameNotifiers
<1>2. ShapeOK' /\ SameWork /\ SameThreads
  BY <1>1 DEF Deliver, ShapeOK, SameWork, SameNotifiers, SamePins, SameThreads
<1>3. UNCHANGED <<latest, writer, rv>>
  BY DEF Deliver
<1>4. QED
  BY <1>2, <1>3, ThreadsStay, StillBegun DEF FileStep

\* Calling the next block keeps the invariant, and is a step of the file.
LEMMA CallNextStep ==
  ASSUME ShapeOK, Threads, NEW r \in Realms, CallNext(r)
  PROVE  ShapeOK' /\ SameWork /\ Threads' /\ FileStep
<1> DEFINE n == Head(th[r].calls)
           rest == Tail(th[r].calls)
           todo == {i \in DOMAIN nt[n].callbacks :
                      nt[n].index < i /\ i <= nt[n].count /\ HasNews(nt[n].callbacks[i])}
<1> HIDE DEF todo
<1>1. SameNotifiers /\ SameThreads
  <2>1. CASE todo = {}
    <3>1. /\ nt' = [nt EXCEPT ![n].index = 0]
          /\ th[r].pc \in {"tell", "callback"}
          /\ th' = [th EXCEPT ![r] = [th[r] EXCEPT !.calls = rest,
                                                   !.pc = IF rest = <<>> THEN "idle" ELSE "tell",
                                                   !.job = IF rest = <<>> THEN "none" ELSE @]]
      BY <2>1, Zenon DEF CallNext, todo
    <3>2. QED
      BY <3>1 DEF ShapeOK, SameNotifiers, SameThreads
  <2>2. CASE todo # {}
    <3>1. /\ nt' = [nt EXCEPT ![n] = [nt[n] EXCEPT !.index = Min(todo),
                                                   !.callbacks[Min(todo)] = Told(@, rv[r])]]
          /\ th[r].pc \in {"tell", "callback"}
          /\ th' = [th EXCEPT ![r].pc = "callback"]
      BY <2>2, Zenon DEF CallNext, todo
    <3>2. QED
      BY <3>1 DEF ShapeOK, SameNotifiers, SameThreads
  <2>3. QED
    BY <2>1, <2>2
<1>2. ShapeOK' /\ SameWork
  BY <1>1 DEF CallNext, ShapeOK, SameWork, SameNotifiers, SamePins, SameThreads
<1>3. UNCHANGED <<latest, writer, rv>>
  BY DEF CallNext
<1>4. QED
  BY <1>1, <1>2, <1>3, ThreadsStay, StillBegun DEF FileStep

\* The run loop: a package that is older than the snapshot is thrown away.
LEMMA NotifyStep ==
  ASSUME ShapeOK, Threads, Work, NEW r \in Realms, Notify(r)
  PROVE  ShapeOK' /\ SameWork /\ Threads' /\ FileStep
<1> DEFINE run == {n \in NotifiersFor(r) : nt[n].hasRun}
           here == {n \in run : nt[n].version = rv[r]}
           nothing == th' = [th EXCEPT ![r].loop = FALSE] /\ rv' = rv
<1>1. run \in SUBSET Notifiers /\ here \in SUBSET Notifiers
  BY ForRealm
<1>2. th[r].pc = "idle" /\ UNCHANGED <<latest, touched, writer, co, wk>>
  BY DEF Notify
<1>3. SameNotifiers
  <2>1. nt' = nt \/ nt' = Package(here) \/ nt' = Package(run)
    BY DEF Notify
  <2>2. nt' = nt => SameNotifiers
    BY DEF ShapeOK, SameNotifiers
  <2>3. QED
    BY <1>1, <2>1, <2>2, PackageIsQuiet
<1>4. ASSUME nothing
      PROVE  ShapeOK' /\ SameWork /\ Threads' /\ FileStep
  <2>1. ShapeOK' /\ SameWork /\ SameThreads
    BY <1>2, <1>3, <1>4 DEF ShapeOK, SameWork, SameNotifiers, SamePins, SameThreads
  <2>2. QED
    BY <1>2, <1>4, <2>1, ThreadsStay, StillBegun DEF FileStep
<1>5. ASSUME writer # r, NEW S, NEW v \in Nat, rv[r] <= v, v <= latest,
             StartSending(r, "notify", S, v)
      PROVE  ShapeOK' /\ SameWork /\ Threads' /\ FileStep
  <2>1. rv' = [rv EXCEPT ![r] = v]
    BY <1>5 DEF StartSending
  <2>2. OnlyGoesOn(r)
    BY <1>5 DEF StartSending, ShapeOK, OnlyGoesOn
  <2>3. ShapeOK' /\ SameWork
    BY <1>2, <1>3, <2>2 DEF ShapeOK, SameWork, SameNotifiers, SamePins, OnlyGoesOn
  <2>4. QED
    BY <1>2, <1>5, <2>1, <2>2, <2>3, AdvanceIsAFileStep
<1>6. CASE nothing
  BY <1>4, <1>6
<1>7. CASE writer # r /\ StartSending(r, "notify", here, rv[r])
  <2>1. rv[r] \in Nat /\ rv[r] <= rv[r] /\ rv[r] <= latest
    BY DEF Threads, FileVersions
  <2>2. QED
    BY <1>5, <1>7, <2>1
<1>8. CASE /\ writer # r /\ rv[r] < latest /\ ~Outdated(r, run)
           /\ StartSending(r, "notify", run, IF run = {} THEN latest ELSE VersionOf(run))
  <2>1. latest \in Nat /\ rv[r] \in Nat /\ rv[r] <= latest
    BY DEF Threads, FileVersions
  <2>2. VersionOf(run) \in Nat /\ VersionOf(run) <= latest
    BY <1>1, PackagedExists
  <2>3. run # {} => rv[r] <= VersionOf(run)
    BY <1>8, <2>1, <2>2 DEF Outdated
  <2>4. CASE run = {}
    BY <1>5, <1>8, <2>1, <2>4
  <2>5. CASE run # {}
    BY <1>5, <1>8, <2>2, <2>3, <2>5
  <2>6. QED
    BY <2>4, <2>5
<1>9. QED
  BY <1>6, <1>7, <1>8 DEF Notify

---------------------------------------------------------------------------------
(* Registering, and the worker.                                              *)

\* The steps that leave the file and the waiting threads alone.
LEMMA OtherThreadsStay ==
  ASSUME ShapeOK, Threads, th' = th \/ SameThreads, UNCHANGED <<latest, writer, rv>>
  PROVE  Threads' /\ FileStep
<1>1. SameThreads
  BY DEF ShapeOK, SameThreads
<1>2. QED
  BY <1>1, ThreadsStay, StillBegun DEF FileStep

\* A new notifier pins its version, or an older one is pinned already.
LEMMA RegisterStep ==
  ASSUME ShapeOK, Threads, Work, NEW n \in Notifiers, Register(n)
  PROVE  ShapeOK' /\ Work' /\ Threads' /\ FileStep
<1> DEFINE r == Owner[n]
<1>1. r \in Realms /\ nt[n].list = "none" /\ UNCHANGED <<latest, touched, writer, rv, th, wk>>
  BY OwnerAssumption DEF Register
<1>2. rv[r] \in Nat /\ 1 <= rv[r] /\ rv[r] <= latest /\ latest \in Nat
  BY <1>1 DEF Threads, FileVersions
<1>3. /\ DOMAIN nt' = Notifiers
      /\ \A m \in Notifiers : {"version", "list", "hasRun", "alive"} \subseteq DOMAIN nt'[m]
      /\ \A m \in Notifiers \ {n} : nt'[m] = nt[m]
      /\ nt'[n].list = "new" /\ nt'[n].version = rv[r] /\ nt'[n].hasRun = nt[n].hasRun
  BY DEF Register, ShapeOK
<1>4. /\ {"advancer", "notifierSG", "skip"} \subseteq DOMAIN co'
      /\ co'.notifierSG = co.notifierSG /\ co'.skip = co.skip
      /\ co'.advancer = IF Listed("new") = {} \/ rv[r] < co.advancer THEN rv[r] ELSE co.advancer
  BY DEF Register, ShapeOK
<1>5. Listed("new")' = Listed("new") \cup {n} /\ Listed("main")' = Listed("main")
      /\ Listed("new") \subseteq Notifiers /\ Listed("main") \subseteq Notifiers \ {n}
      /\ n \notin Listed("new")
  BY <1>1, <1>3 DEF Listed
<1>6. ShapeOK'
  BY <1>1, <1>3, <1>4 DEF ShapeOK
<1>7. VersionsNoted'
  <2>1. VersionsNoted
    BY DEF Work
  <2>2. /\ co'.advancer \in Nat /\ co'.notifierSG \in Nat /\ co'.skip \in Nat
        /\ co'.advancer <= latest /\ co'.notifierSG <= latest /\ co'.skip <= latest
    BY <1>2, <1>4, <2>1 DEF VersionsNoted
  <2>3. \A m \in Notifiers : nt'[m].version \in Nat /\ nt'[m].version <= latest
    BY <1>2, <1>3, <2>1 DEF VersionsNoted
  <2>4. \A m \in Listed("new")' : nt'[m].version # 0
    BY <1>2, <1>3, <1>5, <2>1 DEF VersionsNoted
  <2>5. QED
    BY <1>1, <2>1, <2>2, <2>3, <2>4 DEF VersionsNoted
<1>8. WorkerInv'
  BY <1>1, <1>3, <1>4, <1>5 DEF Work, WorkerInv, WorkerIsFree
<1>9. HandoverPinned'
  BY <1>1, <1>2, <1>3, <1>4, <1>5 DEF Work, HandoverPinned, VersionsNoted
<1>10. OneVersion'
  BY <1>3, <1>5 DEF Work, OneVersion
<1>11. QED
  BY <1>1, <1>6, <1>7, <1>8, <1>9, <1>10, OtherThreadsStay DEF Work

\* Who is buried was in a list and is in none; the others are as they were.
LEMMA BuriedLists ==
  ASSUME ShapeOK
  PROVE  /\ DOMAIN Buried = Notifiers
         /\ \A n \in Notifiers :
              /\ {"version", "list", "hasRun", "alive"} \subseteq DOMAIN Buried[n]
              /\ Buried[n].version = nt[n].version /\ Buried[n].hasRun = nt[n].hasRun
              /\ Buried[n].alive = nt[n].alive
              /\ Buried[n].list = IF nt[n].list \in {"new", "main"} /\ ~nt[n].alive
                                  THEN "gone" ELSE nt[n].list
BY DEF ShapeOK, Buried

\* CleanedUp gives back exactly what belongs to a list that the dead leave empty.
LEMMA CleanedUpPins ==
  ASSUME ShapeOK
  PROVE  /\ {"advancer", "notifierSG", "skip"} \subseteq DOMAIN CleanedUp(co)
         /\ CleanedUp(co).notifierSG =
              IF Listed("main") # {} /\ Living("main") = {} THEN 0 ELSE co.notifierSG
         /\ CleanedUp(co).skip =
              IF Listed("main") # {} /\ Living("main") = {} THEN 0 ELSE co.skip
         /\ CleanedUp(co).advancer =
              IF Listed("new") # {} /\ Living("new") = {} THEN 0 ELSE co.advancer
BY DEF ShapeOK, CleanedUp

\* The worker finds nobody to serve: both lists are empty then.
LEMMA WorkerStartEmpty ==
  ASSUME ShapeOK, Work, Threads, WorkerStart, Living("main") \cup Living("new") = {}
  PROVE  ShapeOK' /\ Work'
<1>1. /\ nt' = Buried /\ UNCHANGED <<latest, touched, writer, rv, th>>
      /\ co' = [WakeAll(CleanedUp(co)) EXCEPT !.signal = FALSE]
      /\ wk' = [wk EXCEPT !.pc = "announce"] /\ wk.pc = "idle"
  BY DEF WorkerStart
<1>2. ShapeOK'
  BY <1>1, BuriedLists, CleanedUpPins DEF ShapeOK, WakeAll
<1>3. Listed("new")' = {} /\ Listed("main")' = {}
  BY <1>1, BuriedLists DEF Listed, Living
<1>4. /\ co'.advancer = 0 /\ co'.notifierSG = 0 /\ co'.skip = 0
  BY <1>1, CleanedUpPins DEF WakeAll, Work, HandoverPinned, WorkerInv
<1>5. wk'.pc = "announce" /\ wk'.targets = <<>>
  BY <1>1 DEF ShapeOK, Work, WorkerInv, WorkerIsFree
<1>6. VersionsNoted'
  BY <1>1, <1>3, <1>4, <1>5, BuriedLists DEF Work, VersionsNoted, Threads, FileVersions
<1>7. WorkerInv'
  BY <1>1, <1>3, <1>4, <1>5, BuriedLists DEF Work, WorkerInv, WorkerIsFree
<1>8. HandoverPinned' /\ OneVersion'
  BY <1>3, <1>4 DEF HandoverPinned, OneVersion
<1>9. QED
  BY <1>2, <1>6, <1>7, <1>8 DEF Work

\* The worker takes the living of both lists, and the skip version.
LEMMA WorkerStartBusy ==
  ASSUME ShapeOK, Work, Threads, WorkerStart, Living("main") \cup Living("new") # {}
  PROVE  ShapeOK' /\ Work'
<1> DEFINE old == Living("main")
           new == Living("new")
           clean == CleanedUp(co)
<1>1. /\ UNCHANGED <<latest, touched, writer, rv, th>> /\ wk.pc = "idle"
      /\ co' = [clean EXCEPT !.signal = FALSE, !.skip = 0, !.advancer = 0,
                             !.notifierSG = IF old = {} THEN latest ELSE @]
      /\ wk' = [wk EXCEPT !.pc = "advance", !.old = old, !.new = new,
                          !.targets = TargetsOf(clean.skip)]
      /\ nt' = [n \in Notifiers |->
                  IF n \in new THEN [nt[n] EXCEPT !.list = "main"] ELSE Buried[n]]
  BY DEF WorkerStart
<1>2. /\ DOMAIN nt' = Notifiers
      /\ \A n \in Notifiers :
           /\ {"version", "list", "hasRun", "alive"} \subseteq DOMAIN nt'[n]
           /\ nt'[n].version = nt[n].version /\ nt'[n].hasRun = nt[n].hasRun
           /\ nt'[n].list = IF n \in new THEN "main" ELSE Buried[n].list
  BY <1>1, BuriedLists DEF ShapeOK
<1>3. /\ {"advancer", "notifierSG", "skip"} \subseteq DOMAIN co'
      /\ co'.advancer = 0 /\ co'.skip = 0
      /\ co'.notifierSG = IF old = {} THEN latest ELSE co.notifierSG
  BY <1>1, CleanedUpPins
<1>4. /\ {"pc", "targets", "old", "new"} \subseteq DOMAIN wk'
      /\ wk'.pc = "advance" /\ wk'.old = old /\ wk'.new = new /\ wk'.targets = TargetsOf(clean.skip)
  BY <1>1 DEF ShapeOK
<1>5. ShapeOK'
  BY <1>1, <1>2, <1>3, <1>4 DEF ShapeOK
<1>6. Listed("new")' = {} /\ Listed("main")' = old \cup new
  BY <1>2, BuriedLists DEF Listed, Living
<1>7. latest \in Nat /\ latest # 0 /\ co.notifierSG \in Nat /\ co.notifierSG <= latest
      /\ co.skip \in Nat /\ co.skip <= latest
  BY DEF Threads, FileVersions, Work, VersionsNoted
<1>8. clean.skip # 0 => old # {} /\ clean.skip = co.skip /\ co.notifierSG <= co.skip
  BY CleanedUpPins DEF Work, WorkerInv
<1>9. old # {} => co.notifierSG # 0
  BY <1>1 DEF Work, HandoverPinned, Living, Listed
<1>10. clean.skip \in Nat /\ clean.skip <= latest
  BY <1>7, CleanedUpPins
<1>11. /\ Len(wk'.targets) \in {1, 2} /\ wk'.targets \in Seq(Nat)
       /\ \A k \in DOMAIN wk'.targets : 1 <= wk'.targets[k] /\ wk'.targets[k] <= latest
       /\ Len(wk'.targets) = 2 => wk'.targets[1] = clean.skip /\ wk'.targets[2] = latest
                                  /\ clean.skip # 0
       /\ Len(wk'.targets) = 1 => wk'.targets[1] = latest
  BY <1>4, <1>7, <1>10 DEF TargetsOf
<1>12. VersionsNoted'
  BY <1>1, <1>2, <1>3, <1>6, <1>7, <1>11 DEF Work, VersionsNoted
<1>13. WorkerInv'
  <2>1. \A n \in Notifiers : nt'[n].hasRun => nt'[n].list \in {"main", "gone"}
    BY <1>2, BuriedLists DEF Work, WorkerInv
  <2>2. \A n \in Listed("main")' : nt'[n].hasRun => n \in old
    BY <1>2, <1>6 DEF Work, WorkerInv, Living, Listed
  <2>3. co'.notifierSG # 0 /\ co'.notifierSG <= wk'.targets[1]
    BY <1>3, <1>7, <1>8, <1>9, <1>11
  <2>4. Len(wk'.targets) = 2 => old # {} /\ wk'.targets[1] <= wk'.targets[2]
    BY <1>8, <1>10, <1>11
  <2>5. QED
    BY <1>3, <1>4, <1>6, <1>11, <2>1, <2>2, <2>3, <2>4 DEF WorkerInv, WorkerIsFree
<1>14. HandoverPinned'
  BY <1>3, <1>4, <1>6 DEF HandoverPinned
<1>15. OneVersion'
  <2>1. \A n \in Listed("main")' : nt'[n].hasRun => n \in Listed("main")
    BY <1>2, <1>6 DEF Work, WorkerInv, Living, Listed
  <2>2. Listed("main") \subseteq Notifiers
    BY DEF Listed
  <2>3. QED
    BY <1>2, <2>1, <2>2 DEF Work, OneVersion
<1>16. QED
  BY <1>5, <1>12, <1>13, <1>14, <1>15 DEF Work

\* The SharedGroup of the notifiers goes to the first target.
LEMMA WorkerAdvanceStep ==
  ASSUME ShapeOK, Work, WorkerAdvance
  PROVE  ShapeOK' /\ Work'
<1>1. /\ wk.pc = "advance" /\ UNCHANGED <<latest, nt, th>>
      /\ {"pc", "targets", "old", "new"} \subseteq DOMAIN wk'
      /\ wk'.pc = "run" /\ wk'.targets = wk.targets /\ wk'.old = wk.old /\ wk'.new = wk.new
      /\ {"advancer", "notifierSG", "skip"} \subseteq DOMAIN co'
      /\ co'.notifierSG = Head(wk.targets)
      /\ co'.advancer = co.advancer /\ co'.skip = co.skip
  BY DEF WorkerAdvance, ShapeOK
<1>2. Listed("new")' = Listed("new") /\ Listed("main")' = Listed("main")
  BY <1>1 DEF Listed
<1>3. /\ Len(wk.targets) \in {1, 2} /\ Head(wk.targets) = wk.targets[1]
      /\ 1 <= wk.targets[1] /\ wk.targets[1] <= latest /\ wk.targets[1] \in Nat
      /\ 1 \in DOMAIN wk.targets
  BY <1>1 DEF Work, WorkerInv, WorkerIsFree, VersionsNoted
<1>4. ShapeOK'
  BY <1>1 DEF ShapeOK
<1>5. VersionsNoted'
  BY <1>1, <1>2, <1>3 DEF Work, VersionsNoted
<1>6. WorkerInv'
  BY <1>1, <1>2, <1>3 DEF Work, WorkerInv, WorkerIsFree
<1>7. HandoverPinned'
  BY <1>1, <1>2 DEF Work, HandoverPinned
<1>8. OneVersion'
  BY <1>1, <1>2 DEF Work, OneVersion
<1>9. QED
  BY <1>4, <1>5, <1>6, <1>7, <1>8 DEF Work

\* The queries run; nothing that Work speaks of changes but the worker's place.
LEMMA WorkerRunStep ==
  ASSUME ShapeOK, Work, WorkerRun
  PROVE  ShapeOK' /\ Work'
<1>1. /\ wk.pc = "run" /\ UNCHANGED <<latest, th, co>>
      /\ {"pc", "targets", "old", "new"} \subseteq DOMAIN wk'
      /\ wk'.pc = "handover" /\ wk'.targets = wk.targets /\ wk'.old = wk.old /\ wk'.new = wk.new
  BY DEF WorkerRun, ShapeOK
<1>2. SameNotifiers
  BY DEF WorkerRun, ShapeOK, SameNotifiers
<1>3. Listed("new")' = Listed("new") /\ Listed("main")' = Listed("main")
      /\ Listed("new") \subseteq Notifiers /\ Listed("main") \subseteq Notifiers
  BY <1>2 DEF SameNotifiers, Listed
<1>4. ShapeOK'
  BY <1>1, <1>2 DEF ShapeOK, SameNotifiers
<1>5. VersionsNoted'
  BY <1>1, <1>2, <1>3 DEF Work, VersionsNoted, SameNotifiers
<1>6. WorkerInv'
  BY <1>1, <1>2, <1>3 DEF Work, WorkerInv, WorkerIsFree, SameNotifiers
<1>7. HandoverPinned'
  BY <1>1, <1>2, <1>3 DEF Work, HandoverPinned, SameNotifiers
<1>8. OneVersion'
  BY <1>2, <1>3 DEF Work, OneVersion, SameNotifiers
<1>9. QED
  BY <1>4, <1>5, <1>6, <1>7, <1>8 DEF Work

\* Handing over: every notifier of the phase is at the version of the
\* SharedGroup, and in the last phase these are all that are in the main list.
LEMMA WorkerHandoverStep ==
  ASSUME ShapeOK, Work, Threads, WorkerHandover
  PROVE  ShapeOK' /\ Work'
<1> DEFINE handed == [n \in Notifiers |-> IF n \in Phase THEN PrepareHandover(nt[n]) ELSE nt[n]]
<1>1. wk.pc = "handover" /\ UNCHANGED <<latest, touched, writer, rv, th>>
  BY DEF WorkerHandover
<1>2. /\ co.notifierSG = wk.targets[1] /\ co.notifierSG # 0
      /\ Len(wk.targets) \in {1, 2} /\ wk.targets \in Seq(Nat)
      /\ Listed("main") = wk.old \cup wk.new /\ Listed("main") # {}
  BY <1>1 DEF Work, WorkerInv, WorkerIsFree, VersionsNoted
<1>3. /\ Phase \subseteq Listed("main") /\ Listed("main") \subseteq Notifiers
      /\ \A n \in Listed("main") : nt[n].hasRun => n \in Phase
  BY <1>1, <1>2 DEF Phase, Work, WorkerInv, WorkerIsFree, Listed
<1>4. \A n \in Notifiers :
        /\ {"version", "list", "hasRun", "alive"} \subseteq DOMAIN handed[n]
        /\ handed[n].list = nt[n].list
        /\ handed[n].version = IF n \in Phase THEN co.notifierSG ELSE nt[n].version
        /\ handed[n].hasRun = IF n \in Phase THEN TRUE ELSE nt[n].hasRun
  BY DEF ShapeOK, PrepareHandover
<1> HIDE DEF handed
<1>5. \A n \in Listed("new") : n \notin Phase
  BY <1>3 DEF Listed
<1>6. CASE LastPhase
  <2>1. /\ nt' = [n \in Notifiers |-> [handed[n] EXCEPT !.list = Buried[n].list]]
        /\ co' = WakeAll(CleanedUp(co))
        /\ wk' = [wk EXCEPT !.pc = "announce", !.targets = <<>>, !.old = {}, !.new = {},
                            !.info = {}, !.from = 0]
    BY <1>6 DEF WorkerHandover, handed
  <2>2. /\ DOMAIN nt' = Notifiers
        /\ \A n \in Notifiers :
             /\ {"version", "list", "hasRun", "alive"} \subseteq DOMAIN nt'[n]
             /\ nt'[n].version = IF n \in Phase THEN co.notifierSG ELSE nt[n].version
             /\ nt'[n].hasRun = IF n \in Phase THEN TRUE ELSE nt[n].hasRun
             /\ nt'[n].list = Buried[n].list
    BY <1>4, <2>1
  <2>3. /\ {"advancer", "notifierSG", "skip"} \subseteq DOMAIN co'
        /\ co'.notifierSG = CleanedUp(co).notifierSG
        /\ co'.skip = CleanedUp(co).skip /\ co'.advancer = CleanedUp(co).advancer
    BY <2>1, CleanedUpPins DEF WakeAll
  <2>4. /\ {"pc", "targets", "old", "new"} \subseteq DOMAIN wk'
        /\ wk'.pc = "announce" /\ wk'.targets = <<>>
    BY <2>1 DEF ShapeOK
  <2>5. ShapeOK'
    BY <1>1, <2>2, <2>3, <2>4 DEF ShapeOK
  <2>6. Listed("new")' = Living("new") /\ Listed("main")' = Living("main")
    <3>1. \A n \in Notifiers :
            nt'[n].list = IF nt[n].list \in {"new", "main"} /\ ~nt[n].alive
                          THEN "gone" ELSE nt[n].list
      BY <2>2, BuriedLists
    <3>2. Listed("new")' = Living("new")
      BY <3>1 DEF Listed, Living
    <3>3. QED
      BY <3>1, <3>2 DEF Listed, Living
  <2>7. VersionsNoted'
    <3>1. /\ co'.advancer \in Nat /\ co'.notifierSG \in Nat /\ co'.skip \in Nat
          /\ co'.advancer <= latest /\ co'.notifierSG <= latest /\ co'.skip <= latest
      BY <2>3, CleanedUpPins DEF Work, VersionsNoted, Threads, FileVersions
    <3>2. \A n \in Notifiers : nt'[n].version \in Nat /\ nt'[n].version <= latest
      BY <2>2 DEF Work, VersionsNoted
    <3>3. \A n \in Listed("new")' : nt'[n].version # 0
      BY <1>5, <2>2, <2>6 DEF Work, VersionsNoted, Living, Listed
    <3>4. wk'.targets \in Seq(Nat) /\ DOMAIN wk'.targets = {}
      BY <2>4
    <3>5. QED
      BY <1>1, <3>1, <3>2, <3>3, <3>4 DEF VersionsNoted
  <2>8. WorkerInv'
    <3>1. \A n \in Notifiers : nt'[n].hasRun => nt'[n].list \in {"main", "gone"}
      <4>1. \A n \in Phase : nt[n].list = "main"
        BY <1>3 DEF Listed
      <4>2. \A n \in Notifiers : nt'[n].hasRun => nt[n].list \in {"main", "gone"}
        BY <2>2, <4>1 DEF Work, WorkerInv
      <4>3. ASSUME NEW n \in Notifiers, nt'[n].hasRun
            PROVE  nt'[n].list \in {"main", "gone"}
        <5>1. nt[n].list \in {"main", "gone"}
          BY <4>2, <4>3
        <5>2. nt'[n].list = nt[n].list \/ nt'[n].list = "gone"
          BY <2>2, BuriedLists
        <5>3. QED
          BY <5>1, <5>2
      <4>4. QED
        BY <4>3
    <3>2. co'.skip # 0 => Listed("main")' # {} /\ co'.notifierSG <= co'.skip
      BY <1>2, <2>3, <2>6, CleanedUpPins DEF Work, WorkerInv
    <3>3. QED
      BY <2>4, <3>1, <3>2 DEF WorkerInv, WorkerIsFree
  <2>9. HandoverPinned'
    <3>1. /\ Living("new") \subseteq Listed("new") /\ Living("new") \subseteq Notifiers
          /\ \A n \in Living("new") : nt'[n].version = nt[n].version
      BY <1>5, <2>2 DEF Living, Listed
    <3>2. /\ co'.advancer = IF Living("new") = {} THEN 0 ELSE co.advancer
          /\ co'.notifierSG = IF Living("main") = {} THEN 0 ELSE co.notifierSG
      BY <1>2, <2>3, <3>1, CleanedUpPins DEF Work, HandoverPinned
    <3>3. (co'.advancer = 0) <=> (Listed("new")' = {})
      BY <2>6, <3>1, <3>2 DEF Work, HandoverPinned
    <3>4. \A n \in Listed("new")' : co'.advancer <= nt'[n].version
      BY <2>6, <3>1, <3>2 DEF Work, HandoverPinned
    <3>5. (co'.notifierSG = 0) <=> (Listed("main")' = {})
      BY <1>2, <2>6, <3>2
    <3>6. QED
      BY <3>3, <3>4, <3>5 DEF HandoverPinned
  <2>10. OneVersion'
    BY <1>3, <2>2, <2>6 DEF OneVersion, Living
  <2>11. QED
    BY <2>5, <2>7, <2>8, <2>9, <2>10 DEF Work
<1>7. CASE ~LastPhase
  <2>1. nt' = handed /\ co' = co /\ wk' = [wk EXCEPT !.pc = "advance", !.targets = Tail(@)]
    BY <1>7 DEF WorkerHandover, handed
  <2>2. DOMAIN nt' = Notifiers
    BY <2>1 DEF handed
  <2>3. /\ {"pc", "targets", "old", "new"} \subseteq DOMAIN wk'
        /\ wk'.pc = "advance" /\ wk'.targets = Tail(wk.targets)
        /\ wk'.old = wk.old /\ wk'.new = wk.new
    BY <2>1 DEF ShapeOK
  <2>4. ShapeOK'
    BY <1>1, <1>4, <2>1, <2>2, <2>3 DEF ShapeOK
  <2>5. Listed("new")' = Listed("new") /\ Listed("main")' = Listed("main")
    BY <1>4, <2>1 DEF Listed
  <2>6. Len(wk.targets) = 2 /\ Phase = wk.old
    BY <1>2, <1>7 DEF LastPhase, Phase
  <2>7. /\ wk'.targets \in Seq(Nat) /\ Len(wk'.targets) = 1 /\ wk'.targets[1] = wk.targets[2]
        /\ DOMAIN wk'.targets = {1} /\ 2 \in DOMAIN wk.targets
        /\ wk.targets[1] <= wk.targets[2]
    <3>1. \A q \in Seq(Nat) : Len(q) = 2 =>
             /\ Tail(q) \in Seq(Nat) /\ Len(Tail(q)) = 1 /\ Tail(q)[1] = q[2]
             /\ DOMAIN Tail(q) = {1} /\ 2 \in DOMAIN q
      <4> SUFFICES ASSUME NEW q \in Seq(Nat), Len(q) = 2
                   PROVE  /\ Tail(q) \in Seq(Nat) /\ Len(Tail(q)) = 1 /\ Tail(q)[1] = q[2]
                          /\ DOMAIN Tail(q) = {1} /\ 2 \in DOMAIN q
        OBVIOUS
      <4>1. q # <<>> /\ DOMAIN q = 1 .. 2
        BY LenProperties, EmptySeq
      <4>2. PICK t : t = Tail(q)
        OBVIOUS
      <4>3. t \in Seq(Nat) /\ Len(t) = 1 /\ t[1] = q[2]
        BY <4>1, <4>2, HeadTailProperties
      <4>4. DOMAIN t = 1 .. 1
        BY <4>3, LenProperties
      <4>5. QED
        BY <4>1, <4>2, <4>3, <4>4
    <3>2. wk.targets[1] <= wk.targets[2]
      BY <1>1, <2>6 DEF Work, WorkerInv, WorkerIsFree
    <3>3. QED
      BY <1>2, <2>3, <2>6, <3>1, <3>2
  <2>8. VersionsNoted'
    <3>1. \A n \in Notifiers : nt'[n].version \in Nat /\ nt'[n].version <= latest
      <4>1. \A n \in Notifiers : nt'[n].version = co.notifierSG \/ nt'[n].version = nt[n].version
        BY <1>4, <2>1
      <4>2. co.notifierSG \in Nat /\ co.notifierSG <= latest
        BY DEF Work, VersionsNoted
      <4>3. \A n \in Notifiers : nt[n].version \in Nat /\ nt[n].version <= latest
        BY DEF Work, VersionsNoted
      <4>4. QED
        BY <4>1, <4>2, <4>3
    <3>2. \A n \in Listed("new") : nt'[n].version # 0
      BY <1>4, <1>5, <2>1 DEF Work, VersionsNoted, Listed
    <3>3. 1 <= wk.targets[2] /\ wk.targets[2] <= latest
      BY <2>7 DEF Work, VersionsNoted
    <3>4. \A k \in DOMAIN wk'.targets : 1 <= wk'.targets[k] /\ wk'.targets[k] <= latest
      BY <2>7, <3>3
    <3>5. QED
      BY <1>1, <2>1, <2>5, <2>7, <3>1, <3>2, <3>4 DEF Work, VersionsNoted
  <2>9. WorkerInv'
    <3>1. \A n \in Notifiers : nt'[n].hasRun => nt'[n].list \in {"main", "gone"}
      BY <1>3, <1>4, <2>1 DEF Work, WorkerInv, Listed
    <3>2. \A n \in Listed("main") : nt'[n].hasRun => n \in wk.old
      BY <1>1, <1>3, <1>4, <2>1, <2>6
    <3>3. co.skip # 0 => /\ Listed("main") # {} /\ co.notifierSG <= co.skip
                         /\ \A k \in DOMAIN wk'.targets : wk'.targets[k] <= co.skip
      BY <2>7 DEF Work, WorkerInv
    <3>4. QED
      BY <1>2, <2>1, <2>3, <2>5, <2>7, <3>1, <3>2, <3>3 DEF WorkerInv, WorkerIsFree
  <2>10. HandoverPinned'
    BY <1>4, <1>5, <2>1, <2>3, <2>5 DEF Work, HandoverPinned, Listed
  <2>11. OneVersion'
    BY <1>3, <1>4, <2>1, <2>5 DEF OneVersion
  <2>12. QED
    BY <2>4, <2>8, <2>9, <2>10, <2>11 DEF Work
<1>8. QED
  BY <1>6, <1>7

\* Announcing the changes keeps the invariant.
LEMMA WorkerAnnounceStep ==
  ASSUME ShapeOK, Work, WorkerAnnounce
  PROVE  ShapeOK' /\ Work' /\ SameThreads
<1>1. /\ wk.pc = "announce" /\ UNCHANGED <<latest, nt, co>>
      /\ {"pc", "targets", "old", "new"} \subseteq DOMAIN wk'
      /\ wk'.pc = "idle" /\ wk'.targets = wk.targets
  BY DEF WorkerAnnounce, ShapeOK
<1>2. SameThreads
  BY DEF WorkerAnnounce, ShapeOK, SameThreads
<1>3. ShapeOK'
  BY <1>1, <1>2 DEF ShapeOK, SameThreads
<1>4. Listed("new")' = Listed("new") /\ Listed("main")' = Listed("main")
  BY <1>1 DEF Listed
<1>5. VersionsNoted'
  BY <1>1, <1>4 DEF Work, VersionsNoted
<1>6. WorkerInv' /\ HandoverPinned' /\ OneVersion'
  BY <1>1, <1>4 DEF Work, WorkerInv, WorkerIsFree, HandoverPinned, OneVersion
<1>7. QED
  BY <1>2, <1>3, <1>5, <1>6 DEF Work

\* Every step of the worker keeps the invariant, and is a step of the file.
LEMMA WorkerStep ==
  ASSUME ShapeOK, Threads, Work, Worker
  PROVE  ShapeOK' /\ Work' /\ Threads' /\ FileStep
<1>1. CASE WorkerStart
  <2>1. th' = th /\ UNCHANGED <<latest, writer, rv>>
    BY <1>1 DEF WorkerStart
  <2>2. QED
    BY <1>1, <2>1, WorkerStartEmpty, WorkerStartBusy, OtherThreadsStay
<1>2. CASE WorkerAdvance
  <2>1. th' = th /\ UNCHANGED <<latest, writer, rv>>
    BY <1>2 DEF WorkerAdvance
  <2>2. QED
    BY <1>2, <2>1, WorkerAdvanceStep, OtherThreadsStay
<1>3. CASE WorkerRun
  <2>1. th' = th /\ UNCHANGED <<latest, writer, rv>>
    BY <1>3 DEF WorkerRun
  <2>2. QED
    BY <1>3, <2>1, WorkerRunStep, OtherThreadsStay
<1>4. CASE WorkerHandover
  <2>1. th' = th /\ UNCHANGED <<latest, writer, rv>>
    BY <1>4 DEF WorkerHandover
  <2>2. QED
    BY <1>4, <2>1, WorkerHandoverStep, OtherThreadsStay
<1>5. CASE WorkerAnnounce
  <2>1. UNCHANGED <<latest, writer, rv>>
    BY <1>5 DEF WorkerAnnounce
  <2>2. QED
    BY <1>5, <2>1, WorkerAnnounceStep, OtherThreadsStay
<1>6. QED
  BY <1>1, <1>2, <1>3, <1>4, <1>5 DEF Worker

---------------------------------------------------------------------------------
(* All together.                                                             *)

\* The invariant is what is true of the threads, of the worker's work and of the
\* shapes.
LEMMA IInvIsItsHalves == IInv <=> ShapeOK /\ Threads /\ Work
BY DEF IInv, Threads, Work

\* The invariant holds at first, and the file starts as the abstract one does.
LEMMA InitIsRight == Init => IInv /\ File!VFInit
<1> SUFFICES ASSUME Init PROVE IInv /\ File!VFInit
  OBVIOUS
<1>1. Listed("new") = {} /\ Listed("main") = {}
  BY DEF Init, NewNotifier, Listed
<1>2. ShapeOK /\ FileVersions /\ WaitsForItsOwn
  BY DEF Init, NewNotifier, ShapeOK, FileVersions, WaitsForItsOwn
<1>3. VersionsNoted
  BY <1>1 DEF Init, NewNotifier, VersionsNoted
<1>4. WriterIsLatest
  BY RealmsAssumption DEF Init, WriterIsLatest
<1>5. WorkerInv /\ HandoverPinned /\ OneVersion
  BY <1>1 DEF Init, NewNotifier, WorkerInv, WorkerIsFree, HandoverPinned, OneVersion
<1>6. begun = none
  BY RealmsAssumption DEF Init, begun
<1>7. QED
  BY <1>2, <1>3, <1>4, <1>5, <1>6 DEF IInv, Init, File!VFInit

\* A step of a thread that leaves Work alone keeps it.
LEMMA ThreadStepKeepsWork ==
  ASSUME ShapeOK, Threads, Work, SameWork, Threads', FileStep
  PROVE  Work'
<1>1. latest \in Nat /\ latest' \in Nat
  BY DEF Threads, FileVersions
<1>2. latest <= latest'
  BY <1>1 DEF FileStep, File!VFNext, File!VFBegin, File!VFCommit, File!VFCancel, File!VFAdvance
<1>3. QED
  BY <1>1, <1>2, WorkStays

\* Every step keeps the invariant, and is a step of the abstract file or none.
LEMMA EveryStep == IInv /\ [Next]_vars => IInv' /\ FileStep
<1> SUFFICES ASSUME ShapeOK, Threads, Work, [Next]_vars
             PROVE  ShapeOK' /\ Threads' /\ Work' /\ FileStep
  BY IInvIsItsHalves, PTL
<1>1. CASE UNCHANGED vars
  <2>1. ShapeOK' /\ SameWork /\ SameThreads /\ UNCHANGED <<latest, writer, rv>>
    BY <1>1 DEF vars, ShapeOK, SameWork, SameNotifiers, SamePins, SameThreads
  <2>2. QED
    BY <2>1, OtherThreadsStay, ThreadStepKeepsWork
<1>2. ASSUME NEW n \in Notifiers, Observe(n)
      PROVE  ShapeOK' /\ Threads' /\ Work' /\ FileStep
  <2>1. CASE Register(n)
    BY <2>1, RegisterStep
  <2>2. CASE ~Register(n)
    <3>1. ShapeOK' /\ SameWork /\ SameThreads /\ UNCHANGED <<latest, writer, rv>>
      BY <1>2, <2>2, QuietActions DEF Observe
    <3>2. QED
      BY <3>1, OtherThreadsStay, ThreadStepKeepsWork
  <2>3. QED
    BY <2>1, <2>2
<1>3. ASSUME NEW r \in Realms, Transact(r)
      PROVE  ShapeOK' /\ Threads' /\ Work' /\ FileStep
  <2>1. CASE Commit(r)
    BY <2>1, CommitStep
  <2>2. CASE ~Commit(r)
    <3>1. ShapeOK' /\ SameWork /\ Threads' /\ FileStep
      BY <1>3, <2>2, BeginAloneStep, BeginNotifyingStep, BeginNestedStep, CancelStep, RefreshStep
      DEF Transact
    <3>2. QED
      BY <3>1, ThreadStepKeepsWork
  <2>3. QED
    BY <2>1, <2>2
<1>4. ASSUME NEW r \in Realms, Send(r)
      PROVE  ShapeOK' /\ Threads' /\ Work' /\ FileStep
  <2>1. ShapeOK' /\ SameWork /\ Threads' /\ FileStep
    BY <1>4, SleepStep, PackageAndAdvanceStep, DeliverStep, CallNextStep, NotifyStep DEF Send
  <2>2. QED
    BY <2>1, ThreadStepKeepsWork
<1>5. QED
  BY <1>1, <1>2, <1>3, <1>4, WorkerStep DEF Next

---------------------------------------------------------------------------------
(* What follows for every Realm, notifier and version.                       *)

\* IInv holds in every state: the versions that the coordinator, the worker, the
\* waiting threads and the notifiers keep always fit together.
THEOREM VersionsFit == Spec => []IInv
<1>1. Init => IInv
  BY InitIsRight
<1>2. IInv /\ [Next]_vars => IInv'
  BY EveryStep
<1>3. QED
  BY <1>1, <1>2, PTL DEF Spec

\* The read transactions of the coordinator are kept exactly as long as somebody
\* needs them: the assertions of pin_version and run_async_notifiers.
THEOREM ReadTransactionsKept == Spec => []HandoverPinned
<1>1. IInv => HandoverPinned
  BY DEF IInv
<1>2. QED
  BY <1>1, VersionsFit, PTL

\* A skip version is never behind the worker, nor ahead of where it goes: the
\* notifiers only move forward in run_async_notifiers.
THEOREM SkipsGoForward == Spec => []SkipIsOnTheWay
<1>1. IInv => SkipIsOnTheWay
  <2> SUFFICES ASSUME IInv PROVE SkipIsOnTheWay
    OBVIOUS
  <2>1. wk.targets \in Seq(Nat) /\ WorkerInv
    BY DEF IInv, VersionsNoted
  <2>2. Len(wk.targets) = 2 => wk.old # {} /\ wk.targets[1] <= wk.targets[2]
    BY <2>1 DEF WorkerInv, WorkerIsFree
  <2>3. wk.pc = "advance" => co.notifierSG <= Head(wk.targets)
    BY <2>1 DEF WorkerInv, WorkerIsFree
  <2>4. QED
    BY <2>2, <2>3 DEF SkipIsOnTheWay
<1>2. QED
  BY <1>1, VersionsFit, PTL

\* A package has one version: the notifiers that have run never differ when the
\* mutex is free, the assertion at the end of package_and_wait.
THEOREM PackagesHaveOneVersion == Spec => []OneVersion
<1>1. IInv => OneVersion
  BY DEF IInv
<1>2. QED
  BY <1>1, VersionsFit, PTL

\* Packaging, delivering and skipping never make a Realm read or write another
\* version than a plain versioned file would let it: begin_transaction starts at
\* the latest version and a snapshot never goes back.
THEOREM TransactionsAreOfAFile == Spec => ImplementsVersionedFile
<1>1. Init => File!VFInit
  BY InitIsRight
<1>2. IInv /\ [Next]_vars => [File!VFNext]_(File!vfvars)
  <2> SUFFICES ASSUME FileStep PROVE [File!VFNext]_(File!vfvars)
    BY EveryStep
  <2>1. QED
    BY DEF FileStep, File!vfvars
<1>3. QED
  BY <1>1, <1>2, VersionsFit, PTL DEF Spec, ImplementsVersionedFile, File!VFSpec

\* A write transaction works on the newest version, so no commit overwrites one
\* its writer has not seen: promote_to_write advances under the write lock.
THEOREM NoUpdateLost == Spec => []File!NoLostUpdate
<1>1. IInv => File!NoLostUpdate
  BY RealmsAssumption DEF IInv, FileVersions, WriterIsLatest, File!NoLostUpdate, begun
<1>2. QED
  BY <1>1, VersionsFit, PTL

\* No Realm ever goes back to an older version, and none moves while it writes.
THEOREM SnapshotsOnlyGoForward == Spec => File!OnlyForward
<1> DEFINE Forward ==
      /\ latest' \in {latest, latest + 1}
      /\ \A r \in Realms : rv'[r] >= rv[r]
      /\ begun \in Realms /\ begun' = begun => rv'[begun] = rv[begun]
<1>1. FileVersions /\ FileStep => [Forward]_(File!vfvars)
  <2> SUFFICES ASSUME FileVersions, FileStep PROVE [Forward]_(File!vfvars)
    OBVIOUS
  <2>1. CASE UNCHANGED <<latest, begun, rv>>
    BY <2>1 DEF File!vfvars
  <2>2. CASE \E r \in Realms : File!VFBegin(r)
    BY <2>2, RealmsAssumption DEF FileVersions, File!VFBegin
  <2>3. CASE \E r \in Realms : File!VFCommit(r)
    BY <2>3, RealmsAssumption DEF FileVersions, File!VFCommit
  <2>4. CASE \E r \in Realms : File!VFCancel(r)
    BY <2>4, RealmsAssumption DEF FileVersions, File!VFCancel
  <2>5. CASE \E r \in Realms : File!VFAdvance(r)
    BY <2>5 DEF FileVersions, File!VFAdvance
  <2>6. QED
    BY <2>1, <2>2, <2>3, <2>4, <2>5 DEF FileStep, File!VFNext
<1>2. IInv /\ [Next]_vars => [Forward]_(File!vfvars)
  BY <1>1, EveryStep DEF IInv
<1>3. QED
  BY <1>2, VersionsFit, PTL DEF Spec, File!OnlyForward

---------------------------------------------------------------------------------
(* Sequences and sets.                                                       *)

\* A package becomes a sequence of just its members.
LEMMA CallsOfPackage ==
  ASSUME NEW S, IsFiniteSet(S)
  PROVE  /\ SetToSeq(S) \in Seq(S)
         /\ \A n \in S : \E k \in DOMAIN SetToSeq(S) : SetToSeq(S)[k] = n
<1> DEFINE N == Cardinality(S)
           Right(f) == f \in [1 .. N -> S] /\ IsInjective(f)
           q == SetToSeq(S)
<1>1. N \in Nat
  BY FS_CardinalityType
<1>2. \E f : Right(f)
  <2>1. PICK f \in Bijection(1 .. N, S) : TRUE
    BY FS_CardinalityType DEF ExistsBijection
  <2>2. f \in [1 .. N -> S] /\ \A i, j \in 1 .. N : f[i] = f[j] => i = j
    BY <2>1 DEF Bijection, Injection, IsInjective
  <2>3. QED
    BY <2>2 DEF IsInjective
<1>3. Right(q)
  BY <1>2 DEF SetToSeq
<1>4. q \in Seq(S)
  BY <1>1, <1>3
<1>5. ASSUME NEW n \in S
      PROVE  \E k \in 1 .. N : q[k] = n
  <2> SUFFICES ASSUME \A k \in 1 .. N : q[k] # n PROVE FALSE
    OBVIOUS
  <2> DEFINE T == S \ {n}
  <2>1. IsFiniteSet(T) /\ Cardinality(T) = N - 1
    BY <1>5, FS_RemoveElement
  <2>2. IsFiniteSet(1 .. N) /\ Cardinality(1 .. N) = N
    BY <1>1, <1>5, FS_Interval, FS_EmptySet
  <2>3. q \in [1 .. N -> T]
    BY <1>3
  <2> HIDE DEF T, q, N
  <2>4. Cardinality(T) < Cardinality(1 .. N)
    BY <1>1, <2>1, <2>2
  <2>5. \E i, j \in 1 .. N : i # j /\ q[i] = q[j]
    BY <2>1, <2>2, <2>3, <2>4, FS_PigeonHole
  <2>6. QED
    BY <1>3, <2>5 DEF IsInjective
<1>6. DOMAIN q = 1 .. N
  BY <1>3
<1>7. QED
  BY <1>4, <1>5, <1>6

\* The next callback to call is the first of them.
LEMMA FirstOfThem ==
  ASSUME NEW S \in SUBSET Nat, S # {}
  PROVE  Min(S) \in S /\ \A i \in S : Min(S) <= i
<1> DEFINE R == OpToRel(<, Nat)
<1>1. IsWellFoundedOn(R, Nat)
  BY NatLessThanWellFounded
<1>2. \A x, y \in Nat : <<x, y>> \in R <=> x < y
  BY DEF OpToRel
<1> HIDE DEF R
<1>3. PICK i \in S : \A j \in S : ~(<<j, i>> \in R)
  BY <1>1, WFMin
<1>4. \A j \in S : j \in Nat /\ i \in Nat /\ ~(j < i)
  BY <1>2, <1>3
<1>5. \E x \in S : \A y \in S : x <= y
  BY <1>4
<1>6. QED
  BY <1>5 DEF Min

\* A callback goes, those after it move up.
LEMMA Removed ==
  ASSUME NEW S, NEW q \in Seq(S), NEW i \in DOMAIN q
  PROVE  /\ RemoveAt(q, i) \in Seq(S) /\ Len(RemoveAt(q, i)) = Len(q) - 1
         /\ \A k \in DOMAIN RemoveAt(q, i) : RemoveAt(q, i)[k] = IF k < i THEN q[k] ELSE q[k + 1]
<1> DEFINE before == SubSeq(q, 1, i - 1)
           after == SubSeq(q, i + 1, Len(q))
<1>1. Len(q) \in Nat /\ i \in 1 .. Len(q) /\ \A k \in 1 .. Len(q) : q[k] \in S
  BY LenProperties
<1>2. /\ before \in Seq(S) /\ Len(before) = i - 1
      /\ \A k \in 1 .. i - 1 : before[k] = q[k]
  <2>1. \A k \in 1 .. i - 1 : q[k] \in S
    BY <1>1
  <2>2. 1 \in Int /\ i - 1 \in Int
    BY <1>1
  <2>3. /\ before \in Seq(S) /\ Len(before) = IF 1 <= i - 1 THEN (i - 1) - 1 + 1 ELSE 0
        /\ \A k \in 1 .. (i - 1) - 1 + 1 : before[k] = q[1 + k - 1]
    BY <2>1, <2>2, SubSeqProperties
  <2>4. QED
    BY <1>1, <2>3
<1>3. /\ after \in Seq(S) /\ Len(after) = Len(q) - i
      /\ \A k \in 1 .. Len(q) - i : after[k] = q[k + i]
  <2>1. \A k \in i + 1 .. Len(q) : q[k] \in S
    BY <1>1
  <2>2. i + 1 \in Int /\ Len(q) \in Int
    BY <1>1
  <2>3. /\ after \in Seq(S) /\ Len(after) = IF i + 1 <= Len(q) THEN Len(q) - (i + 1) + 1 ELSE 0
        /\ \A k \in 1 .. Len(q) - (i + 1) + 1 : after[k] = q[(i + 1) + k - 1]
    BY <2>1, <2>2, SubSeqProperties
  <2>4. QED
    BY <1>1, <2>3
<1> DEFINE both == before \o after
<1> HIDE DEF before, after
<1>4. /\ both \in Seq(S) /\ Len(both) = Len(before) + Len(after)
      /\ \A k \in 1 .. Len(before) + Len(after) :
           both[k] = IF k <= Len(before) THEN before[k] ELSE after[k - Len(before)]
  BY <1>2, <1>3, ConcatProperties
<1>5. RemoveAt(q, i) = both
  BY DEF RemoveAt, before, after
<1> HIDE DEF both
<1>6. DOMAIN both = 1 .. Len(q) - 1 /\ Len(both) = Len(q) - 1
  BY <1>1, <1>2, <1>3, <1>4
<1>7. ASSUME NEW k \in 1 .. Len(q) - 1
      PROVE  both[k] = IF k < i THEN q[k] ELSE q[k + 1]
  <2>1. CASE k < i
    <3>1. k \in 1 .. i - 1 /\ k \in 1 .. Len(before) + Len(after) /\ k <= Len(before)
      BY <1>1, <1>2, <1>3, <2>1
    <3>2. QED
      BY <1>2, <1>4, <2>1, <3>1
  <2>2. CASE ~(k < i)
    <3>1. k - (i - 1) \in 1 .. Len(q) - i /\ k - (i - 1) + i = k + 1
      BY <1>1, <2>2
    <3>2. both[k] = after[k - (i - 1)]
      <4>1. k \in 1 .. Len(before) + Len(after) /\ ~(k <= Len(before)) /\ Len(before) = i - 1
        BY <1>1, <1>2, <1>3, <2>2
      <4>2. QED
        BY <1>4, <4>1
    <3>3. QED
      BY <1>3, <2>2, <3>1, <3>2
  <2>3. QED
    BY <2>1, <2>2
<1>8. QED
  BY <1>4, <1>5, <1>6, <1>7

---------------------------------------------------------------------------------
(* Types, and what counts and positions are for.                             *)

\* A thread calls its own notifiers, which have run; while it waits for them it
\* has the ones that were there when it began.
CallsOf(r) ==
  /\ th[r].pc \in {"idle", "wait"} => th[r].calls = <<>>
  /\ th[r].pc \in {"tell", "callback"} => th[r].calls # <<>>
  /\ \A k \in DOMAIN th[r].calls : Owner[th[r].calls[k]] = r /\ nt[th[r].calls[k]].hasRun
  /\ \A n \in th[r].package : Owner[n] = r
  /\ th[r].pc = "wait" =>
       /\ \A n \in Notifiers : Owner[n] = r /\ nt[n].alive => n \in th[r].package
       /\ th[r].job = "begin" => th[r].target = latest
  /\ th[r].job = "begin" /\ th[r].pc # "idle" => writer = r
CallsOwn == \A r \in Realms : CallsOf(r)

\* Only the notifier whose turn it is has a position, and who has callbacks says
\* so, as many as were added at most.
Position(n) ==
  /\ nt[n].index <= Len(nt[n].callbacks)
  /\ nt[n].index # 0 => th[Owner[n]].pc = "callback" /\ Head(th[Owner[n]].calls) = n
Counts(n) ==
  /\ Len(nt[n].callbacks) <= nt[n].added
  /\ nt[n].have <=> nt[n].callbacks # <<>>
  /\ nt[n].callbacks # <<>> => nt[n].alive
  /\ nt[n].alive => nt[n].list \in {"new", "main"}
Counted ==
  /\ writer # none => latest < MaxVersion
  /\ \A n \in Notifiers : Position(n) /\ Counts(n)

Typed == RTypeOK /\ CallsOwn /\ Counted

\* The types of the variables.
LEMMA TypedParts ==
  ASSUME Typed
  PROVE  /\ latest \in Versions /\ touched \subseteq Versions /\ writer \in Realms \cup {none}
         /\ rv \in [Realms -> Versions]
         /\ th \in [Realms -> ThreadType] /\ nt \in [Notifiers -> NotifierType]
         /\ co \in CoordinatorType /\ wk \in WorkerType
BY DEF Typed, RTypeOK

\* A step that changes one notifier only.
OnlyNotifier(n, s) ==
  nt' = [nt EXCEPT ![n] = s] /\ s \in NotifierType

\* A step that replaces one notifier's record by another such record.
LEMMA OneNotifier ==
  ASSUME Typed, NEW n \in Notifiers, NEW s, OnlyNotifier(n, s)
  PROVE  /\ nt' \in [Notifiers -> NotifierType] /\ nt'[n] = s
         /\ \A m \in Notifiers \ {n} : nt'[m] = nt[m]
BY TypedParts DEF OnlyNotifier

\* It keeps CallsOwn if it does not take back a run, and makes none alive for
\* which its thread does not wait.
LEMMA CallsOwnStays ==
  ASSUME Typed, UNCHANGED <<th, latest, writer>>,
         \A m \in Notifiers : nt[m].hasRun => nt'[m].hasRun,
         \A m \in Notifiers : nt'[m].alive => nt[m].alive \/ th[Owner[m]].pc # "wait"
  PROVE  CallsOwn'
<1>1. \A r \in Realms : \A k \in DOMAIN th[r].calls : th[r].calls[k] \in Notifiers
  BY TypedParts DEF ThreadType
<1>2. QED
  BY <1>1 DEF Typed, CallsOwn, CallsOf

\* Registering keeps the types.
LEMMA RegisterTyped ==
  ASSUME Typed, IInv, IInv', NEW n \in Notifiers, Register(n)
  PROVE  Typed'
<1> DEFINE s == [nt[n] EXCEPT !.list = "new", !.alive = TRUE, !.wants = TRUE, !.version = rv[Owner[n]]]
<1>1. UNCHANGED <<latest, touched, writer, rv, th, wk>> /\ Owner[n] \in Realms
  BY OwnerAssumption DEF Register
<1>2. nt[n] \in NotifierType /\ rv[Owner[n]] \in 0 .. MaxVersion
  BY <1>1, TypedParts DEF Versions
<1>3. s \in NotifierType
  BY <1>2 DEF NotifierType
<1>4. /\ s.list = "new" /\ s.alive = TRUE /\ s.callbacks = nt[n].callbacks /\ s.added = nt[n].added
      /\ s.index = nt[n].index /\ s.have = nt[n].have /\ s.hasRun = nt[n].hasRun
  BY <1>2 DEF NotifierType
<1>5. nt' = [nt EXCEPT ![n] = s]
  BY DEF Register
<1> HIDE DEF s
<1>6. /\ nt' \in [Notifiers -> NotifierType] /\ nt'[n] = s
      /\ \A m \in Notifiers \ {n} : nt'[m] = nt[m]
  BY <1>3, <1>5, OneNotifier DEF OnlyNotifier
<1>7. co' \in CoordinatorType
  BY <1>2, TypedParts DEF Register, CoordinatorType
<1>8. CallsOwn'
  BY <1>1, <1>4, <1>6, CallsOwnStays DEF Register, UserCode, InBlock
<1>9. Counted'
  BY <1>1, <1>4, <1>6 DEF Typed, Counted, Position, Counts
<1>10. QED
  BY <1>1, <1>6, <1>7, <1>8, <1>9, TypedParts DEF Typed, RTypeOK

\* What the code of the user does when it observes a Results.
LEMMA AddCallbackTyped ==
  ASSUME Typed, IInv, IInv', NEW n \in Notifiers, AddCallback(n)
  PROVE  Typed'
<1> DEFINE q == Append(nt[n].callbacks, NewCallback)
           s == [nt[n] EXCEPT !.callbacks = q, !.added = @ + 1, !.have = @ \/ ~(nt[n].index # 0)]
<1>1. UNCHANGED <<latest, touched, writer, rv, th, wk>> /\ Owner[n] \in Realms
  BY OwnerAssumption DEF AddCallback
<1>2. nt[n] \in NotifierType /\ nt[n].added < MaxCallbacks /\ nt[n].alive
  BY TypedParts DEF AddCallback
<1>3. NewCallback \in CallbackType
  BY BoundsAssumption DEF NewCallback, CallbackType
<1>4. q \in Seq(CallbackType) /\ Len(q) = Len(nt[n].callbacks) + 1 /\ q # <<>>
  <2>1. nt[n].callbacks \in Seq(CallbackType)
    BY <1>2 DEF NotifierType
  <2>2. QED
    BY <1>3, <2>1
<1> HIDE DEF q
<1>5. nt[n].added + 1 \in 0 .. MaxCallbacks /\ (nt[n].have \/ ~(nt[n].index # 0)) \in BOOLEAN
  BY <1>2, BoundsAssumption DEF NotifierType
<1>6. s \in NotifierType
  BY <1>2, <1>4, <1>5 DEF NotifierType
<1>7. /\ s.list = nt[n].list /\ s.alive = nt[n].alive /\ s.callbacks = q /\ s.added = nt[n].added + 1
      /\ s.index = nt[n].index /\ (s.have <=> nt[n].have \/ nt[n].index = 0) /\ s.hasRun = nt[n].hasRun
  BY <1>2 DEF NotifierType
<1>8. nt' = [nt EXCEPT ![n] = s]
  BY DEF AddCallback, q
<1> HIDE DEF s
<1>9. /\ nt' \in [Notifiers -> NotifierType] /\ nt'[n] = s
      /\ \A m \in Notifiers \ {n} : nt'[m] = nt[m]
  BY <1>6, <1>8, OneNotifier DEF OnlyNotifier
<1>10. co' \in CoordinatorType
  BY TypedParts DEF AddCallback, CoordinatorType
<1>11. CallsOwn'
  BY <1>1, <1>7, <1>9, CallsOwnStays
<1>12. Counted'
  <2>1. Len(nt[n].callbacks) \in Nat /\ nt[n].added \in Nat /\ nt[n].index \in Nat
    BY <1>2 DEF NotifierType
  <2>2. nt[n].index # 0 => nt[n].callbacks # <<>>
    BY <2>1 DEF Typed, Counted, Position
  <2>3. Position(n)' /\ Counts(n)'
    <3>1. Position(n) /\ Counts(n)
      BY DEF Typed, Counted
    <3>2. s.have /\ nt[n].alive
      BY <1>2, <1>7, <2>2, <3>1 DEF Counts
    <3>3. Position(n)'
      BY <1>1, <1>4, <1>7, <1>9, <2>1, <3>1 DEF Position
    <3>4. Counts(n)'
      <4>1. Len(s.callbacks) <= s.added /\ s.callbacks # <<>>
        BY <1>4, <1>7, <2>1, <3>1 DEF Counts
      <4>2. s.alive /\ s.list \in {"new", "main"}
        BY <1>7, <3>1, <3>2 DEF Counts
      <4>3. QED
        BY <1>9, <3>2, <4>1, <4>2 DEF Counts
    <3>5. QED
      BY <3>3, <3>4
  <2>4. \A m \in Notifiers \ {n} : Position(m)' /\ Counts(m)'
    BY <1>1, <1>9 DEF Typed, Counted, Position, Counts
  <2>5. QED
    BY <1>1, <2>3, <2>4 DEF Typed, Counted
<1>13. QED
  BY <1>1, <1>9, <1>10, <1>11, <1>12, TypedParts DEF Typed, RTypeOK

\* Releasing a notifier keeps the types.
LEMMA ReleaseTyped ==
  ASSUME Typed, NEW n \in Notifiers, Release(n)
  PROVE  Typed'
<1> DEFINE s == [nt[n] EXCEPT !.alive = FALSE]
<1>1. UNCHANGED <<latest, touched, writer, rv, th, co, wk>>
  BY DEF Release
<1>2. nt[n] \in NotifierType /\ nt[n].callbacks = <<>>
  BY TypedParts DEF Release
<1>3. s \in NotifierType
  BY <1>2 DEF NotifierType
<1>4. /\ s.alive = FALSE /\ s.callbacks = nt[n].callbacks /\ s.added = nt[n].added
      /\ s.index = nt[n].index /\ s.have = nt[n].have /\ s.hasRun = nt[n].hasRun
  BY <1>2 DEF NotifierType
<1>5. nt' = [nt EXCEPT ![n] = s]
  BY DEF Release
<1> HIDE DEF s
<1>6. /\ nt' \in [Notifiers -> NotifierType] /\ nt'[n] = s
      /\ \A m \in Notifiers \ {n} : nt'[m] = nt[m]
  BY <1>3, <1>5, OneNotifier DEF OnlyNotifier
<1>7. CallsOwn'
  BY <1>1, <1>4, <1>6, CallsOwnStays
<1>8. Counted'
  BY <1>1, <1>2, <1>4, <1>6 DEF Typed, Counted, Position, Counts
<1>9. QED
  BY <1>1, <1>6, <1>7, <1>8, TypedParts DEF Typed, RTypeOK

\* Removing a callback keeps the types.
LEMMA RemoveCallbackTyped ==
  ASSUME Typed, NEW n \in Notifiers, NEW i \in DOMAIN nt[n].callbacks, RemoveCallback(n, i)
  PROVE  Typed'
<1> DEFINE q == RemoveAt(nt[n].callbacks, i)
           index == IndexAfter(nt[n].index, i)
           count == OneLess(nt[n].count)
           have == Len(nt[n].callbacks) > 1
           s == [nt[n] EXCEPT !.index = index, !.count = count, !.callbacks = q, !.have = have]
<1>1. UNCHANGED <<latest, touched, writer, rv, th, co, wk>>
  BY DEF RemoveCallback
<1>2. nt[n] \in NotifierType /\ nt[n].callbacks \in Seq(CallbackType)
  BY TypedParts DEF NotifierType
<1>3. q \in Seq(CallbackType) /\ Len(q) = Len(nt[n].callbacks) - 1 /\ (q = <<>> <=> Len(q) = 0)
  BY <1>2, Removed
<1>4. /\ Len(nt[n].callbacks) \in Nat /\ i \in Nat /\ 1 <= i /\ i <= Len(nt[n].callbacks)
      /\ nt[n].index \in 0 .. MaxCallbacks /\ nt[n].count \in 0 .. Huge /\ MaxCallbacks \in Nat
  BY <1>2, BoundsAssumption DEF NotifierType
<1>5. index \in 0 .. MaxCallbacks /\ (index # 0 => nt[n].index # 0)
      /\ index <= Len(q)
  BY <1>3, <1>4 DEF IndexAfter, Typed, Counted, Position
<1>6. count \in 0 .. Huge /\ have \in BOOLEAN
  <2>1. count \in 0 .. Huge
    BY <1>4 DEF OneLess, Huge
  <2>2. have \in BOOLEAN
    OBVIOUS
  <2>3. QED
    BY <2>1, <2>2
<1> HIDE DEF q, index, count
<1>7. s \in NotifierType
  BY <1>2, <1>3, <1>5, <1>6 DEF NotifierType
<1>8. /\ s.list = nt[n].list /\ s.alive = nt[n].alive /\ s.callbacks = q /\ s.added = nt[n].added
      /\ s.index = index /\ (s.have <=> Len(nt[n].callbacks) > 1) /\ s.hasRun = nt[n].hasRun
  BY <1>2, <1>6 DEF NotifierType
<1>9. nt' = [nt EXCEPT ![n] = s]
  BY DEF RemoveCallback, q, index, count
<1> HIDE DEF s, have
<1>10. /\ nt' \in [Notifiers -> NotifierType] /\ nt'[n] = s
       /\ \A m \in Notifiers \ {n} : nt'[m] = nt[m]
  BY <1>7, <1>9, OneNotifier DEF OnlyNotifier
<1>11. CallsOwn'
  BY <1>1, <1>8, <1>10, CallsOwnStays
<1>12. Counted'
  <2>1. nt[n].added \in Nat /\ nt[n].callbacks # <<>>
    BY <1>2, <1>4 DEF NotifierType
  <2>2. Position(n)' /\ Counts(n)'
    BY <1>1, <1>3, <1>4, <1>5, <1>8, <1>10, <2>1 DEF Typed, Counted, Position, Counts
  <2>3. \A m \in Notifiers \ {n} : Position(m)' /\ Counts(m)'
    BY <1>1, <1>10 DEF Typed, Counted, Position, Counts
  <2>4. QED
    BY <1>1, <2>2, <2>3 DEF Typed, Counted
<1>13. QED
  BY <1>1, <1>10, <1>11, <1>12, TypedParts DEF Typed, RTypeOK

\* Suppressing a notification keeps the types.
LEMMA SuppressTyped ==
  ASSUME Typed, NEW n \in Notifiers, NEW i \in DOMAIN nt[n].callbacks, Suppress(n, i)
  PROVE  Typed'
<1> DEFINE c == [nt[n].callbacks[i] EXCEPT !.skip = TRUE, !.mute = TRUE]
           q == [nt[n].callbacks EXCEPT ![i] = c]
           s == [nt[n] EXCEPT !.callbacks = q]
<1>1. UNCHANGED <<latest, touched, writer, rv, th, co, wk>>
  BY DEF Suppress
<1>2. nt[n] \in NotifierType /\ nt[n].callbacks \in Seq(CallbackType) /\ nt[n].callbacks[i] \in CallbackType
  BY TypedParts DEF NotifierType
<1>3. c \in CallbackType
  BY <1>2 DEF CallbackType
<1> HIDE DEF c
<1>4. q \in Seq(CallbackType) /\ Len(q) = Len(nt[n].callbacks) /\ (q = <<>> <=> nt[n].callbacks = <<>>)
  BY <1>2, <1>3, ExceptSeq
<1>5. nt' = [nt EXCEPT ![n] = s]
  BY DEF Suppress, c
<1> HIDE DEF q
<1>6. s \in NotifierType
  BY <1>2, <1>4 DEF NotifierType
<1>7. /\ s.list = nt[n].list /\ s.alive = nt[n].alive /\ s.callbacks = q /\ s.added = nt[n].added
      /\ s.index = nt[n].index /\ s.have = nt[n].have /\ s.hasRun = nt[n].hasRun
  BY <1>2 DEF NotifierType
<1> HIDE DEF s
<1>8. /\ nt' \in [Notifiers -> NotifierType] /\ nt'[n] = s
      /\ \A m \in Notifiers \ {n} : nt'[m] = nt[m]
  BY <1>5, <1>6, OneNotifier DEF OnlyNotifier
<1>9. CallsOwn'
  BY <1>1, <1>7, <1>8, CallsOwnStays
<1>10. Counted'
  BY <1>1, <1>4, <1>7, <1>8 DEF Typed, Counted, Position, Counts
<1>11. QED
  BY <1>1, <1>8, <1>9, <1>10, TypedParts DEF Typed, RTypeOK

---------------------------------------------------------------------------------
\* A step that changes one thread only.
OnlyThread(r, t) == th' = [th EXCEPT ![r] = t] /\ t \in ThreadType

\* A step that replaces one thread's record by another such record.
LEMMA OneThread ==
  ASSUME Typed, NEW r \in Realms, NEW t, OnlyThread(r, t)
  PROVE  /\ th' \in [Realms -> ThreadType] /\ th'[r] = t
         /\ \A s \in Realms \ {r} : th'[s] = th[s]
BY TypedParts DEF OnlyThread

\* A step that leaves the notifiers alone, but for what their callbacks hold.
SameLists ==
  /\ nt' \in [Notifiers -> NotifierType]
  /\ \A n \in Notifiers :
       /\ nt'[n].alive = nt[n].alive /\ nt'[n].hasRun = nt[n].hasRun /\ nt'[n].list = nt[n].list
       /\ nt'[n].index = nt[n].index /\ nt'[n].have = nt[n].have /\ nt'[n].added = nt[n].added
       /\ DOMAIN nt'[n].callbacks = DOMAIN nt[n].callbacks

\* Only notifiers are on a thread's list of calls.
LEMMA CalledExist ==
  ASSUME Typed
  PROVE  \A r \in Realms : \A k \in DOMAIN th[r].calls : th[r].calls[k] \in Notifiers
BY TypedParts DEF ThreadType

\* Where the lists stay the callbacks are counted as before.
LEMMA SameCounts ==
  ASSUME Typed, SameLists, NEW n \in Notifiers
  PROVE  /\ Len(nt'[n].callbacks) = Len(nt[n].callbacks)
         /\ nt'[n].callbacks = <<>> <=> nt[n].callbacks = <<>>
         /\ Counts(n)'
<1>1. nt[n].callbacks \in Seq(CallbackType) /\ nt'[n].callbacks \in Seq(CallbackType)
  BY TypedParts DEF SameLists, NotifierType
<1>2. DOMAIN nt[n].callbacks = DOMAIN nt'[n].callbacks
  BY DEF SameLists
<1>3. /\ Len(nt'[n].callbacks) = Len(nt[n].callbacks)
      /\ nt'[n].callbacks = <<>> <=> nt[n].callbacks = <<>>
  BY <1>1, <1>2
<1>4. Counts(n)'
  BY <1>3 DEF SameLists, Typed, Counted, Counts
<1>5. QED
  BY <1>3, <1>4

\* The threads stay, or one goes on that is not calling.
LEMMA CountedStays ==
  ASSUME Typed, SameLists, writer' # none => latest' < MaxVersion,
         \A r \in Realms : th'[r] = th[r] \/ th[r].pc # "callback"
  PROVE  Counted'
<1> SUFFICES ASSUME NEW n \in Notifiers PROVE Position(n)' /\ Counts(n)'
  BY DEF Counted
<1>1. Position(n)
  BY DEF Typed, Counted
<1>2. Len(nt'[n].callbacks) = Len(nt[n].callbacks) /\ Counts(n)'
  BY SameCounts
<1>3. Owner[n] \in Realms
  BY OwnerAssumption
<1>4. Position(n)'
  BY <1>1, <1>2, <1>3 DEF SameLists, Position
<1>5. QED
  BY <1>2, <1>4

\* Where the notifiers stay the lists do.
LEMMA SameListsIfSame ==
  ASSUME Typed, nt' = nt
  PROVE  SameLists
BY TypedParts DEF SameLists

\* Beginning a write with no notifier to wait for keeps the types.
LEMMA BeginAloneTyped ==
  ASSUME Typed, NEW r \in Realms, BeginAlone(r)
  PROVE  Typed'
<1>1. /\ UNCHANGED <<latest, touched, th, nt, co, wk>> /\ writer = none /\ writer' = r
      /\ latest < MaxVersion /\ rv' = [rv EXCEPT ![r] = latest]
  BY DEF BeginAlone
<1>2. CallsOwn'
  BY <1>1, RealmsAssumption DEF Typed, CallsOwn, CallsOf
<1>3. Counted'
  BY <1>1, SameListsIfSame, CountedStays
<1>4. QED
  BY <1>1, <1>2, <1>3, TypedParts DEF Typed, RTypeOK

\* What a thread is when it starts to wait.
LEMMA WaitingThread ==
  ASSUME Typed, NEW r \in Realms, NEW job \in {"begin", "refresh"}, StartWaiting(r, job)
  PROVE  \E t : /\ OnlyThread(r, t) /\ t.pc = "wait" /\ t.job = job /\ t.target = latest
                /\ t.package = NotifiersFor(r) /\ t.calls = th[r].calls
<1> DEFINE t == [th[r] EXCEPT !.pc = "wait", !.job = job, !.target = latest, !.package = NotifiersFor(r)]
<1>1. th[r] \in ThreadType /\ latest \in 0 .. MaxVersion /\ NotifiersFor(r) \in SUBSET Notifiers
  BY TypedParts, ForRealm DEF Versions
<1>2. t \in ThreadType
  BY <1>1 DEF ThreadType
<1>3. /\ t.pc = "wait" /\ t.job = job /\ t.target = latest
      /\ t.package = NotifiersFor(r) /\ t.calls = th[r].calls
  BY <1>1 DEF ThreadType
<1>4. th' = [th EXCEPT ![r] = t]
  BY DEF StartWaiting
<1> HIDE DEF t
<1>5. QED
  BY <1>2, <1>3, <1>4 DEF OnlyThread

\* Who waits, waits for all its notifiers.
LEMMA WaitingTyped ==
  ASSUME Typed, NEW r \in Realms, NEW job \in {"begin", "refresh"}, StartWaiting(r, job),
         th[r].pc = "idle", UNCHANGED <<latest, nt>>,
         \A s \in Realms \ {r} : writer = s => writer' = s,
         job = "begin" => writer' = r, writer' # none => latest < MaxVersion
  PROVE  th' \in [Realms -> ThreadType] /\ CallsOwn' /\ Counted'
<1>1. PICK t : /\ OnlyThread(r, t) /\ t.pc = "wait" /\ t.job = job /\ t.target = latest
               /\ t.package = NotifiersFor(r) /\ t.calls = th[r].calls
  BY WaitingThread
<1>2. /\ th' \in [Realms -> ThreadType] /\ th'[r] = t
      /\ \A s \in Realms \ {r} : th'[s] = th[s]
  BY <1>1, OneThread
<1>3. \A n \in Notifiers : n \in NotifiersFor(r) <=> Owner[n] = r /\ nt[n].alive
  BY DEF NotifiersFor, Listed, Typed, Counted, Counts
<1>4. NotifiersFor(r) \subseteq Notifiers
  BY ForRealm
<1>5. CallsOwn'
  BY <1>1, <1>2, <1>3, <1>4, CalledExist DEF Typed, CallsOwn, CallsOf
<1>6. Counted'
  BY <1>2, SameListsIfSame, CountedStays
<1>7. QED
  BY <1>2, <1>5, <1>6

\* Beginning a write with notifiers to wait for keeps the types.
LEMMA BeginNotifyingTyped ==
  ASSUME Typed, NEW r \in Realms, BeginNotifying(r)
  PROVE  Typed'
<1>1. /\ UNCHANGED <<latest, touched, rv, nt, co, wk>> /\ writer = none /\ writer' = r
      /\ latest < MaxVersion /\ th[r].pc = "idle" /\ StartWaiting(r, "begin")
  BY DEF BeginNotifying
<1>2. th' \in [Realms -> ThreadType] /\ CallsOwn' /\ Counted'
  BY <1>1, WaitingTyped, RealmsAssumption
<1>3. QED
  BY <1>1, <1>2, TypedParts DEF Typed, RTypeOK

\* Starting a refresh keeps the types.
LEMMA RefreshTyped ==
  ASSUME Typed, NEW r \in Realms, Refresh(r)
  PROVE  Typed'
<1>1. UNCHANGED <<latest, touched, writer, nt, co, wk>> /\ th[r].pc = "idle"
  BY DEF Refresh
<1>2. writer' # none => latest < MaxVersion
  BY <1>1 DEF Typed, Counted
<1>3. CASE NotifiersFor(r) = {}
  <2>1. rv' = [rv EXCEPT ![r] = latest] /\ th' = th
    BY <1>3 DEF Refresh
  <2>2. CallsOwn' /\ Counted'
    BY <1>1, <1>2, <2>1, SameListsIfSame, CountedStays, CallsOwnStays
  <2>3. QED
    BY <1>1, <2>1, <2>2, TypedParts DEF Typed, RTypeOK
<1>4. CASE NotifiersFor(r) # {}
  <2>1. StartWaiting(r, "refresh") /\ rv' = rv
    BY <1>4 DEF Refresh
  <2>2. th' \in [Realms -> ThreadType] /\ CallsOwn' /\ Counted'
    BY <1>1, <1>2, <2>1, WaitingTyped
  <2>3. QED
    BY <1>1, <2>1, <2>2, TypedParts DEF Typed, RTypeOK
<1>5. QED
  BY <1>3, <1>4

\* Cancelling a write keeps the types.
LEMMA CancelTyped ==
  ASSUME Typed, NEW r \in Realms, Cancel(r)
  PROVE  Typed'
<1>1. UNCHANGED <<latest, touched, rv, th, nt, co, wk>> /\ writer' = none /\ writer = r
  BY DEF Cancel, OwnWrite, InWrite
<1>2. th[r].pc = "idle" \/ th[r].job # "begin"
  BY DEF Cancel, OwnWrite
<1>3. CallsOwn'
  BY <1>1, <1>2 DEF Typed, CallsOwn, CallsOf
<1>4. Counted'
  BY <1>1, SameListsIfSame, CountedStays
<1>5. QED
  BY <1>1, <1>3, <1>4, TypedParts DEF Typed, RTypeOK

\* Waiting, which wakes the worker, keeps the types.
LEMMA SleepTyped ==
  ASSUME Typed, NEW r \in Realms, Sleep(r)
  PROVE  Typed'
<1> DEFINE t == [th[r] EXCEPT !.first = FALSE]
<1>1. UNCHANGED <<latest, touched, writer, rv, nt, wk>> /\ th[r].pc = "wait"
  BY DEF Sleep
<1>2. th[r] \in ThreadType
  BY TypedParts
<1>3. /\ t \in ThreadType
      /\ t.pc = th[r].pc /\ t.job = th[r].job /\ t.target = th[r].target
      /\ t.package = th[r].package /\ t.calls = th[r].calls
  BY <1>2 DEF ThreadType
<1>4. th' = [th EXCEPT ![r] = t]
  BY DEF Sleep
<1> HIDE DEF t
<1>5. /\ th' \in [Realms -> ThreadType] /\ th'[r] = t
      /\ \A s \in Realms \ {r} : th'[s] = th[s]
  BY <1>3, <1>4, OneThread DEF OnlyThread
<1>6. CallsOwn'
  BY <1>1, <1>3, <1>5, CalledExist DEF Typed, CallsOwn, CallsOf
<1>7. writer' # none => latest' < MaxVersion
  BY <1>1 DEF Typed, Counted
<1>8. Counted'
  BY <1>1, <1>5, <1>7, SameListsIfSame, CountedStays
<1>9. co' \in CoordinatorType
  BY TypedParts DEF Sleep, CoordinatorType
<1>10. QED
  BY <1>1, <1>5, <1>6, <1>8, <1>9, TypedParts DEF Typed, RTypeOK

---------------------------------------------------------------------------------
\* The callbacks of a notifier are changed where they are.
LEMMA InPlace ==
  ASSUME NEW s \in NotifierType, NEW q \in [DOMAIN s.callbacks -> CallbackType]
  PROVE  q \in Seq(CallbackType) /\ Len(q) = Len(s.callbacks) /\ DOMAIN q = DOMAIN s.callbacks
<1>1. s.callbacks \in Seq(CallbackType)
  BY DEF NotifierType
<1>2. Len(s.callbacks) \in Nat /\ DOMAIN s.callbacks = 1 .. Len(s.callbacks)
  BY <1>1
<1> DEFINE l == Len(s.callbacks)
<1> HIDE DEF l
<1>3. q \in [1 .. l -> CallbackType] /\ l \in Nat
  BY <1>2 DEF l
<1>4. q \in Seq(CallbackType) /\ Len(q) = l
  BY <1>3
<1>5. QED
  BY <1>4 DEF l

\* Replacing the callbacks one by one gives a notifier, with all else as it was.
LEMMA InPlaceTyped ==
  ASSUME NEW s \in NotifierType, NEW q \in [DOMAIN s.callbacks -> CallbackType],
         NEW t, t = [s EXCEPT !.callbacks = q]
  PROVE  /\ t \in NotifierType /\ t.callbacks = q /\ DOMAIN t.callbacks = DOMAIN s.callbacks
         /\ t.alive = s.alive /\ t.hasRun = s.hasRun /\ t.list = s.list /\ t.index = s.index
         /\ t.have = s.have /\ t.added = s.added /\ t.version = s.version /\ t.count = s.count
         /\ t.changes = s.changes /\ t.prev = s.prev /\ t.wants = s.wants
         /\ t.tvHandover = s.tvHandover /\ t.tvDeliver = s.tvDeliver
<1>1. q \in Seq(CallbackType) /\ DOMAIN q = DOMAIN s.callbacks
  BY InPlace
<1>2. QED
  BY <1>1 DEF NotifierType

\* What a write of the user's own code in a block does to a callback.
AtVersion(c, v) == [c EXCEPT !.base = IF c.initial THEN v ELSE @]

\* What rebasing makes of a notifier of the Realm.
LEMMA RebaseEach ==
  ASSUME Typed, NEW r \in Realms, NEW v \in Versions, NEW n \in Notifiers, Owner[n] = r
  PROVE  /\ Rebase(r, v)[n] =
              [nt[n] EXCEPT !.callbacks = [i \in DOMAIN nt[n].callbacks |-> AtVersion(nt[n].callbacks[i], v)]]
         /\ [i \in DOMAIN nt[n].callbacks |-> AtVersion(nt[n].callbacks[i], v)]
              \in [DOMAIN nt[n].callbacks -> CallbackType]
<1>1. Rebase(r, v)[n] =
        [nt[n] EXCEPT !.callbacks = [i \in DOMAIN nt[n].callbacks |-> AtVersion(nt[n].callbacks[i], v)]]
  BY DEF Rebase, Each, AtVersion
<1>2. \A i \in DOMAIN nt[n].callbacks : nt[n].callbacks[i] \in CallbackType
  BY TypedParts DEF NotifierType
<1>3. \A c \in CallbackType : AtVersion(c, v) \in CallbackType
  BY DEF AtVersion, CallbackType, Versions
<1> HIDE DEF AtVersion
<1>4. QED
  BY <1>1, <1>2, <1>3

\* Rebasing replaces callbacks one by one, of the Realm's own notifiers.
LEMMA RebaseTyped ==
  ASSUME Typed, NEW r \in Realms, NEW v \in Versions
  PROVE  /\ Rebase(r, v) \in [Notifiers -> NotifierType]
         /\ \A n \in Notifiers :
              /\ DOMAIN Rebase(r, v)[n].callbacks = DOMAIN nt[n].callbacks
              /\ Owner[n] # r => Rebase(r, v)[n] = nt[n]
              /\ \E q : Rebase(r, v)[n] = [nt[n] EXCEPT !.callbacks = q] /\ q \in [DOMAIN nt[n].callbacks -> CallbackType]
<1>1. DOMAIN Rebase(r, v) = Notifiers /\ Rebase(r, v) = [n \in Notifiers |-> Rebase(r, v)[n]]
  BY DEF Rebase
<1>2. \A n \in Notifiers : nt[n] \in NotifierType
  BY TypedParts
<1>3. ASSUME NEW n \in Notifiers, Owner[n] # r
      PROVE  /\ Rebase(r, v)[n] \in NotifierType /\ Rebase(r, v)[n] = nt[n]
             /\ \E q : Rebase(r, v)[n] = [nt[n] EXCEPT !.callbacks = q] /\ q \in [DOMAIN nt[n].callbacks -> CallbackType]
  <2>1. Rebase(r, v)[n] = nt[n]
    BY <1>3 DEF Rebase
  <2>2. nt[n].callbacks \in [DOMAIN nt[n].callbacks -> CallbackType]
    BY <1>2 DEF NotifierType
  <2>3. nt[n] = [nt[n] EXCEPT !.callbacks = nt[n].callbacks]
    BY <1>2 DEF NotifierType
  <2>4. QED
    BY <1>2, <2>1, <2>2, <2>3
<1>4. ASSUME NEW n \in Notifiers, Owner[n] = r
      PROVE  /\ Rebase(r, v)[n] \in NotifierType /\ DOMAIN Rebase(r, v)[n].callbacks = DOMAIN nt[n].callbacks
             /\ \E q : Rebase(r, v)[n] = [nt[n] EXCEPT !.callbacks = q] /\ q \in [DOMAIN nt[n].callbacks -> CallbackType]
  <2> DEFINE q == [i \in DOMAIN nt[n].callbacks |-> AtVersion(nt[n].callbacks[i], v)]
  <2>1. Rebase(r, v)[n] = [nt[n] EXCEPT !.callbacks = q] /\ q \in [DOMAIN nt[n].callbacks -> CallbackType]
    BY <1>4, RebaseEach
  <2> DEFINE t == Rebase(r, v)[n]
  <2> HIDE DEF q
  <2>2. nt[n] \in NotifierType /\ t = [nt[n] EXCEPT !.callbacks = q]
    BY <1>2, <2>1
  <2> HIDE DEF t
  <2>3. t \in NotifierType /\ DOMAIN t.callbacks = DOMAIN nt[n].callbacks
    BY <2>1, <2>2, InPlaceTyped
  <2>4. \E p : t = [nt[n] EXCEPT !.callbacks = p] /\ p \in [DOMAIN nt[n].callbacks -> CallbackType]
    <3> WITNESS q
    <3> QED
      BY <2>1, <2>2
  <2>5. QED
    BY <2>3, <2>4 DEF t
<1> DEFINE based == Rebase(r, v)
<1> HIDE DEF based
<1>5. based = [n \in Notifiers |-> based[n]] /\ \A n \in Notifiers : based[n] \in NotifierType
  BY <1>1, <1>3, <1>4 DEF based
<1>6. based \in [Notifiers -> NotifierType]
  BY <1>5
<1>7. QED
  BY <1>3, <1>4, <1>6 DEF based

\* A step that changes callbacks where they are keeps the lists.
LEMMA InPlaceLists ==
  ASSUME Typed, nt' \in [Notifiers -> NotifierType],
         \A n \in Notifiers : \E q : nt'[n] = [nt[n] EXCEPT !.callbacks = q] /\ q \in [DOMAIN nt[n].callbacks -> CallbackType]
  PROVE  SameLists
<1> SUFFICES ASSUME NEW n \in Notifiers
             PROVE  /\ nt'[n].alive = nt[n].alive /\ nt'[n].hasRun = nt[n].hasRun /\ nt'[n].list = nt[n].list
                    /\ nt'[n].index = nt[n].index /\ nt'[n].have = nt[n].have /\ nt'[n].added = nt[n].added
                    /\ DOMAIN nt'[n].callbacks = DOMAIN nt[n].callbacks
  BY DEF SameLists
<1>1. PICK q : nt'[n] = [nt[n] EXCEPT !.callbacks = q] /\ q \in [DOMAIN nt[n].callbacks -> CallbackType]
  OBVIOUS
<1>2. nt[n] \in NotifierType
  BY TypedParts
<1>3. QED
  BY <1>1, <1>2, InPlaceTyped

\* Beginning a write in a block keeps the types.
LEMMA BeginNestedTyped ==
  ASSUME Typed, NEW r \in Realms, BeginNested(r)
  PROVE  Typed'
<1>1. /\ UNCHANGED <<latest, touched, th, co, wk>> /\ writer = none /\ writer' = r
      /\ latest < MaxVersion /\ rv' = [rv EXCEPT ![r] = latest] /\ nt' = Rebase(r, latest)
  BY DEF BeginNested
<1>2. SameLists /\ nt' \in [Notifiers -> NotifierType]
  BY <1>1, RebaseTyped, InPlaceLists, TypedParts
<1>3. CallsOwn'
  <2>1. \A s \in Realms : ~(th[s].job = "begin" /\ th[s].pc # "idle")
    BY <1>1, RealmsAssumption DEF Typed, CallsOwn, CallsOf
  <2>2. QED
    BY <1>1, <1>2, <2>1, CalledExist DEF Typed, CallsOwn, CallsOf, SameLists
<1>4. Counted'
  BY <1>1, <1>2, CountedStays
<1>5. QED
  BY <1>1, <1>2, <1>3, <1>4, TypedParts DEF Typed, RTypeOK

\* What a commit does to a callback.
MutedAt(c, v) == IF c.mute THEN [c EXCEPT !.mute = FALSE, !.muted = @ \cup {v}] ELSE c

\* Marking the muted callbacks gives callbacks.
LEMMA MutedEach ==
  ASSUME NEW s \in NotifierType, NEW v \in Versions
  PROVE  [i \in DOMAIN s.callbacks |-> MutedAt(s.callbacks[i], v)] \in [DOMAIN s.callbacks -> CallbackType]
<1>1. \A i \in DOMAIN s.callbacks : s.callbacks[i] \in CallbackType
  BY DEF NotifierType
<1>2. \A c \in CallbackType : MutedAt(c, v) \in CallbackType
  BY DEF MutedAt, CallbackType, Versions
<1> HIDE DEF MutedAt
<1>3. QED
  BY <1>1, <1>2

\* What a commit finds in the notifiers: moved along when it comes from a block.
CommitBase(r) == IF InBlock(r) THEN Rebase(r, latest + 1) ELSE nt

\* A commit's rebase replaces callbacks one by one.
LEMMA CommitBaseTyped ==
  ASSUME Typed, NEW r \in Realms, latest + 1 \in Versions
  PROVE  /\ CommitBase(r) \in [Notifiers -> NotifierType]
         /\ \A n \in Notifiers :
              \E q : CommitBase(r)[n] = [nt[n] EXCEPT !.callbacks = q] /\ q \in [DOMAIN nt[n].callbacks -> CallbackType]
<1>1. CASE InBlock(r)
  BY <1>1, RebaseTyped DEF CommitBase
<1>2. CASE ~InBlock(r)
  <2>1. nt \in [Notifiers -> NotifierType] /\ CommitBase(r) = nt
    BY <1>2, TypedParts DEF CommitBase
  <2>2. ASSUME NEW n \in Notifiers
        PROVE  \E q : nt[n] = [nt[n] EXCEPT !.callbacks = q] /\ q \in [DOMAIN nt[n].callbacks -> CallbackType]
    <3> DEFINE q == nt[n].callbacks
    <3>1. nt[n] = [nt[n] EXCEPT !.callbacks = q] /\ q \in [DOMAIN nt[n].callbacks -> CallbackType]
      BY <2>1 DEF NotifierType
    <3> HIDE DEF q
    <3>2. QED
      BY <3>1
  <2>3. QED
    BY <2>1, <2>2
<1>3. QED
  BY <1>1, <1>2

\* What a commit makes of the notifiers.
LEMMA CommitLists ==
  ASSUME Typed, NEW r \in Realms, Commit(r)
  PROVE  /\ latest + 1 \in Versions /\ latest' = latest + 1 /\ SameLists
         /\ \A n \in Notifiers :
              nt'[n] = [CommitBase(r)[n] EXCEPT !.callbacks =
                          [i \in DOMAIN CommitBase(r)[n].callbacks |-> MutedAt(CommitBase(r)[n].callbacks[i], latest + 1)]]
<1>1. latest' = latest + 1 /\ writer = r /\ r # none
  BY RealmsAssumption DEF Commit, OwnWrite, InWrite
<1>2. latest \in Nat /\ 1 <= latest /\ latest < MaxVersion /\ MaxVersion \in Nat
  BY <1>1, TypedParts, BoundsAssumption DEF Typed, Counted, Versions
<1>3. latest + 1 \in Versions
  BY <1>2 DEF Versions
<1>4. nt' = [n \in Notifiers |-> [CommitBase(r)[n] EXCEPT !.callbacks =
               [i \in DOMAIN CommitBase(r)[n].callbacks |-> MutedAt(CommitBase(r)[n].callbacks[i], latest + 1)]]]
  BY DEF Commit, CommitBase, Each, MutedAt
<1> DEFINE base == CommitBase(r)
           muted(n) == [i \in DOMAIN base[n].callbacks |-> MutedAt(base[n].callbacks[i], latest + 1)]
<1>5. /\ base \in [Notifiers -> NotifierType]
      /\ \A n \in Notifiers : \E q : base[n] = [nt[n] EXCEPT !.callbacks = q] /\ q \in [DOMAIN nt[n].callbacks -> CallbackType]
  BY <1>3, CommitBaseTyped
<1>6. nt' = [n \in Notifiers |-> [base[n] EXCEPT !.callbacks = muted(n)]]
  BY <1>4
<1>7. \A n \in Notifiers : muted(n) \in [DOMAIN base[n].callbacks -> CallbackType]
  BY <1>3, <1>5, MutedEach
<1> HIDE DEF base, muted
<1>8. ASSUME NEW n \in Notifiers
      PROVE  /\ nt'[n] \in NotifierType
             /\ nt'[n].alive = nt[n].alive /\ nt'[n].hasRun = nt[n].hasRun /\ nt'[n].list = nt[n].list
             /\ nt'[n].index = nt[n].index /\ nt'[n].have = nt[n].have /\ nt'[n].added = nt[n].added
             /\ DOMAIN nt'[n].callbacks = DOMAIN nt[n].callbacks
  <2>1. PICK q : base[n] = [nt[n] EXCEPT !.callbacks = q] /\ q \in [DOMAIN nt[n].callbacks -> CallbackType]
    BY <1>5
  <2>2. nt[n] \in NotifierType /\ base[n] \in NotifierType
    BY <1>5, TypedParts
  <2>3. /\ DOMAIN base[n].callbacks = DOMAIN nt[n].callbacks
        /\ base[n].alive = nt[n].alive /\ base[n].hasRun = nt[n].hasRun /\ base[n].list = nt[n].list
        /\ base[n].index = nt[n].index /\ base[n].have = nt[n].have /\ base[n].added = nt[n].added
    BY <2>1, <2>2, InPlaceTyped
  <2>4. nt'[n] = [base[n] EXCEPT !.callbacks = muted(n)]
    BY <1>6
  <2> DEFINE t == nt'[n]
             m == muted(n)
  <2>5. t = [base[n] EXCEPT !.callbacks = m] /\ m \in [DOMAIN base[n].callbacks -> CallbackType]
    BY <1>7, <2>4
  <2> HIDE DEF t, m
  <2>6. /\ t \in NotifierType /\ DOMAIN t.callbacks = DOMAIN base[n].callbacks
        /\ t.alive = base[n].alive /\ t.hasRun = base[n].hasRun /\ t.list = base[n].list
        /\ t.index = base[n].index /\ t.have = base[n].have /\ t.added = base[n].added
    BY <2>2, <2>5, InPlaceTyped
  <2>7. QED
    BY <2>3, <2>6 DEF t
<1>9. nt' \in [Notifiers -> NotifierType]
  <2>1. DOMAIN nt' = Notifiers /\ nt' = [n \in Notifiers |-> nt'[n]]
    BY <1>6
  <2> DEFINE after == nt'
  <2>2. after = [n \in Notifiers |-> after[n]] /\ \A n \in Notifiers : after[n] \in NotifierType
    BY <1>8, <2>1
  <2> HIDE DEF after
  <2>3. after \in [Notifiers -> NotifierType]
    BY <2>2
  <2>4. QED
    BY <2>3 DEF after
<1>10. SameLists
  BY <1>8, <1>9 DEF SameLists
<1>11. QED
  BY <1>1, <1>3, <1>4, <1>10

\* A commit keeps the types.
LEMMA CommitTyped ==
  ASSUME Typed, NEW r \in Realms, Commit(r)
  PROVE  Typed'
<1>1. /\ UNCHANGED <<th, wk>> /\ writer = r /\ writer' = none /\ latest' = latest + 1
      /\ rv' = [rv EXCEPT ![r] = latest + 1] /\ touched' \in {touched, touched \cup {latest + 1}}
      /\ co' = [co EXCEPT !.skip = IF SkipsVersions(r) THEN latest + 1 ELSE @, !.signal = TRUE]
      /\ (th[r].pc = "idle" \/ th[r].job # "begin") /\ th[r].pc # "wait"
  BY DEF Commit, OwnWrite, InWrite
<1>2. latest + 1 \in Versions /\ SameLists
  BY CommitLists
<1>3. CallsOwn'
  <2>1. \A s \in Realms : ~(th[s].job = "begin" /\ th[s].pc # "idle")
    BY <1>1 DEF Typed, CallsOwn, CallsOf
  <2>2. QED
    BY <1>1, <1>2, <2>1, CalledExist DEF Typed, CallsOwn, CallsOf, SameLists
<1>4. Counted'
  BY <1>1, <1>2, CountedStays
<1>5. co' \in CoordinatorType
  <2> DEFINE k == IF SkipsVersions(r) THEN latest + 1 ELSE co.skip
  <2>1. co \in CoordinatorType /\ co' = [co EXCEPT !.skip = k, !.signal = TRUE]
    BY <1>1, TypedParts
  <2>2. k \in 0 .. MaxVersion
    BY <1>2, <2>1, BoundsAssumption DEF CoordinatorType, Versions
  <2> HIDE DEF k
  <2>3. QED
    BY <2>1, <2>2 DEF CoordinatorType
<1>6. QED
  BY <1>1, <1>2, <1>3, <1>4, <1>5, TypedParts DEF Typed, RTypeOK, SameLists

---------------------------------------------------------------------------------
\* What a packaged callback becomes.
Packaged(c) == [c EXCEPT !.del = c.acc, !.acc = {}]

\* What packaging makes of one notifier.
LEMMA PackagedOne ==
  ASSUME NEW s \in NotifierType, Len(s.callbacks) <= MaxCallbacks
  PROVE  LET t == PackageForDelivery(s) IN
         /\ t \in NotifierType
         /\ t.alive = s.alive /\ t.hasRun = s.hasRun /\ t.list = s.list /\ t.index = s.index
         /\ t.have = s.have /\ t.added = s.added /\ t.version = s.version
         /\ t.changes = s.changes /\ t.prev = s.prev /\ t.wants = s.wants
         /\ t.count = Len(s.callbacks) /\ t.tvHandover = 0 /\ t.tvDeliver = s.tvHandover
         /\ Len(t.callbacks) = Len(s.callbacks)
         /\ t.callbacks = [i \in DOMAIN s.callbacks |-> Packaged(s.callbacks[i])]
         /\ DOMAIN t.callbacks = DOMAIN s.callbacks
<1> DEFINE q == [i \in DOMAIN s.callbacks |-> Packaged(s.callbacks[i])]
           l == Len(s.callbacks)
           t == [s EXCEPT !.callbacks = q, !.count = l, !.tvDeliver = s.tvHandover, !.tvHandover = 0]
<1>1. PackageForDelivery(s) = t
  BY DEF PackageForDelivery, Each, Packaged
<1>2. q \in [DOMAIN s.callbacks -> CallbackType]
  <2>1. \A i \in DOMAIN s.callbacks : s.callbacks[i] \in CallbackType
    BY DEF NotifierType
  <2>2. \A c \in CallbackType : Packaged(c) \in CallbackType
    BY DEF Packaged, CallbackType
  <2> HIDE DEF Packaged
  <2>3. QED
    BY <2>1, <2>2
<1>3. l \in 0 .. Huge
  BY BoundsAssumption DEF NotifierType, Huge
<1> DEFINE p == q
<1> HIDE DEF p
<1>4. p \in [DOMAIN s.callbacks -> CallbackType]
  BY <1>2 DEF p
<1>5. p \in Seq(CallbackType) /\ Len(p) = Len(s.callbacks) /\ DOMAIN p = DOMAIN s.callbacks
  BY <1>4, InPlace
<1>6. t = [s EXCEPT !.callbacks = p, !.count = l, !.tvDeliver = s.tvHandover, !.tvHandover = 0]
  BY DEF p
<1> HIDE DEF t, l, q
<1>7. 0 \in 0 .. MaxVersion
  BY BoundsAssumption
<1>8. /\ t \in NotifierType
      /\ t.alive = s.alive /\ t.hasRun = s.hasRun /\ t.list = s.list /\ t.index = s.index
      /\ t.have = s.have /\ t.added = s.added /\ t.version = s.version
      /\ t.changes = s.changes /\ t.prev = s.prev /\ t.wants = s.wants
      /\ t.count = l /\ t.tvHandover = 0 /\ t.tvDeliver = s.tvHandover /\ t.callbacks = p
  BY <1>3, <1>5, <1>6, <1>7 DEF NotifierType
<1>9. QED
  BY <1>1, <1>5, <1>8 DEF p, l, q

\* No notifier has more callbacks than were added.
LEMMA FewCallbacks ==
  ASSUME Typed, NEW n \in Notifiers
  PROVE  Len(nt[n].callbacks) <= MaxCallbacks
<1>1. Len(nt[n].callbacks) <= nt[n].added
  BY DEF Typed, Counted, Counts
<1>2. nt[n].callbacks \in Seq(CallbackType) /\ nt[n].added \in 0 .. MaxCallbacks
  BY TypedParts DEF NotifierType
<1>3. QED
  BY <1>1, <1>2, BoundsAssumption

\* Packaging replaces callbacks one by one.
LEMMA PackagedLists ==
  ASSUME Typed, NEW S \in SUBSET Notifiers, nt' = Package(S)
  PROVE  SameLists
<1>1. \A n \in Notifiers : nt'[n] = IF n \in S THEN PackageForDelivery(nt[n]) ELSE nt[n]
  BY DEF Package
<1>2. ASSUME NEW n \in Notifiers
      PROVE  /\ nt'[n] \in NotifierType
             /\ nt'[n].alive = nt[n].alive /\ nt'[n].hasRun = nt[n].hasRun /\ nt'[n].list = nt[n].list
             /\ nt'[n].index = nt[n].index /\ nt'[n].have = nt[n].have /\ nt'[n].added = nt[n].added
             /\ DOMAIN nt'[n].callbacks = DOMAIN nt[n].callbacks
  <2>1. nt[n] \in NotifierType /\ Len(nt[n].callbacks) <= MaxCallbacks
    BY TypedParts, FewCallbacks
  <2>2. CASE n \in S
    <3> DEFINE t == PackageForDelivery(nt[n])
    <3>1. nt'[n] = t
      BY <1>1, <2>2
    <3>2. /\ t \in NotifierType
          /\ t.alive = nt[n].alive /\ t.hasRun = nt[n].hasRun /\ t.list = nt[n].list /\ t.index = nt[n].index
          /\ t.have = nt[n].have /\ t.added = nt[n].added /\ DOMAIN t.callbacks = DOMAIN nt[n].callbacks
      BY <2>1, PackagedOne
    <3> HIDE DEF t
    <3>3. QED
      BY <3>1, <3>2
  <2>3. CASE n \notin S
    BY <1>1, <2>1, <2>3
  <2>4. QED
    BY <2>2, <2>3
<1>3. nt' \in [Notifiers -> NotifierType]
  <2> DEFINE after == nt'
  <2>1. after = [n \in Notifiers |-> after[n]] /\ \A n \in Notifiers : after[n] \in NotifierType
    BY <1>2 DEF Package
  <2> HIDE DEF after
  <2>2. after \in [Notifiers -> NotifierType]
    BY <2>1
  <2>3. QED
    BY <2>2 DEF after
<1>4. QED
  BY <1>2, <1>3 DEF SameLists

\* A thread that goes on to the blocks of the notifiers in S, at version v.
Sends(t, r, job, S, v) ==
  /\ t.pc \in {"changed", "ready"} /\ (t.pc = "changed" <=> v # rv[r])
  /\ t.job = job /\ t.to = v /\ t.package = {}
  /\ t.calls \in Seq(S) /\ \A n \in S : \E k \in DOMAIN t.calls : t.calls[k] = n

\* What a thread is when it starts to send.
LEMMA SendingThread ==
  ASSUME Typed, NEW r \in Realms, NEW job \in {"begin", "refresh", "notify"}, NEW S \in SUBSET Notifiers,
         NEW v \in Versions, StartSending(r, job, S, v)
  PROVE  \E t : OnlyThread(r, t) /\ Sends(t, r, job, S, v)
<1> DEFINE pc == IF v # rv[r] THEN "changed" ELSE "ready"
           calls == SetToSeq(S)
           loop == IF job = "notify" THEN FALSE ELSE th[r].loop
           t == [th[r] EXCEPT !.pc = pc, !.job = job, !.to = v, !.calls = calls, !.package = {},
                              !.target = 0, !.first = TRUE, !.loop = loop]
<1>1. th' = [th EXCEPT ![r] = t]
  BY DEF StartSending
<1>2. IsFiniteSet(S)
  BY OwnerAssumption, FS_Subset
<1>3. calls \in Seq(S) /\ \A n \in S : \E k \in DOMAIN calls : calls[k] = n
  BY <1>2, CallsOfPackage
<1>4. pc \in {"changed", "ready"} /\ (pc = "changed" <=> v # rv[r])
  OBVIOUS
<1>5. th[r] \in ThreadType /\ loop \in BOOLEAN
  BY TypedParts DEF ThreadType
<1>6. calls \in Seq(Notifiers) /\ v \in 0 .. MaxVersion /\ 0 \in 0 .. MaxVersion
  BY <1>3, BoundsAssumption DEF Versions
<1> HIDE DEF pc, calls, loop
<1>7. t \in ThreadType
  BY <1>4, <1>5, <1>6 DEF ThreadType
<1>8. t.pc = pc /\ t.job = job /\ t.to = v /\ t.package = {} /\ t.calls = calls
  BY <1>5 DEF ThreadType
<1> HIDE DEF t
<1>9. OnlyThread(r, t)
  BY <1>1, <1>7 DEF OnlyThread
<1>10. Sends(t, r, job, S, v)
  BY <1>3, <1>4, <1>8 DEF Sends
<1>11. QED
  BY <1>9, <1>10

\* A package is for notifiers of the thread that have run.
LEMMA SendingTyped ==
  ASSUME Typed, NEW r \in Realms, NEW job \in {"begin", "refresh", "notify"}, NEW S \in SUBSET Notifiers,
         NEW v \in Versions, StartSending(r, job, S, v), SameLists, UNCHANGED <<latest, touched, writer, co, wk>>,
         \A n \in S : Owner[n] = r /\ nt[n].hasRun, job = "begin" => writer = r,
         th[r].pc \in {"idle", "wait"}
  PROVE  Typed'
<1>1. PICK t : OnlyThread(r, t) /\ Sends(t, r, job, S, v)
  BY SendingThread
<1>2. /\ th' \in [Realms -> ThreadType] /\ th'[r] = t
      /\ \A s \in Realms \ {r} : th'[s] = th[s]
  BY <1>1, OneThread
<1>3. \A k \in DOMAIN t.calls : t.calls[k] \in S
  BY <1>1 DEF Sends
<1>4. CallsOwn'
  BY <1>1, <1>2, <1>3, CalledExist DEF Sends, Typed, CallsOwn, CallsOf, SameLists
<1>5. writer' # none => latest' < MaxVersion
  BY DEF Typed, Counted
<1>6. Counted'
  BY <1>1, <1>2, <1>5, CountedStays DEF Sends
<1>7. rv' \in [Realms -> Versions]
  BY TypedParts DEF StartSending
<1>8. QED
  BY <1>2, <1>4, <1>6, <1>7, TypedParts DEF Typed, RTypeOK, SameLists

\* A package of notifiers that have run has a version of the file.
LEMMA VersionOfThem ==
  ASSUME NEW S \in SUBSET Notifiers, Typed, IInv
  PROVE  /\ S = {} => VersionOf(S) = 0
         /\ S # {} => \E n \in S : VersionOf(S) = nt[n].version
         /\ VersionOf(S) \in 0 .. MaxVersion
<1>1. S # {} => (CHOOSE n \in S : TRUE) \in S
  OBVIOUS
<1>2. S # {} => \E n \in S : VersionOf(S) = nt[n].version
  BY <1>1 DEF VersionOf
<1>3. \A n \in Notifiers : nt[n].version \in 0 .. MaxVersion
  BY TypedParts DEF NotifierType
<1>4. QED
  BY <1>2, <1>3, BoundsAssumption DEF VersionOf

\* Taking a package after a wait keeps the types.
LEMMA PackageAndAdvanceTyped ==
  ASSUME Typed, IInv, NEW r \in Realms, PackageAndAdvance(r)
  PROVE  Typed'
<1> DEFINE ready == {n \in th[r].package : nt[n].hasRun /\ nt[n].alive}
           kept == IF VersionOf(ready) < th[r].target THEN {} ELSE ready
           v == IF kept = {} \/ th[r].job = "begin" THEN latest ELSE VersionOf(kept)
<1>1. /\ th[r].pc = "wait" /\ nt' = Package(ready) /\ UNCHANGED <<latest, touched, writer, co, wk>>
      /\ StartSending(r, th[r].job, kept, v)
  BY DEF PackageAndAdvance
<1>2. /\ th[r].job \in {"begin", "refresh"} /\ (th[r].job = "begin" <=> writer = r)
      /\ th[r].target \in Nat /\ rv[r] <= th[r].target /\ 1 <= rv[r] /\ rv[r] \in Nat
      /\ th[r].package \subseteq Notifiers
  BY <1>1 DEF IInv, WaitsForItsOwn, FileVersions
<1>3. ready \in SUBSET Notifiers /\ kept \subseteq ready /\ \A n \in ready : Owner[n] = r /\ nt[n].hasRun
  BY <1>1, <1>2 DEF Typed, CallsOwn, CallsOf
<1>4. kept # {} => VersionOf(kept) \in Versions
  <2> SUFFICES ASSUME kept # {} PROVE VersionOf(kept) \in Versions
    OBVIOUS
  <2>1. kept = ready /\ ~(VersionOf(ready) < th[r].target)
    OBVIOUS
  <2>2. VersionOf(ready) \in 0 .. MaxVersion
    BY <1>3, VersionOfThem
  <2> HIDE DEF ready, kept
  <2>3. VersionOf(ready) \in Nat /\ VersionOf(ready) >= 1 /\ VersionOf(ready) <= MaxVersion
    BY <1>2, <2>1, <2>2, BoundsAssumption
  <2>4. QED
    BY <2>1, <2>3, BoundsAssumption DEF Versions
<1> HIDE DEF ready, kept
<1>5. v \in Versions
  BY <1>4, TypedParts
<1>6. SameLists
  BY <1>1, <1>3, PackagedLists
<1> HIDE DEF v
<1>7. QED
  BY <1>1, <1>2, <1>3, <1>5, <1>6, SendingTyped

\* Taking a package when told of changes keeps the types.
LEMMA NotifyTyped ==
  ASSUME Typed, IInv, NEW r \in Realms, Notify(r)
  PROVE  Typed'
<1> DEFINE run == {n \in NotifiersFor(r) : nt[n].hasRun}
           here == {n \in run : nt[n].version = rv[r]}
           nothing == th' = [th EXCEPT ![r].loop = FALSE] /\ rv' = rv
<1>1. UNCHANGED <<latest, touched, writer, co, wk>> /\ th[r].pc = "idle"
  BY DEF Notify
<1>2. run \in SUBSET Notifiers /\ here \in SUBSET run /\ \A n \in run : Owner[n] = r /\ nt[n].hasRun
  BY ForRealm DEF NotifiersFor
<1>3. ASSUME nothing, SameLists
      PROVE  Typed'
  <2> DEFINE t == [th[r] EXCEPT !.loop = FALSE]
  <2>1. th[r] \in ThreadType
    BY TypedParts
  <2>2. /\ t \in ThreadType
        /\ t.pc = th[r].pc /\ t.job = th[r].job /\ t.target = th[r].target
        /\ t.package = th[r].package /\ t.calls = th[r].calls
    BY <2>1 DEF ThreadType
  <2>3. th' = [th EXCEPT ![r] = t]
    BY <1>3
  <2> HIDE DEF t
  <2>4. /\ th' \in [Realms -> ThreadType] /\ th'[r] = t
        /\ \A s \in Realms \ {r} : th'[s] = th[s]
    BY <2>2, <2>3, OneThread DEF OnlyThread
  <2>5. CallsOwn'
    BY <1>1, <1>3, <2>2, <2>4, CalledExist DEF Typed, CallsOwn, CallsOf, SameLists
  <2>6. writer' # none => latest' < MaxVersion
    BY <1>1 DEF Typed, Counted
  <2>7. Counted'
    BY <1>1, <1>3, <2>4, <2>6, CountedStays
  <2>8. QED
    BY <1>1, <1>3, <2>4, <2>5, <2>7, TypedParts DEF Typed, RTypeOK, SameLists
<1> HIDE DEF nothing
<1>4. CASE writer = r /\ nothing /\ nt' = nt
  BY <1>3, <1>4, SameListsIfSame
<1>5. CASE /\ writer # r /\ rv[r] = latest /\ nt' = Package(here)
           /\ IF here = {} THEN nothing ELSE StartSending(r, "notify", here, rv[r])
  <2>1. SameLists
    BY <1>2, <1>5, PackagedLists
  <2>2. rv[r] \in Versions
    BY TypedParts
  <2>3. CASE here = {}
    BY <1>3, <1>5, <2>1, <2>3
  <2>4. CASE here # {}
    BY <1>1, <1>2, <1>5, <2>1, <2>2, <2>4, SendingTyped
  <2>5. QED
    BY <2>3, <2>4
<1>6. CASE /\ writer # r /\ rv[r] < latest /\ nt' = Package(run)
           /\ IF Outdated(r, run) THEN nothing
              ELSE StartSending(r, "notify", run, IF run = {} THEN latest ELSE VersionOf(run))
  <2> DEFINE v == IF run = {} THEN latest ELSE VersionOf(run)
  <2>1. SameLists
    BY <1>2, <1>6, PackagedLists
  <2>2. CASE Outdated(r, run)
    BY <1>3, <1>6, <2>1, <2>2
  <2>3. CASE ~Outdated(r, run)
    <3>1. VersionOf(run) \in 0 .. MaxVersion /\ rv[r] \in Versions
      BY <1>2, VersionOfThem, TypedParts
    <3>2. run # {} => ~(VersionOf(run) < rv[r])
      BY <2>3 DEF Outdated
    <3> HIDE DEF run
    <3>3. run # {} => VersionOf(run) \in Versions
      BY <3>1, <3>2, BoundsAssumption DEF Versions
    <3>4. v \in Versions
      BY <3>3, TypedParts
    <3>5. StartSending(r, "notify", run, v)
      BY <1>6, <2>3
    <3> HIDE DEF v
    <3>6. QED
      BY <1>1, <1>2, <2>1, <3>4, <3>5, SendingTyped
  <2>4. QED
    BY <2>2, <2>3
<1>7. QED
  BY <1>4, <1>5, <1>6 DEF Notify, nothing

---------------------------------------------------------------------------------
\* A Results that is given its rows.
Given(s, used) == [s EXCEPT !.tvDeliver = 0, !.view = TRUE, !.wants = IF s.view THEN used ELSE @]

\* What handing over the rows makes of one notifier.
LEMMA GivenOne ==
  ASSUME NEW s \in NotifierType, NEW used \in BOOLEAN
  PROVE  LET t == Given(s, used) IN
         /\ t \in NotifierType
         /\ t.alive = s.alive /\ t.hasRun = s.hasRun /\ t.list = s.list /\ t.index = s.index
         /\ t.have = s.have /\ t.added = s.added /\ t.version = s.version /\ t.count = s.count
         /\ t.changes = s.changes /\ t.prev = s.prev /\ t.callbacks = s.callbacks
         /\ t.tvHandover = s.tvHandover /\ t.tvDeliver = 0
         /\ t.wants = (IF s.view THEN used ELSE s.wants)
<1> DEFINE w == IF s.view THEN used ELSE s.wants
<1>1. w \in BOOLEAN /\ 0 \in 0 .. MaxVersion
  BY BoundsAssumption DEF NotifierType
<1>2. Given(s, used) = [s EXCEPT !.tvDeliver = 0, !.view = TRUE, !.wants = w]
  BY DEF Given
<1> HIDE DEF w
<1>3. Given(s, used) \in NotifierType
  BY <1>1, <1>2 DEF NotifierType
<1>4. LET t == Given(s, used) IN
      /\ t.alive = s.alive /\ t.hasRun = s.hasRun /\ t.list = s.list /\ t.index = s.index
      /\ t.have = s.have /\ t.added = s.added /\ t.version = s.version /\ t.count = s.count
      /\ t.changes = s.changes /\ t.prev = s.prev /\ t.callbacks = s.callbacks
      /\ t.tvHandover = s.tvHandover /\ t.tvDeliver = 0 /\ t.wants = w
  BY <1>2 DEF NotifierType
<1>5. QED
  BY <1>3, <1>4 DEF w

\* What a delivery of rows makes of the notifiers, for one answer to whether the
\* rows are used.
GivesRows(used) == \A n \in Notifiers : nt'[n] \in {Given(nt[n], used), nt[n]}

\* Handing over the rows gives them to the notifiers of the package.
LEMMA DeliverGives ==
  ASSUME Typed, NEW r \in Realms, Deliver(r)
  PROVE  \E used \in BOOLEAN : GivesRows(used) /\ (~Unused => used = TRUE)
<1> DEFINE gets(n) == /\ Delivering(n) /\ Owner[n] = r /\ nt[n].alive /\ nt[n].tvDeliver # 0
                      /\ writer # r /\ rv[r] = th[r].to
<1>1. PICK used \in IF Unused THEN BOOLEAN ELSE {TRUE} :
        nt' = [n \in Notifiers |-> IF gets(n) THEN Given(nt[n], used) ELSE nt[n]]
  BY DEF Deliver, Given
<1> HIDE DEF gets
<1>2. used \in BOOLEAN /\ (~Unused => used = TRUE)
  BY UsersAssumption
<1>3. \A n \in Notifiers : nt'[n] = IF gets(n) THEN Given(nt[n], used) ELSE nt[n]
  BY <1>1
<1>4. GivesRows(used)
  BY <1>3 DEF GivesRows
<1>5. QED
  BY <1>2, <1>4

\* What a delivery of rows does: the thread goes on to the blocks.
LEMMA DeliverParts ==
  ASSUME Typed, NEW r \in Realms, Deliver(r)
  PROVE  /\ SameLists /\ UNCHANGED <<latest, touched, writer, rv, co, wk>>
         /\ th[r].pc \in {"changed", "ready"} /\ (writer = r => th[r].job = "begin")
         /\ \E used \in IF Unused THEN BOOLEAN ELSE {TRUE} : \A n \in Notifiers :
              nt'[n] = IF /\ Delivering(n) /\ Owner[n] = r /\ nt[n].alive /\ nt[n].tvDeliver # 0
                          /\ writer # r /\ rv[r] = th[r].to
                       THEN Given(nt[n], used) ELSE nt[n]
         /\ \E t : /\ OnlyThread(r, t) /\ t.calls = th[r].calls /\ t.package = th[r].package
                   /\ IF th[r].calls = <<>> THEN t.pc = "idle" /\ t.job = "none"
                      ELSE t.pc = "tell" /\ t.job = th[r].job
<1>1. /\ UNCHANGED <<latest, touched, writer, rv, co, wk>>
      /\ th[r].pc \in {"changed", "ready"} /\ (writer = r => th[r].job = "begin")
  BY DEF Deliver
<1> DEFINE gets(n) == /\ Delivering(n) /\ Owner[n] = r /\ nt[n].alive /\ nt[n].tvDeliver # 0
                      /\ writer # r /\ rv[r] = th[r].to
<1>2. PICK used \in IF Unused THEN BOOLEAN ELSE {TRUE} :
        nt' = [n \in Notifiers |-> IF gets(n) THEN Given(nt[n], used) ELSE nt[n]]
  BY DEF Deliver, Given
<1> HIDE DEF gets
<1>3. used \in BOOLEAN
  BY UsersAssumption
<1>4. \A n \in Notifiers : nt'[n] = IF gets(n) THEN Given(nt[n], used) ELSE nt[n]
  BY <1>2
<1>5. ASSUME NEW n \in Notifiers
      PROVE  /\ nt'[n] \in NotifierType
             /\ nt'[n].alive = nt[n].alive /\ nt'[n].hasRun = nt[n].hasRun /\ nt'[n].list = nt[n].list
             /\ nt'[n].index = nt[n].index /\ nt'[n].have = nt[n].have /\ nt'[n].added = nt[n].added
             /\ DOMAIN nt'[n].callbacks = DOMAIN nt[n].callbacks
  <2> DEFINE t == Given(nt[n], used)
  <2>1. nt[n] \in NotifierType
    BY TypedParts
  <2>2. /\ t \in NotifierType
        /\ t.alive = nt[n].alive /\ t.hasRun = nt[n].hasRun /\ t.list = nt[n].list /\ t.index = nt[n].index
        /\ t.have = nt[n].have /\ t.added = nt[n].added /\ t.callbacks = nt[n].callbacks
    BY <1>3, <2>1, GivenOne
  <2>3. nt'[n] = IF gets(n) THEN t ELSE nt[n]
    BY <1>4
  <2> HIDE DEF t
  <2>4. QED
    BY <2>1, <2>2, <2>3
<1>6. nt' \in [Notifiers -> NotifierType]
  <2> DEFINE after == nt'
  <2>1. after = [n \in Notifiers |-> after[n]] /\ \A n \in Notifiers : after[n] \in NotifierType
    BY <1>2, <1>5
  <2> HIDE DEF after
  <2>2. after \in [Notifiers -> NotifierType]
    BY <2>1
  <2>3. QED
    BY <2>2 DEF after
<1>7. SameLists
  BY <1>5, <1>6 DEF SameLists
<1> DEFINE pc == IF th[r].calls = <<>> THEN "idle" ELSE "tell"
           job == IF th[r].calls = <<>> THEN "none" ELSE th[r].job
           u == [th[r] EXCEPT !.pc = pc, !.job = job]
<1>8. th[r] \in ThreadType /\ th' = [th EXCEPT ![r] = u]
  BY TypedParts DEF Deliver
<1>9. pc \in {"idle", "tell"} /\ job \in {"none", "begin", "refresh", "notify"}
  BY <1>8 DEF ThreadType
<1> HIDE DEF pc, job
<1>10. u \in ThreadType /\ u.calls = th[r].calls /\ u.package = th[r].package /\ u.pc = pc /\ u.job = job
  BY <1>8, <1>9 DEF ThreadType
<1> HIDE DEF u
<1>11. OnlyThread(r, u)
  BY <1>8, <1>10 DEF OnlyThread
<1>12. IF th[r].calls = <<>> THEN u.pc = "idle" /\ u.job = "none" ELSE u.pc = "tell" /\ u.job = th[r].job
  BY <1>10 DEF pc, job
<1>13. QED
  BY <1>1, <1>4, <1>7, <1>10, <1>11, <1>12 DEF gets

\* Handing over the rows keeps the types.
LEMMA DeliverTyped ==
  ASSUME Typed, NEW r \in Realms, Deliver(r)
  PROVE  Typed'
<1>1. /\ SameLists /\ UNCHANGED <<latest, touched, writer, rv, co, wk>>
      /\ th[r].pc \in {"changed", "ready"}
      /\ \E t : /\ OnlyThread(r, t) /\ t.calls = th[r].calls /\ t.package = th[r].package
                /\ IF th[r].calls = <<>> THEN t.pc = "idle" /\ t.job = "none"
                   ELSE t.pc = "tell" /\ t.job = th[r].job
  BY DeliverParts
<1>2. PICK t : /\ OnlyThread(r, t) /\ t.calls = th[r].calls /\ t.package = th[r].package
               /\ IF th[r].calls = <<>> THEN t.pc = "idle" /\ t.job = "none"
                  ELSE t.pc = "tell" /\ t.job = th[r].job
  BY <1>1
<1>3. /\ th' \in [Realms -> ThreadType] /\ th'[r] = t
      /\ \A s \in Realms \ {r} : th'[s] = th[s]
  BY <1>2, OneThread
<1>4. CallsOwn'
  BY <1>1, <1>2, <1>3, CalledExist DEF Typed, CallsOwn, CallsOf, SameLists
<1>5. writer' # none => latest' < MaxVersion
  BY <1>1 DEF Typed, Counted
<1>6. Counted'
  BY <1>1, <1>3, <1>5, CountedStays
<1>7. QED
  BY <1>1, <1>3, <1>4, <1>6, TypedParts DEF Typed, RTypeOK, SameLists

\* The notifier whose turn it is.
LEMMA WhoseTurn ==
  ASSUME Typed, NEW r \in Realms, th[r].calls # <<>>
  PROVE  /\ Head(th[r].calls) \in Notifiers /\ Owner[Head(th[r].calls)] = r /\ nt[Head(th[r].calls)].hasRun
         /\ Delivering(Head(th[r].calls))
         /\ Tail(th[r].calls) \in Seq(Notifiers)
         /\ \A k \in DOMAIN Tail(th[r].calls) : k + 1 \in DOMAIN th[r].calls /\ Tail(th[r].calls)[k] = th[r].calls[k + 1]
         /\ \A k \in DOMAIN th[r].calls : th[r].calls[k] = Head(th[r].calls) \/ k - 1 \in DOMAIN Tail(th[r].calls)
<1> DEFINE q == th[r].calls
<1>1. q \in Seq(Notifiers) /\ q # <<>>
  BY TypedParts DEF ThreadType
<1>2. \A k \in DOMAIN q : Owner[q[k]] = r /\ nt[q[k]].hasRun
  BY DEF Typed, CallsOwn, CallsOf
<1>3. th[r].calls = q
  OBVIOUS
<1> HIDE DEF q
<1>4. /\ 1 \in DOMAIN q /\ Head(q) = q[1] /\ Head(q) \in Notifiers /\ Tail(q) \in Seq(Notifiers)
      /\ \A k \in DOMAIN Tail(q) : k + 1 \in DOMAIN q /\ Tail(q)[k] = q[k + 1]
      /\ \A k \in DOMAIN q : k = 1 \/ k - 1 \in DOMAIN Tail(q)
  BY <1>1
<1>5. Owner[Head(q)] = r /\ nt[Head(q)].hasRun
  BY <1>2, <1>4
<1>6. Delivering(Head(q))
  BY <1>3, <1>4, <1>5 DEF Delivering
<1>7. QED
  BY <1>3, <1>4, <1>5, <1>6

\* A notifier stays one when its turn moves.
LEMMA TurnOver ==
  ASSUME NEW s \in NotifierType, NEW i \in 0 .. MaxCallbacks
  PROVE  [s EXCEPT !.index = i] \in NotifierType
BY DEF NotifierType

\* The callbacks of n that are still to be called.
ToDo(n) == {i \in DOMAIN nt[n].callbacks : nt[n].index < i /\ i <= nt[n].count /\ HasNews(nt[n].callbacks[i])}

\* All of them are called, and the next notifier has its turn.
TurnEnds(r, n) ==
  /\ ToDo(n) = {}
  /\ OnlyNotifier(n, [nt[n] EXCEPT !.index = 0])
  /\ \E t : /\ OnlyThread(r, t) /\ t.calls = Tail(th[r].calls) /\ t.package = th[r].package
            /\ IF t.calls = <<>> THEN t.pc = "idle" /\ t.job = "none" ELSE t.pc = "tell" /\ t.job = th[r].job

\* Callback i is called.
BlockRuns(r, n, i) ==
  /\ i \in ToDo(n) /\ \A j \in ToDo(n) : i <= j
  /\ Told(nt[n].callbacks[i], rv[r]) \in CallbackType
  /\ OnlyNotifier(n, [nt[n] EXCEPT !.index = i,
                                   !.callbacks = [nt[n].callbacks EXCEPT ![i] = Told(nt[n].callbacks[i], rv[r])]])
  /\ \E t : /\ OnlyThread(r, t) /\ t.calls = th[r].calls /\ t.package = th[r].package
            /\ t.pc = "callback" /\ t.job = th[r].job

\* What calling the next block leaves alone, and its two cases.
LEMMA CallNextParts ==
  ASSUME Typed, NEW r \in Realms, CallNext(r)
  PROVE  /\ UNCHANGED <<latest, touched, writer, rv, co, wk>>
         /\ th[r].pc \in {"tell", "callback"} /\ th[r].calls # <<>>
         /\ (writer = r => th[r].job = "begin") /\ ~Committing(r)
         /\ TurnEnds(r, Head(th[r].calls)) \/ \E i \in ToDo(Head(th[r].calls)) : BlockRuns(r, Head(th[r].calls), i)
<1> DEFINE n == Head(th[r].calls)
<1>1. /\ UNCHANGED <<latest, touched, writer, rv, co, wk>>
      /\ th[r].pc \in {"tell", "callback"} /\ th[r].calls # <<>>
      /\ (writer = r => th[r].job = "begin") /\ ~Committing(r)
  BY DEF CallNext, Typed, CallsOwn, CallsOf
<1>2. n \in Notifiers /\ Owner[n] = r /\ Tail(th[r].calls) \in Seq(Notifiers)
  BY <1>1, WhoseTurn
<1>3. nt[n] \in NotifierType /\ nt[n].callbacks \in Seq(CallbackType) /\ th[r] \in ThreadType /\ rv[r] \in Versions
  BY <1>2, TypedParts DEF NotifierType
<1>4. CASE ToDo(n) = {}
  <2> DEFINE rest == Tail(th[r].calls)
             pc == IF rest = <<>> THEN "idle" ELSE "tell"
             job == IF rest = <<>> THEN "none" ELSE th[r].job
             t == [th[r] EXCEPT !.calls = rest, !.pc = pc, !.job = job]
             s == [nt[n] EXCEPT !.index = 0]
  <2>1. nt' = [nt EXCEPT ![n] = s] /\ th' = [th EXCEPT ![r] = t]
    <3>1. nt' = [nt EXCEPT ![n].index = 0] /\ th' = [th EXCEPT ![r] = t]
      BY <1>4 DEF CallNext, ToDo
    <3>2. QED
      BY <3>1
  <2>2. s \in NotifierType
    <3>1. 0 \in 0 .. MaxCallbacks
      BY BoundsAssumption
    <3>2. QED
      BY <1>3, <3>1, TurnOver
  <2>3. pc \in {"idle", "tell"} /\ job \in {"none", "begin", "refresh", "notify"} /\ rest \in Seq(Notifiers)
    BY <1>2, <1>3 DEF ThreadType
  <2>4. IF rest = <<>> THEN pc = "idle" /\ job = "none" ELSE pc = "tell" /\ job = th[r].job
    OBVIOUS
  <2>5. OnlyNotifier(n, s)
    BY <2>1, <2>2 DEF OnlyNotifier
  <2> HIDE DEF rest, pc, job, s
  <2>6. t \in ThreadType /\ t.calls = rest /\ t.package = th[r].package /\ t.pc = pc /\ t.job = job
    BY <1>3, <2>3 DEF ThreadType
  <2> HIDE DEF t
  <2>7. OnlyThread(r, t)
    BY <2>1, <2>6 DEF OnlyThread
  <2>8. \E u : /\ OnlyThread(r, u) /\ u.calls = rest /\ u.package = th[r].package
               /\ IF u.calls = <<>> THEN u.pc = "idle" /\ u.job = "none" ELSE u.pc = "tell" /\ u.job = th[r].job
    BY <2>4, <2>6, <2>7
  <2>9. TurnEnds(r, n)
    BY <1>4, <2>5, <2>8 DEF TurnEnds, rest, s
  <2>10. QED
    BY <1>1, <2>9
<1>5. CASE ToDo(n) # {}
  <2> DEFINE i == Min(ToDo(n))
             c == Told(nt[n].callbacks[i], rv[r])
             q == [nt[n].callbacks EXCEPT ![i] = c]
             s == [nt[n] EXCEPT !.index = i, !.callbacks = q]
             t == [th[r] EXCEPT !.pc = "callback"]
  <2>1. ToDo(n) \in SUBSET Nat /\ ToDo(n) \subseteq DOMAIN nt[n].callbacks
    BY <1>3 DEF ToDo
  <2>2. i \in ToDo(n) /\ \A j \in ToDo(n) : i <= j
    BY <1>5, <2>1, FirstOfThem
  <2>3. nt' = [nt EXCEPT ![n] = s] /\ th' = [th EXCEPT ![r] = t]
    <3>1. ToDo(n) = {k \in DOMAIN nt[n].callbacks :
                       nt[n].index < k /\ k <= nt[n].count /\ HasNews(nt[n].callbacks[k])}
      BY DEF ToDo
    <3>2. /\ nt' = [nt EXCEPT ![n] = [nt[n] EXCEPT !.index = i, !.callbacks[i] = Told(@, rv[r])]]
          /\ th' = [th EXCEPT ![r].pc = "callback"]
      BY <1>5, <3>1 DEF CallNext
    <3> HIDE DEF i
    <3>3. [nt[n] EXCEPT !.index = i, !.callbacks[i] = Told(@, rv[r])] = s
      BY <1>3 DEF NotifierType
    <3>4. QED
      BY <3>2, <3>3
  <2> HIDE DEF i
  <2>4. /\ nt[n].callbacks[i] \in CallbackType /\ i \in DOMAIN nt[n].callbacks
        /\ i \in Nat /\ i <= Len(nt[n].callbacks) /\ Len(nt[n].callbacks) <= MaxCallbacks
    BY <1>2, <1>3, <2>1, <2>2, FewCallbacks
  <2>5. c \in CallbackType
    <3> DEFINE d == nt[n].callbacks[i]
               w == rv[r]
    <3>1. d \in CallbackType /\ w \in 0 .. MaxVersion /\ c = Told(d, w)
      BY <1>3, <2>4 DEF Versions
    <3> HIDE DEF d, w
    <3>2. Told(d, w) \in CallbackType
      BY <3>1 DEF Told, CallbackType
    <3>3. QED
      BY <3>1, <3>2
  <2>6. Told(nt[n].callbacks[i], rv[r]) \in CallbackType
    BY <2>5
  <2> HIDE DEF c
  <2>7. q \in Seq(CallbackType)
    BY <1>3, <2>4, <2>5, ExceptSeq
  <2>8. i \in 0 .. MaxCallbacks
    BY <2>4, BoundsAssumption
  <2> HIDE DEF q
  <2>9. s \in NotifierType
    BY <1>3, <2>7, <2>8 DEF NotifierType
  <2>10. t \in ThreadType /\ t.calls = th[r].calls /\ t.package = th[r].package /\ t.pc = "callback" /\ t.job = th[r].job
    BY <1>3 DEF ThreadType
  <2> HIDE DEF t
  <2>11. OnlyThread(r, t)
    BY <2>3, <2>10 DEF OnlyThread
  <2>12. OnlyNotifier(n, s)
    BY <2>3, <2>9 DEF OnlyNotifier
  <2>13. BlockRuns(r, n, i)
    BY <2>2, <2>6, <2>10, <2>11, <2>12 DEF BlockRuns, q, c
  <2>14. QED
    BY <1>1, <2>2, <2>13
<1>6. QED
  BY <1>4, <1>5

\* Calling the next block keeps the types.
LEMMA CallNextTyped ==
  ASSUME Typed, NEW r \in Realms, CallNext(r)
  PROVE  Typed'
<1>1. /\ UNCHANGED <<latest, touched, writer, rv, co, wk>>
      /\ th[r].pc \in {"tell", "callback"} /\ th[r].calls # <<>>
  BY CallNextParts
<1>2. PICK n \in Notifiers : n = Head(th[r].calls)
  BY <1>1, WhoseTurn
<1>3. /\ Owner[n] = r /\ Tail(th[r].calls) \in Seq(Notifiers)
      /\ \A k \in DOMAIN Tail(th[r].calls) : k + 1 \in DOMAIN th[r].calls /\ Tail(th[r].calls)[k] = th[r].calls[k + 1]
  BY <1>1, <1>2, WhoseTurn
<1>4. TurnEnds(r, n) \/ \E i \in ToDo(n) : BlockRuns(r, n, i)
  BY <1>2, CallNextParts
<1>5. /\ nt[n] \in NotifierType /\ nt[n].callbacks \in Seq(CallbackType)
      /\ \A m \in Notifiers \ {n} : Owner[m] = r => nt[m].index = 0
      /\ \A m \in Notifiers : Position(m) /\ Counts(m) /\ Owner[m] \in Realms
  BY <1>2, TypedParts, OwnerAssumption DEF NotifierType, Typed, Counted, Position
<1>6. CASE TurnEnds(r, n)
  <2> DEFINE s == [nt[n] EXCEPT !.index = 0]
  <2>1. OnlyNotifier(n, s)
    BY <1>6 DEF TurnEnds
  <2>2. PICK t : /\ OnlyThread(r, t) /\ t.calls = Tail(th[r].calls) /\ t.package = th[r].package
                 /\ IF t.calls = <<>> THEN t.pc = "idle" /\ t.job = "none" ELSE t.pc = "tell" /\ t.job = th[r].job
    BY <1>6 DEF TurnEnds
  <2>3. /\ s.alive = nt[n].alive /\ s.hasRun = nt[n].hasRun /\ s.list = nt[n].list
        /\ s.index = 0 /\ s.have = nt[n].have /\ s.added = nt[n].added /\ s.callbacks = nt[n].callbacks
    BY <1>5 DEF NotifierType
  <2> HIDE DEF s
  <2>4. /\ nt' \in [Notifiers -> NotifierType] /\ nt'[n] = s
        /\ \A m \in Notifiers \ {n} : nt'[m] = nt[m]
    BY <2>1, OneNotifier
  <2>5. /\ th' \in [Realms -> ThreadType] /\ th'[r] = t
        /\ \A q \in Realms \ {r} : th'[q] = th[q]
    BY <2>2, OneThread
  <2>6. CallsOwn'
    <3>1. \A m \in Notifiers : nt'[m].hasRun = nt[m].hasRun /\ nt'[m].alive = nt[m].alive
      BY <2>3, <2>4
    <3>2. \A k \in DOMAIN t.calls : Owner[t.calls[k]] = r /\ nt[t.calls[k]].hasRun /\ t.calls[k] \in Notifiers
      BY <1>3, <2>2, CalledExist DEF Typed, CallsOwn, CallsOf
    <3>3. (t.pc \in {"idle", "wait"} => t.calls = <<>>) /\ (t.pc \in {"tell", "callback"} => t.calls # <<>>) /\ t.pc # "wait"
          /\ (t.job = "begin" /\ t.pc # "idle" => th[r].job = "begin")
      BY <2>2
    <3>4. CallsOf(r)'
      <4>1. CallsOf(r)
        BY DEF Typed, CallsOwn
      <4>2. th[r].job = "begin" => writer' = r
        BY <1>1, <4>1 DEF CallsOf
      <4>3. \A m \in t.package : Owner[m] = r
        BY <2>2, <4>1 DEF CallsOf
      <4>4. \A k \in DOMAIN t.calls : Owner[t.calls[k]] = r /\ nt'[t.calls[k]].hasRun
        BY <3>1, <3>2
      <4>5. QED
        BY <2>5, <3>3, <4>2, <4>3, <4>4 DEF CallsOf
    <3>5. \A u \in Realms \ {r} : CallsOf(u)'
      BY <1>1, <2>5, <3>1, CalledExist DEF Typed, CallsOwn, CallsOf
    <3>6. QED
      BY <3>4, <3>5 DEF CallsOwn
  <2>7. Counted'
    <3>1. \A m \in Notifiers : Counts(m)'
      BY <1>5, <2>3, <2>4 DEF Counts
    <3>2. \A m \in Notifiers : Position(m)'
      <4>1. Position(n)'
        BY <1>5, <2>3, <2>4 DEF Position, NotifierType
      <4>2. \A m \in Notifiers \ {n} : Position(m)'
        BY <1>5, <2>4, <2>5 DEF Position
      <4>3. QED
        BY <4>1, <4>2
    <3>3. QED
      BY <1>1, <3>1, <3>2 DEF Typed, Counted
  <2>8. QED
    BY <1>1, <2>4, <2>5, <2>6, <2>7, TypedParts DEF Typed, RTypeOK
<1>7. ASSUME NEW i \in ToDo(n), BlockRuns(r, n, i)
      PROVE  Typed'
  <2> DEFINE q == [nt[n].callbacks EXCEPT ![i] = Told(nt[n].callbacks[i], rv[r])]
             s == [nt[n] EXCEPT !.index = i, !.callbacks = q]
  <2>1. OnlyNotifier(n, s) /\ Told(nt[n].callbacks[i], rv[r]) \in CallbackType
    BY <1>7 DEF BlockRuns
  <2>2. PICK t : /\ OnlyThread(r, t) /\ t.calls = th[r].calls /\ t.package = th[r].package
                 /\ t.pc = "callback" /\ t.job = th[r].job
    BY <1>7 DEF BlockRuns
  <2>3. i \in DOMAIN nt[n].callbacks
    BY DEF ToDo
  <2>4. q \in Seq(CallbackType) /\ Len(q) = Len(nt[n].callbacks) /\ (q = <<>> <=> nt[n].callbacks = <<>>)
    BY <1>5, <2>1, <2>3, ExceptSeq
  <2> HIDE DEF q
  <2>5. /\ s.alive = nt[n].alive /\ s.hasRun = nt[n].hasRun /\ s.list = nt[n].list
        /\ s.index = i /\ s.have = nt[n].have /\ s.added = nt[n].added /\ s.callbacks = q
    BY <1>5 DEF NotifierType
  <2> HIDE DEF s
  <2>6. /\ nt' \in [Notifiers -> NotifierType] /\ nt'[n] = s
        /\ \A m \in Notifiers \ {n} : nt'[m] = nt[m]
    BY <2>1, OneNotifier
  <2>7. /\ th' \in [Realms -> ThreadType] /\ th'[r] = t
        /\ \A u \in Realms \ {r} : th'[u] = th[u]
    BY <2>2, OneThread
  <2>8. CallsOwn'
    <3>1. \A m \in Notifiers : nt'[m].hasRun = nt[m].hasRun /\ nt'[m].alive = nt[m].alive
      BY <2>5, <2>6
    <3>2. QED
      BY <1>1, <2>2, <2>7, <3>1, CalledExist DEF Typed, CallsOwn, CallsOf
  <2>9. Counted'
    <3>1. \A m \in Notifiers : Counts(m)'
      <4>1. Counts(n)'
        BY <1>5, <2>4, <2>5, <2>6 DEF Counts
      <4>2. \A m \in Notifiers \ {n} : Counts(m)'
        BY <1>5, <2>6 DEF Counts
      <4>3. QED
        BY <4>1, <4>2
    <3>2. \A m \in Notifiers : Position(m)'
      <4>1. i <= Len(nt[n].callbacks)
        BY <1>5, <2>3
      <4>2. Position(n)'
        BY <1>2, <1>3, <2>2, <2>4, <2>5, <2>6, <2>7, <4>1 DEF Position
      <4>3. \A m \in Notifiers \ {n} : Position(m)'
        BY <1>5, <2>6, <2>7 DEF Position
      <4>4. QED
        BY <4>2, <4>3
    <3>3. QED
      BY <1>1, <3>1, <3>2 DEF Typed, Counted
  <2>10. QED
    BY <1>1, <2>6, <2>7, <2>8, <2>9, TypedParts DEF Typed, RTypeOK
<1>8. QED
  BY <1>4, <1>6, <1>7

---------------------------------------------------------------------------------
\* The worker leaves to the notifiers what the threads rely on.
LEMMA WorkerKeeps ==
  ASSUME Typed, UNCHANGED <<latest, touched, writer, rv, th>>,
         nt' \in [Notifiers -> NotifierType], co' \in CoordinatorType, wk' \in WorkerType,
         \A n \in Notifiers :
           /\ nt'[n].alive = nt[n].alive /\ (nt[n].hasRun => nt'[n].hasRun)
           /\ nt'[n].index = nt[n].index /\ nt'[n].have = nt[n].have /\ nt'[n].added = nt[n].added
           /\ DOMAIN nt'[n].callbacks = DOMAIN nt[n].callbacks
           /\ nt[n].alive /\ nt[n].list \in {"new", "main"} => nt'[n].list \in {"new", "main"}
  PROVE  Typed'
<1>1. CallsOwn'
  BY CallsOwnStays
<1>2. ASSUME NEW n \in Notifiers
      PROVE  Position(n)' /\ Counts(n)'
  <2>1. nt[n].callbacks \in Seq(CallbackType) /\ nt'[n].callbacks \in Seq(CallbackType)
    BY TypedParts DEF NotifierType
  <2>2. DOMAIN nt[n].callbacks = DOMAIN nt'[n].callbacks
    OBVIOUS
  <2>3. /\ Len(nt'[n].callbacks) = Len(nt[n].callbacks)
        /\ nt'[n].callbacks = <<>> <=> nt[n].callbacks = <<>>
    BY <2>1, <2>2
  <2>4. Position(n) /\ Counts(n)
    BY DEF Typed, Counted
  <2>5. Position(n)'
    BY <2>3, <2>4 DEF Position
  <2>6. Counts(n)'
    BY <2>3, <2>4 DEF Counts
  <2>7. QED
    BY <2>5, <2>6
<1>3. Counted'
  BY <1>2 DEF Typed, Counted
<1>4. QED
  BY <1>1, <1>3, TypedParts DEF Typed, RTypeOK

\* The list a notifier is in is the only thing that changes.
ListsOnly(s, t) ==
  /\ t \in NotifierType
  /\ t.alive = s.alive /\ t.hasRun = s.hasRun /\ t.index = s.index
  /\ t.have = s.have /\ t.added = s.added /\ t.version = s.version /\ t.count = s.count
  /\ t.changes = s.changes /\ t.prev = s.prev /\ t.wants = s.wants /\ t.callbacks = s.callbacks
  /\ t.tvHandover = s.tvHandover /\ t.tvDeliver = s.tvDeliver

\* Moving a notifier to another list changes nothing else.
LEMMA ListChanged ==
  ASSUME NEW s \in NotifierType, NEW l \in {"main", "gone"}, NEW t, t = [s EXCEPT !.list = l]
  PROVE  ListsOnly(s, t) /\ t.list = l
BY DEF NotifierType, ListsOnly

\* What burying the dead makes of one notifier.
LEMMA BuriedTyped ==
  ASSUME Typed, NEW n \in Notifiers
  PROVE  /\ ListsOnly(nt[n], Buried[n])
         /\ Buried[n].list = IF nt[n].list \in {"new", "main"} /\ ~nt[n].alive THEN "gone" ELSE nt[n].list
<1>1. nt[n] \in NotifierType
  BY TypedParts
<1>2. CASE nt[n].list \in {"new", "main"} /\ ~nt[n].alive
  <2>1. Buried[n] = [nt[n] EXCEPT !.list = "gone"]
    BY <1>2 DEF Buried
  <2> DEFINE t == Buried[n]
  <2>2. t = [nt[n] EXCEPT !.list = "gone"]
    BY <2>1
  <2> HIDE DEF t
  <2>3. ListsOnly(nt[n], t) /\ t.list = "gone"
    BY <1>1, <2>2, ListChanged
  <2>4. QED
    BY <1>2, <2>3 DEF t
<1>3. CASE ~(nt[n].list \in {"new", "main"} /\ ~nt[n].alive)
  <2>1. Buried[n] = nt[n]
    BY <1>3 DEF Buried
  <2>2. QED
    BY <1>1, <1>3, <2>1 DEF ListsOnly
<1>4. QED
  BY <1>2, <1>3

\* Cleaning up gives a coordinator's state.
LEMMA CleanedUpTyped ==
  ASSUME Typed
  PROVE  CleanedUp(co) \in CoordinatorType
<1> DEFINE a == IF Listed("main") # {} /\ Living("main") = {} THEN 0 ELSE co.notifierSG
           b == IF Listed("main") # {} /\ Living("main") = {} THEN 0 ELSE co.skip
           c == IF Listed("new") # {} /\ Living("new") = {} THEN 0 ELSE co.advancer
<1>1. CleanedUp(co) = [co EXCEPT !.notifierSG = a, !.skip = b, !.advancer = c]
  BY DEF CleanedUp
<1>2. co \in CoordinatorType
  BY TypedParts
<1>3. a \in 0 .. MaxVersion /\ b \in 0 .. MaxVersion /\ c \in 0 .. MaxVersion
  BY <1>2, BoundsAssumption DEF CoordinatorType
<1> HIDE DEF a, b, c
<1>4. QED
  BY <1>1, <1>2, <1>3 DEF CoordinatorType

\* What the notifiers are when the worker starts.
StartedAs(n) == IF n \in Living("new") THEN [nt[n] EXCEPT !.list = "main"] ELSE Buried[n]

\* What the worker's start makes of one notifier.
LEMMA StartedTyped ==
  ASSUME Typed, NEW n \in Notifiers
  PROVE  /\ ListsOnly(nt[n], StartedAs(n))
         /\ nt[n].alive /\ nt[n].list \in {"new", "main"} => StartedAs(n).list = "main"
<1>1. nt[n] \in NotifierType
  BY TypedParts
<1>2. CASE n \in Living("new")
  <2>1. StartedAs(n) = [nt[n] EXCEPT !.list = "main"]
    BY <1>2 DEF StartedAs
  <2> DEFINE t == StartedAs(n)
  <2>2. t = [nt[n] EXCEPT !.list = "main"]
    BY <2>1
  <2> HIDE DEF t
  <2>3. ListsOnly(nt[n], t) /\ t.list = "main"
    BY <1>1, <2>2, ListChanged
  <2>4. QED
    BY <2>3 DEF t
<1>3. CASE n \notin Living("new")
  <2>1. StartedAs(n) = Buried[n]
    BY <1>3 DEF StartedAs
  <2>2. nt[n].alive => nt[n].list # "new"
    BY <1>3 DEF Living, Listed
  <2>3. QED
    BY <2>1, <2>2, BuriedTyped
<1>4. QED
  BY <1>2, <1>3

\* Functions over the notifiers.
LEMMA NotifiersTyped ==
  ASSUME NEW f, f = [n \in Notifiers |-> f[n]], \A n \in Notifiers : f[n] \in NotifierType
  PROVE  f \in [Notifiers -> NotifierType]
<1> HIDE DEF NotifierType
<1>1. QED
  OBVIOUS

\* When the worker starts it only moves notifiers from list to list.
LEMMA WorkerStartParts ==
  ASSUME Typed, WorkerStart
  PROVE  /\ UNCHANGED <<latest, touched, writer, rv, th>> /\ wk.pc = "idle" /\ co.signal
         /\ \/ /\ Living("main") \cup Living("new") = {}
               /\ co' = [WakeAll(CleanedUp(co)) EXCEPT !.signal = FALSE]
               /\ wk' = [wk EXCEPT !.pc = "announce"]
               /\ \A n \in Notifiers : nt'[n] = Buried[n]
            \/ /\ Living("main") \cup Living("new") # {}
               /\ co' = [CleanedUp(co) EXCEPT !.signal = FALSE, !.skip = 0, !.advancer = 0,
                                              !.notifierSG = IF Living("main") = {} THEN latest ELSE @]
               /\ wk' = [wk EXCEPT !.pc = "advance", !.old = Living("main"), !.new = Living("new"),
                                   !.targets = TargetsOf(CleanedUp(co).skip)]
               /\ \A n \in Notifiers : nt'[n] = StartedAs(n)
         /\ nt' \in [Notifiers -> NotifierType]
         /\ \A n \in Notifiers :
              /\ ListsOnly(nt[n], nt'[n])
              /\ nt[n].alive /\ nt[n].list \in {"new", "main"} => nt'[n].list \in {"new", "main"}
<1>1. UNCHANGED <<latest, touched, writer, rv, th>> /\ wk.pc = "idle" /\ co.signal
  BY DEF WorkerStart
<1>2. CASE Living("main") \cup Living("new") = {}
  <2>1. /\ co' = [WakeAll(CleanedUp(co)) EXCEPT !.signal = FALSE]
        /\ wk' = [wk EXCEPT !.pc = "announce"]
        /\ nt' = Buried
    BY <1>2 DEF WorkerStart
  <2>2. Buried = [n \in Notifiers |-> Buried[n]]
    BY DEF Buried
  <2>3. ASSUME NEW n \in Notifiers
        PROVE  /\ nt'[n] = Buried[n] /\ nt'[n] \in NotifierType /\ ListsOnly(nt[n], nt'[n])
               /\ nt[n].alive /\ nt[n].list \in {"new", "main"} => nt'[n].list \in {"new", "main"}
    BY <2>1, BuriedTyped DEF ListsOnly
  <2>4. nt' \in [Notifiers -> NotifierType]
    BY <2>1, <2>2, <2>3, NotifiersTyped
  <2>5. QED
    BY <1>1, <1>2, <2>1, <2>3, <2>4
<1>3. CASE Living("main") \cup Living("new") # {}
  <2>1. /\ co' = [CleanedUp(co) EXCEPT !.signal = FALSE, !.skip = 0, !.advancer = 0,
                                       !.notifierSG = IF Living("main") = {} THEN latest ELSE @]
        /\ wk' = [wk EXCEPT !.pc = "advance", !.old = Living("main"), !.new = Living("new"),
                            !.targets = TargetsOf(CleanedUp(co).skip)]
        /\ nt' = [n \in Notifiers |-> StartedAs(n)]
    BY <1>3 DEF WorkerStart, StartedAs
  <2>2. \A n \in Notifiers : nt'[n] = StartedAs(n)
    BY <2>1
  <2>3. ASSUME NEW n \in Notifiers
        PROVE  /\ nt'[n] \in NotifierType /\ ListsOnly(nt[n], nt'[n])
               /\ nt[n].alive /\ nt[n].list \in {"new", "main"} => nt'[n].list \in {"new", "main"}
    BY <2>2, StartedTyped DEF ListsOnly
  <2>4. nt' = [n \in Notifiers |-> nt'[n]]
    BY <2>1
  <2>5. nt' \in [Notifiers -> NotifierType]
    BY <2>3, <2>4, NotifiersTyped
  <2>6. QED
    BY <1>1, <1>3, <2>1, <2>2, <2>3, <2>5
<1>4. QED
  BY <1>2, <1>3

\* The worker's first step keeps the types.
LEMMA WorkerStartTyped ==
  ASSUME Typed, WorkerStart
  PROVE  Typed'
<1>1. /\ UNCHANGED <<latest, touched, writer, rv, th>> /\ nt' \in [Notifiers -> NotifierType]
      /\ \A n \in Notifiers :
           /\ ListsOnly(nt[n], nt'[n])
           /\ nt[n].alive /\ nt[n].list \in {"new", "main"} => nt'[n].list \in {"new", "main"}
  BY WorkerStartParts
<1>2. \/ /\ co' = [WakeAll(CleanedUp(co)) EXCEPT !.signal = FALSE]
         /\ wk' = [wk EXCEPT !.pc = "announce"]
      \/ /\ co' = [CleanedUp(co) EXCEPT !.signal = FALSE, !.skip = 0, !.advancer = 0,
                                        !.notifierSG = IF Living("main") = {} THEN latest ELSE @]
         /\ wk' = [wk EXCEPT !.pc = "advance", !.old = Living("main"), !.new = Living("new"),
                             !.targets = TargetsOf(CleanedUp(co).skip)]
  BY WorkerStartParts
<1> DEFINE c == CleanedUp(co)
           old == Living("main")
           new == Living("new")
           targets == TargetsOf(c.skip)
<1>3. c \in CoordinatorType /\ wk \in WorkerType /\ latest \in Versions
  BY CleanedUpTyped, TypedParts
<1>4. old \in SUBSET Notifiers /\ new \in SUBSET Notifiers
  BY DEF Living, Listed
<1>5. targets \in Seq(Versions)
  <2>1. c.skip \in 0 .. MaxVersion
    BY <1>3 DEF CoordinatorType
  <2>2. c.skip # 0 => c.skip \in Versions
    BY <2>1, BoundsAssumption DEF Versions
  <2> DEFINE k == c.skip
             s == Versions
  <2> HIDE DEF k, s
  <2>3. k # 0 => k \in s
    BY <2>2 DEF k, s
  <2>4. latest \in s
    BY <1>3 DEF s
  <2>5. TargetsOf(k) \in Seq(s)
    BY <2>3, <2>4 DEF TargetsOf
  <2>6. QED
    BY <2>5 DEF k, s
<1>6. co' \in CoordinatorType /\ wk' \in WorkerType
  <2>1. CASE /\ co' = [WakeAll(c) EXCEPT !.signal = FALSE] /\ wk' = [wk EXCEPT !.pc = "announce"]
    <3> HIDE DEF c
    <3>1. QED
      BY <1>3, <2>1 DEF WakeAll, CoordinatorType, WorkerType
  <2>2. CASE /\ co' = [c EXCEPT !.signal = FALSE, !.skip = 0, !.advancer = 0,
                                !.notifierSG = IF old = {} THEN latest ELSE @]
             /\ wk' = [wk EXCEPT !.pc = "advance", !.old = old, !.new = new, !.targets = targets]
    <3> DEFINE g == IF old = {} THEN latest ELSE c.notifierSG
    <3>1. g \in 0 .. MaxVersion /\ 0 \in 0 .. MaxVersion
      BY <1>3, BoundsAssumption DEF CoordinatorType, Versions
    <3>2. co' = [c EXCEPT !.signal = FALSE, !.skip = 0, !.advancer = 0, !.notifierSG = g]
      BY <2>2
    <3> HIDE DEF c, g, old, new, targets
    <3>3. co' \in CoordinatorType
      BY <1>3, <3>1, <3>2 DEF CoordinatorType
    <3>4. wk' \in WorkerType
      BY <1>3, <1>4, <1>5, <2>2 DEF WorkerType
    <3>5. QED
      BY <3>3, <3>4
  <2>3. QED
    BY <1>2, <2>1, <2>2
<1>7. QED
  BY <1>1, <1>6, WorkerKeeps DEF ListsOnly

\* Advancing the worker's Realm keeps the types.
LEMMA WorkerAdvanceTyped ==
  ASSUME Typed, IInv, WorkerAdvance
  PROVE  Typed'
<1> DEFINE v == Head(wk.targets)
           info == {n \in wk.old : nt[n].hasRun /\ nt[n].have}
           from == co.notifierSG
<1>1. /\ UNCHANGED <<latest, touched, writer, rv, th, nt>> /\ wk.pc = "advance"
      /\ co' = [co EXCEPT !.notifierSG = v]
      /\ wk' = [wk EXCEPT !.pc = "run", !.from = from, !.info = info]
  BY DEF WorkerAdvance
<1>2. co \in CoordinatorType /\ wk \in WorkerType
  BY TypedParts
<1>3. v \in Versions
  <2>1. wk.targets \in Seq(Versions)
    BY <1>2 DEF WorkerType
  <2>2. Len(wk.targets) \in {1, 2}
    BY <1>1 DEF IInv, WorkerInv, WorkerIsFree
  <2>3. QED
    BY <2>1, <2>2
<1>4. info \in SUBSET Notifiers /\ from \in 0 .. MaxVersion
  BY <1>2 DEF WorkerType, CoordinatorType
<1>5. v \in 0 .. MaxVersion
  BY <1>3 DEF Versions
<1> HIDE DEF v, info, from
<1>6. co' \in CoordinatorType
  BY <1>1, <1>2, <1>5 DEF CoordinatorType
<1>7. wk' \in WorkerType
  BY <1>1, <1>2, <1>4 DEF WorkerType
<1>8. nt' = nt /\ nt \in [Notifiers -> NotifierType]
  BY <1>1, TypedParts
<1>9. QED
  BY <1>1, <1>6, <1>7, <1>8, WorkerKeeps

\* What a query that ran leaves in its notifier.
Ran(s, changes, v) == [s EXCEPT !.changes = changes, !.prev = v, !.tv = TRUE]

\* What running its query makes of one notifier.
LEMMA RanOne ==
  ASSUME NEW s \in NotifierType, NEW changes \in SUBSET (0 .. MaxVersion), NEW v \in 0 .. MaxVersion,
         NEW t, t = Ran(s, changes, v)
  PROVE  /\ t \in NotifierType
         /\ t.list = s.list /\ t.alive = s.alive /\ t.hasRun = s.hasRun /\ t.index = s.index
         /\ t.have = s.have /\ t.added = s.added /\ t.version = s.version /\ t.count = s.count
         /\ t.changes = changes /\ t.prev = v /\ t.wants = s.wants /\ t.callbacks = s.callbacks
         /\ t.tvHandover = s.tvHandover /\ t.tvDeliver = s.tvDeliver
BY DEF Ran, NotifierType

\* The changes are those seen since the rows the notifier has, and 0.
LEMMA CalculatedWithin ==
  ASSUME Typed, NEW n \in Notifiers
  PROVE  /\ CalculatedChanges(n) \in SUBSET (0 .. MaxVersion)
         /\ \A v \in CalculatedChanges(n) : v <= co.notifierSG /\ (v = 0 \/ v \in ChangedIn(nt[n].prev, co.notifierSG))
<1> DEFINE seen == ChangedIn(nt[n].prev, co.notifierSG)
<1>1. touched \subseteq Versions /\ co.notifierSG \in 0 .. MaxVersion /\ MaxVersion \in Nat
  BY TypedParts, BoundsAssumption DEF CoordinatorType
<1>2. seen \subseteq 0 .. MaxVersion /\ \A v \in seen : v <= co.notifierSG
  <2>1. \A v \in touched : v \in 0 .. MaxVersion
    BY <1>1 DEF Versions
  <2>2. \A v \in seen : v \in touched /\ v <= co.notifierSG
    BY DEF ChangedIn
  <2>3. QED
    BY <2>1, <2>2
<1>3. CalculatedChanges(n) \in {{}, seen, seen \cup {0}}
  BY DEF CalculatedChanges
<1>4. 0 <= co.notifierSG /\ 0 \in 0 .. MaxVersion
  BY <1>1
<1> HIDE DEF seen
<1>5. CalculatedChanges(n) \subseteq seen \cup {0}
  BY <1>3
<1>6. CalculatedChanges(n) \in SUBSET (0 .. MaxVersion)
  BY <1>2, <1>4, <1>5
<1>7. \A v \in CalculatedChanges(n) : v <= co.notifierSG
  BY <1>2, <1>4, <1>5
<1>8. QED
  BY <1>5, <1>6, <1>7 DEF seen

\* The queries run; only the notifiers of the phase, and only rows and changes.
LEMMA WorkerRunParts ==
  ASSUME Typed, WorkerRun
  PROVE  /\ UNCHANGED <<latest, touched, writer, rv, th, co>> /\ wk.pc = "run"
         /\ wk' = [wk EXCEPT !.pc = "handover"]
         /\ nt' \in [Notifiers -> NotifierType]
         /\ \A n \in Notifiers :
              /\ nt'[n].list = nt[n].list /\ nt'[n].alive = nt[n].alive /\ nt'[n].hasRun = nt[n].hasRun
              /\ nt'[n].index = nt[n].index /\ nt'[n].have = nt[n].have /\ nt'[n].added = nt[n].added
              /\ nt'[n].version = nt[n].version /\ nt'[n].count = nt[n].count /\ nt'[n].wants = nt[n].wants
              /\ nt'[n].callbacks = nt[n].callbacks
              /\ nt'[n].tvHandover = nt[n].tvHandover /\ nt'[n].tvDeliver = nt[n].tvDeliver
              /\ IF n \in Phase /\ NeedToRun(n)
                 THEN nt'[n].changes = CalculatedChanges(n) /\ nt'[n].prev = co.notifierSG
                 ELSE nt'[n].changes = nt[n].changes /\ nt'[n].prev = nt[n].prev
<1>1. /\ UNCHANGED <<latest, touched, writer, rv, th, co>> /\ wk.pc = "run"
      /\ wk' = [wk EXCEPT !.pc = "handover"]
      /\ nt' = [n \in Notifiers |-> IF n \in Phase /\ NeedToRun(n)
                                    THEN Ran(nt[n], CalculatedChanges(n), co.notifierSG) ELSE nt[n]]
  BY DEF WorkerRun, Ran
<1>2. co.notifierSG \in 0 .. MaxVersion
  BY TypedParts DEF CoordinatorType
<1>3. ASSUME NEW n \in Notifiers
      PROVE  /\ nt'[n] \in NotifierType
             /\ nt'[n].list = nt[n].list /\ nt'[n].alive = nt[n].alive /\ nt'[n].hasRun = nt[n].hasRun
             /\ nt'[n].index = nt[n].index /\ nt'[n].have = nt[n].have /\ nt'[n].added = nt[n].added
             /\ nt'[n].version = nt[n].version /\ nt'[n].count = nt[n].count /\ nt'[n].wants = nt[n].wants
             /\ nt'[n].callbacks = nt[n].callbacks
             /\ nt'[n].tvHandover = nt[n].tvHandover /\ nt'[n].tvDeliver = nt[n].tvDeliver
             /\ IF n \in Phase /\ NeedToRun(n)
                THEN nt'[n].changes = CalculatedChanges(n) /\ nt'[n].prev = co.notifierSG
                ELSE nt'[n].changes = nt[n].changes /\ nt'[n].prev = nt[n].prev
  <2>1. nt[n] \in NotifierType /\ CalculatedChanges(n) \in SUBSET (0 .. MaxVersion)
    BY TypedParts, CalculatedWithin
  <2>2. CASE n \in Phase /\ NeedToRun(n)
    <3> DEFINE t == nt'[n]
               changes == CalculatedChanges(n)
    <3>1. t = Ran(nt[n], changes, co.notifierSG) /\ changes \in SUBSET (0 .. MaxVersion)
      BY <1>1, <2>1, <2>2
    <3> HIDE DEF t, changes
    <3>2. /\ t \in NotifierType
          /\ t.list = nt[n].list /\ t.alive = nt[n].alive /\ t.hasRun = nt[n].hasRun /\ t.index = nt[n].index
          /\ t.have = nt[n].have /\ t.added = nt[n].added /\ t.version = nt[n].version /\ t.count = nt[n].count
          /\ t.changes = changes /\ t.prev = co.notifierSG /\ t.wants = nt[n].wants /\ t.callbacks = nt[n].callbacks
          /\ t.tvHandover = nt[n].tvHandover /\ t.tvDeliver = nt[n].tvDeliver
      BY <1>2, <2>1, <3>1, RanOne
    <3>3. QED
      BY <2>2, <3>2 DEF t, changes
  <2>3. CASE ~(n \in Phase /\ NeedToRun(n))
    <3>1. nt'[n] = nt[n]
      BY <1>1, <2>3
    <3>2. QED
      BY <2>1, <2>3, <3>1
  <2>4. QED
    BY <2>2, <2>3
<1>4. nt' = [n \in Notifiers |-> nt'[n]]
  BY <1>1
<1>5. nt' \in [Notifiers -> NotifierType]
  BY <1>3, <1>4, NotifiersTyped
<1>6. QED
  BY <1>1, <1>3, <1>5

\* Running the queries keeps the types.
LEMMA WorkerRunTyped ==
  ASSUME Typed, WorkerRun
  PROVE  Typed'
<1>1. /\ UNCHANGED <<latest, touched, writer, rv, th, co>> /\ wk' = [wk EXCEPT !.pc = "handover"]
      /\ nt' \in [Notifiers -> NotifierType]
      /\ \A n \in Notifiers :
           /\ nt'[n].list = nt[n].list /\ nt'[n].alive = nt[n].alive /\ nt'[n].hasRun = nt[n].hasRun
           /\ nt'[n].index = nt[n].index /\ nt'[n].have = nt[n].have /\ nt'[n].added = nt[n].added
           /\ nt'[n].callbacks = nt[n].callbacks
  BY WorkerRunParts
<1>2. wk' \in WorkerType /\ co' \in CoordinatorType
  BY <1>1, TypedParts DEF WorkerType
<1>3. QED
  BY <1>1, <1>2, WorkerKeeps

\* What the changes of a notifier add to a callback.
Merged(c, changes) == IF c.skip THEN [c EXCEPT !.skip = FALSE] ELSE [c EXCEPT !.acc = @ \cup changes]

\* What preparing a notifier's handover makes of it (prepare_handover).
HandsOver(s, t) ==
  /\ t \in NotifierType
  /\ t.list = s.list /\ t.alive = s.alive /\ t.hasRun = TRUE /\ t.index = s.index
  /\ t.have = s.have /\ t.added = s.added /\ t.version = co.notifierSG /\ t.count = s.count
  /\ t.changes = {} /\ t.prev = s.prev /\ t.wants = s.wants
  /\ t.callbacks = [i \in DOMAIN s.callbacks |-> Merged(s.callbacks[i], s.changes)]
  /\ DOMAIN t.callbacks = DOMAIN s.callbacks
  /\ t.tvHandover \in {0, co.notifierSG} /\ t.tvDeliver = s.tvDeliver

\* Preparing a handover does what is said above.
LEMMA HandedOne ==
  ASSUME Typed, NEW s \in NotifierType, NEW t, t = PrepareHandover(s)
  PROVE  HandsOver(s, t)
<1> DEFINE q == [i \in DOMAIN s.callbacks |-> Merged(s.callbacks[i], s.changes)]
           h == IF s.tv \/ s.tvHandover # 0 THEN co.notifierSG ELSE 0
           v == co.notifierSG
<1>1. t = [s EXCEPT !.version = v, !.hasRun = TRUE, !.tv = FALSE, !.changes = {}, !.tvHandover = h, !.callbacks = q]
  BY DEF PrepareHandover, AddChanges, Each, Merged
<1>2. v \in 0 .. MaxVersion /\ 0 \in 0 .. MaxVersion /\ h \in 0 .. MaxVersion /\ h \in {0, v}
  BY TypedParts, BoundsAssumption DEF CoordinatorType
<1>3. q \in [DOMAIN s.callbacks -> CallbackType]
  <2>1. (\A i \in DOMAIN s.callbacks : s.callbacks[i] \in CallbackType) /\ s.changes \in SUBSET (0 .. MaxVersion)
    BY DEF NotifierType
  <2>2. \A c \in CallbackType : Merged(c, s.changes) \in CallbackType
    BY <2>1 DEF Merged, CallbackType
  <2> HIDE DEF Merged
  <2>3. QED
    BY <2>1, <2>2
<1> DEFINE p == q
<1> HIDE DEF p
<1>4. p \in [DOMAIN s.callbacks -> CallbackType]
  BY <1>3 DEF p
<1>5. p \in Seq(CallbackType) /\ DOMAIN p = DOMAIN s.callbacks
  BY <1>4, InPlace
<1>6. t = [s EXCEPT !.version = v, !.hasRun = TRUE, !.tv = FALSE, !.changes = {}, !.tvHandover = h, !.callbacks = p]
  BY <1>1 DEF p
<1> HIDE DEF v, h, q
<1>7. t \in NotifierType
  BY <1>2, <1>5, <1>6 DEF NotifierType
<1>8. /\ t.list = s.list /\ t.alive = s.alive /\ t.hasRun = TRUE /\ t.index = s.index
      /\ t.have = s.have /\ t.added = s.added /\ t.version = v /\ t.count = s.count
      /\ t.changes = {} /\ t.prev = s.prev /\ t.wants = s.wants
      /\ t.callbacks = p /\ t.tvHandover = h /\ t.tvDeliver = s.tvDeliver
  BY <1>6 DEF NotifierType
<1>9. QED
  BY <1>2, <1>5, <1>7, <1>8 DEF HandsOver, p, q, v

\* After a handover: the notifiers of the phase are at its version.  After the
\* last one the dead are buried.
LEMMA WorkerHandoverParts ==
  ASSUME Typed, WorkerHandover
  PROVE  /\ UNCHANGED <<latest, touched, writer, rv, th>> /\ wk.pc = "handover"
         /\ IF LastPhase
            THEN /\ co' = WakeAll(CleanedUp(co))
                 /\ wk' = [wk EXCEPT !.pc = "announce", !.targets = <<>>, !.old = {}, !.new = {},
                                     !.info = {}, !.from = 0]
            ELSE co' = co /\ wk' = [wk EXCEPT !.pc = "advance", !.targets = Tail(@)]
         /\ nt' \in [Notifiers -> NotifierType]
         /\ \A n \in Notifiers :
              /\ nt'[n].list = IF LastPhase THEN Buried[n].list ELSE nt[n].list
              /\ nt'[n].alive = nt[n].alive
              /\ nt'[n].index = nt[n].index /\ nt'[n].have = nt[n].have /\ nt'[n].added = nt[n].added
              /\ nt'[n].count = nt[n].count /\ nt'[n].wants = nt[n].wants /\ nt'[n].prev = nt[n].prev
              /\ nt'[n].tvDeliver = nt[n].tvDeliver
              /\ DOMAIN nt'[n].callbacks = DOMAIN nt[n].callbacks
              /\ IF n \in Phase
                 THEN /\ nt'[n].hasRun = TRUE /\ nt'[n].version = co.notifierSG /\ nt'[n].changes = {}
                      /\ nt'[n].callbacks = [i \in DOMAIN nt[n].callbacks |-> Merged(nt[n].callbacks[i], nt[n].changes)]
                      /\ nt'[n].tvHandover \in {0, co.notifierSG}
                 ELSE /\ nt'[n].hasRun = nt[n].hasRun /\ nt'[n].version = nt[n].version
                      /\ nt'[n].changes = nt[n].changes
                      /\ nt'[n].callbacks = nt[n].callbacks /\ nt'[n].tvHandover = nt[n].tvHandover
<1> DEFINE handed(n) == IF n \in Phase THEN PrepareHandover(nt[n]) ELSE nt[n]
<1>1. /\ UNCHANGED <<latest, touched, writer, rv, th>> /\ wk.pc = "handover"
      /\ IF LastPhase
         THEN /\ co' = WakeAll(CleanedUp(co))
              /\ wk' = [wk EXCEPT !.pc = "announce", !.targets = <<>>, !.old = {}, !.new = {},
                                  !.info = {}, !.from = 0]
         ELSE co' = co /\ wk' = [wk EXCEPT !.pc = "advance", !.targets = Tail(@)]
  BY DEF WorkerHandover
<1>2. nt' = [n \in Notifiers |-> IF LastPhase THEN [handed(n) EXCEPT !.list = Buried[n].list] ELSE handed(n)]
  BY DEF WorkerHandover
<1>3. ASSUME NEW n \in Notifiers
      PROVE  LET t == handed(n) IN
             /\ t \in NotifierType
             /\ t.list = nt[n].list /\ t.alive = nt[n].alive
             /\ t.index = nt[n].index /\ t.have = nt[n].have /\ t.added = nt[n].added
             /\ t.count = nt[n].count /\ t.wants = nt[n].wants /\ t.prev = nt[n].prev
             /\ t.tvDeliver = nt[n].tvDeliver
             /\ DOMAIN t.callbacks = DOMAIN nt[n].callbacks
             /\ IF n \in Phase
                THEN /\ t.hasRun = TRUE /\ t.version = co.notifierSG /\ t.changes = {}
                     /\ t.callbacks = [i \in DOMAIN nt[n].callbacks |-> Merged(nt[n].callbacks[i], nt[n].changes)]
                     /\ t.tvHandover \in {0, co.notifierSG}
                ELSE /\ t.hasRun = nt[n].hasRun /\ t.version = nt[n].version
                     /\ t.changes = nt[n].changes
                     /\ t.callbacks = nt[n].callbacks /\ t.tvHandover = nt[n].tvHandover
  <2>1. nt[n] \in NotifierType
    BY TypedParts
  <2>2. CASE n \in Phase
    <3>1. handed(n) = PrepareHandover(nt[n])
      BY <2>2
    <3> HIDE DEF handed
    <3>2. HandsOver(nt[n], handed(n))
      BY <2>1, <3>1, HandedOne
    <3>3. QED
      BY <2>2, <3>2 DEF HandsOver
  <2>3. CASE n \notin Phase
    BY <2>1, <2>3
  <2>4. QED
    BY <2>2, <2>3
<1>4. ASSUME NEW n \in Notifiers
      PROVE  LET t == nt'[n] IN
             /\ t \in NotifierType
             /\ t.list = (IF LastPhase THEN Buried[n].list ELSE nt[n].list) /\ t.alive = nt[n].alive
             /\ t.index = nt[n].index /\ t.have = nt[n].have /\ t.added = nt[n].added
             /\ t.count = nt[n].count /\ t.wants = nt[n].wants /\ t.prev = nt[n].prev
             /\ t.tvDeliver = nt[n].tvDeliver
             /\ DOMAIN t.callbacks = DOMAIN nt[n].callbacks
             /\ IF n \in Phase
                THEN /\ t.hasRun = TRUE /\ t.version = co.notifierSG /\ t.changes = {}
                     /\ t.callbacks = [i \in DOMAIN nt[n].callbacks |-> Merged(nt[n].callbacks[i], nt[n].changes)]
                     /\ t.tvHandover \in {0, co.notifierSG}
                ELSE /\ t.hasRun = nt[n].hasRun /\ t.version = nt[n].version
                     /\ t.changes = nt[n].changes
                     /\ t.callbacks = nt[n].callbacks /\ t.tvHandover = nt[n].tvHandover
  <2>1. nt'[n] = IF LastPhase THEN [handed(n) EXCEPT !.list = Buried[n].list] ELSE handed(n)
    BY <1>2
  <2> DEFINE u == handed(n)
  <2>2. u \in NotifierType /\ u.list = nt[n].list
    BY <1>3
  <2> HIDE DEF u
  <2>3. \/ nt'[n] = u /\ nt'[n].list = (IF LastPhase THEN Buried[n].list ELSE nt[n].list)
        \/ /\ LastPhase /\ Buried[n].list \in {"none", "new", "main", "gone"}
           /\ nt'[n] = [u EXCEPT !.list = Buried[n].list]
    BY <2>1, <2>2, BuriedTyped DEF u, ListsOnly, NotifierType
  <2>4. CASE nt'[n] = u /\ nt'[n].list = (IF LastPhase THEN Buried[n].list ELSE nt[n].list)
    BY <1>3, <2>4 DEF u
  <2>5. CASE /\ LastPhase /\ Buried[n].list \in {"none", "new", "main", "gone"}
             /\ nt'[n] = [u EXCEPT !.list = Buried[n].list]
    <3> DEFINE t == nt'[n]
               l == Buried[n].list
    <3>1. l \in {"none", "new", "main", "gone"} /\ t = [u EXCEPT !.list = l]
      BY <2>5
    <3> HIDE DEF t, l
    <3>2. /\ t \in NotifierType /\ t.list = l /\ t.alive = u.alive /\ t.hasRun = u.hasRun
          /\ t.index = u.index /\ t.have = u.have /\ t.added = u.added /\ t.version = u.version
          /\ t.count = u.count /\ t.wants = u.wants /\ t.prev = u.prev /\ t.changes = u.changes
          /\ t.tvDeliver = u.tvDeliver /\ t.tvHandover = u.tvHandover /\ t.callbacks = u.callbacks
      BY <2>2, <3>1 DEF NotifierType
    <3>3. t.list = IF LastPhase THEN Buried[n].list ELSE nt[n].list
      BY <2>5, <3>2 DEF l
    <3>4. QED
      BY <1>3, <3>2, <3>3 DEF t, u
  <2>6. QED
    BY <2>3, <2>4, <2>5
<1> HIDE DEF handed
<1>5. nt' = [n \in Notifiers |-> nt'[n]]
  BY <1>2
<1>6. nt' \in [Notifiers -> NotifierType]
  BY <1>4, <1>5, NotifiersTyped
<1>7. QED
  BY <1>1, <1>4, <1>6

\* The handover keeps the types.
LEMMA WorkerHandoverTyped ==
  ASSUME Typed, IInv, WorkerHandover
  PROVE  Typed'
<1>1. /\ UNCHANGED <<latest, touched, writer, rv, th>> /\ wk.pc = "handover"
      /\ IF LastPhase
         THEN /\ co' = WakeAll(CleanedUp(co))
              /\ wk' = [wk EXCEPT !.pc = "announce", !.targets = <<>>, !.old = {}, !.new = {},
                                  !.info = {}, !.from = 0]
         ELSE co' = co /\ wk' = [wk EXCEPT !.pc = "advance", !.targets = Tail(@)]
      /\ nt' \in [Notifiers -> NotifierType]
      /\ \A n \in Notifiers :
           /\ nt'[n].list = IF LastPhase THEN Buried[n].list ELSE nt[n].list
           /\ nt'[n].alive = nt[n].alive /\ (nt[n].hasRun => nt'[n].hasRun)
           /\ nt'[n].index = nt[n].index /\ nt'[n].have = nt[n].have /\ nt'[n].added = nt[n].added
           /\ DOMAIN nt'[n].callbacks = DOMAIN nt[n].callbacks
  BY WorkerHandoverParts
<1>2. CleanedUp(co) \in CoordinatorType /\ co \in CoordinatorType /\ wk \in WorkerType
  BY CleanedUpTyped, TypedParts
<1>3. co' \in CoordinatorType
  <2> DEFINE c == CleanedUp(co)
  <2>1. c \in CoordinatorType /\ (co' = WakeAll(c) \/ co' = co)
    BY <1>1, <1>2
  <2> HIDE DEF c
  <2>2. QED
    BY <1>2, <2>1 DEF WakeAll, CoordinatorType
<1>4. wk' \in WorkerType
  <2>1. CASE wk' = [wk EXCEPT !.pc = "announce", !.targets = <<>>, !.old = {}, !.new = {},
                              !.info = {}, !.from = 0]
    <3> DEFINE q == <<>>
    <3>1. q \in Seq(Versions) /\ 0 \in 0 .. MaxVersion
      BY BoundsAssumption
    <3>2. wk' = [wk EXCEPT !.pc = "announce", !.targets = q, !.old = {}, !.new = {}, !.info = {}, !.from = 0]
      BY <2>1
    <3> HIDE DEF q
    <3>3. QED
      BY <1>2, <3>1, <3>2 DEF WorkerType
  <2>2. CASE wk' = [wk EXCEPT !.pc = "advance", !.targets = Tail(@)]
    <3>1. wk.targets \in Seq(Versions) /\ Len(wk.targets) \in {1, 2}
      BY <1>1, <1>2 DEF WorkerType, IInv, WorkerInv, WorkerIsFree
    <3> DEFINE q == Tail(wk.targets)
               s == Versions
    <3> HIDE DEF s
    <3>2. q \in Seq(s)
      <4>1. wk.targets \in Seq(s) /\ wk.targets # <<>>
        BY <3>1 DEF s
      <4>2. QED
        BY <4>1
    <3>3. q \in Seq(Versions) /\ wk' = [wk EXCEPT !.pc = "advance", !.targets = q]
      BY <2>2, <3>2 DEF s
    <3> HIDE DEF q
    <3>4. QED
      BY <1>2, <3>3 DEF WorkerType
  <2>3. QED
    BY <1>1, <2>1, <2>2
<1>5. \A n \in Notifiers : nt[n].alive /\ nt[n].list \in {"new", "main"} => nt'[n].list \in {"new", "main"}
  BY <1>1, BuriedTyped
<1>6. QED
  BY <1>1, <1>3, <1>4, <1>5, WorkerKeeps

\* Announcing the changes keeps the types.
LEMMA WorkerAnnounceTyped ==
  ASSUME Typed, WorkerAnnounce
  PROVE  Typed'
<1>1. UNCHANGED <<latest, touched, writer, rv, nt, co>> /\ wk' = [wk EXCEPT !.pc = "idle"]
      /\ th' = [r \in Realms |-> [th[r] EXCEPT !.loop = r \in RunLoops]]
  BY DEF WorkerAnnounce
<1>2. wk' \in WorkerType
  BY <1>1, TypedParts DEF WorkerType
<1>3. ASSUME NEW r \in Realms
      PROVE  /\ th'[r] \in ThreadType /\ th'[r].pc = th[r].pc /\ th'[r].job = th[r].job
             /\ th'[r].target = th[r].target /\ th'[r].package = th[r].package /\ th'[r].calls = th[r].calls
  <2> DEFINE l == r \in RunLoops
             t == [th[r] EXCEPT !.loop = l]
  <2>1. th[r] \in ThreadType /\ l \in BOOLEAN
    BY TypedParts
  <2>2. th'[r] = t
    BY <1>1
  <2> HIDE DEF l
  <2>3. /\ t \in ThreadType /\ t.pc = th[r].pc /\ t.job = th[r].job
        /\ t.target = th[r].target /\ t.package = th[r].package /\ t.calls = th[r].calls
    BY <2>1 DEF ThreadType
  <2> HIDE DEF t
  <2>4. QED
    BY <2>2, <2>3
<1>4. th' \in [Realms -> ThreadType]
  <2> DEFINE after == th'
  <2>1. after = [r \in Realms |-> after[r]] /\ \A r \in Realms : after[r] \in ThreadType
    BY <1>1, <1>3
  <2> HIDE DEF after
  <2>2. after \in [Realms -> ThreadType]
    BY <2>1
  <2>3. QED
    BY <2>2 DEF after
<1>5. CallsOwn'
  <2> SUFFICES ASSUME NEW r \in Realms PROVE CallsOf(r)'
    BY DEF CallsOwn
  <2>1. CallsOf(r) /\ \A k \in DOMAIN th[r].calls : th[r].calls[k] \in Notifiers
    BY CalledExist DEF Typed, CallsOwn
  <2>2. QED
    BY <1>1, <1>3, <2>1 DEF CallsOf
<1>6. Counted'
  <2> SUFFICES ASSUME NEW n \in Notifiers PROVE Position(n)' /\ Counts(n)'
    BY <1>1 DEF Typed, Counted
  <2>1. Position(n) /\ Counts(n) /\ Owner[n] \in Realms
    BY OwnerAssumption DEF Typed, Counted
  <2>2. QED
    BY <1>1, <1>3, <2>1 DEF Position, Counts
<1>7. QED
  BY <1>1, <1>2, <1>4, <1>5, <1>6, TypedParts DEF Typed, RTypeOK

---------------------------------------------------------------------------------
\* The variables have their types at first.
LEMMA InitTyped == Init => Typed
<1> SUFFICES ASSUME Init PROVE Typed
  OBVIOUS
<1>1. MaxVersion \in Nat /\ MaxCallbacks \in Nat /\ 1 \in Versions /\ 0 \in 0 .. MaxVersion
      /\ 0 \in 0 .. MaxCallbacks /\ Huge \in 0 .. Huge /\ 1 <= MaxVersion
  BY BoundsAssumption DEF Versions, Huge
<1>2. latest \in Versions /\ touched \subseteq Versions /\ writer \in Realms \cup {none} /\ rv \in [Realms -> Versions]
  BY <1>1 DEF Init
<1>3. NewNotifier \in NotifierType
  BY <1>1 DEF NewNotifier, NotifierType
<1>4. nt \in [Notifiers -> NotifierType] /\ \A n \in Notifiers : nt[n] = NewNotifier
  BY <1>3 DEF Init
<1>5. ASSUME NEW r \in Realms
      PROVE  th[r] \in ThreadType /\ th[r].pc = "idle" /\ th[r].calls = <<>> /\ th[r].package = {} /\ th[r].job = "none"
  BY <1>1 DEF Init, ThreadType
<1>6. th \in [Realms -> ThreadType]
  <2>1. th = [r \in Realms |-> th[r]]
    BY DEF Init
  <2> HIDE DEF ThreadType
  <2>2. QED
    BY <1>5, <2>1
<1>7. co \in CoordinatorType
  BY <1>1 DEF Init, CoordinatorType
<1>8. wk \in WorkerType
  BY <1>1 DEF Init, WorkerType
<1>9. CallsOwn
  BY <1>5 DEF CallsOwn, CallsOf
<1>10. Counted
  BY <1>1, <1>4 DEF Init, Counted, Position, Counts, NewNotifier
<1>11. QED
  BY <1>2, <1>4, <1>6, <1>7, <1>8, <1>9, <1>10 DEF Typed, RTypeOK

\* A step that changes nothing keeps the types.
LEMMA StutterTyped ==
  ASSUME Typed, UNCHANGED vars
  PROVE  Typed'
BY DEF vars, Typed, RTypeOK, CallsOwn, CallsOf, Counted, Position, Counts

\* What an observer does keeps the types.
LEMMA ObserveTyped ==
  ASSUME Typed, IInv, IInv', NEW n \in Notifiers, Observe(n)
  PROVE  Typed'
BY RegisterTyped, AddCallbackTyped, ReleaseTyped, RemoveCallbackTyped, SuppressTyped DEF Observe

\* Beginning, committing and cancelling writes keep the types.
LEMMA TransactTyped ==
  ASSUME Typed, NEW r \in Realms, Transact(r)
  PROVE  Typed'
BY BeginAloneTyped, BeginNotifyingTyped, BeginNestedTyped, CommitTyped, CancelTyped, RefreshTyped DEF Transact

\* Taking and sending a package keeps the types.
LEMMA SendTyped ==
  ASSUME Typed, IInv, NEW r \in Realms, Send(r)
  PROVE  Typed'
BY SleepTyped, PackageAndAdvanceTyped, DeliverTyped, CallNextTyped, NotifyTyped DEF Send

\* Every step of the worker keeps the types.
LEMMA WorkerTyped ==
  ASSUME Typed, IInv, Worker
  PROVE  Typed'
BY WorkerStartTyped, WorkerAdvanceTyped, WorkerRunTyped, WorkerHandoverTyped, WorkerAnnounceTyped DEF Worker

\* Every step keeps the types.
LEMMA TypedStays ==
  ASSUME Typed, IInv, IInv', [Next]_vars
  PROVE  Typed'
BY StutterTyped, ObserveTyped, TransactTyped, SendTyped, WorkerTyped DEF Next

\* Every variable keeps its type, and nobody is counted or called wrongly: the
\* thread calls its own notifiers, which have run; the only notifier with a
\* position in the loop over its callbacks is the one whose turn it is; and a
\* notifier says it has callbacks exactly when it has.
THEOREM NotificationsTyped == Spec => [](RTypeOK /\ CallsOwn /\ Counted)
<1>1. Init => Typed
  BY InitTyped
<1>2. IInv /\ IInv' /\ Typed /\ [Next]_vars => Typed'
  BY TypedStays
<1>3. Spec => []IInv
  BY VersionsFit
<1>4. Spec => []Typed
  BY <1>1, <1>2, <1>3, PTL DEF Spec
<1>5. Typed => RTypeOK /\ CallsOwn /\ Counted
  BY DEF Typed
<1>6. QED
  BY <1>4, <1>5, PTL
=============================================================================
