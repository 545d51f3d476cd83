-------------------------------- MODULE LossProofs --------------------------------
(***************************************************************************)
(* Proof that RealmNotifications loses no change on its way from a commit  *)
(* to the blocks (NoChangeIsLost).                                         *)
(*                                                                         *)
(* AllPrepared (in DeliveryProofs) says that what changed since the last   *)
(* handover is with the worker.  AllFine follows the changes from there:   *)
(* whatever changed since the version a block knows is in what is          *)
(* accumulated for it, in the package it is about to be called with, told, *)
(* or muted (Kept).  Kept needs the rest: a package that is under way      *)
(* reaches everyone it is for (InTurn, UpToDate, CountFits); a Realm is    *)
(* ahead of its notifiers only by its own last commit, before which it     *)
(* waited for everything to be told (Ahead, BeforeWrite); and when a block *)
(* asked not to be told of a commit, the worker stops at exactly that      *)
(* version, so nothing else is thrown away (Muting, Skipping).  There is   *)
(* one section per kind of step.                                           *)
(***************************************************************************)
EXTENDS DeliveryProofs

---------------------------------------------------------------------------------
(* What is kept for a block.                                                 *)

\* A write of the Realm itself, and one that a block made.
FullWrite(r) == InWrite(r) /\ (th[r].pc = "idle" \/ th[r].job = "begin")
NestedWrite(r) == InWrite(r) /\ InBlock(r) /\ th[r].job # "begin"

\* Where the worker goes next with the notifiers that have run.
NextSG == IF ~WorkerIsFree THEN wk.targets[1] ELSE IF co.skip # 0 THEN co.skip ELSE latest

\* The version a block knows, or will when it is called for the first time, and
\* whether it is owed the changes since: it was called, or is about to be.
Since(n, c) == IF c.initial THEN c.base ELSE rv[Owner[n]]
Promised(n, i, c) == c.initial \/ (Delivering(n) /\ i <= nt[n].count)

\* What it was told, is about to be told, or asked not to be told.
Underway(n, c) == IF Delivering(n) THEN c.del ELSE {}
Heard(n, c) == Underway(n, c) \cup c.told \cup c.muted

\* Up to the version of the notifier, the rest is accumulated.
Kept(n, i, c) ==
  Promised(n, i, c) => ChangedIn(Since(n, c), nt[n].version) \subseteq c.acc \cup Heard(n, c)

\* Who has a package, is among those that will be called.
InTurn(n, i, c) == Delivering(n) /\ c.del # {} => i <= nt[n].count /\ nt[n].index < i

\* A Realm that is ahead of its notifier is so by its own last commit: of all that
\* was before, nothing is left to tell.
Ahead(n, c) ==
  c.initial /\ nt[n].version < rv[Owner[n]] => ChangedIn(c.base, rv[Owner[n]] - 1) \subseteq Heard(n, c)

\* Nor is there during a write.
BeforeWrite(n, c) ==
  /\ c.initial /\ InWrite(Owner[n]) => ChangedIn(c.base, latest) \subseteq Heard(n, c)
  /\ c.initial /\ NestedWrite(Owner[n]) => c.base = latest

\* Only commits of the Realm's own are skipped.
Muting(n, c) ==
  /\ c.mute => InWrite(Owner[n])
  /\ c.skip \/ c.mute => Suppresses

\* Until its own commit is handed over a block skips, and the worker goes no
\* further than to that one: the changes that are skipped are those muted.
Skipping(n, i, c) ==
  c.skip =>
    /\ nt[n].hasRun /\ ~c.mute => nt[n].version < rv[Owner[n]] /\ (WorkerIsFree => co.skip # 0)
    /\ Promised(n, i, c) =>
         \A x \in ChangedIn(Since(n, c), NextSG) : nt[n].version < x => x \in c.muted

Fine(n, i, c) ==
  /\ Kept(n, i, c) /\ InTurn(n, i, c) /\ Ahead(n, c)
  /\ BeforeWrite(n, c) /\ Muting(n, c) /\ Skipping(n, i, c)

\* A write begins when the notifiers are there, and nobody is counted who is gone.
UpToDate(n) ==
  nt[n].callbacks # <<>> /\ FullWrite(Owner[n]) => nt[n].hasRun /\ nt[n].version = latest
CountFits(n) == Delivering(n) => nt[n].count <= Len(nt[n].callbacks)

FineAt(n) ==
  /\ UpToDate(n) /\ CountFits(n)
  /\ \A i \in DOMAIN nt[n].callbacks : Fine(n, i, nt[n].callbacks[i])
AllFine == \A n \in Notifiers : FineAt(n)

---------------------------------------------------------------------------------
(* A step that does not concern a block.                                     *)

SameScene(n) ==
  /\ nt'[n].version = nt[n].version /\ nt'[n].hasRun = nt[n].hasRun
  /\ rv'[Owner[n]] = rv[Owner[n]] /\ latest' = latest /\ touched' = touched
  /\ InWrite(Owner[n])' => InWrite(Owner[n])
  /\ FullWrite(Owner[n])' => FullWrite(Owner[n])
  /\ NestedWrite(Owner[n])' => NestedWrite(Owner[n])
  /\ nt[n].hasRun => /\ NextSG' = NextSG
                     /\ WorkerIsFree' /\ co'.skip = 0 => WorkerIsFree /\ co.skip = 0

\* The callback at j is at i now, with the same callbacks before it to be called.
SameTurnAs(n, i, j, c) ==
  /\ Delivering(n)' => /\ Delivering(n)
                       /\ i <= nt'[n].count <=> j <= nt[n].count
                       /\ c.del # {} /\ nt[n].index < j /\ j <= nt[n].count => nt'[n].index < i
  /\ Delivering(n) /\ ~Delivering(n)' => c.del = {}

\* Only a notifier that has run has a change promised to a callback.
LEMMA PromisedHaveRun ==
  ASSUME Typed, AllReadable, NEW n \in Notifiers, NEW i \in DOMAIN nt[n].callbacks,
         Promised(n, i, nt[n].callbacks[i])
  PROVE  nt[n].hasRun
<1>1. CASE nt[n].callbacks[i].initial
  BY <1>1 DEF AllReadable, Readable
<1>2. CASE Delivering(n)
  BY <1>2, OwnerAssumption DEF Delivering, Typed, CallsOwn, CallsOf
<1>3. QED
  BY <1>1, <1>2 DEF Promised

\* A callback stays fine where the notifier's scene and its turn stay.
LEMMA FineStays ==
  ASSUME Typed, AllReadable, NEW n \in Notifiers, NEW j \in DOMAIN nt[n].callbacks, NEW i,
         NEW c, c = nt[n].callbacks[j], Fine(n, j, c),
         SameScene(n), SameTurnAs(n, i, j, c), c.mute => InWrite(Owner[n])'
  PROVE  Fine(n, i, c)'
<1>1. Promised(n, i, c)' => Promised(n, j, c)
  BY DEF Promised, SameTurnAs
<1>2. Promised(n, j, c) => nt[n].hasRun
  BY PromisedHaveRun
<1>3. Underway(n, c)' = Underway(n, c) /\ Heard(n, c)' = Heard(n, c)
  BY DEF Underway, SameTurnAs, Heard
<1>4. Since(n, c)' = Since(n, c)
  BY DEF Since, SameScene
<1>5. Kept(n, i, c)'
  <2>1. ChangedIn(Since(n, c), nt[n].version)' = ChangedIn(Since(n, c), nt[n].version)
    BY <1>4 DEF ChangedIn, SameScene
  <2>2. QED
    BY <1>1, <1>3, <2>1 DEF Kept, Fine
<1>6. InTurn(n, i, c)'
  BY DEF InTurn, Fine, SameTurnAs
<1>7. Ahead(n, c)'
  BY <1>3 DEF Ahead, Fine, ChangedIn, SameScene
<1>8. BeforeWrite(n, c)'
  BY <1>3 DEF BeforeWrite, Fine, ChangedIn, SameScene
<1>9. Muting(n, c)'
  BY DEF Muting, Fine
<1>10. Skipping(n, i, c)'
  <2>1. CASE nt[n].hasRun
    <3>1. ChangedIn(Since(n, c), NextSG)' = ChangedIn(Since(n, c), NextSG)
      BY <1>4, <2>1 DEF ChangedIn, SameScene
    <3>2. QED
      BY <1>1, <2>1, <3>1 DEF Skipping, Fine, SameScene
  <2>2. CASE ~nt[n].hasRun
    BY <1>1, <1>2, <2>2 DEF Skipping, SameScene
  <2>3. QED
    BY <2>1, <2>2
<1>11. QED
  BY <1>5, <1>6, <1>7, <1>8, <1>9, <1>10 DEF Fine

\* A notifier stays up to date where its scene stays and nobody joins in a write.
LEMMA UpToDateStays ==
  ASSUME NEW n \in Notifiers, UpToDate(n), SameScene(n),
         nt'[n].callbacks # <<>> => nt[n].callbacks # <<>> \/ ~InWrite(Owner[n])
  PROVE  UpToDate(n)'
BY DEF UpToDate, SameScene, FullWrite

\* What is to be shown of a step.
LEMMA FineNext ==
  ASSUME NEW n \in Notifiers, UpToDate(n)', CountFits(n)',
         \A i \in DOMAIN nt'[n].callbacks : \E d : d = nt'[n].callbacks[i] /\ Fine(n, i, d)'
  PROVE  FineAt(n)'
<1> SUFFICES ASSUME NEW i \in DOMAIN nt'[n].callbacks PROVE Fine(n, i, nt[n].callbacks[i])'
  BY DEF FineAt
<1>1. PICK d : d = nt'[n].callbacks[i] /\ Fine(n, i, d)'
  OBVIOUS
<1>2. QED
  BY <1>1 DEF Fine, Kept, InTurn, Ahead, BeforeWrite, Muting, Skipping, Promised, Since, Heard, Underway

\* The step of a notifier none of whose callbacks is concerned.
LEMMA SceneStays ==
  ASSUME Typed, AllReadable, AllFine, NEW n \in Notifiers, SameScene(n), SameBlocks(n), SameTurn(n),
         Delivering(n)' <=> Delivering(n),
         \A i \in DOMAIN nt[n].callbacks : nt[n].callbacks[i].mute => InWrite(Owner[n])'
  PROVE  FineAt(n)'
<1>1. UpToDate(n)'
  BY UpToDateStays DEF AllFine, FineAt, SameBlocks
<1>2. CountFits(n)'
  BY DEF AllFine, FineAt, CountFits, SameBlocks, SameTurn
<1>3. ASSUME NEW i \in DOMAIN nt'[n].callbacks
      PROVE  \E d : d = nt'[n].callbacks[i] /\ Fine(n, i, d)'
  <2>1. PICK c : c = nt[n].callbacks[i]
    OBVIOUS
  <2>2. i \in DOMAIN nt[n].callbacks /\ c = nt'[n].callbacks[i] /\ Fine(n, i, c)
    BY <1>3, <2>1 DEF SameBlocks, AllFine, FineAt
  <2>3. SameTurnAs(n, i, i, c)
    BY DEF SameTurnAs, SameTurn
  <2>4. Fine(n, i, c)'
    BY <2>1, <2>2, <2>3, FineStays
  <2>5. QED
    BY <2>2, <2>4
<1>4. QED
  BY <1>1, <1>2, <1>3, FineNext

---------------------------------------------------------------------------------
(* The calls of the user.                                                    *)

\* A step that moves neither file, threads nor worker keeps the scene.
LEMMA QuietScene ==
  ASSUME UNCHANGED <<latest, touched, writer, rv, th, wk>>, co'.skip = co.skip, NEW n \in Notifiers, SameRun(n)
  PROVE  SameScene(n) /\ (Delivering(n)' <=> Delivering(n)) /\ (InWrite(Owner[n])' <=> InWrite(Owner[n]))
<1>1. /\ InWrite(Owner[n])' <=> InWrite(Owner[n])
      /\ FullWrite(Owner[n])' <=> FullWrite(Owner[n])
      /\ NestedWrite(Owner[n])' <=> NestedWrite(Owner[n])
      /\ Delivering(n)' <=> Delivering(n)
  BY DEF InWrite, FullWrite, NestedWrite, InBlock, Delivering
<1>2. NextSG' = NextSG /\ (WorkerIsFree' <=> WorkerIsFree)
  BY DEF NextSG, WorkerIsFree
<1>3. QED
  BY <1>1, <1>2 DEF SameScene, SameRun

\* Nothing happens to the blocks of a notifier in such a step.
LEMMA QuietStays ==
  ASSUME Typed, AllReadable, AllFine,
         UNCHANGED <<latest, touched, writer, rv, th, wk>>, co'.skip = co.skip, NEW n \in Notifiers,
         SameRun(n), SameBlocks(n), SameTurn(n)
  PROVE  FineAt(n)'
<1>1. SameScene(n) /\ (Delivering(n)' <=> Delivering(n)) /\ (InWrite(Owner[n])' <=> InWrite(Owner[n]))
  BY QuietScene
<1>2. \A i \in DOMAIN nt[n].callbacks : nt[n].callbacks[i].mute => InWrite(Owner[n])'
  BY <1>1 DEF AllFine, FineAt, Fine, Muting
<1>3. QED
  BY <1>1, <1>2, SceneStays

\* Who was never called is owed nothing until it is sent a package.
LEMMA NewIsFine ==
  ASSUME NEW n, NEW i, NEW d, d = NewCallback, Delivering(n)' => ~(i <= nt'[n].count)
  PROVE  Fine(n, i, d)'
<1>1. d.initial = FALSE /\ d.del = {} /\ d.mute = FALSE /\ d.skip = FALSE
  BY DEF NewCallback
<1>2. ~Promised(n, i, d)'
  BY <1>1 DEF Promised
<1>3. Kept(n, i, d)' /\ InTurn(n, i, d)' /\ Ahead(n, d)' /\ BeforeWrite(n, d)' /\ Muting(n, d)' /\ Skipping(n, i, d)'
  BY <1>1, <1>2 DEF Kept, InTurn, Ahead, BeforeWrite, Muting, Skipping
<1>4. QED
  BY <1>3 DEF Fine

\* A callback that is added is fine, and the others stay so.
LEMMA AddCallbackFine ==
  ASSUME Typed, AllReadable, AllFine, NEW n \in Notifiers, AddCallback(n)
  PROVE  FineAt(n)'
<1>1. /\ UNCHANGED <<latest, touched, writer, rv, th, wk>> /\ ~InWrite(Owner[n]) /\ co'.skip = co.skip
      /\ SameRun(n) /\ SameTurn(n)
      /\ Len(nt[n].callbacks) \in Nat /\ Len(nt'[n].callbacks) = Len(nt[n].callbacks) + 1
      /\ \A i \in DOMAIN nt'[n].callbacks :
           \/ i = Len(nt[n].callbacks) + 1 /\ nt'[n].callbacks[i] = NewCallback
           \/ i \in DOMAIN nt[n].callbacks /\ nt'[n].callbacks[i] = nt[n].callbacks[i]
  BY AddCallbackParts
<1>2. SameScene(n) /\ (Delivering(n)' <=> Delivering(n)) /\ (InWrite(Owner[n])' <=> InWrite(Owner[n]))
  BY <1>1, QuietScene
<1>3. nt[n].count \in Int
  BY TypedParts, BoundsAssumption DEF NotifierType, Huge
<1>4. Delivering(n) => nt[n].count <= Len(nt[n].callbacks)
  BY DEF AllFine, FineAt, CountFits
<1>5. UpToDate(n)'
  BY <1>1, <1>2, UpToDateStays DEF AllFine, FineAt
<1>6. CountFits(n)'
  BY <1>1, <1>2, <1>3, <1>4 DEF CountFits, SameTurn
<1>7. ASSUME NEW i \in DOMAIN nt'[n].callbacks
      PROVE  \E d : d = nt'[n].callbacks[i] /\ Fine(n, i, d)'
  <2>1. PICK d : d = nt'[n].callbacks[i]
    OBVIOUS
  <2>2. CASE i = Len(nt[n].callbacks) + 1 /\ d = NewCallback
    <3>1. Delivering(n)' => ~(i <= nt'[n].count)
      BY <1>1, <1>2, <1>3, <1>4, <2>2 DEF SameTurn
    <3>2. QED
      BY <2>1, <2>2, <3>1, NewIsFine
  <2>3. CASE i \in DOMAIN nt[n].callbacks /\ d = nt[n].callbacks[i]
    <3>1. Fine(n, i, d) /\ SameTurnAs(n, i, i, d) /\ (d.mute => InWrite(Owner[n])')
      BY <1>1, <1>2, <2>3 DEF AllFine, FineAt, Fine, Muting, SameTurnAs, SameTurn
    <3>2. Fine(n, i, d)'
      BY <1>2, <2>3, <3>1, FineStays
    <3>3. QED
      BY <2>1, <3>2
  <2>4. QED
    BY <1>1, <2>1, <2>2, <2>3
<1>8. QED
  BY <1>5, <1>6, <1>7, FineNext

\* Removing a callback leaves the others fine, if no young one is removed in a
\* delivery.
LEMMA RemoveCallbackFine ==
  ASSUME ~RemovesYoung, Typed, AllReadable, AllFine, NEW n \in Notifiers, NEW k \in DOMAIN nt[n].callbacks,
         RemoveCallback(n, k)
  PROVE  FineAt(n)'
<1>1. /\ UNCHANGED <<latest, touched, writer, rv, th, co, wk>> /\ SameRun(n)
      /\ nt'[n].index = IndexAfter(nt[n].index, k) /\ nt'[n].count = OneLess(nt[n].count)
      /\ (Delivering(n) /\ k > nt[n].count => RemovesYoung)
      /\ Len(nt[n].callbacks) \in Nat /\ Len(nt'[n].callbacks) = Len(nt[n].callbacks) - 1
      /\ k \in 1 .. Len(nt[n].callbacks)
      /\ \A i \in DOMAIN nt'[n].callbacks :
           \/ i < k /\ i \in DOMAIN nt[n].callbacks /\ nt'[n].callbacks[i] = nt[n].callbacks[i]
           \/ k <= i /\ i + 1 \in DOMAIN nt[n].callbacks /\ nt'[n].callbacks[i] = nt[n].callbacks[i + 1]
  BY RemoveCallbackParts
<1>2. SameScene(n) /\ (Delivering(n)' <=> Delivering(n)) /\ (InWrite(Owner[n])' <=> InWrite(Owner[n]))
  BY <1>1, QuietScene
<1>3. nt[n].count \in Int /\ nt[n].index \in Int /\ Len(nt[n].callbacks) < Huge /\ nt[n].callbacks \in Seq(CallbackType)
  <2>1. nt[n] \in NotifierType /\ Len(nt[n].callbacks) <= nt[n].added
    BY TypedParts DEF Typed, Counted, Counts
  <2>2. nt[n].added \in 0 .. MaxCallbacks
    BY <2>1 DEF NotifierType
  <2>3. QED
    BY <1>1, <2>1, <2>2, BoundsAssumption DEF NotifierType, Huge
<1>4. Delivering(n) => /\ nt[n].count <= Len(nt[n].callbacks) /\ k <= nt[n].count
                       /\ nt'[n].count = nt[n].count - 1
  <2>1. Delivering(n) => nt[n].count <= Len(nt[n].callbacks) /\ k <= nt[n].count
    BY <1>1, <1>3 DEF AllFine, FineAt, CountFits
  <2>2. Delivering(n) => nt[n].count \notin {0, Huge}
    BY <1>1, <1>3, <2>1, BoundsAssumption DEF Huge
  <2>3. QED
    BY <1>1, <2>1, <2>2 DEF OneLess
<1>5. UpToDate(n)'
  <2>1. nt[n].callbacks # <<>>
    BY <1>1
  <2>2. QED
    BY <1>2, <2>1, UpToDateStays DEF AllFine, FineAt
<1>6. CountFits(n)'
  BY <1>1, <1>2, <1>3, <1>4 DEF CountFits
<1>7. ASSUME NEW i \in DOMAIN nt'[n].callbacks
      PROVE  \E d : d = nt'[n].callbacks[i] /\ Fine(n, i, d)'
  <2>1. PICK d : d = nt'[n].callbacks[i]
    OBVIOUS
  <2>2. PICK j \in DOMAIN nt[n].callbacks : /\ d = nt[n].callbacks[j]
                                            /\ (i < k /\ j = i) \/ (k <= i /\ j = i + 1)
    BY <1>1, <2>1
  <2>3. j \in Nat /\ i \in Int
    <3>1. nt'[n].callbacks \in Seq(CallbackType)
      BY RemoveCallbackTyped DEF Typed, RTypeOK, NotifierType
    <3>2. QED
      BY <1>3, <2>2, <3>1
  <2>4. SameTurnAs(n, i, j, d)
    <3>1. Delivering(n) => (i <= nt'[n].count <=> j <= nt[n].count)
      BY <1>1, <1>3, <1>4, <2>2, <2>3
    <3>2. nt[n].index < j => nt'[n].index < i
      BY <1>1, <1>3, <2>2, <2>3 DEF IndexAfter
    <3>3. QED
      BY <1>2, <3>1, <3>2 DEF SameTurnAs
  <2>5. Fine(n, j, d) /\ (d.mute => InWrite(Owner[n])')
    BY <1>2, <2>2 DEF AllFine, FineAt, Fine, Muting
  <2>6. Fine(n, i, d)'
    BY <1>2, <2>2, <2>4, <2>5, FineStays
  <2>7. QED
    BY <2>1, <2>6
<1>8. QED
  BY <1>5, <1>6, <1>7, FineNext

\* The worker does not go beyond the latest version.
LEMMA NextIsThere ==
  ASSUME Typed, IInv
  PROVE  NextSG <= latest /\ NextSG \in Int /\ latest \in Int
<1>1. co.skip \in Int /\ latest \in Int /\ co.skip <= latest /\ wk.targets \in Seq(Nat)
  BY TypedParts, BoundsAssumption DEF IInv, VersionsNoted, FileVersions, CoordinatorType
<1>2. ~WorkerIsFree => wk.targets[1] <= latest /\ wk.targets[1] \in Int
  BY <1>1 DEF IInv, WorkerInv, VersionsNoted
<1>3. QED
  BY <1>1, <1>2 DEF NextSG

\* A block that is asked to skip is up to date: at the version before the commit.
LEMMA SuppressFine ==
  ASSUME Typed, IInv, AllReadable, AllFine, NEW n \in Notifiers, NEW k \in DOMAIN nt[n].callbacks,
         Suppress(n, k)
  PROVE  FineAt(n)'
<1>1. /\ UNCHANGED <<latest, touched, writer, rv, th, co, wk>> /\ OwnWrite(Owner[n]) /\ Suppresses
      /\ SameRun(n) /\ SameTurn(n)
      /\ DOMAIN nt'[n].callbacks = DOMAIN nt[n].callbacks
      /\ \A i \in DOMAIN nt[n].callbacks \ {k} : nt'[n].callbacks[i] = nt[n].callbacks[i]
      /\ nt'[n].callbacks[k] = [nt[n].callbacks[k] EXCEPT !.skip = TRUE, !.mute = TRUE]
  BY SuppressParts
<1>2. SameScene(n) /\ (Delivering(n)' <=> Delivering(n)) /\ (InWrite(Owner[n])' <=> InWrite(Owner[n]))
  BY <1>1, QuietScene
<1>3. InWrite(Owner[n]) /\ (FullWrite(Owner[n]) \/ NestedWrite(Owner[n])) /\ Owner[n] \in Realms
  BY <1>1, OwnerAssumption DEF OwnWrite, FullWrite, NestedWrite
<1>4. rv[Owner[n]] = latest
  BY <1>3 DEF IInv, WriterIsLatest, InWrite
<1>5. nt[n].callbacks # <<>> /\ nt[n].callbacks \in Seq(CallbackType)
  BY TypedParts DEF NotifierType
<1>6. UpToDate(n)'
  BY <1>2, <1>5, UpToDateStays DEF AllFine, FineAt
<1>7. CountFits(n)'
  <2>1. nt'[n].callbacks \in Seq(CallbackType)
    BY SuppressTyped DEF Typed, RTypeOK, NotifierType
  <2>2. Len(nt'[n].callbacks) = Len(nt[n].callbacks)
    BY <1>1, <1>5, <2>1
  <2>3. QED
    BY <1>1, <1>2, <2>2 DEF AllFine, FineAt, CountFits, SameTurn
<1>8. NextSG <= latest /\ NextSG \in Int /\ latest \in Int
  BY NextIsThere
<1>9. ASSUME NEW i \in DOMAIN nt'[n].callbacks
      PROVE  \E d : d = nt'[n].callbacks[i] /\ Fine(n, i, d)'
  <2>1. PICK d, c : d = nt'[n].callbacks[i] /\ c = nt[n].callbacks[i]
    OBVIOUS
  <2>2. i \in DOMAIN nt[n].callbacks /\ Fine(n, i, c) /\ SameTurnAs(n, i, i, c) /\ (c.mute => InWrite(Owner[n])')
    BY <1>1, <1>2, <1>9, <2>1 DEF AllFine, FineAt, Fine, Muting, SameTurnAs, SameTurn
  <2>3. Fine(n, i, c)'
    BY <1>2, <2>1, <2>2, FineStays
  <2>4. CASE i # k
    BY <1>1, <2>1, <2>2, <2>3, <2>4
  <2>5. CASE i = k
    <3>1. c \in CallbackType /\ d = [c EXCEPT !.skip = TRUE, !.mute = TRUE]
      BY <1>1, <1>5, <2>1, <2>2, <2>5
    <3>2. /\ d.acc = c.acc /\ d.del = c.del /\ d.initial = c.initial /\ d.told = c.told
          /\ d.base = c.base /\ d.muted = c.muted /\ d.skip = TRUE /\ d.mute = TRUE
      BY <3>1 DEF CallbackType
    <3>3. Kept(n, i, d)' /\ InTurn(n, i, d)' /\ Ahead(n, d)' /\ BeforeWrite(n, d)'
      BY <2>3, <3>2 DEF Fine, Kept, InTurn, Ahead, BeforeWrite, Promised, Since, Heard, Underway
    <3>4. Muting(n, d)'
      BY <1>1, <1>2, <1>3 DEF Muting
    <3>5. ASSUME Promised(n, i, d)', NEW x \in ChangedIn(Since(n, d), NextSG)', nt'[n].version < x
          PROVE  FALSE
      <4>1. x \in Int /\ x <= latest
        <5>1. x \in touched /\ x <= NextSG
          BY <1>1, <1>2, <3>5 DEF ChangedIn, NextSG, WorkerIsFree
        <5>2. QED
          BY <1>8, <5>1, TypedParts DEF Versions
      <4>2. Since(n, c) < x
        BY <1>1, <3>2, <3>5 DEF ChangedIn, Since
      <4>3. CASE FullWrite(Owner[n])
        BY <1>1, <1>5, <1>8, <3>5, <4>1, <4>3 DEF AllFine, FineAt, UpToDate, SameRun
      <4>4. CASE NestedWrite(Owner[n])
        BY <1>4, <1>8, <2>2, <4>1, <4>2, <4>4 DEF Fine, BeforeWrite, Since
      <4>5. QED
        BY <1>3, <4>3, <4>4
    <3>6. Skipping(n, i, d)'
      BY <3>2, <3>5 DEF Skipping
    <3>7. Fine(n, i, d)'
      BY <3>3, <3>4, <3>6 DEF Fine
    <3>8. QED
      BY <2>1, <3>7
  <2>6. QED
    BY <2>4, <2>5
<1>10. QED
  BY <1>6, <1>7, <1>9, FineNext

\* The calls of the user, together.
LEMMA ObserveFine ==
  ASSUME ~RemovesYoung, Typed, IInv, AllReadable, AllFine, NEW n \in Notifiers, Observe(n)
  PROVE  AllFine'
<1>1. ASSUME UNCHANGED <<latest, touched, writer, rv, th, wk>>, co'.skip = co.skip,
             \A m \in Notifiers \ {n} : SameNotifier(m), FineAt(n)'
      PROVE  AllFine'
  <2>1. \A m \in Notifiers \ {n} : FineAt(m)'
    BY <1>1, QuietStays DEF SameNotifier
  <2>2. QED
    BY <1>1, <2>1 DEF AllFine
<1>2. CASE Register(n)
  <2>1. /\ UNCHANGED <<latest, touched, writer, rv, th, wk>> /\ co'.skip = co.skip
        /\ \A m \in Notifiers \ {n} : SameNotifier(m)
        /\ nt'[n].callbacks = <<>> /\ ~nt[n].hasRun
    BY <1>2, RegisterParts DEF SameBlocks
  <2>2. ~Delivering(n)'
    BY <2>1, OwnerAssumption DEF Delivering, Typed, CallsOwn, CallsOf
  <2>3. FineAt(n)'
    BY <2>1, <2>2 DEF FineAt, UpToDate, CountFits
  <2>4. QED
    BY <1>1, <2>1, <2>3
<1>3. CASE AddCallback(n)
  BY <1>1, <1>3, AddCallbackParts, AddCallbackFine
<1>4. CASE Release(n)
  <2>1. /\ UNCHANGED <<latest, touched, writer, rv, th, wk>> /\ co' = co
        /\ \A m \in Notifiers \ {n} : SameNotifier(m)
        /\ SameRun(n) /\ SameBlocks(n) /\ SameTurn(n)
    BY <1>4, ReleaseParts
  <2>2. FineAt(n)'
    BY <2>1, QuietStays
  <2>3. QED
    BY <1>1, <2>1, <2>2
<1>5. ASSUME NEW i \in DOMAIN nt[n].callbacks, RemoveCallback(n, i)
      PROVE  AllFine'
  BY <1>1, <1>5, RemoveCallbackParts, RemoveCallbackFine
<1>6. ASSUME NEW i \in DOMAIN nt[n].callbacks, Suppress(n, i)
      PROVE  AllFine'
  BY <1>1, <1>6, SuppressParts, SuppressFine
<1>7. QED
  BY <1>2, <1>3, <1>4, <1>5, <1>6 DEF Observe

---------------------------------------------------------------------------------
(* Transactions.                                                             *)

\* The writes of a Realm whose thread stays where it is, or goes to wait.
LEMMA SameWrites ==
  ASSUME Typed, NEW r \in Realms, writer' # r \/ th'[r].pc = "wait" \/ (writer = r /\ SameTask(r))
  PROVE  /\ InWrite(r)' => InWrite(r)
         /\ FullWrite(r)' => FullWrite(r)
         /\ NestedWrite(r)' => NestedWrite(r)
BY DEF InWrite, FullWrite, NestedWrite, InBlock, SameTask

\* A step in which a Realm's notifiers, their thread's calls and its snapshot stay.
LEMMA NothingHappens ==
  ASSUME Typed, AllReadable, AllFine, UNCHANGED <<latest, touched, nt, co, wk>>,
         NEW n \in Notifiers, rv'[Owner[n]] = rv[Owner[n]], th'[Owner[n]].calls = th[Owner[n]].calls,
         \/ writer' # Owner[n] \/ th'[Owner[n]].pc = "wait"
         \/ writer = Owner[n] /\ SameTask(Owner[n]),
         \A i \in DOMAIN nt[n].callbacks : nt[n].callbacks[i].mute => InWrite(Owner[n])'
  PROVE  FineAt(n)'
<1>1. /\ InWrite(Owner[n])' => InWrite(Owner[n])
      /\ FullWrite(Owner[n])' => FullWrite(Owner[n])
      /\ NestedWrite(Owner[n])' => NestedWrite(Owner[n])
  BY SameWrites, OwnerAssumption
<1>2. Delivering(n)' <=> Delivering(n)
  BY DEF Delivering
<1>3. NextSG' = NextSG /\ (WorkerIsFree' <=> WorkerIsFree)
  BY DEF NextSG, WorkerIsFree
<1>4. SameScene(n) /\ SameBlocks(n) /\ SameTurn(n)
  BY <1>1, <1>3 DEF SameScene, SameBlocks, SameTurn
<1>5. QED
  BY <1>2, <1>4, SceneStays

\* A Realm without notifiers has no blocks.
LEMMA NobodyThere ==
  ASSUME Typed, NEW n \in Notifiers, NotifiersFor(Owner[n]) = {}
  PROVE  nt[n].callbacks = <<>>
BY DEF Typed, Counted, Counts, NotifiersFor, Listed

\* A notifier without callbacks is fine.
LEMMA NobodyIsFine ==
  ASSUME AllFine, UNCHANGED nt, NEW n \in Notifiers, nt[n].callbacks = <<>>,
         th'[Owner[n]].calls = th[Owner[n]].calls
  PROVE  FineAt(n)'
<1>1. Delivering(n)' <=> Delivering(n)
  BY DEF Delivering
<1>2. QED
  BY <1>1 DEF AllFine, FineAt, UpToDate, CountFits

\* A thread that starts to wait for its notifiers leaves all callbacks fine.
LEMMA StartWaitingFine ==
  ASSUME Typed, AllReadable, AllFine, UNCHANGED <<latest, touched, rv, nt, co, wk>>,
         NEW r \in Realms, NEW job \in {"begin", "refresh"}, StartWaiting(r, job),
         writer # r, writer' = writer \/ (writer = none /\ writer' = r)
  PROVE  AllFine'
<1>1. PICK t : OnlyThread(r, t) /\ t.pc = "wait" /\ t.calls = th[r].calls
  BY WaitingThread
<1>2. th'[r] = t /\ \A s \in Realms \ {r} : th'[s] = th[s]
  BY <1>1, OneThread
<1>3. ASSUME NEW n \in Notifiers
      PROVE  FineAt(n)'
  <2>1. \A i \in DOMAIN nt[n].callbacks : nt[n].callbacks[i].mute => InWrite(Owner[n]) /\ Owner[n] # r
    BY DEF AllFine, FineAt, Fine, Muting, InWrite
  <2>2. Owner[n] \in Realms /\ none \notin Realms
    BY OwnerAssumption, RealmsAssumption
  <2>3. CASE Owner[n] = r
    BY <1>1, <1>2, <2>1, <2>3, NothingHappens
  <2>4. CASE Owner[n] # r
    <3>1. SameTask(Owner[n]) /\ th'[Owner[n]] = th[Owner[n]]
      BY <1>2, <2>2, <2>4 DEF SameTask
    <3>2. writer' = Owner[n] <=> writer = Owner[n]
      BY <2>2, <2>4
    <3>3. InWrite(Owner[n])' <=> InWrite(Owner[n])
      BY <3>1, <3>2 DEF InWrite
    <3>4. QED
      BY <2>1, <3>1, <3>2, <3>3, NothingHappens
  <2>5. QED
    BY <2>3, <2>4
<1>4. QED
  BY <1>3 DEF AllFine

\* Beginning a write or a refresh leaves all callbacks fine.
LEMMA BeginFine ==
  ASSUME Typed, IInv, AllReadable, AllFine, NEW r \in Realms, BeginAlone(r) \/ BeginNotifying(r) \/ Refresh(r)
  PROVE  AllFine'
<1>1. UNCHANGED <<latest, touched, nt, co, wk>> /\ none \notin Realms
  BY RealmsAssumption DEF BeginAlone, BeginNotifying, Refresh
<1>2. CASE /\ NotifiersFor(r) = {} /\ th' = th /\ rv' = [rv EXCEPT ![r] = latest]
           /\ writer' = writer \/ (writer = none /\ writer' = r)
  <2>1. ASSUME NEW n \in Notifiers
        PROVE  FineAt(n)'
    <3>1. Owner[n] \in Realms
      BY OwnerAssumption
    <3>2. CASE Owner[n] = r
      BY <1>1, <1>2, <3>2, NobodyThere, NobodyIsFine
    <3>3. CASE Owner[n] # r
      <4>1. rv'[Owner[n]] = rv[Owner[n]] /\ SameTask(Owner[n])
        BY <1>2, <3>1, <3>3, TypedParts DEF SameTask
      <4>2. writer' = Owner[n] <=> writer = Owner[n]
        BY <1>1, <1>2, <3>1, <3>3
      <4>3. InWrite(Owner[n])' <=> InWrite(Owner[n])
        BY <1>2, <4>2 DEF InWrite
      <4>4. \A i \in DOMAIN nt[n].callbacks : nt[n].callbacks[i].mute => InWrite(Owner[n])'
        BY <4>3 DEF AllFine, FineAt, Fine, Muting
      <4>5. QED
        BY <1>1, <1>2, <4>1, <4>2, <4>4, NothingHappens
    <3>4. QED
      BY <3>2, <3>3
  <2>2. QED
    BY <2>1 DEF AllFine
<1>3. CASE BeginAlone(r)
  BY <1>2, <1>3 DEF BeginAlone
<1>4. CASE BeginNotifying(r)
  <2>1. /\ UNCHANGED rv /\ StartWaiting(r, "begin") /\ writer # r
        /\ writer = none /\ writer' = r
    BY <1>1, <1>4 DEF BeginNotifying
  <2>2. QED
    BY <1>1, <2>1, StartWaitingFine
<1>5. CASE Refresh(r)
  <2>1. CASE NotifiersFor(r) = {}
    BY <1>2, <1>5, <2>1 DEF Refresh
  <2>2. CASE NotifiersFor(r) # {}
    <3>1. UNCHANGED rv /\ StartWaiting(r, "refresh") /\ writer # r /\ writer' = writer
      BY <1>5, <2>2 DEF Refresh
    <3>2. QED
      BY <1>1, <3>1, StartWaitingFine
  <2>3. QED
    BY <2>1, <2>2
<1>6. QED
  BY <1>3, <1>4, <1>5

\* Cancelling a write leaves all callbacks fine.
LEMMA CancelFine ==
  ASSUME Typed, AllReadable, AllFine, NEW r \in Realms, Cancel(r)
  PROVE  AllFine'
<1>1. /\ UNCHANGED <<latest, touched, rv, th, nt, co, wk>> /\ ~Committing(r) /\ none \notin Realms
      /\ writer = r /\ writer' = none
  BY RealmsAssumption DEF Cancel, OwnWrite, InWrite
<1>2. ASSUME NEW n \in Notifiers
      PROVE  FineAt(n)'
  <2>1. \A i \in DOMAIN nt[n].callbacks : ~nt[n].callbacks[i].mute
    <3>1. CASE Owner[n] = r
      BY <1>1, <3>1 DEF Committing
    <3>2. CASE Owner[n] # r
      BY <1>1, <3>2 DEF AllFine, FineAt, Fine, Muting, InWrite
    <3>3. QED
      BY <3>1, <3>2
  <2>2. writer' # Owner[n]
    BY <1>1, OwnerAssumption
  <2>3. QED
    BY <1>1, <2>1, <2>2, NothingHappens
<1>3. QED
  BY <1>2 DEF AllFine

\* The snapshot jumps to the latest version and the blocks with it.
LEMMA BeginNestedFine ==
  ASSUME Typed, IInv, AllReadable, AllFine, NEW r \in Realms, BeginNested(r)
  PROVE  AllFine'
<1>1. /\ UNCHANGED <<latest, touched, th, co, wk>> /\ InBlock(r) /\ writer = none /\ writer' = r
      /\ rv' = [rv EXCEPT ![r] = latest]
      /\ \A n \in Notifiers : InPlaceOnly(n)
      /\ \A n \in Notifiers : \A i \in DOMAIN nt[n].callbacks : nt'[n].callbacks[i] = Rebased(n, i, r, latest)
  BY BeginNestedParts
<1>2. /\ latest \in Int /\ co.skip \in Int /\ co.skip <= latest /\ latest \in Versions
      /\ NextSG \in Int /\ NextSG <= latest
  BY NextIsThere, TypedParts, BoundsAssumption DEF IInv, VersionsNoted, FileVersions, CoordinatorType
<1>3. NextSG' = NextSG /\ (WorkerIsFree' <=> WorkerIsFree)
  BY <1>1 DEF NextSG, WorkerIsFree
<1>4. ASSUME NEW n \in Notifiers
      PROVE  \A i \in DOMAIN nt[n].callbacks : ~nt[n].callbacks[i].mute
  BY <1>1, OwnerAssumption, RealmsAssumption DEF AllFine, FineAt, Fine, Muting, InWrite
<1>5. ASSUME NEW n \in Notifiers, Owner[n] # r
      PROVE  FineAt(n)'
  <2>1. nt'[n] = nt[n]
    BY <1>5 DEF BeginNested, Rebase
  <2>2. SameRun(n) /\ SameBlocks(n) /\ SameTurn(n) /\ (Delivering(n)' <=> Delivering(n))
    BY <1>1, <2>1 DEF SameRun, SameBlocks, SameTurn, Delivering
  <2>3. ~InWrite(Owner[n])' /\ rv'[Owner[n]] = rv[Owner[n]]
    BY <1>1, <1>5, OwnerAssumption, TypedParts DEF InWrite
  <2>4. SameScene(n)
    BY <1>1, <1>3, <2>2, <2>3 DEF SameScene, SameRun, FullWrite, NestedWrite
  <2>5. QED
    BY <1>4, <2>2, <2>4, SceneStays
<1>6. ASSUME NEW n \in Notifiers, Owner[n] = r
      PROVE  FineAt(n)'
  <2>1. /\ rv'[Owner[n]] = latest /\ Owner[n] \in Realms
        /\ Delivering(n)' <=> Delivering(n)
        /\ nt'[n].version = nt[n].version /\ nt'[n].hasRun = nt[n].hasRun /\ SameTurn(n)
        /\ DOMAIN nt'[n].callbacks = DOMAIN nt[n].callbacks
    BY <1>1, <1>6, TypedParts DEF Delivering, InPlaceOnly, SameRun
  <2>2. UpToDate(n)'
    <3>1. ~FullWrite(r)'
      BY <1>1, RealmsAssumption DEF FullWrite, InBlock, Typed, CallsOwn, CallsOf
    <3>2. QED
      BY <1>6, <3>1 DEF UpToDate
  <2>3. CountFits(n)'
    <3>1. nt[n].callbacks \in Seq(CallbackType) /\ nt'[n].callbacks \in Seq(CallbackType)
      BY BeginNestedTyped DEF Typed, RTypeOK, NotifierType
    <3>2. Len(nt'[n].callbacks) = Len(nt[n].callbacks)
      BY <2>1, <3>1
    <3>3. QED
      BY <2>1, <3>2 DEF AllFine, FineAt, CountFits, SameTurn
  <2>4. nt[n].version \in Int /\ nt[n].version <= latest /\ rv[r] \in Int /\ rv[r] <= latest
    BY DEF IInv, VersionsNoted, FileVersions
  <2>5. ASSUME NEW i \in DOMAIN nt'[n].callbacks
        PROVE  \E d : d = nt'[n].callbacks[i] /\ Fine(n, i, d)'
    <3>1. PICK d, c : d = nt'[n].callbacks[i] /\ c = nt[n].callbacks[i]
      OBVIOUS
    <3>2. i \in DOMAIN nt[n].callbacks /\ c \in CallbackType /\ d = AtVersion(c, latest) /\ Fine(n, i, c) /\ ~c.mute
      BY <1>1, <1>4, <1>6, <2>1, <2>5, <3>1, TypedParts DEF Rebased, AllFine, FineAt, NotifierType
    <3>3. /\ d.acc = c.acc /\ d.del = c.del /\ d.initial = c.initial /\ d.told = c.told
          /\ d.muted = c.muted /\ d.skip = c.skip /\ d.mute = c.mute
          /\ (d.initial => d.base = latest)
      BY <3>2 DEF AtVersion, CallbackType
    <3>4. Since(n, d)' = latest
      BY <2>1, <3>3 DEF Since
    <3>5. \A x \in touched : x \in Int
      BY TypedParts DEF Versions
    <3>6. Kept(n, i, d)'
      BY <1>1, <1>2, <2>1, <2>4, <3>4, <3>5 DEF Kept, ChangedIn
    <3>7. InTurn(n, i, d)'
      BY <2>1, <3>2, <3>3 DEF InTurn, Fine, SameTurn
    <3>8. Ahead(n, d)' /\ BeforeWrite(n, d)'
      BY <1>1, <1>2, <2>1, <3>3, <3>5 DEF Ahead, BeforeWrite, ChangedIn
    <3>9. Muting(n, d)'
      BY <3>2, <3>3 DEF Muting, Fine
    <3>10. Skipping(n, i, d)'
      <4>1. ASSUME d.skip, nt'[n].hasRun, ~d.mute
            PROVE  nt'[n].version < rv'[Owner[n]] /\ (WorkerIsFree' => co'.skip # 0)
        BY <1>1, <1>2, <1>3, <1>6, <2>1, <2>4, <3>2, <3>3, <4>1 DEF Fine, Skipping
      <4>2. ChangedIn(Since(n, d), NextSG)' = {}
        BY <1>1, <1>2, <1>3, <3>4, <3>5 DEF ChangedIn
      <4>3. QED
        BY <4>1, <4>2 DEF Skipping
    <3>11. Fine(n, i, d)'
      BY <3>6, <3>7, <3>8, <3>9, <3>10 DEF Fine
    <3>12. QED
      BY <3>1, <3>11
  <2>6. QED
    BY <2>2, <2>3, <2>5, FineNext
<1>7. QED
  BY <1>5, <1>6 DEF AllFine

\* What a commit does to a block.
CommittedAs(d, c, v) ==
  /\ d.acc = c.acc /\ d.del = c.del /\ d.initial = c.initial /\ d.told = c.told
  /\ d.base = c.base /\ d.skip = c.skip /\ d.mute = FALSE
  /\ c.muted \subseteq d.muted /\ (c.mute => v \in d.muted)

\* What a commit makes of a muted callback.
LEMMA CommittedOne ==
  ASSUME NEW c \in CallbackType, NEW v, NEW d, d = MutedAt(c, v)
  PROVE  CommittedAs(d, c, v)
BY DEF MutedAt, CommittedAs, CallbackType

\* What all the cases of a commit know.
Commits(r) ==
  /\ UNCHANGED <<th, wk>> /\ writer = r /\ writer' = none /\ latest' = latest + 1 /\ latest + 1 \in Versions
  /\ TouchedGrows /\ rv' = [rv EXCEPT ![r] = latest + 1] /\ rv[r] = latest
  /\ co'.skip = IF SkipsVersions(r) THEN latest + 1 ELSE co.skip
  /\ \A n \in Notifiers : InPlaceOnly(n)

\* What all the notifiers know of a commit.
LEMMA CommitsParts ==
  ASSUME Typed, IInv, NEW r \in Realms, Commit(r)
  PROVE  /\ Commits(r) /\ OwnWrite(r)
         /\ latest \in Int /\ NextSG \in Int /\ NextSG <= latest
         /\ NextSG' \in Int /\ NextSG' <= latest + 1
         /\ WorkerIsFree' <=> WorkerIsFree
         /\ \A x \in touched' : x \in Int /\ (x \in touched \/ latest < x)
         /\ \A n \in Notifiers :
              /\ Delivering(n)' <=> Delivering(n)
              /\ ~InWrite(Owner[n])'
              /\ nt[n].version \in Int /\ nt[n].version <= latest
              /\ rv[Owner[n]] \in Int /\ rv[Owner[n]] <= latest
<1>1. Commits(r) /\ OwnWrite(r)
  <2>1. /\ UNCHANGED <<th, wk>> /\ OwnWrite(r) /\ writer = r /\ writer' = none /\ latest' = latest + 1
        /\ latest + 1 \in Versions /\ TouchedGrows
        /\ rv' = [rv EXCEPT ![r] = latest + 1]
        /\ co'.skip = IF SkipsVersions(r) THEN latest + 1 ELSE co.skip
        /\ \A n \in Notifiers : InPlaceOnly(n)
    BY CommitParts DEF TouchedGrows
  <2>2. rv[r] = latest
    BY <2>1 DEF IInv, WriterIsLatest, OwnWrite, InWrite
  <2>3. QED
    BY <2>1, <2>2 DEF Commits
<1>2. latest \in Int /\ NextSG \in Int /\ NextSG <= latest
  BY NextIsThere
<1>3. WorkerIsFree' <=> WorkerIsFree
  BY <1>1 DEF Commits, WorkerIsFree
<1>4. NextSG' \in Int /\ NextSG' <= latest + 1
  <2>1. co.skip \in Int /\ co.skip <= latest
    BY TypedParts, BoundsAssumption DEF IInv, VersionsNoted, CoordinatorType
  <2>2. co'.skip \in Int /\ co'.skip <= latest + 1
    BY <1>1, <1>2, <2>1 DEF Commits
  <2>3. ~WorkerIsFree => NextSG' = NextSG
    BY <1>1, <1>3 DEF Commits, NextSG
  <2>4. WorkerIsFree => NextSG' = co'.skip \/ NextSG' = latest + 1
    BY <1>1, <1>3 DEF Commits, NextSG
  <2>5. QED
    BY <1>2, <2>2, <2>3, <2>4
<1>5. \A x \in touched' : x \in Int /\ (x \in touched \/ latest < x)
  BY <1>1, NewlyTouched DEF Commits
<1>6. ASSUME NEW n \in Notifiers
      PROVE  /\ Delivering(n)' <=> Delivering(n)
             /\ ~InWrite(Owner[n])'
             /\ nt[n].version \in Int /\ nt[n].version <= latest
             /\ rv[Owner[n]] \in Int /\ rv[Owner[n]] <= latest
  <2>1. Owner[n] \in Realms /\ none \notin Realms
    BY OwnerAssumption, RealmsAssumption
  <2>2. (Delivering(n)' <=> Delivering(n)) /\ ~InWrite(Owner[n])'
    BY <1>1, <2>1 DEF Commits, Delivering, InWrite
  <2>3. QED
    BY <2>1, <2>2 DEF IInv, VersionsNoted, FileVersions
<1>7. QED
  BY <1>1, <1>2, <1>3, <1>4, <1>5, <1>6

\* A notifier that has run and has blocks makes the versions of its Realm skipped.
LEMMA RunSkips ==
  ASSUME Typed, IInv, NEW n \in Notifiers, nt[n].hasRun, nt[n].callbacks # <<>>
  PROVE  nt[n].list = "main" /\ nt[n].alive /\ SkipsVersions(Owner[n])
<1>1. nt[n].alive /\ nt[n].list \in {"new", "main"}
  BY DEF Typed, Counted, Counts
<1>2. nt[n].list \in {"main", "gone"}
  BY DEF IInv, WorkerInv
<1>3. QED
  BY <1>1, <1>2 DEF SkipsVersions, Listed

\* The blocks of another Realm than the one that commits.
LEMMA CommitOfAnother ==
  ASSUME Suppresses => \A m, n \in Notifiers : Owner[m] = Owner[n],
         Typed, IInv, AllReadable, AllFine, NEW r \in Realms, Commit(r),
         NEW n \in Notifiers, Owner[n] # r, NEW i \in DOMAIN nt[n].callbacks, NEW c, c = nt[n].callbacks[i]
  PROVE  c = nt'[n].callbacks[i] /\ Fine(n, i, c)'
<1>1. /\ Commits(r) /\ latest \in Int /\ NextSG \in Int /\ NextSG <= latest
      /\ WorkerIsFree' <=> WorkerIsFree
      /\ \A x \in touched' : x \in Int /\ (x \in touched \/ latest < x)
      /\ Delivering(n)' <=> Delivering(n)
      /\ ~InWrite(Owner[n])'
      /\ nt[n].version \in Int /\ nt[n].version <= latest
      /\ rv[Owner[n]] \in Int /\ rv[Owner[n]] <= latest
  BY CommitsParts
<1>2. Fine(n, i, c) /\ ~c.mute
  BY <1>1 DEF AllFine, FineAt, Fine, Muting, InWrite, Commits
<1>3. c = nt'[n].callbacks[i]
  <2>1. nt'[n].callbacks[i] = Committed(n, i, r)
    BY CommitParts
  <2>2. QED
    BY <1>2, <2>1 DEF Committed, Rebased, MutedAt
<1>4. /\ nt'[n].version = nt[n].version /\ nt'[n].hasRun = nt[n].hasRun /\ SameTurn(n)
      /\ rv'[Owner[n]] = rv[Owner[n]]
  BY <1>1, TypedParts, OwnerAssumption DEF Commits, InPlaceOnly, SameRun
<1>5. /\ Promised(n, i, c)' <=> Promised(n, i, c)
      /\ Heard(n, c)' = Heard(n, c) /\ Since(n, c)' = Since(n, c)
  BY <1>1, <1>4 DEF Promised, Heard, Underway, Since, SameTurn
<1>6. Kept(n, i, c)'
  <2>1. ChangedIn(Since(n, c), nt[n].version)' \subseteq ChangedIn(Since(n, c), nt[n].version)
    BY <1>1, <1>4, <1>5 DEF ChangedIn
  <2>2. QED
    BY <1>2, <1>5, <2>1 DEF Kept, Fine
<1>7. InTurn(n, i, c)'
  BY <1>1, <1>2, <1>4 DEF InTurn, Fine, SameTurn
<1>8. Ahead(n, c)'
  <2>1. ChangedIn(c.base, rv[Owner[n]] - 1)' \subseteq ChangedIn(c.base, rv[Owner[n]] - 1)
    BY <1>1, <1>4 DEF ChangedIn
  <2>2. QED
    BY <1>2, <1>4, <1>5, <2>1 DEF Ahead, Fine
<1>9. BeforeWrite(n, c)' /\ Muting(n, c)'
  BY <1>1, <1>2 DEF BeforeWrite, Muting, NestedWrite, Fine
<1>10. Skipping(n, i, c)'
  <2> SUFFICES ASSUME c.skip PROVE Skipping(n, i, c)'
    BY DEF Skipping
  <2>1. co'.skip = co.skip
    <3>1. \A m \in Notifiers : Owner[m] # r
      BY <1>2 DEF Fine, Muting
    <3>2. ~SkipsVersions(r)
      BY <3>1 DEF SkipsVersions, Listed
    <3>3. QED
      BY <1>1, <3>2 DEF Commits
  <2>2. nt[n].hasRun => nt[n].version < rv[Owner[n]] /\ (WorkerIsFree => co.skip # 0)
    BY <1>2 DEF Fine, Skipping
  <2>3. ASSUME Promised(n, i, c)
        PROVE  NextSG' = NextSG
    <3>1. nt[n].hasRun
      BY <2>3, PromisedHaveRun
    <3>2. QED
      BY <1>1, <2>1, <2>2, <3>1 DEF NextSG, Commits
  <2>4. ASSUME Promised(n, i, c), NEW x \in ChangedIn(Since(n, c), NextSG)', nt'[n].version < x
        PROVE  x \in c.muted
    <3>1. x \in ChangedIn(Since(n, c), NextSG)
      BY <1>1, <1>5, <2>3, <2>4 DEF ChangedIn
    <3>2. QED
      BY <1>2, <1>4, <2>4, <3>1 DEF Fine, Skipping
  <2>5. QED
    BY <1>1, <1>2, <1>4, <1>5, <2>1, <2>2, <2>4 DEF Skipping
<1>11. QED
  BY <1>3, <1>6, <1>7, <1>8, <1>9, <1>10 DEF Fine

\* The blocks of the Realm that commits, outside a block: they are up to date, and
\* what is skipped is the version committed.
LEMMA CommitOfTheRealm ==
  ASSUME Typed, IInv, AllReadable, AllFine, NEW r \in Realms, Commit(r), ~InBlock(r),
         NEW n \in Notifiers, Owner[n] = r, NEW i \in DOMAIN nt[n].callbacks, NEW d, d = nt'[n].callbacks[i]
  PROVE  Fine(n, i, d)'
<1>1. /\ Commits(r) /\ OwnWrite(r) /\ latest \in Int /\ NextSG' \in Int /\ NextSG' <= latest + 1
      /\ \A x \in touched' : x \in Int /\ (x \in touched \/ latest < x)
      /\ Delivering(n)' <=> Delivering(n)
      /\ ~InWrite(Owner[n])'
  BY CommitsParts
<1>2. PICK c : c = nt[n].callbacks[i]
  OBVIOUS
<1>3. c \in CallbackType /\ Fine(n, i, c)
  BY <1>2, TypedParts DEF AllFine, FineAt, NotifierType
<1>4. d = MutedAt(c, latest + 1)
  <2>1. nt'[n].callbacks[i] = Committed(n, i, r)
    BY CommitParts
  <2>2. QED
    BY <1>2, <2>1 DEF Committed
<1>5. /\ d.acc = c.acc /\ d.del = c.del /\ d.initial = c.initial /\ d.told = c.told
      /\ d.base = c.base /\ d.skip = c.skip /\ d.mute = FALSE
      /\ c.muted \subseteq d.muted /\ (c.mute => latest + 1 \in d.muted)
  <2>1. CommittedAs(d, c, latest + 1)
    BY <1>3, <1>4, CommittedOne
  <2>2. QED
    BY <2>1 DEF CommittedAs
<1>6. FullWrite(r) /\ InWrite(r)
  BY <1>1 DEF FullWrite, OwnWrite
<1>7. nt[n].callbacks # <<>> /\ nt[n].callbacks \in Seq(CallbackType)
  BY TypedParts DEF NotifierType
<1>8. nt[n].hasRun /\ nt[n].version = latest
  BY <1>6, <1>7 DEF AllFine, FineAt, UpToDate
<1>9. /\ nt'[n].version = latest /\ nt'[n].hasRun /\ SameTurn(n) /\ rv'[Owner[n]] = latest + 1
      /\ rv[Owner[n]] = latest
  BY <1>1, <1>8, TypedParts DEF Commits, InPlaceOnly, SameRun
<1>10. /\ Promised(n, i, d)' <=> Promised(n, i, c)
       /\ Heard(n, c) \subseteq Heard(n, d)'
  BY <1>1, <1>5, <1>9 DEF Promised, Heard, Underway, SameTurn
<1>11. Kept(n, i, d)'
  <2>1. CASE d.initial
    <3>1. ChangedIn(Since(n, d), nt[n].version)' \subseteq ChangedIn(Since(n, c), nt[n].version)
      BY <1>1, <1>5, <1>8, <1>9, <2>1 DEF ChangedIn, Since
    <3>2. QED
      BY <1>3, <1>5, <1>10, <3>1 DEF Kept, Fine
  <2>2. CASE ~d.initial
    <3>1. ChangedIn(Since(n, d), nt[n].version)' = {}
      BY <1>1, <1>9, <2>2 DEF ChangedIn, Since
    <3>2. QED
      BY <3>1 DEF Kept
  <2>3. QED
    BY <2>1, <2>2
<1>12. InTurn(n, i, d)'
  BY <1>1, <1>3, <1>5, <1>9 DEF InTurn, Fine, SameTurn
<1>13. Ahead(n, d)'
  <2>1. ChangedIn(d.base, rv[Owner[n]] - 1)' \subseteq ChangedIn(c.base, latest)
    BY <1>1, <1>5, <1>9 DEF ChangedIn
  <2>2. c.initial => ChangedIn(c.base, latest) \subseteq Heard(n, c)
    BY <1>3, <1>6 DEF Fine, BeforeWrite
  <2>3. QED
    BY <1>5, <1>10, <2>1, <2>2 DEF Ahead
<1>14. BeforeWrite(n, d)' /\ Muting(n, d)'
  BY <1>1, <1>3, <1>5 DEF BeforeWrite, Muting, NestedWrite, Fine
<1>15. Skipping(n, i, d)'
  <2> SUFFICES ASSUME d.skip PROVE Skipping(n, i, d)'
    BY DEF Skipping
  <2>1. latest + 1 \in d.muted
    BY <1>1, <1>3, <1>5, <1>8, <1>9 DEF Fine, Skipping
  <2>2. co'.skip # 0
    <3>1. SkipsVersions(r) /\ latest + 1 # 0
      BY <1>1, <1>7, <1>8, RunSkips DEF Commits, Versions
    <3>2. QED
      BY <1>1, <3>1 DEF Commits
  <2>3. ASSUME NEW x \in ChangedIn(Since(n, d), NextSG)', nt'[n].version < x
        PROVE  x = latest + 1
    BY <1>1, <1>9, <2>3 DEF ChangedIn
  <2>4. nt'[n].version < rv'[Owner[n]]
    BY <1>1, <1>9
  <2>5. QED
    BY <2>1, <2>2, <2>3, <2>4 DEF Skipping
<1>16. QED
  BY <1>11, <1>12, <1>13, <1>14, <1>15 DEF Fine

\* The blocks of the Realm in which a block commits: they start again.
LEMMA CommitOfABlock ==
  ASSUME Typed, IInv, AllReadable, AllFine, NEW r \in Realms, Commit(r), InBlock(r),
         NEW n \in Notifiers, Owner[n] = r, NEW i \in DOMAIN nt[n].callbacks, NEW d, d = nt'[n].callbacks[i]
  PROVE  Fine(n, i, d)'
<1>1. /\ Commits(r) /\ latest \in Int /\ NextSG' \in Int /\ NextSG' <= latest + 1
      /\ \A x \in touched' : x \in Int /\ (x \in touched \/ latest < x)
      /\ Delivering(n)' <=> Delivering(n)
      /\ ~InWrite(Owner[n])'
      /\ nt[n].version \in Int /\ nt[n].version <= latest
  BY CommitsParts
<1>2. PICK c, e : c = nt[n].callbacks[i] /\ e = AtVersion(c, latest + 1)
  OBVIOUS
<1>3. c \in CallbackType /\ Fine(n, i, c) /\ e = Rebased(n, i, r, latest + 1)
  BY <1>2, TypedParts DEF AllFine, FineAt, NotifierType, Rebased
<1>4. e \in CallbackType
  BY <1>1, <1>3, RebasedContents DEF Commits
<1>5. d = MutedAt(e, latest + 1)
  <2>1. nt'[n].callbacks[i] = Committed(n, i, r)
    BY CommitParts
  <2>2. QED
    BY <1>3, <2>1 DEF Committed
<1>6. /\ e.acc = c.acc /\ e.del = c.del /\ e.initial = c.initial /\ e.told = c.told
      /\ e.skip = c.skip /\ (e.initial => e.base = latest + 1)
  BY <1>2, <1>3 DEF AtVersion, CallbackType
<1>7. /\ d.acc = c.acc /\ d.del = c.del /\ d.initial = c.initial /\ d.told = c.told
      /\ (d.initial => d.base = latest + 1) /\ d.skip = c.skip /\ d.mute = FALSE
  <2>1. CommittedAs(d, e, latest + 1)
    BY <1>4, <1>5, CommittedOne
  <2>2. QED
    BY <1>6, <2>1 DEF CommittedAs
<1>8. /\ nt'[n].version = nt[n].version /\ nt'[n].hasRun = nt[n].hasRun /\ SameTurn(n)
      /\ rv'[Owner[n]] = latest + 1
  BY <1>1, TypedParts DEF Commits, InPlaceOnly, SameRun
<1>9. Since(n, d)' = latest + 1
  BY <1>7, <1>8 DEF Since
<1>10. Kept(n, i, d)'
  <2>1. ChangedIn(Since(n, d), nt[n].version)' = {}
    BY <1>1, <1>8, <1>9 DEF ChangedIn
  <2>2. QED
    BY <2>1 DEF Kept
<1>11. InTurn(n, i, d)'
  BY <1>1, <1>3, <1>7, <1>8 DEF InTurn, Fine, SameTurn
<1>12. Ahead(n, d)'
  BY <1>1, <1>7, <1>8 DEF Ahead, ChangedIn
<1>13. BeforeWrite(n, d)' /\ Muting(n, d)'
  BY <1>1, <1>3, <1>7 DEF BeforeWrite, Muting, NestedWrite, Fine
<1>14. Skipping(n, i, d)'
  <2>1. nt'[n].hasRun => nt'[n].version < rv'[Owner[n]] /\ co'.skip # 0
    <3>1. nt[n].callbacks # <<>>
      BY TypedParts DEF NotifierType
    <3>2. nt[n].hasRun => SkipsVersions(r) /\ latest + 1 # 0
      BY <1>1, <3>1, RunSkips DEF Commits, Versions
    <3>3. QED
      BY <1>1, <1>8, <3>2 DEF Commits
  <2>2. ChangedIn(Since(n, d), NextSG)' = {}
    BY <1>1, <1>9 DEF ChangedIn
  <2>3. QED
    BY <2>1, <2>2 DEF Skipping
<1>15. QED
  BY <1>10, <1>11, <1>12, <1>13, <1>14 DEF Fine

\* A commit leaves all callbacks fine, if only one Realm is observed where
\* notifications are suppressed.
LEMMA CommitFine ==
  ASSUME Suppresses => \A m, n \in Notifiers : Owner[m] = Owner[n],
         Typed, IInv, AllReadable, AllFine, NEW r \in Realms, Commit(r)
  PROVE  AllFine'
<1>1. ASSUME NEW n \in Notifiers
      PROVE  FineAt(n)'
  <2>1. Commits(r) /\ (Delivering(n)' <=> Delivering(n)) /\ ~InWrite(Owner[n])'
    BY CommitsParts
  <2>2. UpToDate(n)'
    BY <2>1 DEF UpToDate, FullWrite
  <2>3. CountFits(n)'
    <3>1. nt[n].callbacks \in Seq(CallbackType) /\ nt'[n].callbacks \in Seq(CallbackType)
      BY CommitTyped DEF Typed, RTypeOK, NotifierType
    <3>2. Len(nt'[n].callbacks) = Len(nt[n].callbacks) /\ nt'[n].count = nt[n].count
      BY <2>1, <3>1 DEF Commits, InPlaceOnly, SameTurn
    <3>3. QED
      BY <2>1, <3>2 DEF AllFine, FineAt, CountFits
  <2>4. ASSUME NEW i \in DOMAIN nt'[n].callbacks
        PROVE  \E d : d = nt'[n].callbacks[i] /\ Fine(n, i, d)'
    <3>1. PICK c, d : c = nt[n].callbacks[i] /\ d = nt'[n].callbacks[i]
      OBVIOUS
    <3>2. i \in DOMAIN nt[n].callbacks
      BY <2>1 DEF Commits, InPlaceOnly
    <3>3. CASE Owner[n] # r
      <4>1. c = nt'[n].callbacks[i] /\ Fine(n, i, c)'
        BY <3>1, <3>2, <3>3, CommitOfAnother
      <4>2. QED
        BY <4>1
    <3>4. CASE Owner[n] = r
      <4>1. Fine(n, i, d)'
        BY <3>1, <3>2, <3>4, CommitOfTheRealm, CommitOfABlock
      <4>2. QED
        BY <3>1, <4>1
    <3>5. QED
      BY <3>3, <3>4
  <2>5. QED
    BY <2>2, <2>3, <2>4, FineNext
<1>2. QED
  BY <1>1 DEF AllFine

\* Beginning, committing and cancelling writes leave all callbacks fine.
LEMMA TransactFine ==
  ASSUME Suppresses => \A m, n \in Notifiers : Owner[m] = Owner[n],
         Typed, IInv, AllReadable, AllFine, NEW r \in Realms, Transact(r)
  PROVE  AllFine'
BY BeginFine, BeginNestedFine, CommitFine, CancelFine DEF Transact

---------------------------------------------------------------------------------
(* Calling the blocks.                                                       *)

\* A thread goes on with its blocks; in a write it is the one it begins.
LEMMA CallsScene ==
  ASSUME Typed, NEW r \in Realms, UNCHANGED <<latest, touched, writer, rv, wk>>, co'.skip = co.skip,
         writer = r => th[r].job = "begin", th[r].pc # "wait",
         NEW t, OnlyThread(r, t), t.pc = "idle" \/ (t.pc \in {"tell", "callback"} /\ t.job = th[r].job),
         NEW n \in Notifiers, nt'[n].version = nt[n].version, nt'[n].hasRun = nt[n].hasRun
  PROVE  SameScene(n) /\ (InWrite(Owner[n]) => InWrite(Owner[n])')
<1>1. th'[r] = t /\ \A s \in Realms \ {r} : th'[s] = th[s]
  BY OneThread
<1>2. Owner[n] \in Realms
  BY OwnerAssumption
<1>3. /\ InWrite(Owner[n])' <=> InWrite(Owner[n])
      /\ FullWrite(Owner[n])' => FullWrite(Owner[n])
      /\ NestedWrite(Owner[n])' => NestedWrite(Owner[n])
  <2>1. CASE Owner[n] = r
    BY <1>1, <2>1 DEF InWrite, FullWrite, NestedWrite, InBlock
  <2>2. CASE Owner[n] # r
    <3>1. th'[Owner[n]] = th[Owner[n]]
      BY <1>1, <1>2, <2>2
    <3>2. QED
      BY <3>1 DEF InWrite, FullWrite, NestedWrite, InBlock
  <2>3. QED
    BY <2>1, <2>2
<1>4. NextSG' = NextSG /\ (WorkerIsFree' <=> WorkerIsFree)
  BY DEF NextSG, WorkerIsFree
<1>5. QED
  BY <1>3, <1>4 DEF SameScene

\* Waiting, which wakes the worker, leaves all callbacks fine.
LEMMA SleepFine ==
  ASSUME Typed, AllReadable, AllFine, NEW r \in Realms, Sleep(r)
  PROVE  AllFine'
<1> DEFINE t == [th[r] EXCEPT !.first = FALSE]
<1>1. /\ UNCHANGED <<latest, touched, writer, rv, nt, wk>> /\ th[r].pc = "wait"
      /\ th' = [th EXCEPT ![r] = t] /\ th[r] \in ThreadType /\ co \in CoordinatorType
  BY TypedParts DEF Sleep
<1>2. t \in ThreadType /\ t.pc = th[r].pc /\ t.job = th[r].job /\ t.calls = th[r].calls
  BY <1>1 DEF ThreadType
<1> HIDE DEF t
<1>3. co'.skip = co.skip
  BY <1>1 DEF Sleep, CoordinatorType
<1>4. th'[r] = t /\ \A s \in Realms \ {r} : th'[s] = th[s]
  BY <1>1, <1>2, OneThread DEF OnlyThread
<1>5. ASSUME NEW n \in Notifiers
      PROVE  FineAt(n)'
  <2>1. /\ th'[Owner[n]].pc = th[Owner[n]].pc /\ th'[Owner[n]].job = th[Owner[n]].job
        /\ th'[Owner[n]].calls = th[Owner[n]].calls
    BY <1>2, <1>4, OwnerAssumption
  <2>2. /\ InWrite(Owner[n])' <=> InWrite(Owner[n])
        /\ FullWrite(Owner[n])' <=> FullWrite(Owner[n])
        /\ NestedWrite(Owner[n])' <=> NestedWrite(Owner[n])
        /\ Delivering(n)' <=> Delivering(n)
    BY <1>1, <2>1 DEF InWrite, FullWrite, NestedWrite, InBlock, Delivering
  <2>3. NextSG' = NextSG /\ (WorkerIsFree' <=> WorkerIsFree)
    BY <1>1, <1>3 DEF NextSG, WorkerIsFree
  <2>4. SameScene(n) /\ SameBlocks(n) /\ SameTurn(n)
    BY <1>1, <1>3, <2>2, <2>3 DEF SameScene, SameBlocks, SameTurn
  <2>5. \A i \in DOMAIN nt[n].callbacks : nt[n].callbacks[i].mute => InWrite(Owner[n])'
    BY <2>2 DEF AllFine, FineAt, Fine, Muting
  <2>6. QED
    BY <2>2, <2>4, <2>5, SceneStays
<1>6. QED
  BY <1>5 DEF AllFine

\* Handing over the rows leaves all callbacks fine.
LEMMA DeliverFine ==
  ASSUME Typed, AllReadable, AllFine, NEW r \in Realms, Deliver(r)
  PROVE  AllFine'
<1>1. PICK used \in BOOLEAN : \A n \in Notifiers : nt'[n] \in {Given(nt[n], used), nt[n]}
  <2>1. PICK used \in BOOLEAN : GivesRows(used)
    BY DeliverGives
  <2>2. QED
    BY <2>1 DEF GivesRows
<1>2. PICK t : /\ OnlyThread(r, t) /\ t.calls = th[r].calls
               /\ t.pc = "idle" \/ (t.pc = "tell" /\ t.job = th[r].job)
  BY DeliverParts
<1>3. /\ UNCHANGED <<latest, touched, writer, rv, co, wk>> /\ th[r].pc # "wait"
      /\ writer = r => th[r].job = "begin"
  BY DeliverParts
<1>4. ASSUME NEW n \in Notifiers
      PROVE  FineAt(n)'
  <2> DEFINE s == Given(nt[n], used)
  <2>1. /\ s.hasRun = nt[n].hasRun /\ s.version = nt[n].version
        /\ s.index = nt[n].index /\ s.count = nt[n].count /\ s.callbacks = nt[n].callbacks
    BY GivenOne, TypedParts
  <2>2. nt'[n] \in {s, nt[n]}
    BY <1>1
  <2> HIDE DEF s
  <2>3. /\ nt'[n].hasRun = nt[n].hasRun /\ nt'[n].version = nt[n].version
        /\ SameTurn(n) /\ SameBlocks(n)
    BY <2>1, <2>2 DEF SameTurn, SameBlocks
  <2>4. SameScene(n) /\ (InWrite(Owner[n]) => InWrite(Owner[n])')
    BY <1>2, <1>3, <2>3, CallsScene
  <2>5. Delivering(n)' <=> Delivering(n)
    <3>1. th'[r] = t /\ \A o \in Realms \ {r} : th'[o] = th[o]
      BY <1>2, OneThread
    <3>2. th'[Owner[n]].calls = th[Owner[n]].calls
      BY <1>2, <3>1, OwnerAssumption
    <3>3. QED
      BY <3>2 DEF Delivering
  <2>6. QED
    BY <2>3, <2>4, <2>5, SceneStays DEF AllFine, FineAt, Fine, Muting
<1>5. QED
  BY <1>4 DEF AllFine

\* When a notifier's turn ends all its callbacks were called.
LEMMA TurnEndsFine ==
  ASSUME Typed, AllReadable, AllFine, NEW r \in Realms, CallNext(r), NEW m, m = Head(th[r].calls), TurnEnds(r, m)
  PROVE  AllFine'
<1>1. /\ UNCHANGED <<latest, touched, writer, rv, co, wk>> /\ th[r].pc # "wait" /\ th[r].calls # <<>>
      /\ writer = r => th[r].job = "begin"
  BY CallNextParts
<1>2. /\ m \in Notifiers /\ Owner[m] = r /\ Delivering(m)
      /\ Tail(th[r].calls) \in Seq(Notifiers)
      /\ \A k \in DOMAIN Tail(th[r].calls) : k + 1 \in DOMAIN th[r].calls /\ Tail(th[r].calls)[k] = th[r].calls[k + 1]
      /\ \A k \in DOMAIN th[r].calls : th[r].calls[k] = m \/ k - 1 \in DOMAIN Tail(th[r].calls)
  BY <1>1, WhoseTurn
<1>3. PICK t : /\ OnlyThread(r, t) /\ t.calls = Tail(th[r].calls)
               /\ t.pc = "idle" \/ (t.pc = "tell" /\ t.job = th[r].job)
  BY DEF TurnEnds
<1>4. th'[r] = t /\ \A s \in Realms \ {r} : th'[s] = th[s]
  BY <1>3, OneThread
<1>5. /\ \A n \in Notifiers \ {m} : SameNotifier(n)
      /\ SameRun(m) /\ SameBlocks(m) /\ nt'[m].index = 0 /\ nt'[m].count = nt[m].count
  BY <1>2, TurnEndsParts
<1>6. ASSUME NEW n \in Notifiers
      PROVE  SameScene(n) /\ (InWrite(Owner[n]) => InWrite(Owner[n])')
  <2>1. nt'[n].version = nt[n].version /\ nt'[n].hasRun = nt[n].hasRun
    BY <1>5 DEF SameNotifier, SameRun
  <2>2. QED
    BY <1>1, <1>3, <2>1, CallsScene
<1>7. ASSUME NEW n \in Notifiers
      PROVE  (Delivering(n)' => Delivering(n)) /\ (n # m /\ Delivering(n) => Delivering(n)')
  <2>1. CASE Owner[n] = r
    <3>1. ASSUME NEW k \in DOMAIN th'[r].calls, th'[r].calls[k] = n
          PROVE  k + 1 \in DOMAIN th[r].calls /\ th[r].calls[k + 1] = n
      BY <1>2, <1>3, <1>4, <3>1
    <3>2. ASSUME n # m, NEW k \in DOMAIN th[r].calls, th[r].calls[k] = n
          PROVE  k - 1 \in DOMAIN th'[r].calls /\ th'[r].calls[k - 1] = n
      <4>1. th[r].calls \in Seq(Notifiers)
        BY TypedParts DEF ThreadType
      <4>2. k \in Int /\ (k - 1) + 1 = k
        BY <3>2, <4>1
      <4>3. QED
        BY <1>2, <1>3, <1>4, <3>2, <4>2
    <3>3. QED
      BY <2>1, <3>1, <3>2 DEF Delivering
  <2>2. CASE Owner[n] # r
    <3>1. th'[Owner[n]] = th[Owner[n]]
      BY <1>4, <2>2, OwnerAssumption
    <3>2. QED
      BY <3>1 DEF Delivering
  <2>3. QED
    BY <2>1, <2>2
<1>8. ASSUME NEW n \in Notifiers, n # m
      PROVE  FineAt(n)'
  BY <1>5, <1>6, <1>7, <1>8, SceneStays DEF SameNotifier, AllFine, FineAt, Fine, Muting
<1>9. FineAt(m)'
  <2>1. UpToDate(m)'
    BY <1>2, <1>5, <1>6, UpToDateStays DEF AllFine, FineAt, SameBlocks
  <2>2. CountFits(m)'
    BY <1>2, <1>5, <1>7 DEF AllFine, FineAt, CountFits, SameBlocks
  <2>3. ASSUME NEW i \in DOMAIN nt'[m].callbacks
        PROVE  \E d : d = nt'[m].callbacks[i] /\ Fine(m, i, d)'
    <3>1. PICK c : c = nt[m].callbacks[i]
      OBVIOUS
    <3>2. i \in DOMAIN nt[m].callbacks /\ c = nt'[m].callbacks[i] /\ Fine(m, i, c) /\ (c.mute => InWrite(Owner[m])')
      BY <1>2, <1>5, <1>6, <2>3, <3>1 DEF SameBlocks, AllFine, FineAt, Fine, Muting
    <3>3. c.del = {}
      BY <1>2, <3>1, <3>2 DEF Fine, InTurn, TurnEnds, ToDo, HasNews
    <3>4. SameTurnAs(m, i, i, c)
      BY <1>2, <1>5, <3>3 DEF SameTurnAs
    <3>5. Fine(m, i, c)'
      BY <1>2, <1>6, <3>1, <3>2, <3>4, FineStays
    <3>6. QED
      BY <3>2, <3>5
  <2>4. QED
    BY <1>2, <2>1, <2>2, <2>3, FineNext
<1>10. QED
  BY <1>8, <1>9 DEF AllFine

\* The block that is called is told what was packaged for it, or starts to listen
\* at the snapshot.
LEMMA ToldFine ==
  ASSUME Typed, IInv, AllReadable, NEW n \in Notifiers, NEW i \in DOMAIN nt[n].callbacks,
         NEW c, c = nt[n].callbacks[i], Fine(n, i, c), NEW d, d = Told(c, rv[Owner[n]]),
         SameScene(n), Delivering(n), Delivering(n)', i <= nt[n].count, c.mute => InWrite(Owner[n])'
  PROVE  Fine(n, i, d)'
<1>1. c \in CallbackType /\ rv[Owner[n]] \in Versions /\ Readable(n, c) /\ Owner[n] \in Realms
  BY TypedParts, OwnerAssumption DEF NotifierType, AllReadable
<1>2. /\ d.acc = c.acc /\ d.del = {} /\ d.initial = TRUE
      /\ d.told = (IF c.initial THEN c.told \cup c.del ELSE c.told)
      /\ d.base = (IF c.initial THEN c.base ELSE rv[Owner[n]])
      /\ d.skip = c.skip /\ d.mute = c.mute /\ d.muted = c.muted
  <2>1. ToldAs(d, c, rv[Owner[n]])
    BY <1>1, ToldOne
  <2>2. QED
    BY <2>1 DEF ToldAs
<1>3. Promised(n, i, c) /\ rv[Owner[n]] \in Int /\ (\A x \in touched : x \in Int)
  BY <1>1, TypedParts DEF Promised, Versions
<1>4. Since(n, d)' = Since(n, c)
  BY <1>2 DEF Since, SameScene
<1>5. \A x \in touched : Since(n, c) < x /\ x \in Heard(n, c) => x \in Heard(n, d)'
  <2> SUFFICES ASSUME NEW x \in touched, Since(n, c) < x, x \in Heard(n, c)
               PROVE  x \in Heard(n, d)'
    OBVIOUS
  <2>1. x \in c.del \/ x \in c.told \/ x \in c.muted
    BY DEF Heard, Underway
  <2>2. x \in d.told \/ x \in d.muted => x \in Heard(n, d)'
    BY DEF Heard
  <2>3. CASE c.initial
    BY <1>2, <2>1, <2>2, <2>3
  <2>4. CASE ~c.initial
    <3>1. rv[Owner[n]] < x
      BY <2>4 DEF Since
    <3>2. x \notin c.del
      BY <1>1, <1>3, <3>1 DEF Readable
    <3>3. x \notin c.told
      BY <1>1, <2>4 DEF Readable
    <3>4. QED
      BY <1>2, <2>1, <2>2, <3>2, <3>3
  <2>5. QED
    BY <2>3, <2>4
<1>6. Kept(n, i, d)'
  <2>1. ChangedIn(Since(n, d), nt[n].version)' = ChangedIn(Since(n, c), nt[n].version)
    BY <1>4 DEF ChangedIn, SameScene
  <2>2. ChangedIn(Since(n, c), nt[n].version) \subseteq c.acc \cup Heard(n, c)
    BY <1>3 DEF Fine, Kept
  <2>3. \A x \in ChangedIn(Since(n, c), nt[n].version) : x \in touched /\ Since(n, c) < x
    BY DEF ChangedIn
  <2>4. QED
    BY <1>2, <1>5, <2>1, <2>2, <2>3 DEF Kept
<1>7. InTurn(n, i, d)'
  BY <1>2 DEF InTurn
<1>8. Ahead(n, d)'
  <2>1. CASE c.initial
    BY <1>2, <2>1 DEF Fine, Ahead, Heard, Underway, ChangedIn, SameScene
  <2>2. CASE ~c.initial
    BY <1>2, <1>3, <2>2 DEF Ahead, ChangedIn, SameScene
  <2>3. QED
    BY <2>1, <2>2
<1>9. BeforeWrite(n, d)'
  <2>1. CASE c.initial
    BY <1>2, <2>1 DEF Fine, BeforeWrite, Heard, Underway, ChangedIn, SameScene
  <2>2. CASE ~c.initial
    <3>1. InWrite(Owner[n]) => rv[Owner[n]] = latest
      BY <1>1 DEF IInv, WriterIsLatest, InWrite
    <3>2. InWrite(Owner[n])' => rv[Owner[n]] = latest /\ latest' = latest
      BY <3>1 DEF SameScene
    <3>3. NestedWrite(Owner[n])' => InWrite(Owner[n])'
      BY DEF NestedWrite
    <3>4. InWrite(Owner[n])' => ChangedIn(d.base, latest)' = {}
      BY <1>2, <1>3, <2>2, <3>2 DEF ChangedIn, SameScene
    <3>5. QED
      BY <1>2, <2>2, <3>2, <3>3, <3>4 DEF BeforeWrite
  <2>3. QED
    BY <2>1, <2>2
<1>10. Muting(n, d)'
  BY <1>2 DEF Fine, Muting
<1>11. Skipping(n, i, d)'
  <2>1. nt[n].hasRun
    BY <1>3, PromisedHaveRun
  <2>2. ChangedIn(Since(n, d), NextSG)' = ChangedIn(Since(n, c), NextSG)
    BY <1>4, <2>1 DEF ChangedIn, SameScene
  <2>3. QED
    BY <1>2, <1>3, <2>1, <2>2 DEF Fine, Skipping, SameScene
<1>12. QED
  BY <1>6, <1>7, <1>8, <1>9, <1>10, <1>11 DEF Fine

\* Two sequences over the same indexes are as long as each other, and one is empty
\* only when the other is.
LEMMA SameLength ==
  ASSUME NEW S, NEW p \in Seq(S), NEW q \in Seq(S), DOMAIN q = DOMAIN p
  PROVE  Len(q) = Len(p) /\ (q # <<>> => p # <<>>)
<1>1. Len(p) \in Nat /\ Len(q) \in Nat /\ DOMAIN p = 1 .. Len(p) /\ DOMAIN q = 1 .. Len(q)
  OBVIOUS
<1>2. Len(q) = Len(p)
  BY <1>1
<1>3. q # <<>> => Len(q) # 0
  OBVIOUS
<1>4. QED
  BY <1>2, <1>3

\* The callback that is called is told of its changes, the others stay fine.
LEMMA BlockRunsFine ==
  ASSUME Typed, IInv, AllReadable, AllFine, NEW r \in Realms, CallNext(r), NEW m, m = Head(th[r].calls),
         NEW k, BlockRuns(r, m, k)
  PROVE  AllFine'
<1>1. /\ UNCHANGED <<latest, touched, writer, rv, co, wk>> /\ th[r].pc # "wait" /\ th[r].calls # <<>>
      /\ writer = r => th[r].job = "begin"
  BY CallNextParts
<1>2. m \in Notifiers /\ Owner[m] = r /\ Delivering(m)
  BY <1>1, WhoseTurn
<1>3. PICK t : /\ OnlyThread(r, t) /\ t.calls = th[r].calls /\ t.pc = "callback" /\ t.job = th[r].job
  BY DEF BlockRuns
<1>4. /\ \A n \in Notifiers \ {m} : SameNotifier(n)
      /\ SameRun(m) /\ nt'[m].index = k /\ nt'[m].count = nt[m].count
      /\ k \in DOMAIN nt[m].callbacks /\ DOMAIN nt'[m].callbacks = DOMAIN nt[m].callbacks
      /\ \A i \in DOMAIN nt[m].callbacks \ {k} : nt'[m].callbacks[i] = nt[m].callbacks[i]
      /\ nt'[m].callbacks[k] = Told(nt[m].callbacks[k], rv[r])
  BY <1>2, BlockRunsParts
<1>5. ASSUME NEW n \in Notifiers
      PROVE  /\ SameScene(n) /\ (InWrite(Owner[n]) => InWrite(Owner[n])')
             /\ Delivering(n)' <=> Delivering(n)
  <2>1. nt'[n].version = nt[n].version /\ nt'[n].hasRun = nt[n].hasRun
    BY <1>4 DEF SameNotifier, SameRun
  <2>2. SameScene(n) /\ (InWrite(Owner[n]) => InWrite(Owner[n])')
    BY <1>1, <1>3, <2>1, CallsScene
  <2>3. th'[r] = t /\ \A s \in Realms \ {r} : th'[s] = th[s]
    BY <1>3, OneThread
  <2>4. th'[Owner[n]].calls = th[Owner[n]].calls
    BY <1>3, <2>3, OwnerAssumption
  <2>5. QED
    BY <2>2, <2>4 DEF Delivering
<1>6. ASSUME NEW n \in Notifiers, n # m
      PROVE  FineAt(n)'
  <2>1. SameNotifier(n)
    BY <1>4, <1>6
  <2>2. SameTurn(n) /\ SameBlocks(n)
    BY <2>1 DEF SameNotifier
  <2>3. \A i \in DOMAIN nt[n].callbacks : nt[n].callbacks[i].mute => InWrite(Owner[n])'
    BY <1>5 DEF AllFine, FineAt, Fine, Muting
  <2>4. QED
    BY <1>5, <2>2, <2>3, SceneStays DEF AllFine
<1>7. SameScene(m) /\ (InWrite(Owner[m]) => InWrite(Owner[m])') /\ (Delivering(m)' <=> Delivering(m))
  BY <1>2, <1>5
<1>8. FineAt(m)
  BY <1>2 DEF AllFine
<1>9. FineAt(m)'
  <2>1. nt[m].callbacks \in Seq(CallbackType) /\ nt'[m].callbacks \in Seq(CallbackType)
    <3>1. Typed'
      BY CallNextTyped
    <3>2. QED
      BY <1>2, <3>1 DEF Typed, RTypeOK, NotifierType
  <2>2. /\ Len(nt'[m].callbacks) = Len(nt[m].callbacks)
        /\ nt'[m].callbacks # <<>> => nt[m].callbacks # <<>>
    BY <1>4, <2>1, SameLength
  <2>3. UpToDate(m)'
    <3>1. UpToDate(m)
      BY <1>8 DEF FineAt
    <3>2. QED
      BY <1>2, <1>7, <2>2, <3>1, UpToDateStays
  <2>4. CountFits(m)'
    <3>1. CountFits(m)
      BY <1>8 DEF FineAt
    <3>2. (Delivering(m)' => Delivering(m)) /\ nt'[m].count = nt[m].count
      BY <1>4, <1>7
    <3>3. QED
      BY <2>2, <3>1, <3>2 DEF CountFits
  <2>5. ASSUME NEW i \in DOMAIN nt'[m].callbacks
        PROVE  \E d : d = nt'[m].callbacks[i] /\ Fine(m, i, d)'
    <3>1. PICK c, d : c = nt[m].callbacks[i] /\ d = nt'[m].callbacks[i]
      OBVIOUS
    <3>2. i \in DOMAIN nt[m].callbacks /\ Fine(m, i, c) /\ (c.mute => InWrite(Owner[m])') /\ i \in Int /\ k \in Int
      <4>1. i \in DOMAIN nt[m].callbacks /\ k \in DOMAIN nt[m].callbacks
        BY <1>4, <2>5
      <4>2. i \in Int /\ k \in Int
        <5>1. \A q \in Seq(CallbackType) : DOMAIN q \subseteq Int
          OBVIOUS
        <5>2. QED
          BY <2>1, <4>1, <5>1
      <4>3. Fine(m, i, c)
        BY <1>8, <3>1, <4>1 DEF FineAt
      <4>4. c.mute => InWrite(Owner[m])'
        BY <1>7, <4>3 DEF Fine, Muting
      <4>5. QED
        BY <4>1, <4>2, <4>3, <4>4
    <3>3. CASE i = k
      <4>1. d = Told(c, rv[Owner[m]]) /\ i <= nt[m].count
        BY <1>2, <1>4, <3>1, <3>3 DEF BlockRuns, ToDo
      <4>2. Fine(m, i, d)'
        BY <1>2, <1>7, <3>1, <3>2, <4>1, ToldFine
      <4>3. QED
        BY <3>1, <4>2
    <3>4. CASE i # k
      <4>1. d = c
        BY <1>4, <3>1, <3>2, <3>4
      <4>2. c.del # {} /\ nt[m].index < i /\ i <= nt[m].count => k < i
        <5>1. c.del # {} /\ nt[m].index < i /\ i <= nt[m].count => i \in ToDo(m)
          BY <3>1, <3>2 DEF ToDo, HasNews
        <5>2. QED
          BY <3>2, <3>4, <5>1 DEF BlockRuns
      <4>3. SameTurnAs(m, i, i, c)
        <5>1. nt'[m].count = nt[m].count /\ nt'[m].index = k
          BY <1>4
        <5>2. QED
          BY <1>7, <4>2, <5>1 DEF SameTurnAs
      <4>4. Fine(m, i, c)'
        BY <1>2, <1>7, <3>1, <3>2, <4>3, FineStays
      <4>5. QED
        BY <3>1, <4>1, <4>4
    <3>5. QED
      BY <3>3, <3>4
  <2>6. QED
    BY <1>2, <2>3, <2>4, <2>5, FineNext
<1>10. QED
  BY <1>6, <1>9 DEF AllFine

\* Calling the next block, or ending the turn, leaves all callbacks fine.
LEMMA CallNextFine ==
  ASSUME Typed, IInv, AllReadable, AllFine, NEW r \in Realms, CallNext(r)
  PROVE  AllFine'
<1>1. PICK m : m = Head(th[r].calls)
  OBVIOUS
<1>2. TurnEnds(r, m) \/ \E i \in ToDo(m) : BlockRuns(r, m, i)
  BY <1>1, CallNextParts
<1>3. QED
  BY <1>1, <1>2, TurnEndsFine, BlockRunsFine

---------------------------------------------------------------------------------
(* Packaging.                                                                *)

\* What becomes of a packaged block.
LEMMA PackagedBlock ==
  ASSUME NEW c \in CallbackType
  PROVE  LET d == Packaged(c) IN
         /\ d.acc = {} /\ d.del = c.acc /\ d.initial = c.initial /\ d.told = c.told /\ d.base = c.base
         /\ d.skip = c.skip /\ d.mute = c.mute /\ d.muted = c.muted
BY DEF Packaged, CallbackType

\* Who takes a package is not calling blocks; the other Realms do not notice.
LEMMA PackageScene ==
  ASSUME Typed, AllReadable, AllFine, NEW r \in Realms, NEW S \in SUBSET Notifiers, SendsPackage(r, S),
         NEW t, OnlyThread(r, t), NEW n \in Notifiers, rv'[Owner[n]] = rv[Owner[n]] \/ Owner[n] = r
  PROVE  /\ NextSG' = NextSG /\ (WorkerIsFree' <=> WorkerIsFree)
         /\ Owner[n] = r => ~Delivering(n) /\ nt[n].index = 0
         /\ Owner[n] # r => FineAt(n)'
<1>1. th'[r] = t /\ \A s \in Realms \ {r} : th'[s] = th[s]
  BY OneThread
<1>2. NextSG' = NextSG /\ (WorkerIsFree' <=> WorkerIsFree)
  BY DEF SendsPackage, NextSG, WorkerIsFree
<1>3. ASSUME Owner[n] = r
      PROVE  ~Delivering(n) /\ nt[n].index = 0
  BY <1>3 DEF SendsPackage, Delivering, Typed, CallsOwn, CallsOf, Counted, Position
<1>4. ASSUME Owner[n] # r
      PROVE  FineAt(n)'
  <2>1. n \notin S /\ SameNotifier(n)
    BY <1>4 DEF SendsPackage, PackagedAll
  <2>2. th'[Owner[n]] = th[Owner[n]]
    BY <1>1, <1>4, OwnerAssumption
  <2>3. /\ InWrite(Owner[n])' <=> InWrite(Owner[n])
        /\ FullWrite(Owner[n])' <=> FullWrite(Owner[n])
        /\ NestedWrite(Owner[n])' <=> NestedWrite(Owner[n])
        /\ Delivering(n)' <=> Delivering(n)
    BY <2>2 DEF InWrite, FullWrite, NestedWrite, InBlock, Delivering, SendsPackage
  <2>4. SameScene(n)
    BY <1>2, <1>4, <2>1, <2>3 DEF SameScene, SendsPackage, SameNotifier, SameRun
  <2>5. QED
    BY <2>1, <2>3, <2>4, SceneStays DEF SameNotifier, AllFine, FineAt, Fine, Muting
<1>5. QED
  BY <1>2, <1>3, <1>4

\* A package that is thrown away is older than the snapshot: the Realm is ahead of
\* the notifiers by its own commit, and of all that was before nothing is left.
LEMMA NothingSentFine ==
  ASSUME Typed, Typed', IInv, AllReadable, AllFine, NEW r \in Realms, NEW S \in SUBSET Notifiers, SendsPackage(r, S),
         NothingSent(r), \A n \in S : nt[n].version < rv[r]
  PROVE  AllFine'
<1>1. PICK t : OnlyThread(r, t) /\ t.pc = th[r].pc /\ t.job = th[r].job /\ t.calls = th[r].calls
  BY DEF NothingSent
<1>2. th'[r] = t /\ UNCHANGED <<latest, touched, writer, rv, co, wk>>
  BY <1>1, OneThread DEF NothingSent, SendsPackage
<1>3. ASSUME NEW n \in Notifiers, Owner[n] # r
      PROVE  FineAt(n)'
  BY <1>1, <1>2, <1>3, PackageScene
<1>4. ASSUME NEW n \in Notifiers, Owner[n] = r
      PROVE  FineAt(n)'
  <2>1. NextSG' = NextSG /\ (WorkerIsFree' <=> WorkerIsFree) /\ ~Delivering(n)
    BY <1>1, <1>4, PackageScene
  <2>2. /\ InWrite(r)' <=> InWrite(r)
        /\ FullWrite(r)' <=> FullWrite(r)
        /\ NestedWrite(r)' <=> NestedWrite(r)
        /\ Delivering(n)' <=> Delivering(n)
    BY <1>1, <1>2, <1>4 DEF InWrite, FullWrite, NestedWrite, InBlock, Delivering
  <2>3. SameRun(n) /\ DOMAIN nt'[n].callbacks = DOMAIN nt[n].callbacks
    BY DEF SendsPackage, PackagedAll
  <2>4. SameScene(n)
    BY <1>2, <1>4, <2>1, <2>2, <2>3 DEF SameScene, SameRun
  <2>5. ASSUME n \notin S
        PROVE  FineAt(n)'
    <3>1. SameNotifier(n)
      BY <2>5 DEF SendsPackage, PackagedAll
    <3>2. QED
      BY <1>4, <2>2, <2>4, <3>1, SceneStays DEF SameNotifier, AllFine, FineAt, Fine, Muting
  <2>6. ASSUME n \in S
        PROVE  FineAt(n)'
    <3>1. UpToDate(n)'
      <4>1. nt[n].callbacks \in Seq(CallbackType) /\ nt'[n].callbacks \in Seq(CallbackType)
        BY DEF Typed, RTypeOK, NotifierType
      <4>2. nt'[n].callbacks # <<>> => nt[n].callbacks # <<>>
        BY <2>3, <4>1
      <4>3. QED
        BY <2>4, <4>2, UpToDateStays DEF AllFine, FineAt
    <3>2. CountFits(n)'
      BY <2>1, <2>2 DEF CountFits
    <3>3. ASSUME NEW i \in DOMAIN nt'[n].callbacks
          PROVE  \E d : d = nt'[n].callbacks[i] /\ Fine(n, i, d)'
      <4>1. PICK c, d : c = nt[n].callbacks[i] /\ d = nt'[n].callbacks[i]
        OBVIOUS
      <4>2. /\ c \in CallbackType /\ d = Packaged(c) /\ i \in DOMAIN nt[n].callbacks /\ Fine(n, i, c)
            /\ c.mute => InWrite(Owner[n])'
        BY <1>4, <2>2, <2>3, <2>6, <3>3, <4>1, TypedParts
           DEF SendsPackage, PackagedAll, NotifierType, AllFine, FineAt, Fine, Muting
      <4>3. SameTurnAs(n, i, i, c)
        BY <2>1, <2>2 DEF SameTurnAs
      <4>4. Fine(n, i, c)'
        BY <2>4, <4>1, <4>2, <4>3, FineStays
      <4>5. /\ d.acc = {} /\ d.initial = c.initial /\ d.told = c.told /\ d.base = c.base
            /\ d.skip = c.skip /\ d.mute = c.mute /\ d.muted = c.muted
        BY <4>2, PackagedBlock
      <4>6. Heard(n, d)' = Heard(n, c)' /\ Heard(n, c)' = Heard(n, c) /\ (Promised(n, i, d)' <=> c.initial)
        BY <2>1, <2>2, <4>5 DEF Heard, Underway, Promised
      <4>7. Kept(n, i, d)'
        <5> SUFFICES ASSUME c.initial PROVE ChangedIn(Since(n, d), nt[n].version)' \subseteq Heard(n, d)'
          BY <4>6 DEF Kept
        <5>1. nt[n].version < rv[r] /\ nt[n].version \in Int /\ rv[r] \in Int
          BY <2>6, TypedParts DEF IInv, VersionsNoted, Versions
        <5>2. ChangedIn(c.base, rv[r] - 1) \subseteq Heard(n, c)
          BY <1>4, <4>2, <5>1 DEF Fine, Ahead
        <5>3. ChangedIn(Since(n, d), nt[n].version)' \subseteq ChangedIn(c.base, rv[r] - 1)
          <6>1. \A x \in touched : x \in Int
            BY TypedParts DEF Versions
          <6>2. QED
            BY <1>2, <2>3, <4>5, <5>1, <6>1 DEF ChangedIn, Since, SameRun
        <5>4. QED
          BY <4>6, <5>2, <5>3
      <4>8. InTurn(n, i, d)'
        BY <2>1, <2>2 DEF InTurn
      <4>9. Ahead(n, d)' /\ BeforeWrite(n, d)' /\ Muting(n, d)'
        BY <4>4, <4>5, <4>6 DEF Fine, Ahead, BeforeWrite, Muting
      <4>10. Skipping(n, i, d)'
        BY <4>4, <4>5, <4>6 DEF Fine, Skipping, Promised, Since
      <4>11. Fine(n, i, d)'
        BY <4>7, <4>8, <4>9, <4>10 DEF Fine
      <4>12. QED
        BY <4>1, <4>11
    <3>4. QED
      BY <3>1, <3>2, <3>3, FineNext
  <2>7. QED
    BY <2>5, <2>6
<1>5. QED
  BY <1>3, <1>4 DEF AllFine

\* A package is sent to all the notifiers of the Realm that have blocks and have
\* run, at the version they are at.
LEMMA SendingFine ==
  ASSUME Typed, Typed', IInv, AllReadable, AllFine, NEW r \in Realms, NEW S \in SUBSET Notifiers,
         NEW K \in {S, {}}, NEW job, NEW v, SendsPackage(r, S), Sending(r, K, job, v),
         ~InWrite(r), writer = r => job = "begin" /\ v = latest,
         \A n \in Notifiers : Owner[n] = r /\ nt[n].callbacks # <<>> /\ (nt[n].hasRun \/ job = "begin") =>
           n \in K /\ nt[n].version = v
  PROVE  AllFine'
<1>1. PICK t : OnlyThread(r, t) /\ Sends(t, r, job, K, v)
  BY DEF Sending
<1>2. /\ th'[r] = t /\ t.pc \in {"changed", "ready"} /\ t.job = job
      /\ \A s \in Realms \ {r} : th'[s] = th[s]
      /\ UNCHANGED <<latest, touched, writer, co, wk>>
      /\ v \in Int /\ rv[r] \in Int /\ rv[r] <= v /\ rv'[r] = v
      /\ \A s \in Realms \ {r} : rv'[s] = rv[s]
      /\ t.calls \in Seq(K) /\ \A n \in K : \E k \in DOMAIN t.calls : t.calls[k] = n
  BY <1>1, OneThread, TypedParts DEF Sending, SendsPackage, Sends, Versions
<1>3. ASSUME NEW n \in Notifiers, Owner[n] # r
      PROVE  FineAt(n)'
  <2>1. rv'[Owner[n]] = rv[Owner[n]]
    BY <1>2, <1>3, OwnerAssumption
  <2>2. QED
    BY <1>1, <1>3, <2>1, PackageScene
<1>4. ASSUME NEW n \in Notifiers, Owner[n] = r
      PROVE  FineAt(n)'
  <2>1. NextSG' = NextSG /\ (WorkerIsFree' <=> WorkerIsFree) /\ ~Delivering(n) /\ nt[n].index = 0
    BY <1>1, <1>4, PackageScene
  <2>2. /\ nt'[n].version = nt[n].version /\ nt'[n].hasRun = nt[n].hasRun
        /\ nt'[n].index = nt[n].index /\ DOMAIN nt'[n].callbacks = DOMAIN nt[n].callbacks
        /\ n \in S => nt'[n].count = Len(nt[n].callbacks)
        /\ \A i \in DOMAIN nt[n].callbacks :
             nt'[n].callbacks[i] = IF n \in S THEN Packaged(nt[n].callbacks[i]) ELSE nt[n].callbacks[i]
    BY DEF SendsPackage, PackagedAll, SameRun, SameNotifier, SameTurn
  <2>3. /\ nt[n].callbacks \in Seq(CallbackType) /\ nt'[n].callbacks \in Seq(CallbackType)
    BY DEF Typed, RTypeOK, NotifierType
  <2>4. Delivering(n)' <=> n \in K
    <3>1. \A k \in DOMAIN t.calls : t.calls[k] \in K
      BY <1>2
    <3>2. QED
      BY <1>2, <1>4, <3>1 DEF Delivering
  <2>5. /\ InWrite(r)' <=> writer = r
        /\ FullWrite(r)' => job = "begin" /\ v = latest
        /\ ~NestedWrite(r)'
    BY <1>2 DEF InWrite, FullWrite, NestedWrite
  <2>6. UpToDate(n)'
    <3>1. ASSUME nt'[n].callbacks # <<>>, FullWrite(Owner[n])'
          PROVE  nt'[n].hasRun /\ nt'[n].version = latest'
      <4>1. nt[n].callbacks # <<>>
        BY <2>2, <2>3, <3>1
      <4>2. n \in K /\ nt[n].version = v /\ v = latest
        BY <1>4, <2>5, <3>1, <4>1
      <4>3. nt[n].hasRun
        BY <4>2 DEF SendsPackage
      <4>4. QED
        BY <1>2, <2>2, <4>2, <4>3
    <3>2. QED
      BY <3>1 DEF UpToDate
  <2>7. CountFits(n)'
    <3>1. Len(nt'[n].callbacks) = Len(nt[n].callbacks)
      BY <2>2, <2>3
    <3>2. n \in K => n \in S
      OBVIOUS
    <3>3. QED
      BY <2>2, <2>3, <2>4, <3>1, <3>2 DEF CountFits
  <2>8. ASSUME NEW i \in DOMAIN nt'[n].callbacks
        PROVE  \E d : d = nt'[n].callbacks[i] /\ Fine(n, i, d)'
    <3>1. PICK c, d : c = nt[n].callbacks[i] /\ d = nt'[n].callbacks[i]
      OBVIOUS
    <3>2. /\ c \in CallbackType /\ i \in DOMAIN nt[n].callbacks /\ Fine(n, i, c) /\ Readable(n, c)
          /\ nt[n].callbacks # <<>> /\ i \in Int /\ i <= Len(nt[n].callbacks) /\ 1 <= i
      BY <2>2, <2>3, <2>8, <3>1 DEF AllFine, FineAt, AllReadable
    <3>3. ~c.mute
      BY <1>4, <3>2 DEF Fine, Muting
    <3>4. CASE ~nt[n].hasRun
      <4>1. n \notin S /\ n \notin K
        BY <3>4 DEF SendsPackage
      <4>2. d = c /\ ~c.initial /\ c.del = {} /\ ~Promised(n, i, c)'
        BY <2>2, <2>4, <3>1, <3>2, <3>4, <4>1 DEF Readable, Promised
      <4>3. Fine(n, i, d)'
        BY <2>2, <3>2, <3>3, <3>4, <4>2
           DEF Fine, Kept, InTurn, Ahead, BeforeWrite, Muting, Skipping
      <4>4. QED
        BY <3>1, <4>3
    <3>5. CASE nt[n].hasRun
      <4>1. n \in K /\ n \in S /\ nt[n].version = v
        BY <1>4, <3>2, <3>5
      <4>2. d = Packaged(c)
        BY <2>2, <3>1, <3>2, <4>1
      <4>3. /\ d.acc = {} /\ d.del = c.acc /\ d.initial = c.initial /\ d.told = c.told /\ d.base = c.base
            /\ d.skip = c.skip /\ d.mute = c.mute /\ d.muted = c.muted
        BY <3>2, <4>2, PackagedBlock
      <4>4. rv'[Owner[n]] = v /\ nt'[n].version = v
        BY <1>2, <1>4, <2>2, <4>1
      <4>5. Heard(n, d)' = c.acc \cup c.told \cup c.muted /\ Heard(n, c) = c.told \cup c.muted
        BY <2>1, <2>4, <4>1, <4>3 DEF Heard, Underway
      <4>6. c.initial => ChangedIn(c.base, v) \subseteq c.acc \cup c.told \cup c.muted
        BY <3>2, <4>1, <4>5 DEF Fine, Kept, Promised, Since
      <4>7. Kept(n, i, d)'
        <5>1. CASE c.initial
          BY <1>2, <4>3, <4>4, <4>5, <4>6, <5>1 DEF Kept, Since, ChangedIn
        <5>2. CASE ~c.initial
          <6>1. ChangedIn(Since(n, d), nt[n].version)' = {}
            BY <1>2, <4>3, <4>4, <5>2, TypedParts DEF ChangedIn, Since, Versions
          <6>2. QED
            BY <6>1 DEF Kept
        <5>3. QED
          BY <5>1, <5>2
      <4>8. InTurn(n, i, d)'
        BY <2>1, <2>2, <3>2, <4>1 DEF InTurn
      <4>9. Ahead(n, d)'
        BY <1>2, <4>4 DEF Ahead
      <4>10. BeforeWrite(n, d)'
        BY <1>2, <1>4, <2>5, <4>3, <4>5, <4>6 DEF BeforeWrite, ChangedIn
      <4>11. Muting(n, d)'
        BY <3>2, <3>3, <4>3 DEF Fine, Muting
      <4>12. ~d.skip
        BY <1>2, <1>4, <3>2, <3>3, <3>5, <4>1, <4>3 DEF Fine, Skipping
      <4>13. Fine(n, i, d)'
        BY <4>7, <4>8, <4>9, <4>10, <4>11, <4>12 DEF Fine, Skipping
      <4>14. QED
        BY <3>1, <4>13
    <3>6. QED
      BY <3>4, <3>5
  <2>9. QED
    BY <2>6, <2>7, <2>8, FineNext
<1>5. QED
  BY <1>3, <1>4 DEF AllFine

\* A thread that waited takes its package and leaves all callbacks fine.
LEMMA PackageAndAdvanceFine ==
  ASSUME Typed, IInv, AllReadable, AllFine, NEW r \in Realms, PackageAndAdvance(r)
  PROVE  AllFine'
<1> DEFINE S == ReadyFor(r)
<1>1. SendsPackage(r, S) /\ th[r].pc = "wait" /\ AllReady(r)
  BY PackageAndAdvanceParts
<1>2. PICK K \in {S, {}} :
        /\ Sending(r, K, th[r].job, IF K = {} \/ th[r].job = "begin" THEN latest ELSE VersionOf(K))
        /\ K = {} => \A n \in S : nt[n].version < th[r].target
  BY PackageAndAdvanceParts
<1>3. PICK v : v = IF K = {} \/ th[r].job = "begin" THEN latest ELSE VersionOf(K)
  OBVIOUS
<1>4. Sending(r, K, th[r].job, v)
  BY <1>2, <1>3
<1>5. /\ writer = r => th[r].job = "begin" /\ v = latest
      /\ th[r].job = "begin" => v = latest /\ th[r].target = latest
      /\ th[r].target \in Int
  BY <1>1, <1>3 DEF IInv, WaitsForItsOwn, Typed, CallsOwn, CallsOf
<1>6. ~InWrite(r)
  BY <1>1 DEF InWrite
<1>7. ASSUME NEW n \in Notifiers, Owner[n] = r, nt[n].callbacks # <<>>
      PROVE  n \in K /\ nt[n].version = v
  <2>1. nt[n].alive /\ nt[n].have
    BY <1>7 DEF Typed, Counted, Counts
  <2>2. n \in th[r].package
    BY <1>1, <1>7, <2>1 DEF Typed, CallsOwn, CallsOf
  <2>3. nt[n].hasRun /\ nt[n].version >= th[r].target
    BY <1>1, <2>1, <2>2 DEF AllReady
  <2>4. n \in S
    BY <1>7, <2>1, <2>3 DEF ReadyFor
  <2>5. nt[n].version \in Int /\ nt[n].version <= latest /\ latest \in Int
    BY DEF IInv, VersionsNoted, FileVersions
  <2>6. K = S /\ n \in K
    BY <1>2, <1>5, <2>3, <2>4, <2>5
  <2>7. CASE th[r].job = "begin"
    BY <1>5, <2>3, <2>5, <2>6, <2>7
  <2>8. CASE th[r].job # "begin"
    BY <1>4, <2>6, <2>8 DEF Sending
  <2>9. QED
    BY <2>6, <2>7, <2>8
<1>8. Typed'
  BY PackageAndAdvanceTyped
<1>9. S \in SUBSET Notifiers
  BY DEF ReadyFor
<1> HIDE DEF S
<1>10. QED
  BY <1>1, <1>2, <1>4, <1>5, <1>6, <1>7, <1>8, <1>9, SendingFine

\* A thread that is told of changes takes its package and leaves all callbacks
\* fine.
LEMMA NotifyFine ==
  ASSUME Typed, IInv, AllReadable, AllFine, NEW r \in Realms, Notify(r)
  PROVE  AllFine'
<1>1. PICK S \in SUBSET ReadyFor(r) :
        /\ SendsPackage(r, S) /\ th[r].pc = "idle"
        /\ \/ NothingSent(r) /\ \A n \in S : nt[n].version < rv[r]
           \/ /\ Sending(r, S, "notify", IF S = {} THEN latest ELSE VersionOf(S))
              /\ writer # r /\ S = ReadyFor(r)
  BY NotifyParts
<1>2. S \in SUBSET Notifiers
  BY DEF ReadyFor
<1>3. Typed'
  BY NotifyTyped
<1>4. CASE NothingSent(r) /\ \A n \in S : nt[n].version < rv[r]
  BY <1>1, <1>2, <1>3, <1>4, NothingSentFine
<1>5. CASE /\ Sending(r, S, "notify", IF S = {} THEN latest ELSE VersionOf(S))
           /\ writer # r /\ S = ReadyFor(r)
  <2>1. PICK v : v = IF S = {} THEN latest ELSE VersionOf(S)
    OBVIOUS
  <2>2. Sending(r, S, "notify", v) /\ ~InWrite(r) /\ writer # r
    BY <1>5, <2>1 DEF InWrite
  <2>3. ASSUME NEW n \in Notifiers, Owner[n] = r, nt[n].callbacks # <<>>, nt[n].hasRun
        PROVE  n \in S /\ nt[n].version = v
    <3>1. nt[n].alive
      BY <2>3 DEF Typed, Counted, Counts
    <3>2. n \in S
      BY <1>5, <2>3, <3>1 DEF ReadyFor
    <3>3. QED
      BY <2>2, <3>2 DEF Sending
  <2>4. QED
    BY <1>1, <1>2, <1>3, <2>2, <2>3, SendingFine
<1>6. QED
  BY <1>1, <1>4, <1>5

\* Every step of a delivery leaves all callbacks fine.
LEMMA SendFine ==
  ASSUME Typed, IInv, AllReadable, AllFine, NEW r \in Realms, Send(r)
  PROVE  AllFine'
BY SleepFine, PackageAndAdvanceFine, DeliverFine, CallNextFine, NotifyFine DEF Send

---------------------------------------------------------------------------------
(* The worker.                                                               *)

\* A step of the worker that leaves a notifier alone, and if it has run and has
\* blocks, does not change where it goes next.
LEMMA WorkerScene ==
  ASSUME Typed, Typed', AllReadable, AllFine, UNCHANGED <<latest, touched, writer, rv>>,
         NEW n \in Notifiers, th'[Owner[n]].pc = th[Owner[n]].pc, th'[Owner[n]].job = th[Owner[n]].job,
         th'[Owner[n]].calls = th[Owner[n]].calls,
         nt'[n].version = nt[n].version, nt'[n].hasRun = nt[n].hasRun, SameBlocks(n), SameTurn(n),
         nt[n].hasRun /\ nt[n].callbacks # <<>> =>
           /\ NextSG' = NextSG
           /\ WorkerIsFree' /\ co'.skip = 0 => WorkerIsFree /\ co.skip = 0
  PROVE  FineAt(n)'
<1>1. /\ InWrite(Owner[n])' <=> InWrite(Owner[n])
      /\ FullWrite(Owner[n])' <=> FullWrite(Owner[n])
      /\ NestedWrite(Owner[n])' <=> NestedWrite(Owner[n])
      /\ Delivering(n)' <=> Delivering(n)
  BY DEF InWrite, FullWrite, NestedWrite, InBlock, Delivering
<1>2. CASE nt[n].callbacks = <<>>
  BY <1>1, <1>2 DEF AllFine, FineAt, UpToDate, CountFits, SameBlocks, SameTurn
<1>3. CASE nt[n].callbacks # <<>>
  <2>1. SameScene(n)
    BY <1>1, <1>3 DEF SameScene
  <2>2. QED
    BY <1>1, <2>1, SceneStays DEF AllFine, FineAt, Fine, Muting
<1>4. QED
  BY <1>2, <1>3

\* The worker's first step leaves all callbacks fine.
LEMMA StartFine ==
  ASSUME Typed, IInv, AllReadable, AllFine, WorkerStart
  PROVE  AllFine'
<1>1. /\ UNCHANGED <<latest, touched, writer, rv, th>> /\ wk.pc = "idle"
      /\ \A n \in Notifiers : ListsOnly(nt[n], nt'[n])
  BY WorkerStartParts
<1>2. Typed'
  BY WorkerStartTyped
<1>3. ASSUME NEW n \in Notifiers
      PROVE  FineAt(n)'
  <2>1. /\ nt'[n].version = nt[n].version /\ nt'[n].hasRun = nt[n].hasRun
        /\ SameBlocks(n) /\ SameTurn(n)
    BY <1>1 DEF ListsOnly, SameBlocks, SameTurn
  <2>2. ASSUME nt[n].hasRun, nt[n].callbacks # <<>>
        PROVE  NextSG' = NextSG /\ ~WorkerIsFree'
    <3>1. n \in Living("main")
      BY <2>2, RunSkips DEF Living, Listed
    <3>2. wk' = [wk EXCEPT !.pc = "advance", !.old = Living("main"), !.new = Living("new"),
                           !.targets = TargetsOf(CleanedUp(co).skip)]
      BY <3>1, WorkerStartParts
    <3>3. CleanedUp(co).skip = co.skip
      BY <3>1, CleanedUpPins DEF IInv
    <3>4. wk'.pc = "advance" /\ wk'.targets = TargetsOf(co.skip)
      BY <3>2, <3>3, TypedParts DEF WorkerType
    <3>5. ~WorkerIsFree' /\ WorkerIsFree
      BY <1>1, <3>4 DEF WorkerIsFree
    <3>6. TargetsOf(co.skip)[1] = IF co.skip # 0 THEN co.skip ELSE latest
      BY DEF TargetsOf
    <3>7. QED
      BY <3>4, <3>5, <3>6 DEF NextSG
  <2>3. QED
    BY <1>1, <1>2, <2>1, <2>2, WorkerScene
<1>4. QED
  BY <1>3 DEF AllFine

\* Advancing the worker's Realm leaves all callbacks fine.
LEMMA AdvanceFine ==
  ASSUME Typed, IInv, AllReadable, AllFine, WorkerAdvance
  PROVE  AllFine'
<1> DEFINE info == {n \in wk.old : nt[n].hasRun /\ nt[n].have}
           from == co.notifierSG
<1>1. /\ UNCHANGED <<latest, touched, writer, rv, th, nt>> /\ wk.pc = "advance"
      /\ wk' = [wk EXCEPT !.pc = "run", !.from = from, !.info = info]
  BY DEF WorkerAdvance
<1> HIDE DEF info, from
<1>2. wk'.pc = "run" /\ wk'.targets = wk.targets
  BY <1>1, TypedParts DEF WorkerType
<1>3. ~WorkerIsFree /\ ~WorkerIsFree' /\ NextSG' = NextSG
  BY <1>1, <1>2 DEF WorkerIsFree, NextSG
<1>4. Typed'
  BY WorkerAdvanceTyped
<1>5. \A n \in Notifiers : FineAt(n)'
  BY <1>1, <1>3, <1>4, WorkerScene DEF SameBlocks, SameTurn
<1>6. QED
  BY <1>5 DEF AllFine

\* Running the queries leaves all callbacks fine.
LEMMA RunFine ==
  ASSUME Typed, IInv, AllReadable, AllFine, WorkerRun
  PROVE  AllFine'
<1>1. /\ UNCHANGED <<latest, touched, writer, rv, th, co>> /\ wk.pc = "run"
      /\ wk' = [wk EXCEPT !.pc = "handover"]
      /\ \A n \in Notifiers :
           /\ nt'[n].hasRun = nt[n].hasRun /\ nt'[n].version = nt[n].version
           /\ nt'[n].index = nt[n].index /\ nt'[n].count = nt[n].count /\ nt'[n].callbacks = nt[n].callbacks
  BY WorkerRunParts
<1>2. wk'.pc = "handover" /\ wk'.targets = wk.targets
  BY <1>1, TypedParts DEF WorkerType
<1>3. ~WorkerIsFree /\ ~WorkerIsFree' /\ NextSG' = NextSG
  BY <1>1, <1>2 DEF WorkerIsFree, NextSG
<1>4. Typed'
  BY WorkerRunTyped
<1>5. \A n \in Notifiers : FineAt(n)'
  BY <1>1, <1>3, <1>4, WorkerScene DEF SameBlocks, SameTurn
<1>6. QED
  BY <1>5 DEF AllFine

\* Announcing the changes leaves all callbacks fine.
LEMMA AnnounceFine ==
  ASSUME Typed, AllReadable, AllFine, WorkerAnnounce
  PROVE  AllFine'
<1>1. /\ UNCHANGED <<latest, touched, writer, rv, nt, co>> /\ wk.pc = "announce"
      /\ wk' = [wk EXCEPT !.pc = "idle"]
      /\ th' = [r \in Realms |-> [th[r] EXCEPT !.loop = r \in RunLoops]]
  BY DEF WorkerAnnounce
<1>2. wk'.pc = "idle"
  BY <1>1, TypedParts DEF WorkerType
<1>3. WorkerIsFree /\ WorkerIsFree' /\ NextSG' = NextSG
  BY <1>1, <1>2 DEF WorkerIsFree, NextSG
<1>4. ASSUME NEW r \in Realms
      PROVE  th'[r].pc = th[r].pc /\ th'[r].job = th[r].job /\ th'[r].calls = th[r].calls
  <2> DEFINE l == r \in RunLoops
             t == [th[r] EXCEPT !.loop = l]
  <2>1. th[r] \in ThreadType /\ th'[r] = t
    BY <1>1, TypedParts
  <2> HIDE DEF l
  <2>2. t.pc = th[r].pc /\ t.job = th[r].job /\ t.calls = th[r].calls
    BY <2>1 DEF ThreadType
  <2> HIDE DEF t
  <2>3. QED
    BY <2>1, <2>2
<1>5. Typed'
  BY WorkerAnnounceTyped
<1>6. \A n \in Notifiers : FineAt(n)'
  BY <1>1, <1>3, <1>4, <1>5, OwnerAssumption, WorkerScene DEF SameBlocks, SameTurn
<1>7. QED
  BY <1>6 DEF AllFine

\* What is handed over to a block: all that happened since its notifier was handed
\* over last, or if it skips, what was muted of it.
LEMMA HandedBlock ==
  ASSUME Typed, IInv, Sources, AllReadable, AllPrepared, AllFine, WorkerHandover,
         NEW n \in Phase, nt[n].hasRun, NEW i \in DOMAIN nt[n].callbacks, NEW c, c = nt[n].callbacks[i],
         NEW d, d = Merged(c, nt[n].changes)
  PROVE  Fine(n, i, d)'
<1>1. /\ UNCHANGED <<latest, touched, writer, rv, th>> /\ wk.pc = "handover"
      /\ n \in Notifiers /\ nt[n].version <= co.notifierSG
  BY WorkerHandoverParts, HandedOverForward
<1>2. /\ nt'[n].version = co.notifierSG /\ nt'[n].hasRun /\ nt'[n].index = nt[n].index
      /\ nt'[n].count = nt[n].count
  BY <1>1, WorkerHandoverParts
<1>3. c \in CallbackType /\ Fine(n, i, c) /\ nt[n].callbacks # <<>>
  BY <1>1, TypedParts DEF AllFine, FineAt, NotifierType
<1>4. /\ d.acc = (IF c.skip THEN c.acc ELSE c.acc \cup nt[n].changes) /\ d.del = c.del /\ d.told = c.told
      /\ d.initial = c.initial /\ d.base = c.base /\ d.skip = FALSE /\ d.mute = c.mute /\ d.muted = c.muted
  <2>1. MergedAs(d, c, nt[n].changes)
    BY <1>3, MergedOne
  <2>2. QED
    BY <2>1 DEF MergedAs
<1>5. /\ InWrite(Owner[n])' <=> InWrite(Owner[n])
      /\ NestedWrite(Owner[n])' <=> NestedWrite(Owner[n])
      /\ Delivering(n)' <=> Delivering(n)
  BY <1>1 DEF InWrite, NestedWrite, InBlock, Delivering
<1>6. /\ Heard(n, d)' = Heard(n, c) /\ Since(n, d)' = Since(n, c)
      /\ Promised(n, i, d)' <=> Promised(n, i, c)
  BY <1>1, <1>2, <1>4, <1>5 DEF Heard, Underway, Since, Promised
<1>7. NextSG = co.notifierSG
  BY <1>1 DEF NextSG, WorkerIsFree, IInv, WorkerInv
<1>8. Kept(n, i, d)'
  <2> SUFFICES ASSUME Promised(n, i, c), NEW x \in touched, Since(n, c) < x, x <= co.notifierSG
               PROVE  x \in d.acc \cup Heard(n, c)
    BY <1>1, <1>2, <1>6 DEF Kept, ChangedIn
  <2>1. x \in Int /\ nt[n].version \in Int
    BY <1>1, TypedParts DEF Versions, IInv, VersionsNoted
  <2>2. CASE x <= nt[n].version
    <3>1. x \in c.acc \cup Heard(n, c)
      BY <1>3, <2>2 DEF Fine, Kept, ChangedIn
    <3>2. QED
      BY <1>4, <3>1
  <2>3. CASE nt[n].version < x /\ ~c.skip
    <3>1. nt[n].have
      BY <1>1, <1>3 DEF Typed, Counted, Counts
    <3>2. ChangedIn(nt[n].version, co.notifierSG) \subseteq nt[n].changes
      BY <1>1, <3>1 DEF AllPrepared, Prepared
    <3>3. x \in nt[n].changes
      BY <2>3, <3>2 DEF ChangedIn
    <3>4. QED
      BY <1>4, <2>3, <3>3
  <2>4. CASE nt[n].version < x /\ c.skip
    <3>1. x \in ChangedIn(Since(n, c), NextSG)
      BY <1>7 DEF ChangedIn
    <3>2. x \in c.muted
      BY <1>3, <2>4, <3>1 DEF Fine, Skipping
    <3>3. QED
      BY <3>2 DEF Heard
  <2>5. QED
    BY <2>1, <2>2, <2>3, <2>4
<1>9. InTurn(n, i, d)'
  BY <1>2, <1>3, <1>4, <1>5 DEF Fine, InTurn
<1>10. Ahead(n, d)'
  <2>1. rv[Owner[n]] \in Int /\ nt[n].version \in Int /\ co.notifierSG \in Int
    BY <1>1, OwnerAssumption DEF IInv, FileVersions, VersionsNoted
  <2>2. nt'[n].version < rv[Owner[n]] => nt[n].version < rv[Owner[n]]
    BY <1>1, <1>2, <2>1
  <2>3. QED
    BY <1>1, <1>3, <1>4, <1>6, <2>2 DEF Fine, Ahead, ChangedIn
<1>11. BeforeWrite(n, d)'
  BY <1>1, <1>3, <1>4, <1>5, <1>6 DEF Fine, BeforeWrite, ChangedIn
<1>12. Muting(n, d)' /\ Skipping(n, i, d)'
  BY <1>3, <1>4, <1>5 DEF Fine, Muting, Skipping
<1>13. QED
  BY <1>8, <1>9, <1>10, <1>11, <1>12 DEF Fine

\* At the first handover of a notifier nothing is owed to its blocks yet.
LEMMA FirstHandedBlock ==
  ASSUME Typed, IInv, Sources, AllReadable, AllFine, WorkerHandover,
         NEW n \in Phase, ~nt[n].hasRun, NEW i \in DOMAIN nt[n].callbacks, NEW c, c = nt[n].callbacks[i],
         NEW d, d = Merged(c, nt[n].changes)
  PROVE  Fine(n, i, d)'
<1>1. UNCHANGED <<latest, touched, writer, rv, th>> /\ wk.pc = "handover" /\ n \in Notifiers
  BY WorkerHandoverParts, HandedOverForward
<1>2. c \in CallbackType /\ Fine(n, i, c) /\ Readable(n, c)
  BY <1>1, TypedParts DEF AllFine, FineAt, AllReadable, NotifierType
<1>3. d.initial = c.initial /\ d.skip = FALSE /\ d.mute = c.mute
  <2>1. MergedAs(d, c, nt[n].changes)
    BY <1>2, MergedOne
  <2>2. QED
    BY <2>1 DEF MergedAs
<1>4. (InWrite(Owner[n])' <=> InWrite(Owner[n])) /\ (Delivering(n)' <=> Delivering(n))
  BY <1>1 DEF InWrite, Delivering
<1>5. ~Delivering(n) /\ ~c.initial
  BY <1>1, <1>2, PromisedHaveRun, OwnerAssumption DEF Readable, Delivering, Typed, CallsOwn, CallsOf
<1>6. QED
  BY <1>2, <1>3, <1>4, <1>5 DEF Fine, Kept, InTurn, Ahead, BeforeWrite, Muting, Skipping, Promised

\* The handover gives each callback the changes its notifier moves past.
LEMMA HandoverFine ==
  ASSUME Typed, IInv, Sources, AllReadable, AllPrepared, AllFine, WorkerHandover
  PROVE  AllFine'
<1>1. /\ UNCHANGED <<latest, touched, writer, rv, th>> /\ wk.pc = "handover"
      /\ \A n \in Notifiers :
           /\ nt'[n].index = nt[n].index /\ nt'[n].count = nt[n].count
           /\ DOMAIN nt'[n].callbacks = DOMAIN nt[n].callbacks
  BY WorkerHandoverParts
<1>2. Typed'
  BY WorkerHandoverTyped
<1>3. ASSUME NEW n \in Notifiers, n \notin Phase
      PROVE  FineAt(n)'
  <2>1. /\ nt'[n].hasRun = nt[n].hasRun /\ nt'[n].version = nt[n].version
        /\ nt'[n].callbacks = nt[n].callbacks
    BY <1>3, WorkerHandoverParts
  <2>2. ~(nt[n].hasRun /\ nt[n].callbacks # <<>>)
    <3>1. nt[n].hasRun /\ nt[n].callbacks # <<>> => n \in Listed("main")
      BY RunSkips DEF Listed
    <3>2. nt[n].hasRun /\ n \in Listed("main") => n \in wk.old
      BY <1>1 DEF IInv, WorkerInv, WorkerIsFree
    <3>3. wk.old \subseteq Phase
      BY DEF Phase
    <3>4. QED
      BY <1>3, <3>1, <3>2, <3>3
  <2>3. QED
    BY <1>1, <1>2, <2>1, <2>2, WorkerScene DEF SameBlocks, SameTurn
<1>4. ASSUME NEW n \in Notifiers, n \in Phase
      PROVE  FineAt(n)'
  <2>1. /\ nt'[n].hasRun = TRUE /\ nt'[n].version = co.notifierSG
        /\ \A i \in DOMAIN nt[n].callbacks : nt'[n].callbacks[i] = Merged(nt[n].callbacks[i], nt[n].changes)
    BY <1>4, WorkerHandoverParts
  <2>2. nt[n].callbacks \in Seq(CallbackType) /\ nt'[n].callbacks \in Seq(CallbackType)
    BY <1>2 DEF Typed, RTypeOK, NotifierType
  <2>3. UpToDate(n)'
    <3>1. ASSUME nt'[n].callbacks # <<>>, FullWrite(Owner[n])'
          PROVE  co.notifierSG = latest
      <4>1. nt[n].callbacks # <<>> /\ FullWrite(Owner[n])
        BY <1>1, <2>2, <3>1 DEF FullWrite, InWrite
      <4>2. nt[n].hasRun /\ nt[n].version = latest
        BY <4>1 DEF AllFine, FineAt, UpToDate
      <4>3. nt[n].version <= co.notifierSG
        BY <1>1, <1>4, <4>2, HandedOverForward
      <4>4. co.notifierSG <= latest /\ co.notifierSG \in Int /\ latest \in Int
        BY DEF IInv, VersionsNoted, FileVersions
      <4>5. QED
        BY <4>2, <4>3, <4>4
    <3>2. QED
      BY <1>1, <2>1, <3>1 DEF UpToDate
  <2>4. CountFits(n)'
    <3>1. Delivering(n)' <=> Delivering(n)
      BY <1>1 DEF Delivering
    <3>2. Len(nt'[n].callbacks) = Len(nt[n].callbacks)
      BY <1>1, <2>2
    <3>3. QED
      BY <1>1, <3>1, <3>2 DEF AllFine, FineAt, CountFits
  <2>5. ASSUME NEW i \in DOMAIN nt'[n].callbacks
        PROVE  \E d : d = nt'[n].callbacks[i] /\ Fine(n, i, d)'
    <3>1. PICK c, d : c = nt[n].callbacks[i] /\ d = nt'[n].callbacks[i]
      OBVIOUS
    <3>2. i \in DOMAIN nt[n].callbacks /\ d = Merged(c, nt[n].changes)
      BY <1>1, <2>1, <3>1
    <3>3. Fine(n, i, d)'
      BY <1>4, <3>1, <3>2, HandedBlock, FirstHandedBlock
    <3>4. QED
      BY <3>1, <3>3
  <2>6. QED
    BY <2>3, <2>4, <2>5, FineNext
<1>5. QED
  BY <1>3, <1>4 DEF AllFine

---------------------------------------------------------------------------------
(* The invariant, and what follows from it.                                  *)

\* Every step leaves all callbacks fine, under the two conditions.
LEMMA FineKept ==
  ASSUME ~RemovesYoung, Suppresses => \A m, n \in Notifiers : Owner[m] = Owner[n],
         Typed, IInv, Sources, AllReadable, AllPrepared, AllFine, [Next]_vars
  PROVE  AllFine'
<1>1. CASE UNCHANGED vars
  <2>1. \A n \in Notifiers : FineAt(n)'
    <3>1. UNCHANGED <<latest, touched, writer, rv, th, nt, co, wk>>
      BY <1>1 DEF vars
    <3>2. QED
      BY <3>1, QuietStays DEF SameRun, SameBlocks, SameTurn
  <2>2. QED
    BY <2>1 DEF AllFine
<1>2. CASE Worker
  BY <1>2, StartFine, AdvanceFine, RunFine, HandoverFine, AnnounceFine DEF Worker
<1>3. QED
  BY <1>1, <1>2, ObserveFine, TransactFine, SendFine DEF Next

\* At first there is no callback.
LEMMA FineAtFirst == Init => AllFine
<1> SUFFICES ASSUME Init, NEW n \in Notifiers PROVE FineAt(n)
  BY DEF AllFine
<1>1. nt[n].callbacks = <<>> /\ th[Owner[n]].calls = <<>>
  BY OwnerAssumption DEF Init, NewNotifier
<1>2. QED
  BY <1>1 DEF FineAt, UpToDate, CountFits, Delivering

\* Where all callbacks are fine no change is lost.
LEMMA FineMeans ==
  ASSUME Typed, AllFine
  PROVE  NothingLost
<1> SUFFICES ASSUME NEW n \in Notifiers, NEW i \in DOMAIN nt[n].callbacks, nt[n].callbacks[i].initial
             PROVE  ChangedIn(nt[n].callbacks[i].base, nt[n].version) \subseteq
                      nt[n].callbacks[i].acc \cup nt[n].callbacks[i].del \cup nt[n].callbacks[i].told
                        \cup nt[n].callbacks[i].muted
  BY DEF NothingLost
<1>1. PICK c : c = nt[n].callbacks[i]
  OBVIOUS
<1>2. Kept(n, i, c) /\ Promised(n, i, c) /\ Since(n, c) = c.base
  BY <1>1 DEF AllFine, FineAt, Fine, Promised, Since
<1>3. QED
  BY <1>1, <1>2 DEF Kept, Heard, Underway

\* No change is lost: whatever changed the rows since a block was first called, it
\* was told, is about to be told, or a commit asked not to tell it - through skipped
\* versions, packages that overwrite others or are thrown away, writes begun while
\* the worker runs, and blocks that write, refresh and remove blocks.  A block that
\* is added and removed while the others are called, or one that is the first to be
\* added while the worker runs, may break this; and so may two Realms that ask for
\* skipped notifications, as the coordinator keeps one version to skip.
THEOREM NoChangeIsLost ==
  ASSUME ~RemovesYoung, ~LateCallbacks, Suppresses => \A m, n \in Notifiers : Owner[m] = Owner[n]
  PROVE  Spec => []NothingLost
<1> DEFINE Inv == Typed /\ Sources /\ AllReadable /\ AllPrepared /\ AllFine
<1>1. IInv /\ IInv' /\ Inv /\ [Next]_vars => Inv'
  BY TypedStays, SourcesKept, ReadableKept, PreparedKept, FineKept
<1>2. Init => Inv
  BY InitTyped, ReadableAtFirst, PreparedAtFirst, FineAtFirst
<1>3. Spec => []IInv
  BY VersionsFit
<1>4. Inv => NothingLost
  BY FineMeans
<1> HIDE DEF Inv
<1>5. QED
  BY <1>1, <1>2, <1>3, <1>4, PTL DEF Spec
=================================================================================
