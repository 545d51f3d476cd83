----------------------------- MODULE DeliveryProofs -----------------------------
(***************************************************************************)
(* Proofs about what RealmNotifications delivers: rows are imported at the *)
(* version they were exported at (RowsAreImported), a block is told only   *)
(* of what its Realm can read (BlocksCanRead), and, as long as every       *)
(* Results is read between two deliveries and no first callback comes      *)
(* while the worker runs, what it is told is right and told once           *)
(* (OnlyRightChanges, NoChangeIsToldTwice).                                *)
(*                                                                         *)
(* Each property has its invariant, a conjunction over notifiers or over   *)
(* callbacks: RowsFit, AllReadable, AllCurrent and AllApart rest on Typed  *)
(* and IInv of RealmProofs, on Sources (what is calculated and handed over *)
(* speaks of versions the notifier has been at) and on each other in this  *)
(* order.  The first sections say once, for every action, what it does to  *)
(* the callbacks (lemmas named ...Parts), so that the proof for one        *)
(* callback need not open the actions.  AllPrepared is half of the         *)
(* argument that nothing is lost, which LossProofs completes.              *)
(***************************************************************************)
EXTENDS RealmProofs

---------------------------------------------------------------------------------
(* What each step leaves alone.                                              *)

SameRun(n) ==
  /\ nt'[n].list = nt[n].list /\ nt'[n].version = nt[n].version /\ nt'[n].hasRun = nt[n].hasRun
  /\ nt'[n].changes = nt[n].changes /\ nt'[n].prev = nt[n].prev
SameRows(n) == nt'[n].tvHandover = nt[n].tvHandover /\ nt'[n].tvDeliver = nt[n].tvDeliver
SameTurn(n) == nt'[n].index = nt[n].index /\ nt'[n].count = nt[n].count
SameUse(n) == nt'[n].alive = nt[n].alive /\ nt'[n].have = nt[n].have /\ nt'[n].wants = nt[n].wants
SameBlocks(n) == nt'[n].callbacks = nt[n].callbacks
SameNotifier(n) == SameRun(n) /\ SameRows(n) /\ SameTurn(n) /\ SameUse(n) /\ SameBlocks(n)

\* A notifier with the same record has the same fields.
LEMMA SameIfSame ==
  ASSUME NEW n, nt'[n] = nt[n]
  PROVE  SameNotifier(n)
BY DEF SameNotifier, SameRun, SameRows, SameTurn, SameUse, SameBlocks

\* What registering does to the notifier, and that it does nothing else.
LEMMA RegisterParts ==
  ASSUME Typed, IInv, NEW n \in Notifiers, Register(n)
  PROVE  /\ UNCHANGED <<latest, touched, writer, rv, th, wk>> /\ ~InWrite(Owner[n])
         /\ co'.notifierSG = co.notifierSG /\ co'.skip = co.skip
         /\ \A m \in Notifiers \ {n} : SameNotifier(m)
         /\ nt[n].list = "none" /\ nt[n].callbacks = <<>> /\ ~nt[n].hasRun
         /\ nt'[n].list = "new" /\ nt'[n].version = rv[Owner[n]] /\ ~nt'[n].hasRun
         /\ nt'[n].changes = nt[n].changes /\ nt'[n].prev = nt[n].prev
         /\ nt'[n].alive = TRUE /\ nt'[n].wants = TRUE /\ nt'[n].have = nt[n].have
         /\ SameRows(n) /\ SameTurn(n) /\ SameBlocks(n)
<1> DEFINE s == [nt[n] EXCEPT !.list = "new", !.alive = TRUE, !.wants = TRUE, !.version = rv[Owner[n]]]
<1>1. /\ UNCHANGED <<latest, touched, writer, rv, th, wk>> /\ ~InWrite(Owner[n]) /\ nt[n].list = "none"
      /\ nt' = [nt EXCEPT ![n] = s]
      /\ \E v : co' = [co EXCEPT !.advancer = v]
  BY DEF Register
<1>2. nt[n] \in NotifierType /\ nt \in [Notifiers -> NotifierType] /\ co \in CoordinatorType
  BY TypedParts
<1>3. ~nt[n].hasRun /\ nt[n].callbacks = <<>>
  BY <1>1, <1>2 DEF IInv, WorkerInv, Typed, Counted, Counts, NotifierType
<1>4. /\ s.list = "new" /\ s.version = rv[Owner[n]] /\ s.hasRun = nt[n].hasRun
      /\ s.changes = nt[n].changes /\ s.prev = nt[n].prev
      /\ s.alive = TRUE /\ s.wants = TRUE /\ s.have = nt[n].have
      /\ s.tvHandover = nt[n].tvHandover /\ s.tvDeliver = nt[n].tvDeliver
      /\ s.index = nt[n].index /\ s.count = nt[n].count /\ s.callbacks = nt[n].callbacks
  BY <1>2 DEF NotifierType
<1> HIDE DEF s
<1>5. nt'[n] = s /\ \A m \in Notifiers \ {n} : nt'[m] = nt[m]
  BY <1>1, <1>2
<1>6. co'.notifierSG = co.notifierSG /\ co'.skip = co.skip
  BY <1>1, <1>2 DEF CoordinatorType
<1>7. QED
  BY <1>1, <1>3, <1>4, <1>5, <1>6, SameIfSame DEF SameRows, SameTurn, SameBlocks

\* What adding a callback does to the notifier: a new last callback.
LEMMA AddCallbackParts ==
  ASSUME Typed, NEW n \in Notifiers, AddCallback(n)
  PROVE  /\ UNCHANGED <<latest, touched, writer, rv, th, wk>> /\ ~InWrite(Owner[n]) /\ nt[n].alive
         /\ co'.notifierSG = co.notifierSG /\ co'.skip = co.skip
         /\ \A m \in Notifiers \ {n} : SameNotifier(m)
         /\ SameRun(n) /\ SameRows(n) /\ SameTurn(n)
         /\ nt'[n].alive = nt[n].alive /\ nt'[n].wants = nt[n].wants
         /\ ((nt'[n].have # nt[n].have /\ n \in wk.old /\ wk.pc \in {"run", "handover"}) => LateCallbacks)
         /\ Len(nt[n].callbacks) \in Nat /\ Len(nt'[n].callbacks) = Len(nt[n].callbacks) + 1
         /\ \A i \in DOMAIN nt'[n].callbacks :
              \/ i = Len(nt[n].callbacks) + 1 /\ nt'[n].callbacks[i] = NewCallback
              \/ i \in DOMAIN nt[n].callbacks /\ nt'[n].callbacks[i] = nt[n].callbacks[i]
<1> DEFINE q == Append(nt[n].callbacks, NewCallback)
           h == nt[n].have \/ ~(nt[n].index # 0)
           s == [nt[n] EXCEPT !.callbacks = q, !.added = @ + 1, !.have = h]
<1>1. /\ UNCHANGED <<latest, touched, writer, rv, th, wk>> /\ ~InWrite(Owner[n]) /\ nt[n].alive
      /\ n \in wk.old /\ wk.pc \in {"run", "handover"} => nt[n].have \/ LateCallbacks
      /\ nt' = [nt EXCEPT ![n] = s]
      /\ \E v : co' = [co EXCEPT !.signal = v]
  BY DEF AddCallback
<1>2. nt[n] \in NotifierType /\ nt \in [Notifiers -> NotifierType] /\ co \in CoordinatorType
  BY TypedParts
<1>3. /\ Len(nt[n].callbacks) \in Nat /\ Len(q) = Len(nt[n].callbacks) + 1
      /\ \A i \in DOMAIN q :
           \/ i = Len(nt[n].callbacks) + 1 /\ q[i] = NewCallback
           \/ i \in DOMAIN nt[n].callbacks /\ q[i] = nt[n].callbacks[i]
  <2>1. nt[n].callbacks \in Seq(CallbackType)
    BY <1>2 DEF NotifierType
  <2>2. QED
    BY <2>1
<1> HIDE DEF q, h
<1>4. /\ s.list = nt[n].list /\ s.version = nt[n].version /\ s.hasRun = nt[n].hasRun
      /\ s.changes = nt[n].changes /\ s.prev = nt[n].prev
      /\ s.alive = nt[n].alive /\ s.wants = nt[n].wants /\ s.have = h
      /\ s.tvHandover = nt[n].tvHandover /\ s.tvDeliver = nt[n].tvDeliver
      /\ s.index = nt[n].index /\ s.count = nt[n].count /\ s.callbacks = q
  BY <1>2 DEF NotifierType
<1> HIDE DEF s
<1>5. nt'[n] = s /\ \A m \in Notifiers \ {n} : nt'[m] = nt[m]
  BY <1>1, <1>2
<1>6. co'.notifierSG = co.notifierSG /\ co'.skip = co.skip
  BY <1>1, <1>2 DEF CoordinatorType
<1>7. ((s.have # nt[n].have /\ n \in wk.old /\ wk.pc \in {"run", "handover"}) => LateCallbacks)
  <2>1. nt[n].have => h
    BY DEF h
  <2>2. nt[n].have \in BOOLEAN /\ h \in BOOLEAN
    BY <1>2 DEF NotifierType, h
  <2>3. QED
    BY <1>1, <1>4, <2>1, <2>2
<1>8. \A m \in Notifiers \ {n} : SameNotifier(m)
  BY <1>5, SameIfSame
<1>9. SameRun(n) /\ SameRows(n) /\ SameTurn(n)
  BY <1>4, <1>5 DEF SameRun, SameRows, SameTurn
<1>10. nt'[n].callbacks = q /\ nt'[n].have = s.have /\ nt'[n].alive = nt[n].alive /\ nt'[n].wants = nt[n].wants
  BY <1>4, <1>5
<1>11. QED
  BY <1>1, <1>3, <1>6, <1>7, <1>8, <1>9, <1>10

\* What removing a callback does to the notifier: those after it move up, the turn
\* with them.
LEMMA RemoveCallbackParts ==
  ASSUME Typed, NEW n \in Notifiers, NEW i \in DOMAIN nt[n].callbacks, RemoveCallback(n, i)
  PROVE  /\ UNCHANGED <<latest, touched, writer, rv, th, co, wk>>
         /\ \A m \in Notifiers \ {n} : SameNotifier(m)
         /\ SameRun(n) /\ SameRows(n) /\ nt[n].alive
         /\ nt'[n].alive = nt[n].alive /\ nt'[n].wants = nt[n].wants
         /\ (nt'[n].have => nt[n].have)
         /\ nt'[n].index = IndexAfter(nt[n].index, i) /\ nt'[n].count = OneLess(nt[n].count)
         /\ (Delivering(n) /\ i > nt[n].count => RemovesYoung)
         /\ Len(nt[n].callbacks) \in Nat /\ Len(nt'[n].callbacks) = Len(nt[n].callbacks) - 1
         /\ i \in 1 .. Len(nt[n].callbacks)
         /\ \A k \in DOMAIN nt'[n].callbacks :
              \/ k < i /\ k \in DOMAIN nt[n].callbacks /\ nt'[n].callbacks[k] = nt[n].callbacks[k]
              \/ i <= k /\ k + 1 \in DOMAIN nt[n].callbacks /\ nt'[n].callbacks[k] = nt[n].callbacks[k + 1]
<1> DEFINE q == RemoveAt(nt[n].callbacks, i)
           index == IndexAfter(nt[n].index, i)
           count == OneLess(nt[n].count)
           h == Len(nt[n].callbacks) > 1
           s == [nt[n] EXCEPT !.index = index, !.count = count, !.callbacks = q, !.have = h]
<1>1. /\ UNCHANGED <<latest, touched, writer, rv, th, co, wk>>
      /\ nt' = [nt EXCEPT ![n] = s]
      /\ (Delivering(n) /\ i > nt[n].count => RemovesYoung)
  BY DEF RemoveCallback
<1>2. nt[n] \in NotifierType /\ nt \in [Notifiers -> NotifierType]
  BY TypedParts
<1>3. /\ Len(nt[n].callbacks) \in Nat /\ i \in 1 .. Len(nt[n].callbacks) /\ nt[n].callbacks # <<>>
      /\ Len(q) = Len(nt[n].callbacks) - 1
      /\ \A k \in DOMAIN q :
           \/ k < i /\ k \in DOMAIN nt[n].callbacks /\ q[k] = nt[n].callbacks[k]
           \/ i <= k /\ k + 1 \in DOMAIN nt[n].callbacks /\ q[k] = nt[n].callbacks[k + 1]
  <2> DEFINE p == nt[n].callbacks
  <2>1. p \in Seq(CallbackType) /\ i \in DOMAIN p
    BY <1>2 DEF NotifierType
  <2> HIDE DEF p
  <2>2. Len(p) \in Nat /\ i \in 1 .. Len(p) /\ p # <<>> /\ DOMAIN p = 1 .. Len(p)
    BY <2>1
  <2> DEFINE t == RemoveAt(p, i)
  <2>3. /\ t \in Seq(CallbackType) /\ Len(t) = Len(p) - 1
        /\ \A k \in DOMAIN t : t[k] = IF k < i THEN p[k] ELSE p[k + 1]
    BY <2>1, Removed
  <2>4. t = q
    BY DEF p
  <2> HIDE DEF t, q
  <2>5. DOMAIN t = 1 .. Len(p) - 1
    BY <2>2, <2>3
  <2>6. \A k \in DOMAIN t : \/ k < i /\ k \in DOMAIN p /\ t[k] = p[k]
                            \/ i <= k /\ k + 1 \in DOMAIN p /\ t[k] = p[k + 1]
    BY <2>2, <2>3, <2>5
  <2>7. QED
    BY <2>2, <2>3, <2>4, <2>6 DEF p
<1> HIDE DEF q, h, index, count
<1>4. nt[n].alive /\ nt[n].have
  BY <1>3 DEF Typed, Counted, Counts
<1>5. /\ s.list = nt[n].list /\ s.version = nt[n].version /\ s.hasRun = nt[n].hasRun
      /\ s.changes = nt[n].changes /\ s.prev = nt[n].prev
      /\ s.alive = nt[n].alive /\ s.wants = nt[n].wants
      /\ s.tvHandover = nt[n].tvHandover /\ s.tvDeliver = nt[n].tvDeliver
      /\ s.index = index /\ s.count = count /\ s.callbacks = q
  BY <1>2 DEF NotifierType
<1> HIDE DEF s
<1>6. nt'[n] = s /\ \A m \in Notifiers \ {n} : nt'[m] = nt[m]
  BY <1>1, <1>2
<1>7. \A m \in Notifiers \ {n} : SameNotifier(m)
  BY <1>6, SameIfSame
<1>8. SameRun(n) /\ SameRows(n)
  BY <1>5, <1>6 DEF SameRun, SameRows
<1>9. /\ nt'[n].alive = nt[n].alive /\ nt'[n].wants = nt[n].wants /\ (nt'[n].have => nt[n].have)
      /\ nt'[n].index = IndexAfter(nt[n].index, i) /\ nt'[n].count = OneLess(nt[n].count)
      /\ nt'[n].callbacks = q
  BY <1>4, <1>5, <1>6 DEF index, count
<1>10. QED
  BY <1>1, <1>3, <1>4, <1>7, <1>8, <1>9

\* What suppressing the next notification does: the callback is marked and muted.
LEMMA SuppressParts ==
  ASSUME Typed, NEW n \in Notifiers, NEW i \in DOMAIN nt[n].callbacks, Suppress(n, i)
  PROVE  /\ UNCHANGED <<latest, touched, writer, rv, th, co, wk>> /\ OwnWrite(Owner[n]) /\ Suppresses
         /\ \A m \in Notifiers \ {n} : SameNotifier(m)
         /\ SameRun(n) /\ SameRows(n) /\ SameTurn(n) /\ SameUse(n)
         /\ DOMAIN nt'[n].callbacks = DOMAIN nt[n].callbacks
         /\ \A k \in DOMAIN nt[n].callbacks \ {i} : nt'[n].callbacks[k] = nt[n].callbacks[k]
         /\ nt'[n].callbacks[i] = [nt[n].callbacks[i] EXCEPT !.skip = TRUE, !.mute = TRUE]
<1> DEFINE c == [nt[n].callbacks[i] EXCEPT !.skip = TRUE, !.mute = TRUE]
           q == [nt[n].callbacks EXCEPT ![i] = c]
           s == [nt[n] EXCEPT !.callbacks = q]
<1>1. /\ UNCHANGED <<latest, touched, writer, rv, th, co, wk>> /\ OwnWrite(Owner[n]) /\ Suppresses
      /\ nt' = [nt EXCEPT ![n] = s]
  BY DEF Suppress
<1>2. nt[n] \in NotifierType /\ nt \in [Notifiers -> NotifierType]
  BY TypedParts
<1>3. /\ DOMAIN q = DOMAIN nt[n].callbacks /\ q[i] = c
      /\ \A k \in DOMAIN nt[n].callbacks \ {i} : q[k] = nt[n].callbacks[k]
  OBVIOUS
<1> HIDE DEF q, c
<1>4. /\ s.list = nt[n].list /\ s.version = nt[n].version /\ s.hasRun = nt[n].hasRun
      /\ s.changes = nt[n].changes /\ s.prev = nt[n].prev
      /\ s.alive = nt[n].alive /\ s.wants = nt[n].wants /\ s.have = nt[n].have
      /\ s.tvHandover = nt[n].tvHandover /\ s.tvDeliver = nt[n].tvDeliver
      /\ s.index = nt[n].index /\ s.count = nt[n].count /\ s.callbacks = q
  BY <1>2 DEF NotifierType
<1> HIDE DEF s
<1>5. nt'[n] = s /\ \A m \in Notifiers \ {n} : nt'[m] = nt[m]
  BY <1>1, <1>2
<1>6. QED
  BY <1>1, <1>3, <1>4, <1>5, SameIfSame DEF SameRun, SameRows, SameTurn, SameUse, c

\* What releasing a notifier does: it is no longer alive.
LEMMA ReleaseParts ==
  ASSUME Typed, NEW n \in Notifiers, Release(n)
  PROVE  /\ UNCHANGED <<latest, touched, writer, rv, th, co, wk>>
         /\ \A m \in Notifiers \ {n} : SameNotifier(m)
         /\ SameRun(n) /\ SameRows(n) /\ SameTurn(n) /\ SameBlocks(n)
         /\ nt'[n].alive = FALSE /\ nt'[n].have = nt[n].have /\ nt'[n].wants = nt[n].wants
         /\ nt[n].callbacks = <<>>
<1>1. /\ UNCHANGED <<latest, touched, writer, rv, th, co, wk>>
      /\ nt' = [nt EXCEPT ![n].alive = FALSE] /\ nt[n].callbacks = <<>>
  BY DEF Release
<1>2. nt[n] \in NotifierType /\ nt \in [Notifiers -> NotifierType]
  BY TypedParts
<1>3. nt'[n] = [nt[n] EXCEPT !.alive = FALSE] /\ \A m \in Notifiers \ {n} : nt'[m] = nt[m]
  BY <1>1, <1>2
<1>4. nt'[n].alive = FALSE /\ nt'[n].have = nt[n].have /\ nt'[n].wants = nt[n].wants
      /\ SameRun(n) /\ SameRows(n) /\ SameTurn(n) /\ SameBlocks(n)
  BY <1>2, <1>3 DEF NotifierType, SameRun, SameRows, SameTurn, SameBlocks
<1>5. QED
  BY <1>1, <1>3, <1>4, SameIfSame

\* A step that changes what callbacks hold.
InPlaceOnly(n) ==
  /\ SameRun(n) /\ SameRows(n) /\ SameTurn(n) /\ SameUse(n)
  /\ DOMAIN nt'[n].callbacks = DOMAIN nt[n].callbacks

\* A notifier whose callbacks are replaced one by one is otherwise as it was.
LEMMA InPlaceParts ==
  ASSUME Typed, NEW n \in Notifiers, NEW q \in [DOMAIN nt[n].callbacks -> CallbackType],
         nt'[n] = [nt[n] EXCEPT !.callbacks = q]
  PROVE  InPlaceOnly(n) /\ nt'[n].callbacks = q
<1> DEFINE t == nt'[n]
<1>1. nt[n] \in NotifierType /\ t = [nt[n] EXCEPT !.callbacks = q]
  BY TypedParts
<1> HIDE DEF t
<1>2. /\ t.callbacks = q /\ DOMAIN t.callbacks = DOMAIN nt[n].callbacks
      /\ t.alive = nt[n].alive /\ t.hasRun = nt[n].hasRun /\ t.list = nt[n].list /\ t.index = nt[n].index
      /\ t.have = nt[n].have /\ t.version = nt[n].version /\ t.count = nt[n].count
      /\ t.changes = nt[n].changes /\ t.prev = nt[n].prev /\ t.wants = nt[n].wants
      /\ t.tvHandover = nt[n].tvHandover /\ t.tvDeliver = nt[n].tvDeliver
  BY <1>1, InPlaceTyped
<1>3. QED
  BY <1>2 DEF t, InPlaceOnly, SameRun, SameRows, SameTurn, SameUse

\* The callback as the write of a block leaves it.
Rebased(n, i, r, v) ==
  IF Owner[n] = r THEN AtVersion(nt[n].callbacks[i], v) ELSE nt[n].callbacks[i]

\* Rebasing replaces the callbacks of each notifier one by one.
LEMMA RebaseParts ==
  ASSUME Typed, NEW r \in Realms, NEW v \in Versions, NEW n \in Notifiers
  PROVE  /\ Rebase(r, v)[n] = [nt[n] EXCEPT !.callbacks = [i \in DOMAIN nt[n].callbacks |-> Rebased(n, i, r, v)]]
         /\ [i \in DOMAIN nt[n].callbacks |-> Rebased(n, i, r, v)] \in [DOMAIN nt[n].callbacks -> CallbackType]
<1>1. nt[n] \in NotifierType
  BY TypedParts
<1>2. CASE Owner[n] = r
  <2>1. [i \in DOMAIN nt[n].callbacks |-> Rebased(n, i, r, v)]
          = [i \in DOMAIN nt[n].callbacks |-> AtVersion(nt[n].callbacks[i], v)]
    BY <1>2 DEF Rebased
  <2>2. QED
    BY <1>2, <2>1, RebaseEach
<1>3. CASE Owner[n] # r
  <2> DEFINE p == nt[n].callbacks
  <2>1. p \in Seq(CallbackType)
    BY <1>1 DEF NotifierType
  <2>2. [i \in DOMAIN p |-> Rebased(n, i, r, v)] = p
    <3>1. [i \in DOMAIN p |-> Rebased(n, i, r, v)] = [i \in DOMAIN p |-> p[i]]
      BY <1>3 DEF Rebased
    <3> HIDE DEF p
    <3>2. QED
      BY <2>1, <3>1
  <2>3. Rebase(r, v)[n] = nt[n]
    BY <1>3 DEF Rebase
  <2>4. nt[n] = [nt[n] EXCEPT !.callbacks = p]
    BY <1>1 DEF NotifierType
  <2>5. p \in [DOMAIN p -> CallbackType]
    <3> HIDE DEF p
    <3>1. QED
      BY <2>1
  <2>6. QED
    BY <2>2, <2>3, <2>4, <2>5
<1>4. QED
  BY <1>2, <1>3

\* What a write that a block begins does: its Realm is at the latest version, its
\* callbacks are rebased.
LEMMA BeginNestedParts ==
  ASSUME Typed, NEW r \in Realms, BeginNested(r)
  PROVE  /\ UNCHANGED <<latest, touched, th, co, wk>> /\ InBlock(r) /\ writer = none /\ writer' = r
         /\ rv' = [rv EXCEPT ![r] = latest]
         /\ \A n \in Notifiers : InPlaceOnly(n)
         /\ \A n \in Notifiers : \A i \in DOMAIN nt[n].callbacks : nt'[n].callbacks[i] = Rebased(n, i, r, latest)
<1>1. /\ UNCHANGED <<latest, touched, th, co, wk>> /\ InBlock(r) /\ writer = none /\ writer' = r
      /\ rv' = [rv EXCEPT ![r] = latest] /\ nt' = Rebase(r, latest)
  BY DEF BeginNested
<1>2. ASSUME NEW n \in Notifiers
      PROVE  InPlaceOnly(n) /\ \A i \in DOMAIN nt[n].callbacks : nt'[n].callbacks[i] = Rebased(n, i, r, latest)
  <2> DEFINE q == [i \in DOMAIN nt[n].callbacks |-> Rebased(n, i, r, latest)]
  <2>1. nt'[n] = [nt[n] EXCEPT !.callbacks = q] /\ q \in [DOMAIN nt[n].callbacks -> CallbackType]
    BY <1>1, RebaseParts, TypedParts
  <2>2. \A i \in DOMAIN nt[n].callbacks : q[i] = Rebased(n, i, r, latest)
    OBVIOUS
  <2> HIDE DEF q
  <2>3. InPlaceOnly(n) /\ nt'[n].callbacks = q
    BY <2>1, InPlaceParts
  <2>4. QED
    BY <2>2, <2>3
<1>3. QED
  BY <1>1, <1>2

\* The callback as a commit leaves it.
Committed(n, i, r) ==
  MutedAt(IF InBlock(r) THEN Rebased(n, i, r, latest + 1) ELSE nt[n].callbacks[i], latest + 1)

\* What a commit does: one more version, and the muted callbacks are marked with
\* it.
LEMMA CommitParts ==
  ASSUME Typed, NEW r \in Realms, Commit(r)
  PROVE  /\ UNCHANGED <<th, wk>> /\ OwnWrite(r) /\ writer = r /\ writer' = none /\ latest' = latest + 1
         /\ latest + 1 \in Versions
         /\ touched' \in {touched, touched \cup {latest + 1}}
         /\ rv' = [rv EXCEPT ![r] = latest + 1]
         /\ co'.notifierSG = co.notifierSG
         /\ co'.skip = IF SkipsVersions(r) THEN latest + 1 ELSE co.skip
         /\ \A n \in Notifiers : InPlaceOnly(n)
         /\ \A n \in Notifiers : \A i \in DOMAIN nt[n].callbacks : nt'[n].callbacks[i] = Committed(n, i, r)
<1>1. /\ UNCHANGED <<th, wk>> /\ OwnWrite(r) /\ writer = r /\ writer' = none
      /\ touched' \in {touched, touched \cup {latest + 1}}
      /\ rv' = [rv EXCEPT ![r] = latest + 1]
      /\ co' = [co EXCEPT !.skip = IF SkipsVersions(r) THEN latest + 1 ELSE @, !.signal = TRUE]
  BY DEF Commit, OwnWrite, InWrite
<1>2. /\ latest + 1 \in Versions /\ latest' = latest + 1
      /\ \A n \in Notifiers :
           nt'[n] = [CommitBase(r)[n] EXCEPT !.callbacks =
                       [i \in DOMAIN CommitBase(r)[n].callbacks |-> MutedAt(CommitBase(r)[n].callbacks[i], latest + 1)]]
  BY CommitLists
<1>3. co'.notifierSG = co.notifierSG /\ co'.skip = IF SkipsVersions(r) THEN latest + 1 ELSE co.skip
  BY <1>1, TypedParts DEF CoordinatorType
<1>4. ASSUME NEW n \in Notifiers
      PROVE  InPlaceOnly(n) /\ \A i \in DOMAIN nt[n].callbacks : nt'[n].callbacks[i] = Committed(n, i, r)
  <2> DEFINE b(i) == IF InBlock(r) THEN Rebased(n, i, r, latest + 1) ELSE nt[n].callbacks[i]
             p == [i \in DOMAIN nt[n].callbacks |-> b(i)]
             q == [i \in DOMAIN nt[n].callbacks |-> MutedAt(b(i), latest + 1)]
  <2>1. nt[n] \in NotifierType /\ nt[n].callbacks \in [DOMAIN nt[n].callbacks -> CallbackType]
    BY TypedParts DEF NotifierType
  <2>2. CommitBase(r)[n] = [nt[n] EXCEPT !.callbacks = p] /\ p \in [DOMAIN nt[n].callbacks -> CallbackType]
    <3>1. CASE InBlock(r)
      BY <1>2, <3>1, RebaseParts DEF CommitBase
    <3>2. CASE ~InBlock(r)
      <4>1. p = nt[n].callbacks
        BY <2>1, <3>2
      <4>2. nt[n] = [nt[n] EXCEPT !.callbacks = nt[n].callbacks]
        BY <2>1 DEF NotifierType
      <4>3. CommitBase(r) = nt
        BY <3>2 DEF CommitBase
      <4>4. QED
        BY <2>1, <4>1, <4>2, <4>3
    <3>3. QED
      BY <3>1, <3>2
  <2>3. \A i \in DOMAIN nt[n].callbacks : p[i] = b(i) /\ q[i] = MutedAt(b(i), latest + 1)
    OBVIOUS
  <2>4. \A i \in DOMAIN nt[n].callbacks : q[i] = Committed(n, i, r)
    BY <2>3 DEF Committed
  <2>5. DOMAIN q = DOMAIN nt[n].callbacks /\ q = [i \in DOMAIN nt[n].callbacks |-> q[i]]
    OBVIOUS
  <2> HIDE DEF p, b
  <2>6. CommitBase(r)[n] \in NotifierType /\ CommitBase(r)[n].callbacks = p
    <3> DEFINE base == CommitBase(r)[n]
    <3>1. base = [nt[n] EXCEPT !.callbacks = p]
      BY <2>2
    <3> HIDE DEF base
    <3>2. base \in NotifierType /\ base.callbacks = p
      BY <2>1, <2>2, <3>1, InPlaceTyped
    <3>3. QED
      BY <3>2 DEF base
  <2>7. DOMAIN p = DOMAIN nt[n].callbacks
    BY <2>2
  <2>8. /\ q = [i \in DOMAIN p |-> MutedAt(p[i], latest + 1)]
        /\ q \in [DOMAIN nt[n].callbacks -> CallbackType]
    <3>1. q = [i \in DOMAIN p |-> MutedAt(p[i], latest + 1)]
      BY <2>3, <2>7
    <3>2. [i \in DOMAIN CommitBase(r)[n].callbacks |-> MutedAt(CommitBase(r)[n].callbacks[i], latest + 1)]
            \in [DOMAIN CommitBase(r)[n].callbacks -> CallbackType]
      BY <1>2, <2>6, MutedEach
    <3>3. QED
      BY <2>6, <2>7, <3>1, <3>2
  <2> HIDE DEF q
  <2>9. nt'[n] = [CommitBase(r)[n] EXCEPT !.callbacks = q]
    BY <1>2, <2>6, <2>8
  <2>10. [CommitBase(r)[n] EXCEPT !.callbacks = q] = [nt[n] EXCEPT !.callbacks = q]
    BY <2>1, <2>2 DEF NotifierType
  <2>11. InPlaceOnly(n) /\ nt'[n].callbacks = q
    BY <2>8, <2>9, <2>10, InPlaceParts
  <2>12. QED
    BY <2>4, <2>11
<1>5. QED
  BY <1>1, <1>2, <1>3, <1>4

\* The notifiers in S are packaged.
PackagedAll(S) ==
  \A n \in Notifiers :
    /\ SameRun(n) /\ SameUse(n)
    /\ n \notin S => SameNotifier(n)
    /\ n \in S => /\ nt'[n].index = nt[n].index /\ nt'[n].count = Len(nt[n].callbacks)
                  /\ nt'[n].tvHandover = 0 /\ nt'[n].tvDeliver = nt[n].tvHandover
    /\ DOMAIN nt'[n].callbacks = DOMAIN nt[n].callbacks
    /\ \A i \in DOMAIN nt[n].callbacks :
         nt'[n].callbacks[i] = IF n \in S THEN Packaged(nt[n].callbacks[i]) ELSE nt[n].callbacks[i]

\* What packaging does to the notifiers of the package, and to the others.
LEMMA PackageParts ==
  ASSUME Typed, NEW S \in SUBSET Notifiers, nt' = Package(S)
  PROVE  PackagedAll(S)
<1> SUFFICES ASSUME NEW n \in Notifiers
             PROVE  /\ SameRun(n) /\ SameUse(n)
                    /\ n \notin S => SameNotifier(n)
                    /\ n \in S => /\ nt'[n].index = nt[n].index /\ nt'[n].count = Len(nt[n].callbacks)
                                  /\ nt'[n].tvHandover = 0 /\ nt'[n].tvDeliver = nt[n].tvHandover
                    /\ DOMAIN nt'[n].callbacks = DOMAIN nt[n].callbacks
                    /\ \A i \in DOMAIN nt[n].callbacks :
                         nt'[n].callbacks[i] = IF n \in S THEN Packaged(nt[n].callbacks[i]) ELSE nt[n].callbacks[i]
  BY DEF PackagedAll
<1>1. nt'[n] = IF n \in S THEN PackageForDelivery(nt[n]) ELSE nt[n]
  BY DEF Package
<1>2. nt[n] \in NotifierType /\ Len(nt[n].callbacks) <= MaxCallbacks
  BY TypedParts, FewCallbacks
<1>3. CASE n \in S
  <2> DEFINE t == PackageForDelivery(nt[n])
  <2>1. nt'[n] = t
    BY <1>1, <1>3
  <2>2. /\ t.alive = nt[n].alive /\ t.hasRun = nt[n].hasRun /\ t.list = nt[n].list /\ t.index = nt[n].index
        /\ t.have = nt[n].have /\ t.version = nt[n].version
        /\ t.changes = nt[n].changes /\ t.prev = nt[n].prev /\ t.wants = nt[n].wants
        /\ t.count = Len(nt[n].callbacks) /\ t.tvHandover = 0 /\ t.tvDeliver = nt[n].tvHandover
        /\ t.callbacks = [i \in DOMAIN nt[n].callbacks |-> Packaged(nt[n].callbacks[i])]
        /\ DOMAIN t.callbacks = DOMAIN nt[n].callbacks
    BY <1>2, PackagedOne
  <2> HIDE DEF t
  <2>3. QED
    BY <1>3, <2>1, <2>2 DEF SameRun, SameUse
<1>4. CASE n \notin S
  BY <1>1, <1>4, SameIfSame DEF SameNotifier
<1>5. QED
  BY <1>3, <1>4

\* The step of a thread that calls the blocks, as its notifier sees it.
LEMMA TurnEndsParts ==
  ASSUME Typed, NEW r \in Realms, NEW n \in Notifiers, TurnEnds(r, n)
  PROVE  /\ \A m \in Notifiers \ {n} : SameNotifier(m)
         /\ SameRun(n) /\ SameRows(n) /\ SameUse(n) /\ SameBlocks(n)
         /\ nt'[n].index = 0 /\ nt'[n].count = nt[n].count
<1> DEFINE s == [nt[n] EXCEPT !.index = 0]
<1>1. OnlyNotifier(n, s) /\ nt[n] \in NotifierType
  BY TypedParts DEF TurnEnds
<1>2. /\ s.list = nt[n].list /\ s.version = nt[n].version /\ s.hasRun = nt[n].hasRun
      /\ s.changes = nt[n].changes /\ s.prev = nt[n].prev
      /\ s.alive = nt[n].alive /\ s.wants = nt[n].wants /\ s.have = nt[n].have
      /\ s.tvHandover = nt[n].tvHandover /\ s.tvDeliver = nt[n].tvDeliver
      /\ s.index = 0 /\ s.count = nt[n].count /\ s.callbacks = nt[n].callbacks
  BY <1>1 DEF NotifierType
<1> HIDE DEF s
<1>3. nt'[n] = s /\ \A m \in Notifiers \ {n} : nt'[m] = nt[m]
  BY <1>1, OneNotifier
<1>4. QED
  BY <1>2, <1>3, SameIfSame DEF SameRun, SameRows, SameUse, SameBlocks

\* What calling one block does to the notifier: the callback is told, the turn
\* moves to it.
LEMMA BlockRunsParts ==
  ASSUME Typed, NEW r \in Realms, NEW n \in Notifiers, NEW i, BlockRuns(r, n, i)
  PROVE  /\ \A m \in Notifiers \ {n} : SameNotifier(m)
         /\ SameRun(n) /\ SameRows(n) /\ SameUse(n)
         /\ nt'[n].index = i /\ nt'[n].count = nt[n].count
         /\ i \in DOMAIN nt[n].callbacks /\ DOMAIN nt'[n].callbacks = DOMAIN nt[n].callbacks
         /\ \A k \in DOMAIN nt[n].callbacks \ {i} : nt'[n].callbacks[k] = nt[n].callbacks[k]
         /\ nt'[n].callbacks[i] = Told(nt[n].callbacks[i], rv[r])
<1> DEFINE q == [nt[n].callbacks EXCEPT ![i] = Told(nt[n].callbacks[i], rv[r])]
           s == [nt[n] EXCEPT !.index = i, !.callbacks = q]
<1>1. OnlyNotifier(n, s) /\ nt[n] \in NotifierType /\ i \in DOMAIN nt[n].callbacks
  BY TypedParts DEF BlockRuns, ToDo
<1>2. /\ DOMAIN q = DOMAIN nt[n].callbacks /\ q[i] = Told(nt[n].callbacks[i], rv[r])
      /\ \A k \in DOMAIN nt[n].callbacks \ {i} : q[k] = nt[n].callbacks[k]
  BY <1>1
<1> HIDE DEF q
<1>3. /\ s.list = nt[n].list /\ s.version = nt[n].version /\ s.hasRun = nt[n].hasRun
      /\ s.changes = nt[n].changes /\ s.prev = nt[n].prev
      /\ s.alive = nt[n].alive /\ s.wants = nt[n].wants /\ s.have = nt[n].have
      /\ s.tvHandover = nt[n].tvHandover /\ s.tvDeliver = nt[n].tvDeliver
      /\ s.index = i /\ s.count = nt[n].count /\ s.callbacks = q
  BY <1>1 DEF NotifierType
<1> HIDE DEF s
<1>4. nt'[n] = s /\ \A m \in Notifiers \ {n} : nt'[m] = nt[m]
  BY <1>1, OneNotifier
<1>5. QED
  BY <1>1, <1>2, <1>3, <1>4, SameIfSame DEF SameRun, SameRows, SameUse

\* A package is sent: what was packaged goes to the blocks, all of it or nothing,
\* at a version that is not behind the snapshot; unless it is begun with, it is
\* the version of every notifier in it.
SendsPackage(r, S) ==
  /\ th[r].pc \in {"idle", "wait"} /\ UNCHANGED <<latest, touched, writer, co, wk>>
  /\ PackagedAll(S)
  /\ \A n \in S : Owner[n] = r /\ nt[n].hasRun /\ nt[n].alive /\ nt[n].list = "main"
  /\ \A m, n \in S : nt[m].version = nt[n].version

Sending(r, S, job, v) ==
  /\ v \in Versions /\ rv[r] <= v /\ v <= latest /\ rv' = [rv EXCEPT ![r] = v]
  /\ \E t : OnlyThread(r, t) /\ Sends(t, r, job, S, v)
  /\ \A n \in S : nt[n].version <= v /\ (job # "begin" => nt[n].version = v)

\* Nothing is sent and the thread stays where it is.
NothingSent(r) ==
  /\ UNCHANGED rv /\ th[r].pc = "idle"
  /\ \E t : /\ OnlyThread(r, t) /\ t.pc = th[r].pc /\ t.job = th[r].job /\ t.calls = th[r].calls
            /\ t.to = th[r].to

\* A package has one version, and it is that of each of its notifiers.
LEMMA PackageVersion ==
  ASSUME Typed, IInv, NEW S \in SUBSET Notifiers, \A n \in S : nt[n].hasRun /\ nt[n].alive
  PROVE  /\ \A n \in S : nt[n].list = "main" /\ nt[n].version = VersionOf(S)
         /\ \A m, n \in S : nt[m].version = nt[n].version
<1>1. \A n \in S : nt[n].list = "main"
  BY DEF IInv, WorkerInv, Typed, Counted, Counts
<1>2. \A m, n \in S : nt[m].version = nt[n].version
  BY <1>1 DEF IInv, OneVersion, Listed
<1>3. S # {} => \E n \in S : VersionOf(S) = nt[n].version
  BY VersionOfThem
<1>4. QED
  BY <1>1, <1>2, <1>3

\* The notifiers whose handed over rows and changes a thread takes.
ReadyFor(r) == {n \in Notifiers : Owner[n] = r /\ nt[n].hasRun /\ nt[n].alive}

\* The notifiers of a Realm that have run are those a package is taken of.
LEMMA ReadyTyped ==
  ASSUME Typed, IInv, NEW r \in Realms
  PROVE  /\ {n \in NotifiersFor(r) : nt[n].hasRun} = ReadyFor(r)
         /\ th[r].pc = "wait" => {n \in th[r].package : nt[n].hasRun /\ nt[n].alive} = ReadyFor(r)
<1>1. \A n \in Notifiers : n \in NotifiersFor(r) <=> Owner[n] = r /\ nt[n].alive
  BY DEF NotifiersFor, Listed, Typed, Counted, Counts
<1>2. NotifiersFor(r) \subseteq Notifiers /\ th[r].package \subseteq Notifiers
  BY ForRealm, TypedParts DEF ThreadType
<1>3. {n \in NotifiersFor(r) : nt[n].hasRun} = ReadyFor(r)
  BY <1>1, <1>2 DEF ReadyFor
<1>4. ASSUME th[r].pc = "wait"
      PROVE  {n \in th[r].package : nt[n].hasRun /\ nt[n].alive} = ReadyFor(r)
  <2>1. \A n \in Notifiers : Owner[n] = r /\ nt[n].alive => n \in th[r].package
    BY <1>4 DEF Typed, CallsOwn, CallsOf
  <2>2. \A n \in th[r].package : Owner[n] = r
    BY DEF Typed, CallsOwn, CallsOf
  <2>3. QED
    BY <1>2, <2>1, <2>2 DEF ReadyFor
<1>5. QED
  BY <1>3, <1>4

\* What a thread that waited does: it takes a package of all who are ready, and
\* sends it or nothing.
LEMMA PackageAndAdvanceParts ==
  ASSUME Typed, IInv, NEW r \in Realms, PackageAndAdvance(r)
  PROVE  /\ SendsPackage(r, ReadyFor(r)) /\ th[r].pc = "wait" /\ AllReady(r)
         /\ \E S \in {ReadyFor(r), {}} :
              /\ Sending(r, S, th[r].job, IF S = {} \/ th[r].job = "begin" THEN latest ELSE VersionOf(S))
              /\ S = {} => \A n \in ReadyFor(r) : nt[n].version < th[r].target
<1> DEFINE ready == ReadyFor(r)
           kept == IF VersionOf(ready) < th[r].target THEN {} ELSE ready
           v == IF kept = {} \/ th[r].job = "begin" THEN latest ELSE VersionOf(kept)
           job == th[r].job
<1>1. /\ th[r].pc = "wait" /\ AllReady(r) /\ UNCHANGED <<latest, touched, writer, co, wk>>
      /\ nt' = Package({n \in th[r].package : nt[n].hasRun /\ nt[n].alive})
      /\ {n \in th[r].package : nt[n].hasRun /\ nt[n].alive} = ready
  BY ReadyTyped DEF PackageAndAdvance
<1>2. nt' = Package(ready) /\ StartSending(r, job, kept, v)
  BY <1>1 DEF PackageAndAdvance
<1>3. /\ job \in {"begin", "refresh"} /\ (job = "begin" <=> writer = r)
      /\ th[r].target \in Nat /\ rv[r] <= th[r].target /\ rv[r] \in Nat /\ 1 <= rv[r] /\ rv[r] <= latest /\ latest \in Nat
  BY <1>1 DEF IInv, WaitsForItsOwn, FileVersions
<1>4. /\ ready \in SUBSET Notifiers
      /\ \A n \in ready : Owner[n] = r /\ nt[n].hasRun /\ nt[n].alive
  BY DEF ReadyFor
<1>5. /\ \A n \in ready : nt[n].list = "main" /\ nt[n].version = VersionOf(ready)
      /\ \A m, n \in ready : nt[m].version = nt[n].version
  <2> HIDE DEF ready
  <2>1. QED
    BY <1>4, PackageVersion
<1>6. VersionOf(ready) \in Nat /\ VersionOf(ready) <= latest
  BY <1>4, PackagedExists DEF IInv, Work, Threads
<1>7. SendsPackage(r, ready)
  <2>1. PackagedAll(ready)
    BY <1>2, <1>4, PackageParts
  <2>2. QED
    BY <1>1, <1>4, <1>5, <2>1 DEF SendsPackage
<1>8. kept \in {ready, {}} /\ (kept = {} => \A n \in ready : nt[n].version < th[r].target)
  BY <1>5
<1> HIDE DEF ready
<1>9. v \in Versions /\ rv[r] <= v /\ v <= latest
  <2>1. latest \in Versions /\ latest <= MaxVersion /\ MaxVersion \in Nat
    BY TypedParts, BoundsAssumption DEF Versions
  <2>2. CASE kept = {} \/ job = "begin"
    BY <1>3, <2>1, <2>2
  <2>3. CASE ~(kept = {} \/ job = "begin")
    <3>1. kept = ready /\ ~(VersionOf(ready) < th[r].target) /\ v = VersionOf(ready)
      BY <2>3
    <3>2. v \in Nat /\ 1 <= v /\ v <= MaxVersion
      BY <1>3, <1>6, <2>1, <3>1
    <3> HIDE DEF v
    <3>3. QED
      BY <1>3, <1>6, <2>1, <3>1, <3>2 DEF Versions
  <2>4. QED
    BY <2>2, <2>3
<1>10. \A n \in kept : nt[n].version <= v /\ (job # "begin" => nt[n].version = v)
  BY <1>5, <1>6
<1> HIDE DEF kept
<1>11. Sending(r, kept, job, v)
  <2> HIDE DEF v, job
  <2>1. \E t : OnlyThread(r, t) /\ Sends(t, r, job, kept, v)
    BY <1>2, <1>3, <1>4, <1>8, <1>9, SendingThread
  <2>2. rv' = [rv EXCEPT ![r] = v]
    BY <1>2 DEF StartSending
  <2>3. QED
    BY <1>9, <1>10, <2>1, <2>2 DEF Sending
<1>12. QED
  BY <1>1, <1>7, <1>8, <1>11 DEF ready

\* What a thread that is told of changes does: it takes a package, and sends it or
\* throws it away.
LEMMA NotifyParts ==
  ASSUME Typed, IInv, NEW r \in Realms, Notify(r)
  PROVE  \E S \in SUBSET ReadyFor(r) :
           /\ SendsPackage(r, S) /\ th[r].pc = "idle"
           /\ \/ NothingSent(r) /\ \A n \in S : nt[n].version < rv[r]
              \/ /\ Sending(r, S, "notify", IF S = {} THEN latest ELSE VersionOf(S))
                 /\ writer # r /\ S = ReadyFor(r)
<1> DEFINE run == ReadyFor(r)
           here == {n \in run : nt[n].version = rv[r]}
           nothing == th' = [th EXCEPT ![r].loop = FALSE] /\ rv' = rv
<1>1. UNCHANGED <<latest, touched, writer, co, wk>> /\ th[r].pc = "idle"
  BY DEF Notify
<1>2. \/ nothing /\ nt' = nt
      \/ /\ writer # r /\ rv[r] = latest /\ nt' = Package(here)
         /\ IF here = {} THEN nothing ELSE StartSending(r, "notify", here, rv[r])
      \/ /\ writer # r /\ rv[r] < latest /\ nt' = Package(run)
         /\ IF Outdated(r, run) THEN nothing
            ELSE StartSending(r, "notify", run, IF run = {} THEN latest ELSE VersionOf(run))
  BY ReadyTyped DEF Notify
<1>3. /\ rv[r] \in Nat /\ 1 <= rv[r] /\ rv[r] <= latest /\ latest \in Nat /\ latest \in Versions /\ rv[r] \in Versions
  BY TypedParts DEF IInv, FileVersions
<1>4. /\ run \in SUBSET Notifiers
      /\ \A n \in run : Owner[n] = r /\ nt[n].hasRun /\ nt[n].alive
  BY DEF ReadyFor
<1>5. /\ \A n \in run : nt[n].list = "main" /\ nt[n].version = VersionOf(run)
      /\ \A m, n \in run : nt[m].version = nt[n].version
  <2> HIDE DEF run
  <2>1. QED
    BY <1>4, PackageVersion
<1> HIDE DEF run
<1>6. \A S \in SUBSET run : PackagedAll(S) => SendsPackage(r, S)
  BY <1>1, <1>4, <1>5 DEF SendsPackage
<1>7. nothing => NothingSent(r)
  <2> SUFFICES ASSUME nothing PROVE NothingSent(r)
    OBVIOUS
  <2> DEFINE t == [th[r] EXCEPT !.loop = FALSE]
  <2>1. th[r] \in ThreadType /\ th' = [th EXCEPT ![r] = t] /\ UNCHANGED rv
    BY TypedParts
  <2>2. t \in ThreadType /\ t.pc = th[r].pc /\ t.job = th[r].job /\ t.calls = th[r].calls /\ t.to = th[r].to
    BY <2>1 DEF ThreadType
  <2> HIDE DEF t
  <2>3. OnlyThread(r, t)
    BY <2>1, <2>2 DEF OnlyThread
  <2>4. QED
    BY <1>1, <2>1, <2>2, <2>3 DEF NothingSent
<1> HIDE DEF nothing
<1>8. CASE nothing /\ nt' = nt
  <2>1. PackagedAll({})
    BY <1>8, SameIfSame DEF PackagedAll, SameNotifier, SameBlocks
  <2>2. QED
    BY <1>1, <1>6, <1>7, <1>8, <2>1 DEF run
<1>9. CASE /\ writer # r /\ rv[r] = latest /\ nt' = Package(here)
           /\ IF here = {} THEN nothing ELSE StartSending(r, "notify", here, rv[r])
  <2>1. here \in SUBSET run /\ PackagedAll(here) /\ SendsPackage(r, here)
    BY <1>4, <1>6, <1>9, PackageParts
  <2>2. CASE here = {}
    BY <1>1, <1>7, <1>9, <2>1, <2>2 DEF run
  <2>3. CASE here # {}
    <3>1. VersionOf(here) = rv[r]
      <4>1. here \in SUBSET Notifiers /\ \A n \in here : nt[n].version = rv[r]
        BY <1>4
      <4> HIDE DEF here
      <4>2. \E n \in here : VersionOf(here) = nt[n].version
        BY <2>3, <4>1, VersionOfThem
      <4>3. QED
        BY <4>1, <4>2
    <3>2. StartSending(r, "notify", here, rv[r]) /\ here \in SUBSET Notifiers
      BY <1>4, <1>9, <2>3
    <3>3. here = run /\ \A n \in here : nt[n].version = rv[r]
      BY <1>5, <2>3
    <3> HIDE DEF here
    <3>4. \E t : OnlyThread(r, t) /\ Sends(t, r, "notify", here, rv[r])
      BY <1>3, <3>2, SendingThread
    <3>5. rv' = [rv EXCEPT ![r] = rv[r]]
      BY <3>2 DEF StartSending
    <3>6. Sending(r, here, "notify", rv[r])
      BY <1>3, <3>3, <3>4, <3>5 DEF Sending
    <3>7. QED
      BY <1>1, <1>9, <2>1, <2>3, <3>1, <3>3, <3>6 DEF run
  <2>4. QED
    BY <2>2, <2>3
<1>10. CASE /\ writer # r /\ rv[r] < latest /\ nt' = Package(run)
            /\ IF Outdated(r, run) THEN nothing
               ELSE StartSending(r, "notify", run, IF run = {} THEN latest ELSE VersionOf(run))
  <2>1. PackagedAll(run) /\ SendsPackage(r, run)
    BY <1>4, <1>6, <1>10, PackageParts
  <2>2. CASE Outdated(r, run)
    <3>1. \A n \in run : nt[n].version < rv[r]
      BY <1>5, <2>2 DEF Outdated
    <3>2. QED
      BY <1>1, <1>7, <1>10, <2>1, <2>2, <3>1 DEF run
  <2>3. CASE ~Outdated(r, run)
    <3> DEFINE v == IF run = {} THEN latest ELSE VersionOf(run)
    <3>1. VersionOf(run) \in Nat /\ VersionOf(run) <= latest /\ (run # {} => ~(VersionOf(run) < rv[r]))
      BY <1>4, <2>3, PackagedExists DEF IInv, Work, Threads, Outdated
    <3>2. v \in Versions /\ rv[r] <= v /\ v <= latest
      <4>1. latest <= MaxVersion /\ MaxVersion \in Nat
        BY TypedParts, BoundsAssumption DEF Versions
      <4>2. CASE run = {}
        BY <1>3, <4>2
      <4>3. CASE run # {}
        BY <1>3, <3>1, <4>1, <4>3 DEF Versions
      <4>4. QED
        BY <4>2, <4>3
    <3>3. \A n \in run : nt[n].version = v /\ nt[n].version <= v
      BY <1>5, <3>1
    <3>4. StartSending(r, "notify", run, v)
      BY <1>10, <2>3
    <3> HIDE DEF v
    <3>5. \E t : OnlyThread(r, t) /\ Sends(t, r, "notify", run, v)
      BY <1>4, <3>2, <3>4, SendingThread
    <3>6. rv' = [rv EXCEPT ![r] = v]
      BY <3>4 DEF StartSending
    <3>7. Sending(r, run, "notify", v)
      BY <3>2, <3>3, <3>5, <3>6 DEF Sending
    <3>8. QED
      BY <1>1, <1>10, <2>1, <3>7 DEF run, v
  <2>4. QED
    BY <2>2, <2>3
<1>11. QED
  BY <1>2, <1>8, <1>9, <1>10

---------------------------------------------------------------------------------
(* What is handed over is about versions the notifiers are at.               *)

\* The notifiers that have run are at the version of the notifier SharedGroup,
\* or at the one it set out from.
GroupVersions ==
  /\ wk.pc \in {"run", "handover"} => wk.from <= co.notifierSG
  /\ \A n \in Listed("main") : nt[n].hasRun =>
       nt[n].version = IF wk.pc \in {"run", "handover"} THEN wk.from ELSE co.notifierSG

\* Changes are there between the run and the handover, and are not of the future.
ChangesUpTo(n) ==
  /\ nt[n].changes # {} => wk.pc = "handover" /\ n \in Phase
  /\ \A v \in nt[n].changes : v <= co.notifierSG

Sources == GroupVersions /\ \A n \in Notifiers : ChangesUpTo(n)

\* A step of neither the worker nor the list of notifiers keeps where changes come
\* from.
LEMMA SourcesStay ==
  ASSUME Typed, Sources, wk' = wk, co'.notifierSG = co.notifierSG,
         \A n \in Notifiers :
           /\ nt'[n].changes = nt[n].changes /\ nt'[n].hasRun = nt[n].hasRun
           /\ nt[n].hasRun => nt'[n].version = nt[n].version /\ nt'[n].list = nt[n].list
  PROVE  Sources'
<1>1. GroupVersions'
  BY DEF Sources, GroupVersions, Listed
<1>2. \A n \in Notifiers : ChangesUpTo(n)'
  BY DEF Sources, ChangesUpTo, Phase, LastPhase
<1>3. QED
  BY <1>1, <1>2 DEF Sources

\* The worker's first step keeps where changes come from.
LEMMA StartSources ==
  ASSUME Typed, IInv, Sources, WorkerStart
  PROVE  Sources'
<1>1. wk.pc = "idle" /\ \A n \in Notifiers : ListsOnly(nt[n], nt'[n])
  BY WorkerStartParts
<1>2. \A n \in Notifiers : nt[n].changes = {} /\ nt'[n].changes = {}
  BY <1>1 DEF Sources, ChangesUpTo, ListsOnly
<1>3. \A n \in Notifiers : nt[n].hasRun => nt[n].list \in {"main", "gone"}
  BY DEF IInv, WorkerInv
<1>4. CASE /\ co' = [WakeAll(CleanedUp(co)) EXCEPT !.signal = FALSE]
           /\ wk' = [wk EXCEPT !.pc = "announce"]
           /\ Living("main") \cup Living("new") = {}
           /\ \A n \in Notifiers : nt'[n] = Buried[n]
  <2>1. wk'.pc = "announce"
    BY <1>4, TypedParts DEF WorkerType
  <2>2. \A n \in Notifiers : ~(nt[n].list \in {"new", "main"} /\ nt[n].alive)
    BY <1>4 DEF Living, Listed
  <2>3. Listed("main")' = {}
    BY <1>4, <2>2, BuriedTyped DEF Listed
  <2>4. QED
    BY <1>2, <2>1, <2>3 DEF Sources, GroupVersions, ChangesUpTo
<1>5. CASE /\ co' = [CleanedUp(co) EXCEPT !.signal = FALSE, !.skip = 0, !.advancer = 0,
                                          !.notifierSG = IF Living("main") = {} THEN latest ELSE @]
           /\ wk' = [wk EXCEPT !.pc = "advance", !.old = Living("main"), !.new = Living("new"),
                               !.targets = TargetsOf(CleanedUp(co).skip)]
           /\ \A n \in Notifiers : nt'[n] = StartedAs(n)
  <2>1. wk'.pc = "advance"
    BY <1>5, TypedParts DEF WorkerType
  <2>2. ShapeOK
    BY DEF IInv
  <2>3. Living("main") # {} => co'.notifierSG = co.notifierSG
    BY <1>5, <2>2, CleanedUpPins
  <2>4. ASSUME NEW n \in Listed("main")', nt'[n].hasRun
        PROVE  nt'[n].version = co'.notifierSG
    <3>1. n \in Notifiers /\ nt'[n].list = "main" /\ nt[n].hasRun /\ nt'[n].version = nt[n].version
          /\ nt'[n].alive = nt[n].alive
      BY <1>1, <2>4 DEF Listed, ListsOnly
    <3>2. nt[n].list = "main" /\ nt[n].alive
      <4>1. n \notin Living("new")
        BY <1>3, <3>1 DEF Living, Listed
      <4>2. nt'[n].list = Buried[n].list
        BY <1>5, <3>1, <4>1 DEF StartedAs
      <4>3. QED
        BY <1>3, <3>1, <4>2, BuriedTyped
    <3>3. Living("main") # {} /\ nt[n].version = co.notifierSG
      BY <1>1, <3>1, <3>2 DEF Living, Listed, Sources, GroupVersions
    <3>4. QED
      BY <2>3, <3>1, <3>3
  <2>5. QED
    BY <1>2, <2>1, <2>4 DEF Sources, GroupVersions, ChangesUpTo
<1>6. QED
  BY <1>4, <1>5, WorkerStartParts

\* Advancing the worker's Realm keeps where changes come from.
LEMMA AdvanceSources ==
  ASSUME Typed, IInv, Sources, WorkerAdvance
  PROVE  Sources'
<1>1. /\ UNCHANGED <<latest, touched, writer, rv, th, nt>> /\ wk.pc = "advance"
      /\ co' = [co EXCEPT !.notifierSG = Head(wk.targets)]
      /\ \E info : wk' = [wk EXCEPT !.pc = "run", !.from = co.notifierSG, !.info = info]
  BY DEF WorkerAdvance
<1>2. wk'.pc = "run" /\ wk'.from = co.notifierSG /\ co'.notifierSG = Head(wk.targets)
  BY <1>1, TypedParts DEF WorkerType, CoordinatorType
<1>3. co.notifierSG <= Head(wk.targets)
  BY <1>1 DEF IInv, WorkerInv, WorkerIsFree, VersionsNoted
<1>4. \A n \in Notifiers : nt'[n].changes = {}
  BY <1>1 DEF Sources, ChangesUpTo
<1>5. GroupVersions'
  BY <1>1, <1>2, <1>3 DEF Sources, GroupVersions, Listed
<1>6. QED
  BY <1>4, <1>5 DEF Sources, ChangesUpTo

\* Running the queries gives changes up to the version the worker is at.
LEMMA RunSources ==
  ASSUME Typed, Sources, WorkerRun
  PROVE  Sources'
<1>1. /\ UNCHANGED <<latest, touched, writer, rv, th, co>> /\ wk.pc = "run"
      /\ wk' = [wk EXCEPT !.pc = "handover"]
      /\ \A n \in Notifiers :
           /\ nt'[n].list = nt[n].list /\ nt'[n].hasRun = nt[n].hasRun /\ nt'[n].version = nt[n].version
           /\ IF n \in Phase /\ NeedToRun(n)
              THEN nt'[n].changes = CalculatedChanges(n) ELSE nt'[n].changes = nt[n].changes
  BY WorkerRunParts
<1>2. wk'.pc = "handover" /\ wk'.from = wk.from /\ wk'.targets = wk.targets /\ wk'.old = wk.old /\ wk'.new = wk.new
  BY <1>1, TypedParts DEF WorkerType
<1>3. Phase' = Phase
  BY <1>2 DEF Phase, LastPhase
<1>4. GroupVersions'
  BY <1>1, <1>2 DEF Sources, GroupVersions, Listed
<1>5. ASSUME NEW n \in Notifiers
      PROVE  ChangesUpTo(n)'
  <2>1. nt[n].changes = {}
    BY <1>1 DEF Sources, ChangesUpTo
  <2>2. \A v \in CalculatedChanges(n) : v <= co.notifierSG
    BY CalculatedWithin
  <2>3. CASE n \in Phase /\ NeedToRun(n)
    BY <1>1, <1>2, <1>3, <2>2, <2>3 DEF ChangesUpTo
  <2>4. CASE ~(n \in Phase /\ NeedToRun(n))
    BY <1>1, <2>1, <2>4 DEF ChangesUpTo
  <2>5. QED
    BY <2>3, <2>4
<1>6. QED
  BY <1>4, <1>5 DEF Sources

\* The handover keeps where changes come from.
LEMMA HandoverSources ==
  ASSUME Typed, IInv, Sources, WorkerHandover
  PROVE  Sources'
<1>1. /\ wk.pc = "handover"
      /\ IF LastPhase
         THEN /\ co' = WakeAll(CleanedUp(co))
              /\ wk' = [wk EXCEPT !.pc = "announce", !.targets = <<>>, !.old = {}, !.new = {},
                                  !.info = {}, !.from = 0]
         ELSE co' = co /\ wk' = [wk EXCEPT !.pc = "advance", !.targets = Tail(@)]
      /\ \A n \in Notifiers :
           /\ nt'[n].list = IF LastPhase THEN Buried[n].list ELSE nt[n].list
           /\ nt'[n].alive = nt[n].alive
           /\ IF n \in Phase
              THEN nt'[n].hasRun = TRUE /\ nt'[n].version = co.notifierSG /\ nt'[n].changes = {}
              ELSE nt'[n].hasRun = nt[n].hasRun /\ nt'[n].version = nt[n].version /\ nt'[n].changes = nt[n].changes
  BY WorkerHandoverParts
<1>2. \A n \in Notifiers : nt'[n].changes = {}
  BY <1>1 DEF Sources, ChangesUpTo
<1>3. wk'.pc \in {"announce", "advance"}
  BY <1>1, TypedParts DEF WorkerType
<1>4. ASSUME NEW n \in Listed("main")', nt'[n].hasRun
      PROVE  nt'[n].version = co'.notifierSG
  <2>1. n \in Notifiers /\ nt'[n].list = "main"
    BY <1>4 DEF Listed
  <2>2. nt[n].list = "main" /\ (LastPhase => nt[n].alive)
    BY <1>1, <2>1, BuriedTyped
  <2>3. n \in Phase
    <3>1. n \in wk.old \cup wk.new /\ (nt[n].hasRun => n \in wk.old)
      BY <1>1, <2>1, <2>2 DEF IInv, WorkerInv, WorkerIsFree, Listed
    <3>2. n \notin Phase => nt[n].hasRun
      BY <1>1, <1>4, <2>1
    <3>3. QED
      BY <3>1, <3>2 DEF Phase
  <2>4. nt'[n].version = co.notifierSG
    BY <1>1, <2>1, <2>3
  <2>5. co'.notifierSG = co.notifierSG
    <3>1. CASE LastPhase
      <4>1. Living("main") # {}
        BY <2>1, <2>2, <3>1 DEF Living, Listed
      <4>2. CleanedUp(co).notifierSG = co.notifierSG /\ CleanedUp(co) \in CoordinatorType
        BY <4>1, CleanedUpPins, CleanedUpTyped DEF IInv
      <4> DEFINE c == CleanedUp(co)
      <4>3. c \in CoordinatorType /\ c.notifierSG = co.notifierSG /\ co' = WakeAll(c)
        BY <1>1, <3>1, <4>2
      <4> HIDE DEF c
      <4>4. QED
        BY <4>3 DEF WakeAll, CoordinatorType
    <3>2. CASE ~LastPhase
      BY <1>1, <3>2
    <3>3. QED
      BY <3>1, <3>2
  <2>6. QED
    BY <2>4, <2>5
<1>5. QED
  BY <1>2, <1>3, <1>4 DEF Sources, GroupVersions, ChangesUpTo

\* Announcing the changes keeps where changes come from.
LEMMA AnnounceSources ==
  ASSUME Typed, Sources, WorkerAnnounce
  PROVE  Sources'
<1>1. UNCHANGED <<nt, co>> /\ wk.pc = "announce" /\ wk' = [wk EXCEPT !.pc = "idle"]
  BY DEF WorkerAnnounce
<1>2. wk'.pc = "idle"
  BY <1>1, TypedParts DEF WorkerType
<1>3. \A n \in Notifiers : nt'[n].changes = {}
  BY <1>1 DEF Sources, ChangesUpTo
<1>4. GroupVersions'
  BY <1>1, <1>2 DEF Sources, GroupVersions, Listed
<1>5. QED
  BY <1>3, <1>4 DEF Sources, ChangesUpTo

---------------------------------------------------------------------------------
(* The steps, as the callbacks see them.                                     *)

\* A thread stays where it is, or goes on and has no more to call than before.
SameTask(r) ==
  /\ th'[r].pc = th[r].pc /\ th'[r].job = th[r].job /\ th'[r].to = th[r].to
  /\ th'[r].calls = th[r].calls
GoesOn(r) ==
  /\ th'[r].pc \in {"idle", "wait", "tell", "callback"}
  /\ \A k \in DOMAIN th'[r].calls : \E j \in DOMAIN th[r].calls : th'[r].calls[k] = th[r].calls[j]
CallsNoMore == \A r \in Realms : SameTask(r) \/ GoesOn(r)

\* What a callback holds does not change: it may be asked to skip, or start again
\* at a later version.
SameContents(c, d) ==
  d.acc = c.acc /\ d.del = c.del /\ d.told = c.told /\ d.initial = c.initial

\* Nothing is packaged, handed over or told.
QuietBlocks(n) ==
  \A i \in DOMAIN nt'[n].callbacks :
    \/ nt'[n].callbacks[i] = NewCallback
    \/ \E j \in DOMAIN nt[n].callbacks : SameContents(nt[n].callbacks[j], nt'[n].callbacks[i])
QuietNotifier(n) ==
  /\ (nt'[n].hasRun <=> nt[n].hasRun) /\ (nt[n].hasRun => nt'[n].version = nt[n].version)
  /\ nt'[n].tvHandover = nt[n].tvHandover /\ nt'[n].tvDeliver \in {0, nt[n].tvDeliver}
  /\ QuietBlocks(n)
Quiet == CallsNoMore /\ \A n \in Notifiers : QuietNotifier(n)

\* Where no thread moves nobody is called more.
LEMMA SameThreadsGoOn ==
  ASSUME th' = th
  PROVE  CallsNoMore
BY DEF CallsNoMore, SameTask

\* One thread goes on, and the others stay.
LEMMA OneGoesOn ==
  ASSUME Typed, NEW r \in Realms, NEW t, OnlyThread(r, t),
         \/ t.pc = th[r].pc /\ t.job = th[r].job /\ t.to = th[r].to /\ t.calls = th[r].calls
         \/ /\ t.pc \in {"idle", "wait", "tell", "callback"}
            /\ t.calls = th[r].calls \/ (th[r].calls # <<>> /\ t.calls = Tail(th[r].calls))
  PROVE  CallsNoMore
<1>1. th'[r] = t /\ \A s \in Realms \ {r} : th'[s] = th[s]
  BY OneThread
<1>2. th[r].calls # <<>> =>
        \A k \in DOMAIN Tail(th[r].calls) : k + 1 \in DOMAIN th[r].calls /\ Tail(th[r].calls)[k] = th[r].calls[k + 1]
  BY WhoseTurn
<1>3. SameTask(r) \/ GoesOn(r)
  BY <1>1, <1>2 DEF SameTask, GoesOn
<1>4. QED
  BY <1>1, <1>3 DEF CallsNoMore, SameTask

\* Whoever is not packaged was there before, if at all.
LEMMA StillDelivering ==
  ASSUME CallsNoMore, NEW n \in Notifiers, Delivering(n)'
  PROVE  Delivering(n)
BY OwnerAssumption DEF CallsNoMore, SameTask, GoesOn, Delivering

\* A notifier that stays as it is is quiet.
LEMMA SameIsQuiet ==
  ASSUME NEW n \in Notifiers, SameNotifier(n)
  PROVE  QuietNotifier(n)
BY DEF SameNotifier, SameRun, SameRows, SameBlocks, QuietNotifier, QuietBlocks, SameContents

\* A notifier whose callbacks keep their contents is quiet.
LEMMA InPlaceIsQuiet ==
  ASSUME NEW n \in Notifiers, InPlaceOnly(n),
         \A i \in DOMAIN nt[n].callbacks : SameContents(nt[n].callbacks[i], nt'[n].callbacks[i])
  PROVE  QuietNotifier(n)
BY DEF InPlaceOnly, SameRun, SameRows, QuietNotifier, QuietBlocks

\* A step that moves no notifier is quiet.
LEMMA SameIsAllQuiet ==
  ASSUME Typed, nt' = nt, CallsNoMore
  PROVE  Quiet
<1>1. \A n \in Notifiers : SameNotifier(n)
  BY SameIfSame
<1>2. QED
  BY <1>1, SameIsQuiet DEF Quiet

\* What an observer does is quiet: it adds no change and calls nobody.
LEMMA ObserveIsQuiet ==
  ASSUME Typed, IInv, NEW n \in Notifiers, Observe(n)
  PROVE  Quiet
<1>1. SUFFICES ASSUME th' = th, \A m \in Notifiers \ {n} : SameNotifier(m), QuietNotifier(n)
               PROVE  Quiet
  <2>1. CASE Register(n)
    <3>1. th' = th /\ \A m \in Notifiers \ {n} : SameNotifier(m)
      BY <2>1, RegisterParts
    <3>2. QuietNotifier(n)
      BY <2>1, RegisterParts DEF QuietNotifier, QuietBlocks, SameBlocks, SameRows, SameContents
    <3>3. QED
      BY <1>1, <3>1, <3>2
  <2>2. CASE AddCallback(n)
    <3>1. th' = th /\ \A m \in Notifiers \ {n} : SameNotifier(m)
      BY <2>2, AddCallbackParts
    <3>2. QuietNotifier(n)
      BY <2>2, AddCallbackParts DEF QuietNotifier, QuietBlocks, SameRun, SameRows, SameContents
    <3>3. QED
      BY <1>1, <3>1, <3>2
  <2>3. CASE Release(n)
    <3>1. th' = th /\ \A m \in Notifiers \ {n} : SameNotifier(m)
      BY <2>3, ReleaseParts
    <3>2. QuietNotifier(n)
      BY <2>3, ReleaseParts DEF QuietNotifier, QuietBlocks, SameRun, SameRows, SameBlocks, SameContents
    <3>3. QED
      BY <1>1, <3>1, <3>2
  <2>4. ASSUME NEW i \in DOMAIN nt[n].callbacks, RemoveCallback(n, i)
        PROVE  Quiet
    <3>1. th' = th /\ \A m \in Notifiers \ {n} : SameNotifier(m)
      BY <2>4, RemoveCallbackParts
    <3>2. SameRun(n) /\ SameRows(n)
      BY <2>4, RemoveCallbackParts
    <3>3. \A k \in DOMAIN nt'[n].callbacks : \E j \in DOMAIN nt[n].callbacks : nt'[n].callbacks[k] = nt[n].callbacks[j]
      BY <2>4, RemoveCallbackParts
    <3>4. QuietNotifier(n)
      BY <3>2, <3>3 DEF QuietNotifier, QuietBlocks, SameRun, SameRows, SameContents
    <3>5. QED
      BY <1>1, <3>1, <3>4
  <2>5. ASSUME NEW i \in DOMAIN nt[n].callbacks, Suppress(n, i)
        PROVE  Quiet
    <3>1. th' = th /\ (\A m \in Notifiers \ {n} : SameNotifier(m)) /\ SameRun(n) /\ SameRows(n)
      BY <2>5, SuppressParts
    <3>2. /\ DOMAIN nt'[n].callbacks = DOMAIN nt[n].callbacks
          /\ \A k \in DOMAIN nt[n].callbacks \ {i} : nt'[n].callbacks[k] = nt[n].callbacks[k]
          /\ nt'[n].callbacks[i] = [nt[n].callbacks[i] EXCEPT !.skip = TRUE, !.mute = TRUE]
      BY <2>5, SuppressParts
    <3>3. SameContents(nt[n].callbacks[i], nt'[n].callbacks[i])
      <4>1. nt[n].callbacks[i] \in CallbackType
        BY TypedParts DEF NotifierType
      <4>2. QED
        BY <3>2, <4>1 DEF SameContents, CallbackType
    <3>4. \A k \in DOMAIN nt[n].callbacks : SameContents(nt[n].callbacks[k], nt'[n].callbacks[k])
      BY <3>2, <3>3 DEF SameContents
    <3>5. QuietNotifier(n)
      BY <3>1, <3>2, <3>4 DEF QuietNotifier, QuietBlocks, SameRun, SameRows
    <3>6. QED
      BY <1>1, <3>1, <3>5
  <2>6. QED
    BY <2>1, <2>2, <2>3, <2>4, <2>5 DEF Observe
<1>2. QED
  BY <1>1, SameThreadsGoOn, SameIsQuiet DEF Quiet

\* Rebasing keeps what a callback holds.
LEMMA RebasedContents ==
  ASSUME Typed, NEW n \in Notifiers, NEW i \in DOMAIN nt[n].callbacks, NEW r \in Realms, NEW v \in Versions
  PROVE  /\ SameContents(nt[n].callbacks[i], Rebased(n, i, r, v))
         /\ Rebased(n, i, r, v) \in CallbackType
<1>1. nt[n].callbacks[i] \in CallbackType
  BY TypedParts DEF NotifierType
<1>2. v \in 0 .. MaxVersion
  BY BoundsAssumption DEF Versions
<1>3. QED
  BY <1>1, <1>2 DEF Rebased, AtVersion, SameContents, CallbackType

\* A commit keeps what a callback holds.
LEMMA CommittedContents ==
  ASSUME Typed, NEW n \in Notifiers, NEW i \in DOMAIN nt[n].callbacks, NEW r \in Realms, latest + 1 \in Versions
  PROVE  SameContents(nt[n].callbacks[i], Committed(n, i, r))
<1>1. nt[n].callbacks[i] \in CallbackType
  BY TypedParts DEF NotifierType
<1> DEFINE c == IF InBlock(r) THEN Rebased(n, i, r, latest + 1) ELSE nt[n].callbacks[i]
<1>2. c \in CallbackType /\ SameContents(nt[n].callbacks[i], c) /\ Committed(n, i, r) = MutedAt(c, latest + 1)
  BY <1>1, RebasedContents DEF Committed, SameContents
<1> HIDE DEF c
<1>3. SameContents(c, MutedAt(c, latest + 1))
  BY <1>2 DEF MutedAt, SameContents, CallbackType
<1>4. QED
  BY <1>2, <1>3 DEF SameContents

\* Beginning, committing and cancelling writes is quiet.
LEMMA TransactIsQuiet ==
  ASSUME Typed, NEW r \in Realms, Transact(r)
  PROVE  Quiet
<1>1. CASE BeginAlone(r) \/ Cancel(r) \/ BeginNotifying(r) \/ Refresh(r)
  <2>1. nt' = nt
    BY <1>1 DEF BeginAlone, Cancel, BeginNotifying, Refresh
  <2>2. CASE th' = th
    BY <2>1, <2>2, SameThreadsGoOn, SameIsAllQuiet
  <2>3. CASE \E job \in {"begin", "refresh"} : StartWaiting(r, job)
    <3>1. PICK t : OnlyThread(r, t) /\ t.pc = "wait" /\ t.calls = th[r].calls
      BY <2>3, WaitingThread
    <3>2. CallsNoMore
      BY <3>1, OneGoesOn
    <3>3. QED
      BY <2>1, <3>2, SameIsAllQuiet
  <2>4. th' = th \/ \E job \in {"begin", "refresh"} : StartWaiting(r, job)
    BY <1>1 DEF BeginAlone, Cancel, BeginNotifying, Refresh
  <2>5. QED
    BY <2>2, <2>3, <2>4
<1>2. CASE BeginNested(r)
  <2>1. /\ th' = th /\ (\A n \in Notifiers : InPlaceOnly(n)) /\ latest \in Versions
        /\ \A n \in Notifiers : \A i \in DOMAIN nt[n].callbacks : nt'[n].callbacks[i] = Rebased(n, i, r, latest)
    BY <1>2, BeginNestedParts, TypedParts
  <2>2. \A n \in Notifiers : \A i \in DOMAIN nt[n].callbacks : SameContents(nt[n].callbacks[i], nt'[n].callbacks[i])
    BY <2>1, RebasedContents
  <2>3. QED
    BY <2>1, <2>2, InPlaceIsQuiet, SameThreadsGoOn DEF Quiet
<1>3. CASE Commit(r)
  <2>1. /\ th' = th /\ (\A n \in Notifiers : InPlaceOnly(n)) /\ latest + 1 \in Versions
        /\ \A n \in Notifiers : \A i \in DOMAIN nt[n].callbacks : nt'[n].callbacks[i] = Committed(n, i, r)
    BY <1>3, CommitParts
  <2>2. \A n \in Notifiers : \A i \in DOMAIN nt[n].callbacks : SameContents(nt[n].callbacks[i], nt'[n].callbacks[i])
    BY <2>1, CommittedContents
  <2>3. QED
    BY <2>1, <2>2, InPlaceIsQuiet, SameThreadsGoOn DEF Quiet
<1>4. QED
  BY <1>1, <1>2, <1>3 DEF Transact

\* Waiting, which wakes the worker, is quiet.
LEMMA SleepIsQuiet ==
  ASSUME Typed, NEW r \in Realms, Sleep(r)
  PROVE  Quiet
<1> DEFINE t == [th[r] EXCEPT !.first = FALSE]
<1>1. nt' = nt /\ th' = [th EXCEPT ![r] = t] /\ th[r] \in ThreadType
  BY TypedParts DEF Sleep
<1>2. /\ t \in ThreadType /\ t.pc = th[r].pc /\ t.job = th[r].job /\ t.to = th[r].to
      /\ t.calls = th[r].calls
  BY <1>1 DEF ThreadType
<1> HIDE DEF t
<1>3. CallsNoMore
  BY <1>1, <1>2, OneGoesOn DEF OnlyThread
<1>4. QED
  BY <1>1, <1>3, SameIsAllQuiet

\* Handing over the rows is quiet.
LEMMA DeliverIsQuiet ==
  ASSUME Typed, NEW r \in Realms, Deliver(r)
  PROVE  Quiet
<1>1. PICK used \in BOOLEAN : \A n \in Notifiers : nt'[n] \in {Given(nt[n], used), nt[n]}
  <2>1. PICK used \in BOOLEAN : GivesRows(used)
    BY DeliverGives
  <2>2. QED
    BY <2>1 DEF GivesRows
<1>2. PICK u : /\ OnlyThread(r, u) /\ u.calls = th[r].calls /\ u.pc \in {"idle", "tell"}
  BY DeliverParts
<1>3. CallsNoMore
  BY <1>2, OneGoesOn
<1>4. ASSUME NEW n \in Notifiers
      PROVE  QuietNotifier(n)
  <2> DEFINE t == Given(nt[n], used)
  <2>1. nt[n] \in NotifierType
    BY TypedParts
  <2>2. /\ t.hasRun = nt[n].hasRun /\ t.version = nt[n].version
        /\ t.tvHandover = nt[n].tvHandover /\ t.tvDeliver = 0 /\ t.callbacks = nt[n].callbacks
    BY <2>1, GivenOne
  <2>3. nt'[n] \in {t, nt[n]}
    BY <1>1
  <2> HIDE DEF t
  <2>4. /\ nt'[n].hasRun = nt[n].hasRun /\ nt'[n].version = nt[n].version
        /\ nt'[n].tvHandover = nt[n].tvHandover /\ nt'[n].tvDeliver \in {0, nt[n].tvDeliver}
        /\ nt'[n].callbacks = nt[n].callbacks
    BY <2>2, <2>3
  <2>5. QED
    BY <2>4 DEF QuietNotifier, QuietBlocks, SameContents
<1>5. QED
  BY <1>3, <1>4 DEF Quiet

\* Nothing but a block that is called changes when the blocks are called.
LEMMA CallNextQuietly ==
  ASSUME Typed, NEW r \in Realms, CallNext(r)
  PROVE  /\ CallsNoMore
         /\ \/ Quiet
            \/ \E i \in ToDo(Head(th[r].calls)) : BlockRuns(r, Head(th[r].calls), i)
<1> DEFINE n == Head(th[r].calls)
<1>1. /\ th[r].calls # <<>> /\ n \in Notifiers
      /\ TurnEnds(r, n) \/ \E i \in ToDo(n) : BlockRuns(r, n, i)
  BY CallNextParts, WhoseTurn
<1>2. CASE TurnEnds(r, n)
  <2> HIDE DEF n
  <2>1. PICK t : /\ OnlyThread(r, t) /\ t.calls = Tail(th[r].calls) /\ t.pc \in {"idle", "tell"}
    BY <1>2 DEF TurnEnds
  <2>2. CallsNoMore
    BY <1>1, <2>1, OneGoesOn
  <2>3. /\ \A m \in Notifiers \ {n} : SameNotifier(m)
        /\ SameRun(n) /\ SameRows(n) /\ SameBlocks(n)
    BY <1>1, <1>2, TurnEndsParts
  <2>4. QuietNotifier(n)
    BY <2>3 DEF SameRun, SameRows, SameBlocks, QuietNotifier, QuietBlocks, SameContents
  <2>5. QED
    BY <2>2, <2>3, <2>4, SameIsQuiet DEF Quiet
<1>3. CASE \E i \in ToDo(n) : BlockRuns(r, n, i)
  <2>1. PICK t : /\ OnlyThread(r, t) /\ t.calls = th[r].calls /\ t.pc = "callback"
    BY <1>3 DEF BlockRuns
  <2>2. CallsNoMore
    BY <2>1, OneGoesOn
  <2>3. QED
    BY <1>3, <2>2
<1>4. QED
  BY <1>1, <1>2, <1>3

\* Of the worker's steps the handover alone is not quiet.
LEMMA WorkerIsQuiet ==
  ASSUME Typed, Worker
  PROVE  CallsNoMore /\ (Quiet \/ WorkerHandover)
<1>1. CASE WorkerStart
  <2>1. th' = th /\ \A n \in Notifiers : ListsOnly(nt[n], nt'[n])
    BY <1>1, WorkerStartParts
  <2>2. \A n \in Notifiers : QuietNotifier(n)
    BY <2>1 DEF ListsOnly, QuietNotifier, QuietBlocks, SameContents
  <2>3. QED
    BY <2>1, <2>2, SameThreadsGoOn DEF Quiet
<1>2. CASE WorkerAdvance
  <2>1. th' = th /\ nt' = nt
    BY <1>2 DEF WorkerAdvance
  <2>2. QED
    BY <2>1, SameThreadsGoOn, SameIsAllQuiet
<1>3. CASE WorkerRun
  <2>1. /\ th' = th
        /\ \A n \in Notifiers :
             /\ nt'[n].hasRun = nt[n].hasRun /\ nt'[n].version = nt[n].version
             /\ nt'[n].tvHandover = nt[n].tvHandover /\ nt'[n].tvDeliver = nt[n].tvDeliver
             /\ nt'[n].callbacks = nt[n].callbacks
    BY <1>3, WorkerRunParts
  <2>2. \A n \in Notifiers : QuietNotifier(n)
    BY <2>1 DEF QuietNotifier, QuietBlocks, SameContents
  <2>3. QED
    BY <2>1, <2>2, SameThreadsGoOn DEF Quiet
<1>4. CASE WorkerAnnounce
  <2>1. /\ nt' = nt /\ th' = [r \in Realms |-> [th[r] EXCEPT !.loop = r \in RunLoops]]
    BY <1>4 DEF WorkerAnnounce
  <2>2. ASSUME NEW r \in Realms
        PROVE  SameTask(r)
    <3> DEFINE t == th'[r]
               b == r \in RunLoops
    <3>1. t = [th[r] EXCEPT !.loop = b] /\ th[r] \in ThreadType
      BY <2>1, TypedParts
    <3> HIDE DEF t, b
    <3>2. t.pc = th[r].pc /\ t.job = th[r].job /\ t.to = th[r].to /\ t.calls = th[r].calls
      BY <3>1 DEF ThreadType
    <3>3. QED
      BY <3>2 DEF t, SameTask
  <2>3. QED
    BY <2>1, <2>2, SameIsAllQuiet DEF CallsNoMore
<1>5. CASE WorkerHandover
  <2>1. th' = th
    BY <1>5, WorkerHandoverParts
  <2>2. QED
    BY <1>5, <2>1, SameThreadsGoOn
<1>6. QED
  BY <1>1, <1>2, <1>3, <1>4, <1>5 DEF Worker

\* A package was taken, and is sent or thrown away.
Packages(r, S) ==
  /\ SendsPackage(r, S)
  /\ \/ NothingSent(r)
     \/ \E K \in {S, {}} : \E job, v : Sending(r, K, job, v)

\* Both ways to take a package are such a step for some notifiers.
LEMMA PackagesParts ==
  ASSUME Typed, IInv, NEW r \in Realms, PackageAndAdvance(r) \/ Notify(r)
  PROVE  \E S \in SUBSET Notifiers : Packages(r, S)
<1>1. ReadyFor(r) \in SUBSET Notifiers
  BY DEF ReadyFor
<1>2. CASE PackageAndAdvance(r)
  <2>1. /\ SendsPackage(r, ReadyFor(r))
        /\ \E K \in {ReadyFor(r), {}} :
             Sending(r, K, th[r].job, IF K = {} \/ th[r].job = "begin" THEN latest ELSE VersionOf(K))
    BY <1>2, PackageAndAdvanceParts
  <2>2. \E K \in {ReadyFor(r), {}} : \E job, v : Sending(r, K, job, v)
    BY <2>1
  <2>3. Packages(r, ReadyFor(r))
    BY <2>1, <2>2 DEF Packages
  <2>4. QED
    BY <1>1, <2>3
<1>3. CASE Notify(r)
  <2>1. PICK S \in SUBSET ReadyFor(r) :
          /\ SendsPackage(r, S)
          /\ NothingSent(r) \/ Sending(r, S, "notify", IF S = {} THEN latest ELSE VersionOf(S))
    BY <1>3, NotifyParts
  <2>2. NothingSent(r) \/ \E job, v : Sending(r, S, job, v)
    BY <2>1
  <2>3. Packages(r, S)
    BY <2>1, <2>2 DEF Packages
  <2>4. QED
    BY <1>1, <2>3
<1>4. QED
  BY <1>2, <1>3

\* Every step is quiet, or takes a package, calls a block or hands over.
LEMMA KindOfStep ==
  ASSUME Typed, IInv, [Next]_vars
  PROVE  \/ Quiet
         \/ \E r \in Realms : \E S \in SUBSET Notifiers : Packages(r, S)
         \/ \E r \in Realms : CallNext(r) /\ \E i \in ToDo(Head(th[r].calls)) : BlockRuns(r, Head(th[r].calls), i)
         \/ WorkerHandover
<1>1. CASE UNCHANGED vars
  BY <1>1, SameIsAllQuiet, SameThreadsGoOn DEF vars
<1>2. ASSUME NEW n \in Notifiers, Observe(n)
      PROVE  Quiet
  BY <1>2, ObserveIsQuiet
<1>3. ASSUME NEW r \in Realms, Transact(r)
      PROVE  Quiet
  BY <1>3, TransactIsQuiet
<1>4. ASSUME NEW r \in Realms, Sleep(r) \/ Deliver(r)
      PROVE  Quiet
  BY <1>4, SleepIsQuiet, DeliverIsQuiet
<1>5. ASSUME NEW r \in Realms, CallNext(r)
      PROVE  Quiet \/ \E i \in ToDo(Head(th[r].calls)) : BlockRuns(r, Head(th[r].calls), i)
  BY <1>5, CallNextQuietly
<1>6. ASSUME NEW r \in Realms, PackageAndAdvance(r) \/ Notify(r)
      PROVE  \E S \in SUBSET Notifiers : Packages(r, S)
  BY <1>6, PackagesParts
<1>7. CASE Worker
  BY <1>7, WorkerIsQuiet
<1>8. QED
  BY <1>1, <1>2, <1>3, <1>4, <1>5, <1>6, <1>7 DEF Next, Send

---------------------------------------------------------------------------------
\* Neither the user nor a thread moves the notifiers to another version.
LEMMA SameRunsSources ==
  ASSUME Typed, Sources, wk' = wk, co'.notifierSG = co.notifierSG, \A n \in Notifiers : SameRun(n)
  PROVE  Sources'
BY SourcesStay DEF SameRun

\* What an observer does keeps where changes come from.
LEMMA ObserveSources ==
  ASSUME Typed, IInv, Sources, NEW n \in Notifiers, Observe(n)
  PROVE  Sources'
<1>1. ASSUME wk' = wk, co'.notifierSG = co.notifierSG, \A m \in Notifiers \ {n} : SameNotifier(m), SameRun(n)
      PROVE  Sources'
  BY <1>1, SameRunsSources DEF SameNotifier
<1>2. CASE Register(n)
  <2>1. /\ wk' = wk /\ co'.notifierSG = co.notifierSG /\ ~nt[n].hasRun /\ ~nt'[n].hasRun
        /\ nt'[n].changes = nt[n].changes
    BY <1>2, RegisterParts
  <2>2. \A m \in Notifiers \ {n} : SameRun(m)
    BY <1>2, RegisterParts DEF SameNotifier
  <2>3. nt[n].changes = {}
    BY <1>2, <2>1, RegisterParts DEF Sources, ChangesUpTo, Phase, IInv, WorkerInv, WorkerIsFree, Listed
  <2>4. GroupVersions'
    BY <2>1, <2>2 DEF Sources, GroupVersions, Listed, SameRun
  <2>5. \A m \in Notifiers : ChangesUpTo(m)'
    BY <2>1, <2>2, <2>3 DEF Sources, ChangesUpTo, Phase, LastPhase, SameRun
  <2>6. QED
    BY <2>4, <2>5 DEF Sources
<1>3. CASE AddCallback(n)
  <2>1. /\ wk' = wk /\ co'.notifierSG = co.notifierSG /\ SameRun(n)
        /\ \A m \in Notifiers \ {n} : SameNotifier(m)
    BY <1>3, AddCallbackParts
  <2>2. QED
    BY <1>1, <2>1
<1>4. CASE Release(n)
  <2>1. /\ wk' = wk /\ co' = co /\ SameRun(n) /\ \A m \in Notifiers \ {n} : SameNotifier(m)
    BY <1>4, ReleaseParts
  <2>2. QED
    BY <1>1, <2>1
<1>5. ASSUME NEW i \in DOMAIN nt[n].callbacks, RemoveCallback(n, i) \/ Suppress(n, i)
      PROVE  Sources'
  <2>1. /\ wk' = wk /\ co' = co /\ SameRun(n) /\ \A m \in Notifiers \ {n} : SameNotifier(m)
    BY <1>5, RemoveCallbackParts, SuppressParts
  <2>2. QED
    BY <1>1, <2>1
<1>6. QED
  BY <1>2, <1>3, <1>4, <1>5 DEF Observe

\* Beginning, committing and cancelling writes keep where changes come from.
LEMMA TransactSources ==
  ASSUME Typed, Sources, NEW r \in Realms, Transact(r)
  PROVE  Sources'
<1>1. CASE BeginAlone(r) \/ BeginNotifying(r) \/ Cancel(r) \/ Refresh(r)
  <2>1. nt' = nt /\ wk' = wk /\ co' = co
    BY <1>1 DEF BeginAlone, BeginNotifying, Cancel, Refresh
  <2>2. QED
    BY <2>1, SameRunsSources DEF SameRun
<1>2. CASE BeginNested(r)
  <2>1. wk' = wk /\ co' = co /\ \A n \in Notifiers : SameRun(n)
    BY <1>2, BeginNestedParts DEF InPlaceOnly
  <2>2. QED
    BY <2>1, SameRunsSources
<1>3. CASE Commit(r)
  <2>1. wk' = wk /\ co'.notifierSG = co.notifierSG /\ \A n \in Notifiers : SameRun(n)
    BY <1>3, CommitParts DEF InPlaceOnly
  <2>2. QED
    BY <2>1, SameRunsSources
<1>4. QED
  BY <1>1, <1>2, <1>3 DEF Transact

\* Taking and sending a package keeps where changes come from.
LEMMA SendSources ==
  ASSUME Typed, IInv, Sources, NEW r \in Realms, Send(r)
  PROVE  Sources'
<1>1. CASE Sleep(r)
  <2>1. nt' = nt /\ wk' = wk /\ \E a, b : co' = [co EXCEPT !.asleep = a, !.signal = b]
    BY <1>1 DEF Sleep
  <2>2. co'.notifierSG = co.notifierSG
    BY <2>1, TypedParts DEF CoordinatorType
  <2>3. QED
    BY <2>1, <2>2, SameRunsSources DEF SameRun
<1>2. CASE PackageAndAdvance(r) \/ Notify(r)
  <2>1. PICK S \in SUBSET Notifiers : Packages(r, S)
    BY <1>2, PackagesParts
  <2>2. wk' = wk /\ co' = co /\ \A n \in Notifiers : SameRun(n)
    BY <2>1 DEF Packages, SendsPackage, PackagedAll
  <2>3. QED
    BY <2>2, SameRunsSources
<1>3. CASE Deliver(r)
  <2>1. PICK used \in BOOLEAN : \A n \in Notifiers : nt'[n] \in {Given(nt[n], used), nt[n]}
    <3>1. PICK used \in BOOLEAN : GivesRows(used)
      BY <1>3, DeliverGives
    <3>2. QED
      BY <3>1 DEF GivesRows
  <2>2. wk' = wk /\ co' = co
    BY <1>3, DeliverParts
  <2>3. ASSUME NEW n \in Notifiers
        PROVE  SameRun(n)
    <3> DEFINE t == Given(nt[n], used)
    <3>1. /\ t.list = nt[n].list /\ t.version = nt[n].version /\ t.hasRun = nt[n].hasRun
          /\ t.changes = nt[n].changes /\ t.prev = nt[n].prev
      BY GivenOne, TypedParts
    <3>2. nt'[n] \in {t, nt[n]}
      BY <2>1
    <3> HIDE DEF t
    <3>3. QED
      BY <3>1, <3>2 DEF SameRun
  <2>4. QED
    BY <2>2, <2>3, SameRunsSources
<1>4. CASE CallNext(r)
  <2> DEFINE n == Head(th[r].calls)
  <2>1. /\ wk' = wk /\ co' = co /\ n \in Notifiers
        /\ TurnEnds(r, n) \/ \E i \in ToDo(n) : BlockRuns(r, n, i)
    BY <1>4, CallNextParts, WhoseTurn
  <2> HIDE DEF n
  <2>2. SameRun(n) /\ \A m \in Notifiers \ {n} : SameNotifier(m)
    BY <2>1, TurnEndsParts, BlockRunsParts
  <2>3. QED
    BY <2>1, <2>2, SameRunsSources DEF SameNotifier
<1>5. QED
  BY <1>1, <1>2, <1>3, <1>4 DEF Send

\* Every step keeps where changes come from.
LEMMA SourcesKept ==
  ASSUME Typed, IInv, Sources, [Next]_vars
  PROVE  Sources'
<1>1. CASE UNCHANGED vars
  <2>1. nt' = nt /\ wk' = wk /\ co' = co
    BY <1>1 DEF vars
  <2>2. QED
    BY <2>1, SameRunsSources DEF SameRun
<1>2. CASE Worker
  BY <1>2, StartSources, AdvanceSources, RunSources, HandoverSources, AnnounceSources DEF Worker
<1>3. QED
  BY <1>1, <1>2, ObserveSources, TransactSources, SendSources DEF Next

\* At first there are no changes.
LEMMA SourcesAtFirst == Init => Sources
<1> SUFFICES ASSUME Init PROVE Sources
  OBVIOUS
<1>1. \A n \in Notifiers : nt[n].changes = {} /\ nt[n].list = "none"
  BY DEF Init, NewNotifier
<1>2. wk.pc = "idle"
  BY DEF Init
<1>3. QED
  BY <1>1, <1>2 DEF Sources, GroupVersions, ChangesUpTo, Listed

---------------------------------------------------------------------------------
(* The rows are imported at the version they were exported at.               *)

\* The rows handed over are those of the version of the notifier; the rows on
\* their way to a Results that is not in a write, those of the version its Realm
\* is being moved to.
RowsHanded(n) == nt[n].tvHandover \in {0, nt[n].version} /\ (nt[n].tvHandover # 0 => nt[n].hasRun)
RowsOnTheWay(n) ==
  LET t == th[Owner[n]] IN
  Delivering(n) /\ t.pc \in {"changed", "ready"} /\ t.job # "begin" => nt[n].tvDeliver \in {0, t.to}
RowsFit == \A n \in Notifiers : RowsHanded(n) /\ RowsOnTheWay(n)

\* A notifier keeps the rows on their way while its thread goes on with what it
\* does.
LEMMA RowsStayOnTheWay ==
  ASSUME CallsNoMore, NEW n \in Notifiers, RowsOnTheWay(n), nt'[n].tvDeliver \in {0, nt[n].tvDeliver}
  PROVE  RowsOnTheWay(n)'
<1> DEFINE r == Owner[n]
<1>1. r \in Realms
  BY OwnerAssumption
<1> HIDE DEF r
<1>2. SUFFICES ASSUME Delivering(n)', th'[r].pc \in {"changed", "ready"}, th'[r].job # "begin"
               PROVE  nt'[n].tvDeliver \in {0, th'[r].to}
  BY DEF RowsOnTheWay, r
<1>3. SameTask(r)
  BY <1>1, <1>2 DEF CallsNoMore, GoesOn
<1>4. Delivering(n)
  BY <1>2, StillDelivering
<1>5. nt[n].tvDeliver \in {0, th[r].to}
  BY <1>2, <1>3, <1>4 DEF SameTask, RowsOnTheWay, r
<1>6. QED
  BY <1>3, <1>5 DEF SameTask

\* A quiet step keeps the rows with their versions.
LEMMA QuietRows ==
  ASSUME RowsFit, Quiet
  PROVE  RowsFit'
<1> SUFFICES ASSUME NEW n \in Notifiers PROVE RowsHanded(n)' /\ RowsOnTheWay(n)'
  BY DEF RowsFit
<1>1. RowsHanded(n)'
  BY DEF RowsFit, Quiet, QuietNotifier, RowsHanded
<1>2. RowsOnTheWay(n)'
  BY RowsStayOnTheWay DEF RowsFit, Quiet, QuietNotifier
<1>3. QED
  BY <1>1, <1>2

\* Who is called after a package was taken, was in it, and is at its version.
LEMMA SentOnly ==
  ASSUME Typed, NEW r \in Realms, NEW S \in SUBSET Notifiers, Packages(r, S), NEW n \in Notifiers, Delivering(n)'
  PROVE  IF Owner[n] = r
         THEN n \in S /\ nt[n].version <= rv'[r] /\ (th'[r].job # "begin" => th'[r].to = nt[n].version)
         ELSE th'[Owner[n]] = th[Owner[n]]
<1>1. CASE NothingSent(r)
  <2>1. PICK t : OnlyThread(r, t) /\ t.calls = th[r].calls
    BY <1>1 DEF NothingSent
  <2>2. th[r].calls = <<>>
    BY <1>1 DEF NothingSent, Typed, CallsOwn, CallsOf
  <2>3. th'[r] = t /\ \A s \in Realms \ {r} : th'[s] = th[s]
    BY <2>1, OneThread
  <2>4. Owner[n] # r
    BY <2>1, <2>2, <2>3 DEF Delivering
  <2>5. QED
    BY <2>3, <2>4, OwnerAssumption
<1>2. ASSUME NEW K \in {S, {}}, NEW job, NEW v, Sending(r, K, job, v)
      PROVE  IF Owner[n] = r
             THEN n \in S /\ nt[n].version <= rv'[r] /\ (th'[r].job # "begin" => th'[r].to = nt[n].version)
             ELSE th'[Owner[n]] = th[Owner[n]]
  <2>1. PICK t : OnlyThread(r, t) /\ Sends(t, r, job, K, v)
    BY <1>2 DEF Sending
  <2>2. th'[r] = t /\ \A s \in Realms \ {r} : th'[s] = th[s]
    BY <2>1, OneThread
  <2>3. CASE Owner[n] = r
    <3>1. n \in K
      <4>1. t.calls \in Seq(K) /\ \E k \in DOMAIN t.calls : t.calls[k] = n
        BY <2>1, <2>2, <2>3 DEF Sends, Delivering
      <4>2. QED
        BY <4>1
    <3>2. rv'[r] = v
      BY <1>2, TypedParts DEF Sending
    <3>3. nt[n].version <= v /\ (job # "begin" => nt[n].version = v) /\ t.to = v /\ t.job = job
      BY <1>2, <2>1, <3>1 DEF Sending, Sends
    <3>4. QED
      BY <2>2, <2>3, <3>1, <3>2, <3>3
  <2>4. CASE Owner[n] # r
    BY <2>2, <2>4, OwnerAssumption
  <2>5. QED
    BY <2>3, <2>4
<1>3. QED
  BY <1>1, <1>2 DEF Packages

\* Taking a package keeps the rows with their versions.
LEMMA PackagesRows ==
  ASSUME Typed, RowsFit, NEW r \in Realms, NEW S \in SUBSET Notifiers, Packages(r, S)
  PROVE  RowsFit'
<1> SUFFICES ASSUME NEW n \in Notifiers PROVE RowsHanded(n)' /\ RowsOnTheWay(n)'
  BY DEF RowsFit
<1>1. /\ SameRun(n) /\ (n \notin S => SameNotifier(n))
      /\ n \in S => nt'[n].tvHandover = 0 /\ nt'[n].tvDeliver = nt[n].tvHandover
      /\ n \in S => Owner[n] = r
  BY DEF Packages, SendsPackage, PackagedAll
<1>2. RowsHanded(n) /\ RowsOnTheWay(n)
  BY DEF RowsFit
<1>3. RowsHanded(n)'
  BY <1>1, <1>2 DEF RowsHanded, SameNotifier, SameRows, SameRun
<1>4. RowsOnTheWay(n)'
  <2> SUFFICES ASSUME Delivering(n)', th'[Owner[n]].pc \in {"changed", "ready"}, th'[Owner[n]].job # "begin"
               PROVE  nt'[n].tvDeliver \in {0, th'[Owner[n]].to}
    BY DEF RowsOnTheWay
  <2>1. CASE Owner[n] = r
    <3>1. n \in S /\ th'[r].to = nt[n].version
      BY <2>1, SentOnly
    <3>2. QED
      BY <1>1, <1>2, <2>1, <3>1 DEF RowsHanded
  <2>2. CASE Owner[n] # r
    <3>1. th'[Owner[n]] = th[Owner[n]]
      BY <2>2, SentOnly
    <3>2. Delivering(n)
      BY <3>1 DEF Delivering
    <3>3. nt'[n].tvDeliver = nt[n].tvDeliver
      BY <1>1, <2>2 DEF SameNotifier, SameRows
    <3>4. QED
      BY <1>2, <3>1, <3>2, <3>3 DEF RowsOnTheWay
  <2>3. QED
    BY <2>1, <2>2
<1>5. QED
  BY <1>3, <1>4

\* Calling a block keeps the rows with their versions.
LEMMA BlockRunsRows ==
  ASSUME Typed, RowsFit, CallsNoMore, NEW r \in Realms, NEW m \in Notifiers, NEW i, BlockRuns(r, m, i)
  PROVE  RowsFit'
<1> SUFFICES ASSUME NEW n \in Notifiers PROVE RowsHanded(n)' /\ RowsOnTheWay(n)'
  BY DEF RowsFit
<1>1. SameRun(n) /\ SameRows(n)
  BY BlockRunsParts DEF SameNotifier
<1>2. RowsHanded(n)'
  BY <1>1 DEF RowsFit, RowsHanded, SameRun, SameRows
<1>3. RowsOnTheWay(n)'
  BY <1>1, RowsStayOnTheWay DEF RowsFit, SameRows
<1>4. QED
  BY <1>2, <1>3

\* The handover gives rows of the version the notifier gets.
LEMMA HandoverRows ==
  ASSUME Typed, RowsFit, WorkerHandover
  PROVE  RowsFit'
<1> SUFFICES ASSUME NEW n \in Notifiers PROVE RowsHanded(n)' /\ RowsOnTheWay(n)'
  BY DEF RowsFit
<1>1. RowsHanded(n)'
  BY WorkerHandoverParts DEF RowsFit, RowsHanded
<1>2. CallsNoMore /\ nt'[n].tvDeliver = nt[n].tvDeliver
  BY WorkerHandoverParts, SameThreadsGoOn
<1>3. RowsOnTheWay(n)'
  BY <1>2, RowsStayOnTheWay DEF RowsFit
<1>4. QED
  BY <1>1, <1>3

\* Every step keeps the rows with their versions.
LEMMA RowsKept ==
  ASSUME Typed, IInv, RowsFit, [Next]_vars
  PROVE  RowsFit'
<1>1. ASSUME NEW r \in Realms, CallNext(r), \E i \in ToDo(Head(th[r].calls)) : BlockRuns(r, Head(th[r].calls), i)
      PROVE  RowsFit'
  BY <1>1, CallNextQuietly, CallNextParts, WhoseTurn, BlockRunsRows
<1>2. QED
  BY <1>1, KindOfStep, QuietRows, PackagesRows, HandoverRows

\* The rows a Results is given were exported at the version its Realm is at, even
\* if the worker, another thread or a block wrote or delivered meanwhile: importing
\* them never throws BadVersion (NotifierPackage::deliver, do_prepare_handover).
THEOREM RowsAreImported == Spec => []HandoverMatches
<1>1. Init => Typed /\ RowsFit
  <2>1. Init => RowsFit
    <3> SUFFICES ASSUME Init, NEW n \in Notifiers PROVE RowsHanded(n) /\ RowsOnTheWay(n)
      BY DEF RowsFit
    <3>1. nt[n].tvHandover = 0 /\ th[Owner[n]].pc = "idle"
      BY OwnerAssumption DEF Init, NewNotifier
    <3>2. QED
      BY <3>1 DEF RowsHanded, RowsOnTheWay
  <2>2. QED
    BY <2>1, InitTyped
<1>2. IInv /\ IInv' /\ Typed /\ RowsFit /\ [Next]_vars => Typed' /\ RowsFit'
  BY TypedStays, RowsKept
<1>3. Typed /\ RowsFit => HandoverMatches
  <2> SUFFICES ASSUME Typed, RowsFit, NEW n \in Notifiers, Delivering(n), th[Owner[n]].pc \in {"changed", "ready"},
                      writer # Owner[n], rv[Owner[n]] = th[Owner[n]].to
               PROVE  nt[n].tvDeliver \in {0, rv[Owner[n]]}
    BY DEF HandoverMatches
  <2>1. th[Owner[n]].job # "begin"
    BY OwnerAssumption DEF Typed, CallsOwn, CallsOf
  <2>2. QED
    BY <2>1 DEF RowsFit, RowsOnTheWay
<1>4. Spec => []IInv
  BY VersionsFit
<1>5. QED
  BY <1>1, <1>2, <1>3, <1>4, PTL DEF Spec

---------------------------------------------------------------------------------
(* A block hears of nothing that its Realm cannot read yet.                  *)

\* A Realm never reads an older version than before.
LEMMA SnapshotsGrow ==
  ASSUME Typed, IInv, [Next]_vars, NEW r \in Realms
  PROVE  rv[r] <= rv'[r] /\ rv[r] \in Nat /\ rv'[r] \in Nat
<1>1. FileStep /\ IInv'
  BY EveryStep
<1>2. rv[r] \in Nat /\ rv'[r] \in Nat /\ rv[r] <= latest /\ latest \in Nat
  BY <1>1 DEF IInv, FileVersions
<1>3. \A s \in Realms : rv[s] <= latest
  BY DEF IInv, FileVersions
<1>4. rv \in [Realms -> Nat]
  BY DEF IInv, FileVersions
<1>5. rv[r] <= rv'[r]
  BY <1>1, <1>2, <1>3, <1>4 DEF FileStep, File!VFNext, File!VFBegin, File!VFCommit, File!VFCancel, File!VFAdvance, File!vfvars
<1>6. QED
  BY <1>2, <1>5

\* What a block is told, and what waits for it, is of versions its notifier has
\* been at; what it was told, and what is packaged for it now, of versions its
\* Realm can read.  Before the first call nothing is told.
Readable(n, c) ==
  /\ c.initial \/ c.acc # {} \/ c.del # {} => nt[n].hasRun
  /\ \A v \in c.acc \cup c.del \cup c.told : v <= nt[n].version
  /\ \A v \in c.told : v <= rv[Owner[n]]
  /\ Delivering(n) => \A v \in c.del : v <= rv[Owner[n]]
  /\ ~c.initial => c.told = {}
AllReadable == \A n \in Notifiers : \A i \in DOMAIN nt[n].callbacks : Readable(n, nt[n].callbacks[i])

\* A quiet step keeps all changes readable.
LEMMA QuietReadable ==
  ASSUME Typed, IInv, AllReadable, [Next]_vars, Quiet
  PROVE  AllReadable'
<1> SUFFICES ASSUME NEW n \in Notifiers, NEW i \in DOMAIN nt'[n].callbacks
             PROVE  Readable(n, nt[n].callbacks[i])'
  BY DEF AllReadable
<1>1. Owner[n] \in Realms /\ rv[Owner[n]] \in Nat /\ rv'[Owner[n]] \in Nat /\ rv[Owner[n]] <= rv'[Owner[n]]
  BY OwnerAssumption, SnapshotsGrow
<1>2. (nt'[n].hasRun <=> nt[n].hasRun) /\ (nt[n].hasRun => nt'[n].version = nt[n].version)
  BY DEF Quiet, QuietNotifier
<1> DEFINE d == nt'[n].callbacks[i]
<1>3. CASE d = NewCallback
  <2>1. d.acc = {} /\ d.del = {} /\ d.told = {} /\ d.initial = FALSE
    BY <1>3 DEF NewCallback
  <2>2. QED
    BY <2>1 DEF Readable
<1>4. ASSUME NEW j \in DOMAIN nt[n].callbacks, SameContents(nt[n].callbacks[j], d)
      PROVE  Readable(n, nt[n].callbacks[i])'
  <2> DEFINE c == nt[n].callbacks[j]
  <2>1. c \in CallbackType /\ Readable(n, c) /\ SameContents(c, d)
    BY <1>4, TypedParts DEF AllReadable, NotifierType
  <2>2. Delivering(n)' => Delivering(n)
    BY StillDelivering DEF Quiet
  <2> HIDE DEF c
  <2>3. \A v \in c.told \cup c.del : v \in Int
    BY <2>1, BoundsAssumption DEF CallbackType
  <2>4. /\ d.initial \/ d.acc # {} \/ d.del # {} => nt'[n].hasRun
        /\ ~d.initial => d.told = {}
    BY <1>2, <2>1 DEF SameContents, Readable
  <2>5. \A v \in d.acc \cup d.del \cup d.told : v <= nt'[n].version
    BY <1>2, <2>1 DEF SameContents, Readable
  <2>6. /\ \A v \in d.told : v <= rv'[Owner[n]]
        /\ Delivering(n)' => \A v \in d.del : v <= rv'[Owner[n]]
    BY <1>1, <2>1, <2>2, <2>3 DEF SameContents, Readable
  <2>7. QED
    BY <2>4, <2>5, <2>6 DEF Readable
<1>5. QED
  BY <1>3, <1>4 DEF Quiet, QuietNotifier, QuietBlocks

\* Taking a package keeps all changes readable.
LEMMA PackagesReadable ==
  ASSUME Typed, IInv, AllReadable, [Next]_vars, NEW r \in Realms, NEW S \in SUBSET Notifiers, Packages(r, S)
  PROVE  AllReadable'
<1> SUFFICES ASSUME NEW n \in Notifiers, NEW i \in DOMAIN nt'[n].callbacks
             PROVE  Readable(n, nt[n].callbacks[i])'
  BY DEF AllReadable
<1>1. Owner[n] \in Realms /\ rv[Owner[n]] \in Nat /\ rv'[Owner[n]] \in Nat /\ rv[Owner[n]] <= rv'[Owner[n]]
  BY OwnerAssumption, SnapshotsGrow
<1> DEFINE c == nt[n].callbacks[i]
           d == nt'[n].callbacks[i]
<1>2. /\ nt'[n].hasRun = nt[n].hasRun /\ nt'[n].version = nt[n].version
      /\ i \in DOMAIN nt[n].callbacks
      /\ d = IF n \in S THEN Packaged(c) ELSE c
      /\ n \in S => Owner[n] = r /\ nt[n].hasRun
  BY DEF Packages, SendsPackage, PackagedAll, SameRun
<1>3. c \in CallbackType /\ Readable(n, c) /\ nt[n].version \in Int
  BY <1>2, TypedParts, BoundsAssumption DEF AllReadable, NotifierType
<1>4. \A v \in c.told \cup c.del \cup c.acc : v \in Int
  BY <1>3, BoundsAssumption DEF CallbackType
<1>5. Delivering(n)' => IF Owner[n] = r THEN n \in S /\ nt[n].version <= rv'[r] ELSE Delivering(n)
  BY SentOnly DEF Delivering
<1>6. CASE n \in S
  <2>1. /\ d.acc = {} /\ d.del = c.acc /\ d.told = c.told /\ d.initial = c.initial
    <3> HIDE DEF c, d
    <3>1. QED
      BY <1>2, <1>3, <1>6 DEF Packaged, CallbackType
  <2> HIDE DEF c, d
  <2>2. \A v \in d.acc \cup d.del \cup d.told : v <= nt'[n].version
    BY <1>2, <1>3, <2>1 DEF Readable
  <2>3. /\ d.initial \/ d.acc # {} \/ d.del # {} => nt'[n].hasRun
        /\ ~d.initial => d.told = {}
    BY <1>2, <1>3, <1>6, <2>1 DEF Readable
  <2>4. \A v \in d.told : v <= rv'[Owner[n]]
    BY <1>1, <1>3, <1>4, <2>1 DEF Readable
  <2>5. Delivering(n)' => \A v \in d.del : v <= rv'[Owner[n]]
    BY <1>1, <1>2, <1>3, <1>4, <1>5, <1>6, <2>1 DEF Readable
  <2>6. QED
    BY <2>2, <2>3, <2>4, <2>5 DEF Readable, d
<1>7. CASE n \notin S
  <2>1. d = c /\ (Delivering(n)' => Delivering(n))
    BY <1>2, <1>5, <1>7
  <2> HIDE DEF c, d
  <2>2. /\ \A v \in c.told : v <= rv'[Owner[n]]
        /\ Delivering(n)' => \A v \in c.del : v <= rv'[Owner[n]]
    BY <1>1, <1>3, <1>4, <2>1 DEF Readable
  <2>3. QED
    BY <1>2, <1>3, <2>1, <2>2 DEF Readable, d
<1>8. QED
  BY <1>6, <1>7

\* What Told does to a block.
ToldAs(d, c, v) ==
  /\ d \in CallbackType /\ d.acc = c.acc /\ d.del = {} /\ d.initial = TRUE
  /\ d.told = (IF c.initial THEN c.told \cup c.del ELSE c.told)
  /\ d.base = (IF c.initial THEN c.base ELSE v)
  /\ d.skip = c.skip /\ d.mute = c.mute /\ d.muted = c.muted

\* What a call makes of the callback.
LEMMA ToldOne ==
  ASSUME NEW c \in CallbackType, NEW v \in Versions, NEW d, d = Told(c, v)
  PROVE  ToldAs(d, c, v)
<1> DEFINE a == IF c.initial THEN c.base ELSE v
           b == IF c.initial THEN c.told \cup c.del ELSE c.told
<1>1. a \in 0 .. MaxVersion /\ b \in SUBSET (0 .. MaxVersion)
  BY BoundsAssumption DEF CallbackType, Versions
<1>2. Told(c, v) = [c EXCEPT !.initial = TRUE, !.del = {}, !.base = a, !.told = b]
  BY DEF Told
<1> HIDE DEF a, b
<1>3. QED
  BY <1>1, <1>2 DEF CallbackType, ToldAs, a, b

\* A block is told of what its Realm can read.
LEMMA BlockRunsReadable ==
  ASSUME Typed, IInv, AllReadable, NEW r \in Realms, CallNext(r),
         NEW m, NEW k, m = Head(th[r].calls), BlockRuns(r, m, k)
  PROVE  AllReadable'
<1> SUFFICES ASSUME NEW n \in Notifiers, NEW i \in DOMAIN nt'[n].callbacks
             PROVE  Readable(n, nt[n].callbacks[i])'
  BY DEF AllReadable
<1>1. /\ rv' = rv /\ m \in Notifiers /\ Owner[m] = r /\ nt[m].hasRun /\ Delivering(m)
  BY CallNextParts, WhoseTurn
<1>2. CallsNoMore
  BY CallNextQuietly
<1>3. /\ SameRun(n) /\ i \in DOMAIN nt[n].callbacks
      /\ IF n = m /\ i = k THEN nt'[n].callbacks[i] = Told(nt[n].callbacks[i], rv[r])
         ELSE nt'[n].callbacks[i] = nt[n].callbacks[i]
  BY <1>1, BlockRunsParts DEF SameNotifier, SameBlocks
<1> DEFINE c == nt[n].callbacks[i]
           d == nt'[n].callbacks[i]
<1>4. c \in CallbackType /\ Readable(n, c) /\ rv[r] \in Versions
  BY <1>3, TypedParts DEF AllReadable, NotifierType
<1>5. Delivering(n)' => Delivering(n)
  BY <1>2, StillDelivering
<1>6. CASE n = m /\ i = k
  <2>1. d = Told(c, rv[r])
    BY <1>3, <1>6
  <2> HIDE DEF c, d
  <2>2. /\ d.acc = c.acc /\ d.del = {} /\ d.initial = TRUE
        /\ d.told = IF c.initial THEN c.told \cup c.del ELSE c.told
    <3>1. ToldAs(d, c, rv[r])
      BY <1>4, <2>1, ToldOne
    <3>2. QED
      BY <3>1 DEF ToldAs
  <2>3. \A v \in d.told : v <= rv[Owner[n]] /\ v <= nt[n].version
    BY <1>1, <1>4, <1>6, <2>2 DEF Readable
  <2>4. \A v \in d.acc : v <= nt[n].version
    BY <1>4, <2>2 DEF Readable
  <2>5. QED
    BY <1>1, <1>3, <1>6, <2>2, <2>3, <2>4 DEF Readable, d, SameRun
<1>7. CASE ~(n = m /\ i = k)
  <2>1. d = c
    BY <1>3, <1>7
  <2> HIDE DEF c, d
  <2>2. QED
    BY <1>1, <1>3, <1>4, <1>5, <2>1 DEF Readable, d, SameRun
<1>8. QED
  BY <1>6, <1>7

\* What Merged does to a block.
MergedAs(d, c, changes) ==
  /\ d.acc = (IF c.skip THEN c.acc ELSE c.acc \cup changes) /\ d.del = c.del /\ d.told = c.told
  /\ d.initial = c.initial /\ d.base = c.base /\ d.skip = FALSE /\ d.mute = c.mute /\ d.muted = c.muted

\* What the changes of a handover make of a callback.
LEMMA MergedOne ==
  ASSUME NEW c \in CallbackType, NEW changes, NEW d, d = Merged(c, changes)
  PROVE  MergedAs(d, c, changes)
BY DEF Merged, MergedAs, CallbackType

\* A notifier that has run and is handed over was not ahead of the worker.
LEMMA HandedOverForward ==
  ASSUME Typed, IInv, Sources, wk.pc = "handover", NEW n \in Phase
  PROVE  /\ n \in Notifiers /\ nt[n].list = "main" /\ (nt[n].hasRun => nt[n].version <= co.notifierSG)
         /\ (nt[n].hasRun => n \in wk.old)
<1>1. n \in Listed("main") /\ (nt[n].hasRun => n \in wk.old)
  BY DEF Phase, IInv, WorkerInv, WorkerIsFree
<1>2. QED
  BY <1>1 DEF Sources, GroupVersions, Listed

\* The handover adds changes up to the version the notifier gets.
LEMMA HandoverReadable ==
  ASSUME Typed, IInv, Sources, AllReadable, WorkerHandover
  PROVE  AllReadable'
<1> SUFFICES ASSUME NEW n \in Notifiers, NEW i \in DOMAIN nt'[n].callbacks
             PROVE  Readable(n, nt[n].callbacks[i])'
  BY DEF AllReadable
<1>1. /\ rv' = rv /\ th' = th /\ wk.pc = "handover" /\ i \in DOMAIN nt[n].callbacks
  BY WorkerHandoverParts
<1>2. Delivering(n)' <=> Delivering(n)
  BY <1>1 DEF Delivering
<1> DEFINE c == nt[n].callbacks[i]
           d == nt'[n].callbacks[i]
<1>3. c \in CallbackType /\ Readable(n, c)
  BY <1>1, TypedParts DEF AllReadable, NotifierType
<1>4. CASE n \in Phase
  <2>1. d = Merged(c, nt[n].changes) /\ nt'[n].hasRun /\ nt'[n].version = co.notifierSG
    BY <1>1, <1>4, WorkerHandoverParts
  <2>2. /\ d.acc \subseteq c.acc \cup nt[n].changes /\ d.del = c.del /\ d.told = c.told /\ d.initial = c.initial
    <3> HIDE DEF c, d
    <3>1. MergedAs(d, c, nt[n].changes)
      BY <1>3, <2>1, MergedOne
    <3>2. QED
      BY <3>1 DEF MergedAs
  <2>3. nt[n].version \in Int /\ co.notifierSG \in Int /\ nt[n].hasRun \in BOOLEAN
    BY TypedParts, BoundsAssumption DEF NotifierType, CoordinatorType
  <2>4. \A v \in c.acc \cup c.del \cup c.told : v \in Int
    BY <1>3, BoundsAssumption DEF CallbackType
  <2>5. \A v \in nt[n].changes : v <= co.notifierSG
    BY DEF Sources, ChangesUpTo
  <2> HIDE DEF c, d
  <2>6. \A v \in c.acc \cup c.del \cup c.told : v <= co.notifierSG
    <3>1. CASE nt[n].hasRun
      BY <1>1, <1>3, <1>4, <2>3, <2>4, <3>1, HandedOverForward DEF Readable
    <3>2. CASE ~nt[n].hasRun
      BY <1>3, <3>2 DEF Readable
    <3>3. QED
      BY <3>1, <3>2
  <2>7. \A v \in d.acc \cup d.del \cup d.told : v <= co.notifierSG
    BY <2>2, <2>5, <2>6
  <2>8. QED
    BY <1>1, <1>2, <1>3, <2>1, <2>2, <2>7 DEF Readable, d
<1>5. CASE n \notin Phase
  <2>1. d = c /\ nt'[n].hasRun = nt[n].hasRun /\ nt'[n].version = nt[n].version
    BY <1>1, <1>5, WorkerHandoverParts
  <2> HIDE DEF c, d
  <2>2. QED
    BY <1>1, <1>2, <1>3, <2>1 DEF Readable, d
<1>6. QED
  BY <1>4, <1>5

\* Every step keeps all changes readable.
LEMMA ReadableKept ==
  ASSUME Typed, IInv, Sources, AllReadable, [Next]_vars
  PROVE  AllReadable'
<1>1. ASSUME NEW r \in Realms, CallNext(r), \E i \in ToDo(Head(th[r].calls)) : BlockRuns(r, Head(th[r].calls), i)
      PROVE  AllReadable'
  BY <1>1, BlockRunsReadable
<1>2. QED
  BY <1>1, KindOfStep, QuietReadable, PackagesReadable, HandoverReadable

\* At first there are no changes to read.
LEMMA ReadableAtFirst == Init => Sources /\ AllReadable
<1>1. Init => \A n \in Notifiers : nt[n].callbacks = <<>>
  BY DEF Init, NewNotifier
<1>2. Init => AllReadable
  BY <1>1 DEF AllReadable
<1>3. QED
  BY <1>2, SourcesAtFirst

\* In every state all changes come from versions their Realms can read.
LEMMA ReadableAlways == Spec => [](Sources /\ AllReadable)
<1>1. IInv /\ IInv' /\ Typed /\ Sources /\ AllReadable /\ [Next]_vars => Typed' /\ Sources' /\ AllReadable'
  BY TypedStays, SourcesKept, ReadableKept
<1>2. Init => Typed /\ Sources /\ AllReadable
  BY InitTyped, ReadableAtFirst
<1>3. Spec => []IInv
  BY VersionsFit
<1>4. QED
  BY <1>1, <1>2, <1>3, PTL DEF Spec

\* No block hears of a version before its Realm reads it: whatever the worker has
\* handed over meanwhile, what the block is told was packaged, and the snapshot
\* was moved to the version of the package before the block runs.
THEOREM BlocksCanRead == Spec => []ToldIsReadable
<1>1. AllReadable => ToldIsReadable
  BY DEF AllReadable, Readable, ToldIsReadable
<1>2. QED
  BY <1>1, ReadableAlways, PTL

---------------------------------------------------------------------------------
(* What is told is right, and told once, if every Results is read between two *)
(* deliveries and no first callback comes while the worker runs.             *)

\* A Results that is read asks for its rows again.
WantsRows(n) == nt[n].list \in {"new", "main"} => nt[n].wants

\* The rows a notifier has are those of its version, or before it is handed over
\* those of the version the worker went to.
RowsAreCurrent(n) ==
  nt[n].list = "main" /\ nt[n].alive =>
    /\ nt[n].hasRun /\ wk.pc # "handover" => ChangedIn(nt[n].prev, nt[n].version) = {}
    /\ wk.pc = "handover" /\ n \in Phase => ChangedIn(nt[n].prev, co.notifierSG) = {}

\* Changes are recorded for everybody who has callbacks.
Recorded(n) == wk.pc = "run" /\ n \in Phase /\ nt[n].hasRun /\ nt[n].have => n \in wk.info

\* Changes are newer than the notifier that has them.
ChangesAreNew(n) ==
  /\ nt[n].changes # {} => nt[n].hasRun
  /\ \A v \in nt[n].changes : nt[n].version < v

Current(n) == WantsRows(n) /\ RowsAreCurrent(n) /\ Recorded(n) /\ ChangesAreNew(n)
AllCurrent == \A n \in Notifiers : Current(n)

\* A commit adds a version that nobody has reached.
TouchedGrows == touched' \in {touched, touched \cup {latest + 1}}

\* Whatever a commit adds is newer than the latest version.
LEMMA NewlyTouched ==
  ASSUME Typed, TouchedGrows
  PROVE  \A x \in touched' : x \in Int /\ (x \in touched \/ latest < x)
<1>1. latest \in Versions /\ touched \subseteq Versions
  BY TypedParts
<1>2. QED
  BY <1>1 DEF TouchedGrows, Versions

\* A step that leaves a notifier at its version, and asks for no more of it.
LEMMA CurrentStays ==
  ASSUME Typed, IInv, NEW n \in Notifiers, Current(n), TouchedGrows, wk' = wk, co'.notifierSG = co.notifierSG,
         SameRun(n), nt'[n].alive => nt[n].alive, nt[n].wants => nt'[n].wants,
         nt'[n].have => nt[n].have \/ ~(n \in wk.old /\ wk.pc = "run")
  PROVE  Current(n)'
<1>1. Phase' = Phase
  BY DEF Phase, LastPhase
<1>2. nt[n].version \in Int /\ co.notifierSG \in Int /\ latest \in Int /\ nt[n].version <= latest /\ co.notifierSG <= latest
      /\ nt[n].prev \in Int
  BY TypedParts, BoundsAssumption DEF IInv, VersionsNoted, FileVersions, NotifierType
<1>3. WantsRows(n)' /\ ChangesAreNew(n)'
  BY DEF Current, WantsRows, ChangesAreNew, SameRun
<1>4. \A x \in touched' : x \in Int /\ (x \in touched \/ latest < x)
  BY NewlyTouched
<1>5. RowsAreCurrent(n)'
  <2> SUFFICES ASSUME nt'[n].list = "main", nt'[n].alive
               PROVE  /\ nt'[n].hasRun /\ wk'.pc # "handover" => ChangedIn(nt[n].prev, nt[n].version)' = {}
                      /\ wk'.pc = "handover" /\ n \in Phase' => ChangedIn(nt[n].prev, co.notifierSG)' = {}
    BY DEF RowsAreCurrent
  <2>1. ASSUME nt'[n].hasRun, wk'.pc # "handover"
        PROVE  ChangedIn(nt[n].prev, nt[n].version)' = {}
    <3>1. ChangedIn(nt[n].prev, nt[n].version) = {}
      BY <2>1 DEF Current, RowsAreCurrent, SameRun
    <3>2. nt'[n].prev = nt[n].prev /\ nt'[n].version = nt[n].version
      BY DEF SameRun
    <3>3. QED
      BY <1>2, <1>4, <3>1, <3>2 DEF ChangedIn
  <2>2. ASSUME wk'.pc = "handover", n \in Phase'
        PROVE  ChangedIn(nt[n].prev, co.notifierSG)' = {}
    <3>1. ChangedIn(nt[n].prev, co.notifierSG) = {}
      BY <1>1, <2>2 DEF Current, RowsAreCurrent, SameRun
    <3>2. nt'[n].prev = nt[n].prev
      BY DEF SameRun
    <3>3. QED
      BY <1>2, <1>4, <3>1, <3>2 DEF ChangedIn
  <2>3. QED
    BY <2>1, <2>2
<1>6. Recorded(n)'
  <2>1. n \in Phase /\ nt[n].hasRun /\ wk.pc = "run" => n \in wk.old
    BY DEF Phase, IInv, WorkerInv, WorkerIsFree, Listed
  <2>2. QED
    BY <1>1, <2>1 DEF Current, Recorded, SameRun
<1>7. QED
  BY <1>3, <1>5, <1>6 DEF Current

\* A notifier that runs and is used as before keeps its rows and changes current.
LEMMA SameIsCurrent ==
  ASSUME Typed, IInv, NEW n \in Notifiers, Current(n), touched' = touched, wk' = wk, co'.notifierSG = co.notifierSG,
         SameRun(n), SameUse(n)
  PROVE  Current(n)'
BY CurrentStays DEF SameUse, TouchedGrows

\* What an observer does keeps rows and changes current, if no callback is added
\* late.
LEMMA ObserveCurrent ==
  ASSUME ~LateCallbacks, Typed, IInv, AllCurrent, NEW n \in Notifiers, Observe(n)
  PROVE  AllCurrent'
<1>1. ASSUME touched' = touched, wk' = wk, co'.notifierSG = co.notifierSG,
             \A m \in Notifiers \ {n} : SameNotifier(m), Current(n)'
      PROVE  AllCurrent'
  BY <1>1, SameIsCurrent DEF SameNotifier, AllCurrent
<1>2. (Current(n) /\ TouchedGrows) \/ touched' # touched
  BY DEF AllCurrent, TouchedGrows
<1>3. CASE Register(n)
  <2>1. /\ touched' = touched /\ wk' = wk /\ co'.notifierSG = co.notifierSG
        /\ \A m \in Notifiers \ {n} : SameNotifier(m)
    BY <1>3, RegisterParts
  <2>2. /\ ~nt[n].hasRun /\ ~nt'[n].hasRun /\ nt'[n].list = "new" /\ nt'[n].wants
        /\ nt'[n].changes = nt[n].changes
    BY <1>3, RegisterParts
  <2>3. nt[n].changes = {}
    BY <2>2 DEF AllCurrent, Current, ChangesAreNew
  <2>4. Current(n)'
    BY <2>1, <2>2, <2>3 DEF Current, WantsRows, RowsAreCurrent, Recorded, ChangesAreNew
  <2>5. QED
    BY <1>1, <2>1, <2>4
<1>4. CASE AddCallback(n)
  <2>1. /\ touched' = touched /\ wk' = wk /\ co'.notifierSG = co.notifierSG
        /\ (\A m \in Notifiers \ {n} : SameNotifier(m)) /\ SameRun(n)
        /\ nt'[n].alive = nt[n].alive /\ nt'[n].wants = nt[n].wants
        /\ (nt'[n].have # nt[n].have => ~(n \in wk.old /\ wk.pc \in {"run", "handover"}))
    BY <1>4, AddCallbackParts
  <2>2. nt'[n].have => nt[n].have \/ ~(n \in wk.old /\ wk.pc = "run")
    BY <2>1
  <2>3. Current(n)'
    BY <1>2, <2>1, <2>2, CurrentStays
  <2>4. QED
    BY <1>1, <2>1, <2>3
<1>5. CASE Release(n)
  <2>1. /\ touched' = touched /\ wk' = wk /\ co' = co
        /\ (\A m \in Notifiers \ {n} : SameNotifier(m)) /\ SameRun(n)
        /\ nt'[n].alive = FALSE /\ nt'[n].wants = nt[n].wants /\ nt'[n].have = nt[n].have
    BY <1>5, ReleaseParts
  <2>2. Current(n)'
    BY <1>2, <2>1, CurrentStays
  <2>3. QED
    BY <1>1, <2>1, <2>2
<1>6. ASSUME NEW i \in DOMAIN nt[n].callbacks, RemoveCallback(n, i)
      PROVE  AllCurrent'
  <2>1. /\ touched' = touched /\ wk' = wk /\ co' = co
        /\ (\A m \in Notifiers \ {n} : SameNotifier(m)) /\ SameRun(n)
        /\ nt'[n].alive = nt[n].alive /\ nt'[n].wants = nt[n].wants /\ (nt'[n].have => nt[n].have)
    BY <1>6, RemoveCallbackParts
  <2>2. Current(n)'
    BY <1>2, <2>1, CurrentStays
  <2>3. QED
    BY <1>1, <2>1, <2>2
<1>7. ASSUME NEW i \in DOMAIN nt[n].callbacks, Suppress(n, i)
      PROVE  AllCurrent'
  <2>1. /\ touched' = touched /\ wk' = wk /\ co' = co
        /\ (\A m \in Notifiers \ {n} : SameNotifier(m)) /\ SameRun(n) /\ SameUse(n)
    BY <1>7, SuppressParts
  <2>2. Current(n)'
    BY <1>2, <2>1, SameIsCurrent
  <2>3. QED
    BY <1>1, <2>1, <2>2
<1>8. QED
  BY <1>3, <1>4, <1>5, <1>6, <1>7 DEF Observe

\* Beginning, committing and cancelling writes keep rows and changes current.
LEMMA TransactCurrent ==
  ASSUME Typed, IInv, AllCurrent, NEW r \in Realms, Transact(r)
  PROVE  AllCurrent'
<1>1. CASE BeginAlone(r) \/ BeginNotifying(r) \/ Cancel(r) \/ Refresh(r)
  <2>1. nt' = nt /\ wk' = wk /\ co' = co /\ touched' = touched
    BY <1>1 DEF BeginAlone, BeginNotifying, Cancel, Refresh
  <2>2. QED
    BY <2>1, SameIsCurrent DEF SameRun, SameUse, AllCurrent
<1>2. CASE BeginNested(r)
  <2>1. wk' = wk /\ co' = co /\ touched' = touched /\ \A n \in Notifiers : SameRun(n) /\ SameUse(n)
    BY <1>2, BeginNestedParts DEF InPlaceOnly
  <2>2. QED
    BY <2>1, SameIsCurrent DEF AllCurrent
<1>3. CASE Commit(r)
  <2>1. wk' = wk /\ co'.notifierSG = co.notifierSG /\ TouchedGrows /\ \A n \in Notifiers : SameRun(n) /\ SameUse(n)
    BY <1>3, CommitParts DEF InPlaceOnly, TouchedGrows
  <2>2. ASSUME NEW n \in Notifiers
        PROVE  Current(n)'
    <3>1. Current(n) /\ SameRun(n) /\ nt'[n].alive = nt[n].alive /\ nt'[n].have = nt[n].have /\ nt'[n].wants = nt[n].wants
      BY <2>1 DEF AllCurrent, SameUse
    <3>2. QED
      BY <2>1, <3>1, CurrentStays
  <2>3. QED
    BY <2>2 DEF AllCurrent
<1>4. QED
  BY <1>1, <1>2, <1>3 DEF Transact

\* Taking and sending a package keeps rows and changes current, if the rows are
\* used.
LEMMA SendCurrent ==
  ASSUME ~Unused, Typed, IInv, AllCurrent, NEW r \in Realms, Send(r)
  PROVE  AllCurrent'
<1>1. CASE Sleep(r)
  <2>1. nt' = nt /\ wk' = wk /\ touched' = touched /\ \E a, b : co' = [co EXCEPT !.asleep = a, !.signal = b]
    BY <1>1 DEF Sleep
  <2>2. co'.notifierSG = co.notifierSG
    BY <2>1, TypedParts DEF CoordinatorType
  <2>3. QED
    BY <2>1, <2>2, SameIsCurrent DEF SameRun, SameUse, AllCurrent
<1>2. CASE PackageAndAdvance(r) \/ Notify(r)
  <2>1. PICK S \in SUBSET Notifiers : Packages(r, S)
    BY <1>2, PackagesParts
  <2>2. wk' = wk /\ co' = co /\ touched' = touched /\ \A n \in Notifiers : SameRun(n) /\ SameUse(n)
    BY <2>1 DEF Packages, SendsPackage, PackagedAll
  <2>3. QED
    BY <2>2, SameIsCurrent DEF AllCurrent
<1>3. CASE Deliver(r)
  <2>1. PICK used \in {TRUE} : \A n \in Notifiers : nt'[n] \in {Given(nt[n], used), nt[n]}
    <3>1. PICK used \in BOOLEAN : GivesRows(used) /\ (~Unused => used = TRUE)
      BY <1>3, DeliverGives
    <3>2. QED
      BY <3>1 DEF GivesRows
  <2>2. wk' = wk /\ co' = co /\ touched' = touched
    BY <1>3, DeliverParts
  <2>3. ASSUME NEW n \in Notifiers
        PROVE  Current(n)'
    <3> DEFINE t == Given(nt[n], used)
    <3>1. /\ t.list = nt[n].list /\ t.version = nt[n].version /\ t.hasRun = nt[n].hasRun
          /\ t.changes = nt[n].changes /\ t.prev = nt[n].prev
          /\ t.alive = nt[n].alive /\ t.have = nt[n].have /\ (nt[n].wants => t.wants)
      BY <2>1, GivenOne, TypedParts
    <3>2. nt'[n] \in {t, nt[n]}
      BY <2>1
    <3> HIDE DEF t
    <3>3. SameRun(n) /\ nt'[n].alive = nt[n].alive /\ nt'[n].have = nt[n].have /\ (nt[n].wants => nt'[n].wants)
      BY <3>1, <3>2 DEF SameRun
    <3>4. QED
      BY <2>2, <3>3, CurrentStays DEF AllCurrent, TouchedGrows
  <2>4. QED
    BY <2>3 DEF AllCurrent
<1>4. CASE CallNext(r)
  <2> DEFINE n == Head(th[r].calls)
  <2>1. /\ wk' = wk /\ co' = co /\ touched' = touched /\ n \in Notifiers
        /\ TurnEnds(r, n) \/ \E i \in ToDo(n) : BlockRuns(r, n, i)
    BY <1>4, CallNextParts, WhoseTurn
  <2> HIDE DEF n
  <2>2. SameRun(n) /\ SameUse(n) /\ \A m \in Notifiers \ {n} : SameNotifier(m)
    BY <2>1, TurnEndsParts, BlockRunsParts
  <2>3. QED
    BY <2>1, <2>2, SameIsCurrent DEF SameNotifier, AllCurrent
<1>5. QED
  BY <1>1, <1>2, <1>3, <1>4 DEF Send

\* The worker's first step keeps rows and changes current.
LEMMA StartCurrent ==
  ASSUME Typed, IInv, AllCurrent, WorkerStart
  PROVE  AllCurrent'
<1>1. /\ wk.pc = "idle" /\ touched' = touched /\ \A n \in Notifiers : ListsOnly(nt[n], nt'[n])
  BY WorkerStartParts
<1>2. wk'.pc \in {"announce", "advance"}
  <2>1. CASE wk' = [wk EXCEPT !.pc = "announce"]
    BY <2>1, TypedParts DEF WorkerType
  <2>2. CASE wk' = [wk EXCEPT !.pc = "advance", !.old = Living("main"), !.new = Living("new"),
                              !.targets = TargetsOf(CleanedUp(co).skip)]
    BY <2>2, TypedParts DEF WorkerType
  <2>3. QED
    BY <2>1, <2>2, WorkerStartParts
<1>3. ASSUME NEW n \in Notifiers
      PROVE  Current(n)'
  <2>1. /\ nt'[n].version = nt[n].version /\ nt'[n].hasRun = nt[n].hasRun /\ nt'[n].changes = nt[n].changes
        /\ nt'[n].prev = nt[n].prev /\ nt'[n].wants = nt[n].wants /\ nt'[n].alive = nt[n].alive
    BY <1>1 DEF ListsOnly
  <2>2. nt'[n].list \in {"new", "main"} => nt[n].list \in {"new", "main"}
    <3>1. nt'[n] = Buried[n] \/ nt'[n] = StartedAs(n)
      BY WorkerStartParts
    <3>2. nt'[n] = Buried[n] \/ nt[n].list = "new"
      BY <3>1 DEF StartedAs, Living, Listed
    <3>3. QED
      BY <3>2, BuriedTyped
  <2>3. nt[n].hasRun => nt[n].list \in {"main", "gone"}
    BY DEF IInv, WorkerInv
  <2>4. WantsRows(n)' /\ ChangesAreNew(n)' /\ Recorded(n)'
    BY <1>2, <2>1, <2>2 DEF AllCurrent, Current, WantsRows, ChangesAreNew, Recorded
  <2>5. RowsAreCurrent(n)'
    <3> SUFFICES ASSUME nt'[n].list = "main", nt'[n].alive, nt'[n].hasRun
                 PROVE  ChangedIn(nt[n].prev, nt[n].version)' = {}
      BY <1>2 DEF RowsAreCurrent
    <3>1. nt[n].list = "main" /\ nt[n].alive /\ nt[n].hasRun
      BY <2>1, <2>2, <2>3
    <3>2. ChangedIn(nt[n].prev, nt[n].version) = {}
      BY <1>1, <3>1 DEF AllCurrent, Current, RowsAreCurrent
    <3>3. QED
      BY <1>1, <2>1, <3>2 DEF ChangedIn
  <2>6. QED
    BY <2>4, <2>5 DEF Current
<1>4. QED
  BY <1>3 DEF AllCurrent

\* Advancing the worker's Realm keeps rows and changes current.
LEMMA AdvanceCurrent ==
  ASSUME Typed, IInv, AllCurrent, WorkerAdvance
  PROVE  AllCurrent'
<1> DEFINE info == {n \in wk.old : nt[n].hasRun /\ nt[n].have}
<1>1. /\ nt' = nt /\ touched' = touched /\ wk.pc = "advance"
      /\ wk' = [wk EXCEPT !.pc = "run", !.from = co.notifierSG, !.info = info]
  BY DEF WorkerAdvance
<1> DEFINE given == info
<1>2. given \subseteq Notifiers /\ \A n \in wk.old : nt[n].hasRun /\ nt[n].have => n \in given
  BY TypedParts DEF WorkerType
<1>3. wk' = [wk EXCEPT !.pc = "run", !.from = co.notifierSG, !.info = given]
  BY <1>1
<1> HIDE DEF given, info
<1>4. wk'.pc = "run" /\ wk'.info = given /\ wk'.old = wk.old /\ wk'.new = wk.new /\ wk'.targets = wk.targets
  BY <1>3, TypedParts DEF WorkerType
<1>5. ASSUME NEW n \in Notifiers
      PROVE  Current(n)'
  <2>1. Current(n)
    BY DEF AllCurrent
  <2>2. WantsRows(n)' /\ ChangesAreNew(n)'
    BY <1>1, <2>1 DEF Current, WantsRows, ChangesAreNew
  <2>3. n \in Phase' /\ nt[n].hasRun => n \in wk.old
    BY <1>1, <1>4 DEF Phase, IInv, WorkerInv, WorkerIsFree, Listed
  <2>4. Recorded(n)'
    BY <1>1, <1>2, <1>4, <2>3 DEF Recorded
  <2>5. RowsAreCurrent(n)'
    BY <1>1, <1>4, <2>1 DEF Current, RowsAreCurrent, ChangedIn
  <2>6. QED
    BY <2>2, <2>4, <2>5 DEF Current
<1>6. QED
  BY <1>5 DEF AllCurrent

\* What is calculated is just what happened since the last handover.
LEMMA CalculatedRightly ==
  ASSUME Typed, IInv, Sources, AllCurrent, wk.pc = "run", NEW n \in Phase, nt[n].alive
  PROVE  /\ CalculatedChanges(n) # {} => nt[n].hasRun
         /\ \A v \in CalculatedChanges(n) : nt[n].version < v
<1>1. n \in Notifiers /\ nt[n].list = "main"
  BY DEF Phase, IInv, WorkerInv, WorkerIsFree, Listed
<1>2. CASE ~nt[n].hasRun \/ ~nt[n].have
  BY <1>2 DEF CalculatedChanges
<1>3. CASE nt[n].hasRun /\ nt[n].have
  <2>1. n \in wk.info
    BY <1>1, <1>3 DEF AllCurrent, Current, Recorded
  <2>2. ChangedIn(nt[n].prev, nt[n].version) = {} /\ nt[n].version = wk.from
    BY <1>1, <1>3 DEF AllCurrent, Current, RowsAreCurrent, Sources, GroupVersions, Listed
  <2>3. CalculatedChanges(n) = ChangedIn(nt[n].prev, co.notifierSG)
    BY <1>3, <2>1, <2>2 DEF CalculatedChanges
  <2>4. \A x \in touched : x \in Int
    BY TypedParts DEF Versions
  <2>5. nt[n].version \in Int
    BY <1>1, TypedParts, BoundsAssumption DEF NotifierType
  <2>6. QED
    BY <1>3, <2>2, <2>3, <2>4, <2>5 DEF ChangedIn
<1>4. QED
  BY <1>2, <1>3

\* Running the queries makes rows and changes current.
LEMMA RunCurrent ==
  ASSUME Typed, IInv, Sources, AllCurrent, WorkerRun
  PROVE  AllCurrent'
<1>1. /\ UNCHANGED <<touched, co>> /\ wk.pc = "run" /\ wk' = [wk EXCEPT !.pc = "handover"]
      /\ \A n \in Notifiers :
           /\ nt'[n].list = nt[n].list /\ nt'[n].alive = nt[n].alive /\ nt'[n].hasRun = nt[n].hasRun
           /\ nt'[n].version = nt[n].version /\ nt'[n].wants = nt[n].wants
           /\ IF n \in Phase /\ NeedToRun(n)
              THEN nt'[n].changes = CalculatedChanges(n) /\ nt'[n].prev = co.notifierSG
              ELSE nt'[n].changes = nt[n].changes /\ nt'[n].prev = nt[n].prev
  BY WorkerRunParts
<1>2. wk'.pc = "handover" /\ wk'.targets = wk.targets /\ wk'.old = wk.old /\ wk'.new = wk.new
  BY <1>1, TypedParts DEF WorkerType
<1>3. Phase' = Phase
  BY <1>2 DEF Phase, LastPhase
<1>4. ASSUME NEW n \in Notifiers
      PROVE  Current(n)'
  <2>1. Current(n) /\ co.notifierSG \in Int
    BY TypedParts, BoundsAssumption DEF AllCurrent, CoordinatorType
  <2>2. WantsRows(n)' /\ Recorded(n)'
    BY <1>1, <1>2, <2>1 DEF Current, WantsRows, Recorded
  <2>3. ChangesAreNew(n)'
    <3>1. CASE n \in Phase /\ NeedToRun(n)
      BY <1>1, <3>1, CalculatedRightly DEF ChangesAreNew, NeedToRun
    <3>2. CASE ~(n \in Phase /\ NeedToRun(n))
      BY <1>1, <2>1, <3>2 DEF Current, ChangesAreNew
    <3>3. QED
      BY <3>1, <3>2
  <2>4. RowsAreCurrent(n)'
    <3> SUFFICES ASSUME nt'[n].list = "main", nt'[n].alive, n \in Phase'
                 PROVE  ChangedIn(nt[n].prev, co.notifierSG)' = {}
      BY <1>2 DEF RowsAreCurrent
    <3>1. CASE NeedToRun(n)
      <4>1. nt'[n].prev = co.notifierSG /\ co' = co
        BY <1>1, <1>3, <3>1
      <4>2. \A x \in touched' : x \in Int
        BY <1>1, TypedParts DEF Versions
      <4>3. QED
        BY <2>1, <4>1, <4>2 DEF ChangedIn
    <3>2. CASE ~NeedToRun(n)
      <4>1. nt[n].wants
        BY <1>1, <2>1 DEF Current, WantsRows
      <4>2. ChangedIn(nt[n].prev, co.notifierSG) = {}
        BY <1>1, <3>2, <4>1 DEF NeedToRun
      <4>3. QED
        BY <1>1, <3>2, <4>2 DEF ChangedIn
    <3>3. QED
      BY <3>1, <3>2
  <2>5. QED
    BY <2>2, <2>3, <2>4 DEF Current
<1>5. QED
  BY <1>4 DEF AllCurrent

\* The handover keeps rows and changes current.
LEMMA HandoverCurrent ==
  ASSUME Typed, IInv, Sources, AllCurrent, WorkerHandover
  PROVE  AllCurrent'
<1>1. /\ touched' = touched /\ wk.pc = "handover"
      /\ IF LastPhase
         THEN wk' = [wk EXCEPT !.pc = "announce", !.targets = <<>>, !.old = {}, !.new = {}, !.info = {}, !.from = 0]
         ELSE wk' = [wk EXCEPT !.pc = "advance", !.targets = Tail(@)]
      /\ \A n \in Notifiers :
           /\ nt'[n].list = IF LastPhase THEN Buried[n].list ELSE nt[n].list
           /\ nt'[n].alive = nt[n].alive /\ nt'[n].wants = nt[n].wants /\ nt'[n].prev = nt[n].prev
           /\ IF n \in Phase
              THEN nt'[n].hasRun = TRUE /\ nt'[n].version = co.notifierSG /\ nt'[n].changes = {}
              ELSE nt'[n].hasRun = nt[n].hasRun /\ nt'[n].version = nt[n].version /\ nt'[n].changes = nt[n].changes
  BY WorkerHandoverParts
<1>2. wk'.pc \in {"announce", "advance"}
  BY <1>1, TypedParts DEF WorkerType
<1>3. ASSUME NEW n \in Notifiers
      PROVE  Current(n)'
  <2>1. Current(n) /\ nt'[n].changes = {}
    BY <1>1 DEF AllCurrent, Sources, ChangesUpTo
  <2>2. nt'[n].list \in {"new", "main"} => nt[n].list = nt'[n].list
    BY <1>1, BuriedTyped
  <2>3. WantsRows(n)' /\ ChangesAreNew(n)' /\ Recorded(n)'
    BY <1>1, <1>2, <2>1, <2>2 DEF Current, WantsRows, ChangesAreNew, Recorded
  <2>4. RowsAreCurrent(n)'
    <3> SUFFICES ASSUME nt'[n].list = "main", nt'[n].alive, nt'[n].hasRun
                 PROVE  ChangedIn(nt[n].prev, nt[n].version)' = {}
      BY <1>2 DEF RowsAreCurrent
    <3>1. nt[n].list = "main" /\ nt[n].alive
      BY <1>1, <2>2
    <3>2. n \in Phase
      <4>1. n \in wk.old \cup wk.new /\ (nt[n].hasRun => n \in wk.old)
        BY <1>1, <3>1 DEF IInv, WorkerInv, WorkerIsFree, Listed
      <4>2. n \notin Phase => nt[n].hasRun
        BY <1>1
      <4>3. QED
        BY <4>1, <4>2 DEF Phase
    <3>3. ChangedIn(nt[n].prev, co.notifierSG) = {}
      BY <1>1, <2>1, <3>1, <3>2 DEF Current, RowsAreCurrent
    <3>4. QED
      BY <1>1, <3>2, <3>3 DEF ChangedIn
  <2>5. QED
    BY <2>3, <2>4 DEF Current
<1>4. QED
  BY <1>3 DEF AllCurrent

\* Announcing the changes keeps rows and changes current.
LEMMA AnnounceCurrent ==
  ASSUME Typed, AllCurrent, WorkerAnnounce
  PROVE  AllCurrent'
<1>1. UNCHANGED <<nt, co, touched>> /\ wk.pc = "announce" /\ wk' = [wk EXCEPT !.pc = "idle"]
  BY DEF WorkerAnnounce
<1>2. wk'.pc = "idle"
  BY <1>1, TypedParts DEF WorkerType
<1>3. QED
  BY <1>1, <1>2 DEF AllCurrent, Current, WantsRows, RowsAreCurrent, Recorded, ChangesAreNew, ChangedIn

\* Every step keeps rows and changes current, under the two conditions.
LEMMA CurrentKept ==
  ASSUME ~Unused, ~LateCallbacks, Typed, IInv, Sources, AllCurrent, [Next]_vars
  PROVE  AllCurrent'
<1>1. CASE UNCHANGED vars
  <2>1. nt' = nt /\ wk' = wk /\ co' = co /\ touched' = touched
    BY <1>1 DEF vars
  <2>2. QED
    BY <2>1, SameIsCurrent DEF SameRun, SameUse, AllCurrent
<1>2. CASE Worker
  BY <1>2, StartCurrent, AdvanceCurrent, RunCurrent, HandoverCurrent, AnnounceCurrent DEF Worker
<1>3. QED
  BY <1>1, <1>2, ObserveCurrent, TransactCurrent, SendCurrent DEF Next

\* At first nobody has run.
LEMMA CurrentAtFirst == Init => AllCurrent
<1> SUFFICES ASSUME Init, NEW n \in Notifiers PROVE Current(n)
  BY DEF AllCurrent
<1>1. nt[n].list = "none" /\ nt[n].changes = {} /\ wk.pc = "idle"
  BY DEF Init, NewNotifier
<1>2. QED
  BY <1>1 DEF Current, WantsRows, RowsAreCurrent, Recorded, ChangesAreNew

\* What a block was told, what is packaged for it and what is still accumulated
\* are different changes, and right ones.
Apart(c) ==
  /\ 0 \notin c.acc \cup c.del \cup c.told
  /\ c.acc \cap c.del = {} /\ (c.acc \cup c.del) \cap c.told = {}
AllApart == \A n \in Notifiers : \A i \in DOMAIN nt[n].callbacks : Apart(nt[n].callbacks[i])

\* A quiet step keeps the changes of each callback apart.
LEMMA QuietApart ==
  ASSUME AllApart, Quiet
  PROVE  AllApart'
<1> SUFFICES ASSUME NEW n \in Notifiers, NEW i \in DOMAIN nt'[n].callbacks
             PROVE  Apart(nt[n].callbacks[i])'
  BY DEF AllApart
<1> DEFINE d == nt'[n].callbacks[i]
<1>1. CASE d = NewCallback
  BY <1>1 DEF NewCallback, Apart
<1>2. ASSUME NEW j \in DOMAIN nt[n].callbacks, SameContents(nt[n].callbacks[j], d)
      PROVE  Apart(nt[n].callbacks[i])'
  BY <1>2 DEF SameContents, AllApart, Apart
<1>3. QED
  BY <1>1, <1>2 DEF Quiet, QuietNotifier, QuietBlocks

\* Taking a package moves changes to those being delivered.
LEMMA PackagesApart ==
  ASSUME Typed, AllApart, NEW r \in Realms, NEW S \in SUBSET Notifiers, Packages(r, S)
  PROVE  AllApart'
<1> SUFFICES ASSUME NEW n \in Notifiers, NEW i \in DOMAIN nt'[n].callbacks
             PROVE  Apart(nt[n].callbacks[i])'
  BY DEF AllApart
<1> DEFINE c == nt[n].callbacks[i]
           d == nt'[n].callbacks[i]
<1>1. i \in DOMAIN nt[n].callbacks /\ d = IF n \in S THEN Packaged(c) ELSE c
  BY DEF Packages, SendsPackage, PackagedAll
<1>2. c \in CallbackType /\ Apart(c)
  BY <1>1, TypedParts DEF AllApart, NotifierType
<1> HIDE DEF c, d
<1>3. d = c \/ (d.acc = {} /\ d.del = c.acc /\ d.told = c.told)
  BY <1>1, <1>2 DEF Packaged, CallbackType
<1>4. QED
  BY <1>2, <1>3 DEF Apart, d

\* A call moves the changes being delivered to those told.
LEMMA BlockRunsApart ==
  ASSUME Typed, AllReadable, AllApart, NEW r \in Realms, CallNext(r),
         NEW m, NEW k, m = Head(th[r].calls), BlockRuns(r, m, k)
  PROVE  AllApart'
<1> SUFFICES ASSUME NEW n \in Notifiers, NEW i \in DOMAIN nt'[n].callbacks
             PROVE  Apart(nt[n].callbacks[i])'
  BY DEF AllApart
<1>1. m \in Notifiers
  BY CallNextParts, WhoseTurn
<1> DEFINE c == nt[n].callbacks[i]
           d == nt'[n].callbacks[i]
<1>2. i \in DOMAIN nt[n].callbacks /\ (d = Told(c, rv[r]) \/ d = c)
  BY <1>1, BlockRunsParts DEF SameNotifier, SameBlocks
<1>3. c \in CallbackType /\ Apart(c) /\ rv[r] \in Versions
  BY <1>2, TypedParts DEF AllApart, NotifierType
<1>4. ~c.initial => c.told = {}
  BY <1>2 DEF AllReadable, Readable
<1> HIDE DEF c, d
<1>5. d = c \/ /\ d.acc = c.acc /\ d.del = {}
               /\ d.told = IF c.initial THEN c.told \cup c.del ELSE c.told
  <2>1. CASE d = c
    BY <2>1
  <2>2. CASE d = Told(c, rv[r])
    <3>1. ToldAs(d, c, rv[r])
      BY <1>3, <2>2, ToldOne
    <3>2. QED
      BY <3>1 DEF ToldAs
  <2>3. QED
    BY <1>2, <2>1, <2>2
<1>6. QED
  BY <1>3, <1>4, <1>5 DEF Apart, d

\* The handover adds changes that are new to the callback.
LEMMA HandoverApart ==
  ASSUME Typed, AllReadable, AllCurrent, AllApart, WorkerHandover
  PROVE  AllApart'
<1> SUFFICES ASSUME NEW n \in Notifiers, NEW i \in DOMAIN nt'[n].callbacks
             PROVE  Apart(nt[n].callbacks[i])'
  BY DEF AllApart
<1> DEFINE c == nt[n].callbacks[i]
           d == nt'[n].callbacks[i]
<1>1. i \in DOMAIN nt[n].callbacks /\ (d = Merged(c, nt[n].changes) \/ d = c)
  <2>1. i \in DOMAIN nt[n].callbacks
    BY WorkerHandoverParts
  <2>2. n \in Phase => d = Merged(c, nt[n].changes)
    BY <2>1, WorkerHandoverParts
  <2>3. n \notin Phase => d = c
    BY WorkerHandoverParts
  <2>4. QED
    BY <2>1, <2>2, <2>3
<1>2. c \in CallbackType /\ Apart(c)
  BY <1>1, TypedParts DEF AllApart, NotifierType
<1>3. \A v \in c.acc \cup c.del \cup c.told : v <= nt[n].version /\ v \in Int
  BY <1>1, <1>2, BoundsAssumption DEF AllReadable, Readable, CallbackType
<1>4. \A v \in nt[n].changes : nt[n].version < v /\ v \in Int
  BY TypedParts, BoundsAssumption DEF AllCurrent, Current, ChangesAreNew, NotifierType
<1>5. nt[n].version \in Nat
  BY TypedParts, BoundsAssumption DEF NotifierType
<1>6. nt[n].changes \cap (c.acc \cup c.del \cup c.told) = {} /\ 0 \notin nt[n].changes
  BY <1>3, <1>4, <1>5
<1> HIDE DEF c, d
<1>7. d = c \/ (d.acc \subseteq c.acc \cup nt[n].changes /\ d.del = c.del /\ d.told = c.told)
  <2>1. CASE d = c
    BY <2>1
  <2>2. CASE d = Merged(c, nt[n].changes)
    <3>1. MergedAs(d, c, nt[n].changes)
      BY <1>2, <2>2, MergedOne
    <3>2. QED
      BY <3>1 DEF MergedAs
  <2>3. QED
    BY <1>1, <2>1, <2>2
<1>8. QED
  BY <1>2, <1>6, <1>7 DEF Apart, d

\* Every step keeps the changes of each callback apart.
LEMMA ApartKept ==
  ASSUME Typed, IInv, AllReadable, AllCurrent, AllApart, [Next]_vars
  PROVE  AllApart'
<1>1. ASSUME NEW r \in Realms, CallNext(r), \E i \in ToDo(Head(th[r].calls)) : BlockRuns(r, Head(th[r].calls), i)
      PROVE  AllApart'
  BY <1>1, BlockRunsApart
<1>2. QED
  BY <1>1, KindOfStep, QuietApart, PackagesApart, HandoverApart

\* At first no callback has changes.
LEMMA ApartAtFirst == Init => AllApart
<1>1. Init => \A n \in Notifiers : nt[n].callbacks = <<>>
  BY DEF Init, NewNotifier
<1>2. QED
  BY <1>1 DEF AllApart

\* In every state no callback has one change twice, under the two conditions.
LEMMA ApartAlways ==
  ASSUME ~Unused, ~LateCallbacks
  PROVE  Spec => []AllApart
<1> DEFINE Inv == Typed /\ Sources /\ AllReadable /\ AllCurrent /\ AllApart
<1>1. IInv /\ IInv' /\ Inv /\ [Next]_vars => Inv'
  BY TypedStays, SourcesKept, ReadableKept, CurrentKept, ApartKept
<1>2. Init => Inv
  BY InitTyped, ReadableAtFirst, CurrentAtFirst, ApartAtFirst
<1>3. Spec => []IInv
  BY VersionsFit
<1>4. Inv => AllApart
  OBVIOUS
<1> HIDE DEF Inv
<1>5. QED
  BY <1>1, <1>2, <1>3, <1>4, PTL DEF Spec

\* No block is told a change twice, however often versions are skipped, packages
\* overwritten and Realms refreshed, if every Results is read between deliveries
\* and no first callback comes while the worker runs.
THEOREM NoChangeIsToldTwice ==
  ASSUME ~Unused, ~LateCallbacks
  PROVE  Spec => []ToldOnce
<1>1. AllApart => ToldOnce
  BY DEF AllApart, Apart, ToldOnce
<1>2. QED
  BY <1>1, ApartAlways, PTL

\* Under the same two conditions no block is ever given changes that were
\* calculated between other rows than those it saw last.
THEOREM OnlyRightChanges ==
  ASSUME ~Unused, ~LateCallbacks
  PROVE  Spec => []NoWrongChange
<1>1. AllApart => NoWrongChange
  BY DEF AllApart, Apart, NoWrongChange
<1>2. QED
  BY <1>1, ApartAlways, PTL

---------------------------------------------------------------------------------
(* Nothing is lost, first until the handover: whatever happened since the     *)
(* notifier was handed over is in its changes.                               *)

\* The rows a notifier has are not newer than where the worker is, nor while the
\* queries run than its version; and the changes of one that has callbacks are
\* all since its version.
Prepared(n) ==
  /\ nt[n].list \in {"none", "new"} => nt[n].prev = 0
  /\ nt[n].list = "main" => nt[n].prev <= co.notifierSG
  /\ nt[n].list = "main" /\ wk.pc = "run" /\ nt[n].hasRun => nt[n].prev <= nt[n].version
  /\ wk.pc = "handover" /\ n \in Phase /\ nt[n].hasRun /\ nt[n].have =>
       ChangedIn(nt[n].version, co.notifierSG) \subseteq nt[n].changes
AllPrepared == \A n \in Notifiers : Prepared(n)

\* A step that leaves the worker alone keeps what it has prepared for a notifier.
LEMMA PreparedStays ==
  ASSUME Typed, IInv, NEW n \in Notifiers, Prepared(n), TouchedGrows, wk' = wk, co'.notifierSG = co.notifierSG,
         SameRun(n), nt'[n].have => nt[n].have \/ ~(n \in wk.old /\ wk.pc = "handover")
  PROVE  Prepared(n)'
<1>1. Phase' = Phase
  BY DEF Phase, LastPhase
<1>2. nt[n].version \in Int /\ co.notifierSG \in Int /\ latest \in Int /\ co.notifierSG <= latest
  BY TypedParts, BoundsAssumption DEF IInv, VersionsNoted, FileVersions, NotifierType
<1>3. \A x \in touched' : x \in Int /\ (x \in touched \/ latest < x)
  BY NewlyTouched
<1>4. ASSUME wk'.pc = "handover", n \in Phase', nt'[n].hasRun, nt'[n].have
      PROVE  ChangedIn(nt[n].version, co.notifierSG)' \subseteq nt'[n].changes
  <2>1. n \in wk.old /\ nt[n].hasRun
    BY <1>1, <1>4 DEF SameRun, Phase, IInv, WorkerInv, WorkerIsFree, Listed
  <2>2. ChangedIn(nt[n].version, co.notifierSG) \subseteq nt[n].changes
    BY <1>1, <1>4, <2>1 DEF Prepared
  <2>3. nt'[n].version = nt[n].version /\ nt'[n].changes = nt[n].changes
    BY DEF SameRun
  <2>4. QED
    BY <1>2, <1>3, <2>2, <2>3 DEF ChangedIn
<1>5. QED
  BY <1>4 DEF Prepared, SameRun

\* A notifier that runs and is used as before keeps what is prepared for it.
LEMMA SameIsPrepared ==
  ASSUME Typed, IInv, NEW n \in Notifiers, Prepared(n), touched' = touched, wk' = wk, co'.notifierSG = co.notifierSG,
         SameRun(n), SameUse(n)
  PROVE  Prepared(n)'
BY PreparedStays DEF SameUse, TouchedGrows

\* What an observer does keeps what is prepared, if no callback is added late.
LEMMA ObservePrepared ==
  ASSUME ~LateCallbacks, Typed, IInv, AllPrepared, NEW n \in Notifiers, Observe(n)
  PROVE  AllPrepared'
<1>1. ASSUME touched' = touched, wk' = wk, co'.notifierSG = co.notifierSG,
             \A m \in Notifiers \ {n} : SameNotifier(m), Prepared(n)'
      PROVE  AllPrepared'
  BY <1>1, SameIsPrepared DEF SameNotifier, AllPrepared
<1>2. CASE Register(n)
  <2>1. /\ touched' = touched /\ wk' = wk /\ co'.notifierSG = co.notifierSG
        /\ \A m \in Notifiers \ {n} : SameNotifier(m)
    BY <1>2, RegisterParts
  <2>2. /\ nt[n].list = "none" /\ ~nt'[n].hasRun /\ nt'[n].list = "new" /\ nt'[n].prev = nt[n].prev
    BY <1>2, RegisterParts
  <2>3. Prepared(n)'
    BY <2>2 DEF AllPrepared, Prepared
  <2>4. QED
    BY <1>1, <2>1, <2>3
<1>3. ASSUME /\ touched' = touched /\ wk' = wk /\ co'.notifierSG = co.notifierSG
             /\ (\A m \in Notifiers \ {n} : SameNotifier(m)) /\ SameRun(n)
             /\ nt'[n].have => nt[n].have \/ ~(n \in wk.old /\ wk.pc = "handover")
      PROVE  AllPrepared'
  <2>1. Prepared(n)'
    BY <1>3, PreparedStays DEF AllPrepared, TouchedGrows
  <2>2. QED
    BY <1>1, <1>3, <2>1
<1>4. CASE AddCallback(n)
  <2>1. /\ touched' = touched /\ wk' = wk /\ co'.notifierSG = co.notifierSG
        /\ (\A m \in Notifiers \ {n} : SameNotifier(m)) /\ SameRun(n)
        /\ (nt'[n].have # nt[n].have => ~(n \in wk.old /\ wk.pc \in {"run", "handover"}))
    BY <1>4, AddCallbackParts
  <2>2. nt'[n].have => nt[n].have \/ ~(n \in wk.old /\ wk.pc = "handover")
    BY <2>1
  <2>3. QED
    BY <1>3, <2>1, <2>2
<1>5. CASE Release(n)
  BY <1>3, <1>5, ReleaseParts
<1>6. ASSUME NEW i \in DOMAIN nt[n].callbacks, RemoveCallback(n, i)
      PROVE  AllPrepared'
  BY <1>3, <1>6, RemoveCallbackParts
<1>7. ASSUME NEW i \in DOMAIN nt[n].callbacks, Suppress(n, i)
      PROVE  AllPrepared'
  <2>1. /\ touched' = touched /\ wk' = wk /\ co' = co
        /\ (\A m \in Notifiers \ {n} : SameNotifier(m)) /\ SameRun(n) /\ SameUse(n)
    BY <1>7, SuppressParts
  <2>2. QED
    BY <1>3, <2>1 DEF SameUse
<1>8. QED
  BY <1>2, <1>4, <1>5, <1>6, <1>7 DEF Observe

\* Beginning, committing and cancelling writes keep what is prepared.
LEMMA TransactPrepared ==
  ASSUME Typed, IInv, AllPrepared, NEW r \in Realms, Transact(r)
  PROVE  AllPrepared'
<1>1. CASE BeginAlone(r) \/ BeginNotifying(r) \/ Cancel(r) \/ Refresh(r)
  <2>1. nt' = nt /\ wk' = wk /\ co' = co /\ touched' = touched
    BY <1>1 DEF BeginAlone, BeginNotifying, Cancel, Refresh
  <2>2. QED
    BY <2>1, SameIsPrepared DEF SameRun, SameUse, AllPrepared
<1>2. CASE BeginNested(r)
  <2>1. wk' = wk /\ co' = co /\ touched' = touched /\ \A n \in Notifiers : SameRun(n) /\ SameUse(n)
    BY <1>2, BeginNestedParts DEF InPlaceOnly
  <2>2. QED
    BY <2>1, SameIsPrepared DEF AllPrepared
<1>3. CASE Commit(r)
  <2>1. wk' = wk /\ co'.notifierSG = co.notifierSG /\ TouchedGrows /\ \A n \in Notifiers : SameRun(n) /\ SameUse(n)
    BY <1>3, CommitParts DEF InPlaceOnly, TouchedGrows
  <2>2. ASSUME NEW n \in Notifiers
        PROVE  Prepared(n)'
    <3>1. Prepared(n) /\ SameRun(n) /\ nt'[n].have = nt[n].have
      BY <2>1 DEF AllPrepared, SameUse
    <3>2. QED
      BY <2>1, <3>1, PreparedStays
  <2>3. QED
    BY <2>2 DEF AllPrepared
<1>4. QED
  BY <1>1, <1>2, <1>3 DEF Transact

\* Taking and sending a package keeps what is prepared.
LEMMA SendPrepared ==
  ASSUME Typed, IInv, AllPrepared, NEW r \in Realms, Send(r)
  PROVE  AllPrepared'
<1>1. CASE Sleep(r)
  <2>1. nt' = nt /\ wk' = wk /\ touched' = touched /\ \E a, b : co' = [co EXCEPT !.asleep = a, !.signal = b]
    BY <1>1 DEF Sleep
  <2>2. co'.notifierSG = co.notifierSG
    BY <2>1, TypedParts DEF CoordinatorType
  <2>3. QED
    BY <2>1, <2>2, SameIsPrepared DEF SameRun, SameUse, AllPrepared
<1>2. CASE PackageAndAdvance(r) \/ Notify(r)
  <2>1. PICK S \in SUBSET Notifiers : Packages(r, S)
    BY <1>2, PackagesParts
  <2>2. wk' = wk /\ co' = co /\ touched' = touched /\ \A n \in Notifiers : SameRun(n) /\ SameUse(n)
    BY <2>1 DEF Packages, SendsPackage, PackagedAll
  <2>3. QED
    BY <2>2, SameIsPrepared DEF AllPrepared
<1>3. CASE Deliver(r)
  <2>1. PICK used \in BOOLEAN : \A n \in Notifiers : nt'[n] \in {Given(nt[n], used), nt[n]}
    <3>1. PICK used \in BOOLEAN : GivesRows(used)
      BY <1>3, DeliverGives
    <3>2. QED
      BY <3>1 DEF GivesRows
  <2>2. wk' = wk /\ co' = co /\ touched' = touched
    BY <1>3, DeliverParts
  <2>3. ASSUME NEW n \in Notifiers
        PROVE  Prepared(n)'
    <3> DEFINE t == Given(nt[n], used)
    <3>1. /\ t.list = nt[n].list /\ t.version = nt[n].version /\ t.hasRun = nt[n].hasRun
          /\ t.changes = nt[n].changes /\ t.prev = nt[n].prev /\ t.have = nt[n].have
      BY <2>1, GivenOne, TypedParts
    <3>2. nt'[n] \in {t, nt[n]}
      BY <2>1
    <3> HIDE DEF t
    <3>3. SameRun(n) /\ nt'[n].have = nt[n].have
      BY <3>1, <3>2 DEF SameRun
    <3>4. QED
      BY <2>2, <3>3, PreparedStays DEF AllPrepared, TouchedGrows
  <2>4. QED
    BY <2>3 DEF AllPrepared
<1>4. CASE CallNext(r)
  <2> DEFINE n == Head(th[r].calls)
  <2>1. /\ wk' = wk /\ co' = co /\ touched' = touched /\ n \in Notifiers
        /\ TurnEnds(r, n) \/ \E i \in ToDo(n) : BlockRuns(r, n, i)
    BY <1>4, CallNextParts, WhoseTurn
  <2> HIDE DEF n
  <2>2. SameRun(n) /\ SameUse(n) /\ \A m \in Notifiers \ {n} : SameNotifier(m)
    BY <2>1, TurnEndsParts, BlockRunsParts
  <2>3. QED
    BY <2>1, <2>2, SameIsPrepared DEF SameNotifier, AllPrepared
<1>5. QED
  BY <1>1, <1>2, <1>3, <1>4 DEF Send

\* The worker's first step keeps what is prepared.
LEMMA StartPrepared ==
  ASSUME Typed, IInv, AllPrepared, WorkerStart, Typed'
  PROVE  AllPrepared'
<1>1. \A n \in Notifiers : ListsOnly(nt[n], nt'[n])
  BY WorkerStartParts
<1>2. wk'.pc \in {"announce", "advance"}
  <2>1. CASE wk' = [wk EXCEPT !.pc = "announce"]
    BY <2>1, TypedParts DEF WorkerType
  <2>2. CASE wk' = [wk EXCEPT !.pc = "advance", !.old = Living("main"), !.new = Living("new"),
                              !.targets = TargetsOf(CleanedUp(co).skip)]
    BY <2>2, TypedParts DEF WorkerType
  <2>3. QED
    BY <2>1, <2>2, WorkerStartParts
<1>3. co'.notifierSG \in Nat
  BY BoundsAssumption DEF Typed, RTypeOK, CoordinatorType
<1>4. ShapeOK
  BY DEF IInv
<1>5. ASSUME NEW n \in Notifiers
      PROVE  Prepared(n)'
  <2>1. nt'[n].prev = nt[n].prev
    BY <1>1 DEF ListsOnly
  <2>2. nt'[n].list \in {"none", "new"} => nt[n].list = nt'[n].list
    <3>1. CASE nt'[n] = Buried[n]
      BY <3>1, BuriedTyped
    <3>2. CASE nt'[n] = StartedAs(n)
      <4>1. CASE n \in Living("new")
        <5>1. nt[n].alive /\ nt[n].list = "new"
          BY <4>1 DEF Living, Listed
        <5>2. QED
          BY <3>2, <5>1, StartedTyped
      <4>2. CASE n \notin Living("new")
        BY <3>2, <4>2, BuriedTyped DEF StartedAs
      <4>3. QED
        BY <4>1, <4>2
    <3>3. QED
      BY <3>1, <3>2, WorkerStartParts
  <2>3. ASSUME nt'[n].list = "main"
        PROVE  nt'[n].prev <= co'.notifierSG
    <3>1. CASE /\ Living("main") \cup Living("new") = {}
               /\ nt'[n] = Buried[n]
      BY <2>3, <3>1, BuriedTyped DEF Living, Listed
    <3>2. CASE /\ co' = [CleanedUp(co) EXCEPT !.signal = FALSE, !.skip = 0, !.advancer = 0,
                                              !.notifierSG = IF Living("main") = {} THEN latest ELSE @]
               /\ nt'[n] = StartedAs(n)
      <4>1. CASE n \in Living("new")
        <5>1. nt[n].prev = 0
          BY <4>1 DEF AllPrepared, Prepared, Living, Listed
        <5>2. QED
          BY <1>3, <2>1, <5>1
      <4>2. CASE n \notin Living("new")
        <5>1. nt[n].list = "main" /\ nt[n].alive
          BY <2>3, <3>2, <4>2, BuriedTyped DEF StartedAs
        <5>2. Living("main") # {} /\ nt[n].prev <= co.notifierSG
          BY <5>1 DEF Living, Listed, AllPrepared, Prepared
        <5>3. co'.notifierSG = co.notifierSG
          BY <1>4, <3>2, <5>2, CleanedUpPins
        <5>4. QED
          BY <2>1, <5>2, <5>3
      <4>3. QED
        BY <4>1, <4>2
    <3>3. QED
      BY <3>1, <3>2, WorkerStartParts
  <2>4. QED
    BY <1>2, <2>1, <2>2, <2>3 DEF AllPrepared, Prepared
<1>6. QED
  BY <1>5 DEF AllPrepared

\* Advancing the worker's Realm keeps what is prepared.
LEMMA AdvancePrepared ==
  ASSUME Typed, IInv, Sources, AllPrepared, WorkerAdvance
  PROVE  AllPrepared'
<1>1. /\ nt' = nt /\ wk.pc = "advance" /\ co' = [co EXCEPT !.notifierSG = Head(wk.targets)]
      /\ \E info : wk' = [wk EXCEPT !.pc = "run", !.from = co.notifierSG, !.info = info]
  BY DEF WorkerAdvance
<1>2. wk'.pc = "run" /\ co'.notifierSG = Head(wk.targets) /\ co.notifierSG \in Int /\ Head(wk.targets) \in Int
  <2>1. wk'.pc = "run" /\ co'.notifierSG = Head(wk.targets) /\ co.notifierSG \in Int
    BY <1>1, TypedParts, BoundsAssumption DEF WorkerType, CoordinatorType
  <2>2. wk.targets \in Seq(Nat) /\ wk.targets # <<>>
    BY <1>1 DEF IInv, WorkerInv, WorkerIsFree, VersionsNoted
  <2>3. QED
    BY <2>1, <2>2
<1>3. co.notifierSG <= Head(wk.targets)
  BY <1>1 DEF IInv, WorkerInv, WorkerIsFree, VersionsNoted
<1>4. ASSUME NEW n \in Notifiers
      PROVE  Prepared(n)'
  <2>1. Prepared(n) /\ nt[n].prev \in Int
    BY TypedParts, BoundsAssumption DEF AllPrepared, NotifierType
  <2>2. nt[n].list = "main" => nt[n].prev <= Head(wk.targets)
    BY <1>2, <1>3, <2>1 DEF Prepared
  <2>3. nt[n].list = "main" /\ nt[n].hasRun => nt[n].prev <= nt[n].version
    BY <1>1, <2>1 DEF Prepared, Sources, GroupVersions, Listed
  <2>4. QED
    BY <1>1, <1>2, <2>1, <2>2, <2>3 DEF Prepared
<1>5. QED
  BY <1>4 DEF AllPrepared

\* Running the queries prepares all changes since the notifier's version.
LEMMA RunPrepared ==
  ASSUME Typed, IInv, AllPrepared, WorkerRun
  PROVE  AllPrepared'
<1>1. /\ UNCHANGED <<touched, co>> /\ wk.pc = "run" /\ wk' = [wk EXCEPT !.pc = "handover"]
      /\ \A n \in Notifiers :
           /\ nt'[n].list = nt[n].list /\ nt'[n].hasRun = nt[n].hasRun
           /\ nt'[n].version = nt[n].version /\ nt'[n].have = nt[n].have
           /\ IF n \in Phase /\ NeedToRun(n)
              THEN nt'[n].changes = CalculatedChanges(n) /\ nt'[n].prev = co.notifierSG
              ELSE nt'[n].changes = nt[n].changes /\ nt'[n].prev = nt[n].prev
  BY WorkerRunParts
<1>2. wk'.pc = "handover" /\ wk'.targets = wk.targets /\ wk'.old = wk.old /\ wk'.new = wk.new
  BY <1>1, TypedParts DEF WorkerType
<1>3. Phase' = Phase
  BY <1>2 DEF Phase, LastPhase
<1>4. ASSUME NEW n \in Notifiers
      PROVE  Prepared(n)'
  <2>1. Prepared(n) /\ co.notifierSG \in Int /\ nt[n].prev \in Int /\ nt[n].version \in Int
    BY TypedParts, BoundsAssumption DEF AllPrepared, CoordinatorType, NotifierType
  <2>2. n \in Phase => nt[n].list = "main"
    BY <1>1 DEF Phase, IInv, WorkerInv, WorkerIsFree, Listed
  <2>3. ASSUME n \in Phase', nt'[n].hasRun, nt'[n].have
        PROVE  ChangedIn(nt[n].version, co.notifierSG)' \subseteq nt'[n].changes
    <3> DEFINE seen == ChangedIn(nt[n].prev, co.notifierSG)
    <3>1. n \in Phase /\ nt[n].hasRun /\ nt[n].have /\ nt[n].alive
      BY <1>1, <1>3, <2>3 DEF Typed, Counted, Counts
    <3>2. nt[n].prev <= nt[n].version /\ \A x \in touched : x \in Int
      BY <1>1, <2>1, <2>2, <3>1, TypedParts DEF Prepared, Versions
    <3>3. ChangedIn(nt[n].version, co.notifierSG)' = ChangedIn(nt[n].version, co.notifierSG)
      BY <1>1 DEF ChangedIn
    <3>4. ChangedIn(nt[n].version, co.notifierSG) \subseteq seen
      BY <2>1, <3>2 DEF ChangedIn
    <3>5. NeedToRun(n) => seen \subseteq nt'[n].changes
      BY <1>1, <3>1 DEF CalculatedChanges
    <3>6. ~NeedToRun(n) => seen = {}
      BY <3>1 DEF NeedToRun
    <3>7. QED
      BY <3>3, <3>4, <3>5, <3>6
  <2>4. nt'[n].list = "main" => nt'[n].prev <= co'.notifierSG
    BY <1>1, <2>1 DEF Prepared
  <2>5. nt'[n].list \in {"none", "new"} => nt'[n].prev = 0
    BY <1>1, <2>1, <2>2 DEF Prepared
  <2>6. QED
    BY <1>2, <2>3, <2>4, <2>5 DEF Prepared
<1>5. QED
  BY <1>4 DEF AllPrepared

\* The handover keeps what is prepared for the others.
LEMMA HandoverPrepared ==
  ASSUME Typed, IInv, AllPrepared, WorkerHandover
  PROVE  AllPrepared'
<1>1. /\ wk.pc = "handover"
      /\ IF LastPhase
         THEN /\ co' = WakeAll(CleanedUp(co))
              /\ wk' = [wk EXCEPT !.pc = "announce", !.targets = <<>>, !.old = {}, !.new = {}, !.info = {}, !.from = 0]
         ELSE co' = co /\ wk' = [wk EXCEPT !.pc = "advance", !.targets = Tail(@)]
      /\ \A n \in Notifiers :
           /\ nt'[n].list = IF LastPhase THEN Buried[n].list ELSE nt[n].list
           /\ nt'[n].alive = nt[n].alive /\ nt'[n].prev = nt[n].prev
  BY WorkerHandoverParts
<1>2. wk'.pc \in {"announce", "advance"}
  BY <1>1, TypedParts DEF WorkerType
<1>3. ASSUME NEW n \in Notifiers
      PROVE  Prepared(n)'
  <2>1. Prepared(n)
    BY DEF AllPrepared
  <2>2. /\ nt'[n].list \in {"none", "new", "main"} => nt[n].list = nt'[n].list
        /\ LastPhase /\ nt'[n].list = "main" => nt[n].alive
    BY <1>1, BuriedTyped
  <2>3. ASSUME nt'[n].list = "main"
        PROVE  co'.notifierSG = co.notifierSG
    <3>1. CASE LastPhase
      <4>1. Living("main") # {}
        BY <2>2, <2>3, <3>1 DEF Living, Listed
      <4> DEFINE c == CleanedUp(co)
      <4>2. c \in CoordinatorType /\ c.notifierSG = co.notifierSG /\ co' = WakeAll(c)
        BY <1>1, <3>1, <4>1, CleanedUpPins, CleanedUpTyped DEF IInv
      <4> HIDE DEF c
      <4>3. QED
        BY <4>2 DEF WakeAll, CoordinatorType
    <3>2. CASE ~LastPhase
      BY <1>1, <3>2
    <3>3. QED
      BY <3>1, <3>2
  <2>4. QED
    BY <1>1, <1>2, <2>1, <2>2, <2>3 DEF Prepared
<1>4. QED
  BY <1>3 DEF AllPrepared

\* Announcing the changes keeps what is prepared.
LEMMA AnnouncePrepared ==
  ASSUME Typed, AllPrepared, WorkerAnnounce
  PROVE  AllPrepared'
<1>1. UNCHANGED <<nt, co, touched>> /\ wk.pc = "announce" /\ wk' = [wk EXCEPT !.pc = "idle"]
  BY DEF WorkerAnnounce
<1>2. wk'.pc = "idle"
  BY <1>1, TypedParts DEF WorkerType
<1>3. QED
  BY <1>1, <1>2 DEF AllPrepared, Prepared

\* Every step keeps what is prepared, if no callback is added late.
LEMMA PreparedKept ==
  ASSUME ~LateCallbacks, Typed, Typed', IInv, Sources, AllPrepared, [Next]_vars
  PROVE  AllPrepared'
<1>1. CASE UNCHANGED vars
  <2>1. nt' = nt /\ wk' = wk /\ co' = co /\ touched' = touched
    BY <1>1 DEF vars
  <2>2. QED
    BY <2>1, SameIsPrepared DEF SameRun, SameUse, AllPrepared
<1>2. CASE Worker
  BY <1>2, StartPrepared, AdvancePrepared, RunPrepared, HandoverPrepared, AnnouncePrepared DEF Worker
<1>3. QED
  BY <1>1, <1>2, ObservePrepared, TransactPrepared, SendPrepared DEF Next

\* At first nothing is prepared.
LEMMA PreparedAtFirst == Init => AllPrepared
<1> SUFFICES ASSUME Init, NEW n \in Notifiers PROVE Prepared(n)
  BY DEF AllPrepared
<1>1. nt[n].list = "none" /\ nt[n].prev = 0 /\ wk.pc = "idle"
  BY DEF Init, NewNotifier
<1>2. QED
  BY <1>1 DEF Prepared
=================================================================================
