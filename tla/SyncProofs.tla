------------------------------ MODULE SyncProofs ------------------------------
(***************************************************************************)
(* The theorems about the synchronised session, for any threads, policies  *)
(* and bounds.  The first argument is about the manager's mutex: a thread  *)
(* that has still to take the external reference, or to leave the mutex,   *)
(* holds it, and unregister_session has to wait.  The second is about the  *)
(* session: the numbers of its deaths, the handlers of its sync::Session,  *)
(* the places of the blocks that wait.  The third is about the versions a  *)
(* commit has still to tell the session of.                                *)
(***************************************************************************)
EXTENDS SyncSessions, FiniteSetTheorems, TLAPS

\* The steps a thread may have before it, and those it takes under the mutex.
PlainNames == {"register", "revive", "drop", "unregister", "logout", "loggedOut",
               "configure", "notify", "tell", "invalidate"} \cup Errors
StepNames == PlainNames \cup {"refer", "unlock", "release"}
Steps == [name : StepNames] \cup [name : StepNames, waits : SUBSET Waits]
           \cup [name : StepNames, from : Nat]
LockSteps == {"refer", "unlock", "release"}

Locking(q) == {i \in DOMAIN q : q[i].name \in LockSteps}
Refers(q) == \E i \in DOMAIN q : q[i].name = "refer"

TodoOK ==
  /\ todo \in [Threads -> Seq(Steps)]
  /\ lists \in [Directions -> SUBSET Waits]
  /\ committed \in Nat
  /\ locks \in [manager : Threads \cup {none}, user : Threads \cup {none}]

\* One such step at most, of the thread that has the mutex.
MutexHeld ==
  \A t \in Threads :
    /\ Locking(todo[t]) # {} => locks.manager = t
    /\ \A i, j \in Locking(todo[t]) : i = j
    /\ Refers(todo[t]) => Registered

\* The inductive invariant of the first argument.
LInv == TodoOK /\ MutexHeld /\ ReferredIsRegistered

\* Steps that are not taken under the mutex, and a move that adds only such ones.
Plain(q) == q \in Seq(Steps) /\ Locking(q) = {}
MovesPlainly(t) ==
  /\ todo' \in [Threads -> Seq(Steps)]
  /\ \A u \in Threads \ {t} : todo'[u] = todo[u]
  /\ Locking(todo'[t]) # {} => Locking(todo[t]) # {}
  /\ \A i, j \in Locking(todo'[t]) : i = j
  /\ Refers(todo'[t]) => Refers(todo[t])

-------------------------------------------------------------------------------
\* A step that begins its steps with plain ones adds none that holds the mutex.
LEMMA PlainSteps ==
  ASSUME NEW q \in Seq(Steps), q # <<>>, NEW p, Plain(p),
         \A i, j \in Locking(q) : i = j
  PROVE  LET r == p \o Tail(q) IN
           /\ r \in Seq(Steps)
           /\ Locking(r) # {} => Locking(q) # {}
           /\ \A i, j \in Locking(r) : i = j
           /\ Refers(r) => Refers(q)
  <1> DEFINE r == p \o Tail(q)
  <1>1. Tail(q) \in Seq(Steps) /\ Len(Tail(q)) = Len(q) - 1 /\ \A i \in 1 .. Len(q) - 1 : Tail(q)[i] = q[i + 1]
    OBVIOUS
  <1>2. /\ r \in Seq(Steps) /\ Len(r) = Len(p) + Len(q) - 1
        /\ \A i \in 1 .. Len(r) : r[i] = IF i <= Len(p) THEN p[i] ELSE q[i - Len(p) + 1]
    BY <1>1 DEF Plain
  <1>3. \A i \in DOMAIN r : r[i].name \in LockSteps =>
          i - Len(p) + 1 \in DOMAIN q /\ q[i - Len(p) + 1] = r[i]
    BY <1>2 DEF Locking, Plain
  <1>4. Locking(r) # {} => Locking(q) # {}
    BY <1>3 DEF Locking
  <1>5. \A i, j \in Locking(r) : i = j
    <2> SUFFICES ASSUME NEW i \in Locking(r), NEW j \in Locking(r) PROVE i = j
      OBVIOUS
    <2>1. i - Len(p) + 1 \in Locking(q) /\ j - Len(p) + 1 \in Locking(q)
      BY <1>3 DEF Locking
    <2>2. i - Len(p) + 1 = j - Len(p) + 1
      BY <2>1
    <2> QED BY <1>2, <2>2 DEF Locking, Plain
  <1>6. Refers(r) => Refers(q)
    BY <1>3 DEF Refers, LockSteps
  <1> QED BY <1>2, <1>4, <1>5, <1>6

\* Plain steps after plain steps are plain.
LEMMA PlainConcat ==
  ASSUME NEW p, Plain(p), NEW q, Plain(q)
  PROVE  Plain(p \o q)
  <1>1. p \o q \in Seq(Steps) /\ Len(p \o q) = Len(p) + Len(q)
        /\ \A i \in 1 .. Len(p \o q) : (p \o q)[i] = IF i <= Len(p) THEN p[i] ELSE q[i - Len(p)]
    BY DEF Plain
  <1>2. \A i \in DOMAIN (p \o q) : (p \o q)[i].name \notin LockSteps
    BY <1>1 DEF Plain, Locking
  <1> QED BY <1>1, <1>2 DEF Plain, Locking

\* A step that needs no mutex is plain.
LEMMA PlainStep ==
  ASSUME NEW x \in Steps, x.name \notin LockSteps
  PROVE  Plain(<<x>>)
  <1>1. <<x>> \in Seq(Steps) /\ DOMAIN <<x>> = {1} /\ <<x>>[1] = x
    OBVIOUS
  <1> QED BY <1>1 DEF Plain, Locking

\* No steps are plain.
LEMMA PlainEmpty == Plain(<<>>) /\ Locking(<<>>) = {} /\ ~Refers(<<>>)
  BY DEF Plain, Locking, Refers

\* Telling blocks is plain.
LEMMA PlainTell ==
  ASSUME NEW W \in SUBSET Waits
  PROVE  Plain(Tell(W))
  <1>1. CASE W = {}
    BY <1>1, PlainEmpty DEF Tell
  <1>2. CASE W # {}
    <2>0. \A S : W \in S => [name |-> "tell", waits |-> W] \in [name : StepNames, waits : S]
      BY DEF StepNames, PlainNames
    <2>1. [name |-> "tell", waits |-> W] \in [name : StepNames, waits : SUBSET Waits]
      BY <2>0
    <2>2. [name |-> "tell", waits |-> W] \in Steps
      BY <2>1 DEF Steps
    <2>3. [name |-> "tell", waits |-> W].name \notin LockSteps
      BY DEF LockSteps
    <2> QED BY <1>2, <2>2, <2>3, PlainStep DEF Tell
  <1> QED BY <1>1, <1>2

\* A plain step, by its name.
LEMMA PlainNamed ==
  ASSUME NEW n \in PlainNames
  PROVE  Plain(<<Step(n)>>)
  <1>1. Step(n) \in [name : StepNames] /\ Step(n).name \notin LockSteps
    BY DEF Step, StepNames, PlainNames, LockSteps, Errors
  <1> QED BY <1>1, PlainStep DEF Steps

\* A thread that goes on with plain steps moves plainly.
LEMMA GoPlainly ==
  ASSUME TodoOK, MutexHeld, NEW t \in Threads, todo[t] # <<>>, NEW p, Plain(p), Go(t, p)
  PROVE  MovesPlainly(t)
  <1>1. todo[t] \in Seq(Steps) /\ \A i, j \in Locking(todo[t]) : i = j
    BY DEF TodoOK, MutexHeld
  <1>2. todo'[t] = p \o Tail(todo[t]) /\ \A u \in Threads \ {t} : todo'[u] = todo[u]
    BY DEF Go, TodoOK
  <1>3. todo' = [todo EXCEPT ![t] = p \o Tail(todo[t])]
    BY DEF Go, TodoOK
  <1>4. /\ p \o Tail(todo[t]) \in Seq(Steps)
        /\ Locking(p \o Tail(todo[t])) # {} => Locking(todo[t]) # {}
        /\ \A i, j \in Locking(p \o Tail(todo[t])) : i = j
        /\ Refers(p \o Tail(todo[t])) => Refers(todo[t])
    BY <1>1, PlainSteps
  <1> QED BY <1>2, <1>3, <1>4 DEF MovesPlainly, TodoOK

\* A call that begins with plain steps moves plainly.
LEMMA StartPlainly ==
  ASSUME TodoOK, NEW t \in Threads, NEW p, Plain(p), todo' = [todo EXCEPT ![t] = p]
  PROVE  MovesPlainly(t)
  <1>1. todo'[t] = p /\ (\A u \in Threads \ {t} : todo'[u] = todo[u]) /\ todo' \in [Threads -> Seq(Steps)]
    BY DEF TodoOK, Plain
  <1>2. Locking(p) = {} /\ ~Refers(p)
    BY DEF Plain, Locking, Refers, LockSteps
  <1> QED BY <1>1, <1>2 DEF MovesPlainly

\* A plain move keeps what is said of the mutex.
LEMMA PlainKeeps ==
  ASSUME LInv, NEW t \in Threads, MovesPlainly(t),
         locks'.manager = locks.manager, Registered => Registered'
  PROVE  MutexHeld'
  <1> SUFFICES ASSUME NEW u \in Threads
               PROVE  /\ Locking(todo'[u]) # {} => locks'.manager = u
                      /\ \A i, j \in Locking(todo'[u]) : i = j
                      /\ Refers(todo'[u]) => Registered'
    BY DEF MutexHeld, Locking, Refers
  <1>1. CASE u = t
    BY <1>1 DEF MovesPlainly, LInv, MutexHeld
  <1>2. CASE u # t
    BY <1>2 DEF MovesPlainly, LInv, MutexHeld
  <1> QED BY <1>1, <1>2

\* A step that adds plain ones and leaves the rest alone keeps the invariant.
LEMMA PlainInvariant ==
  ASSUME LInv, NEW t \in Threads, MovesPlainly(t),
         lists' \in [Directions -> SUBSET Waits], committed' \in Nat,
         locks' \in [manager : Threads \cup {none}, user : Threads \cup {none}],
         locks'.manager = locks.manager, life' = life, held' \subseteq held
  PROVE  LInv'
  <1>1. TodoOK'
    BY DEF TodoOK, MovesPlainly
  <1>2. MutexHeld'
    BY PlainKeeps DEF Registered
  <1>3. ReferredIsRegistered'
    BY DEF LInv, ReferredIsRegistered, Registered
  <1> QED BY <1>1, <1>2, <1>3 DEF LInv

\* The blocks that wait are blocks.
LEMMA WaitingOK == TodoOK => Waiting \in SUBSET Waits
  BY DEF TodoOK, Waiting

\* No blocks are waiting in the empty lists.
LEMMA EmptyOK == Empty \in [Directions -> SUBSET Waits]
  BY DEF Empty

\* The callers and the client are threads.
LEMMA ThreadsOK == Callers \subseteq Threads /\ client \in Threads /\ none \notin Threads
  BY ThreadsAssumption DEF Threads

-------------------------------------------------------------------------------
(* The moves between the states of the session. *)

\* Becoming inactive adds plain steps only.
LEMMA EnterInactiveMoves ==
  ASSUME TodoOK, MutexHeld, NEW t \in Threads, todo[t] # <<>>, NEW more, Plain(more),
         EnterInactive(t, more)
  PROVE  MovesPlainly(t) /\ lists' \in [Directions -> SUBSET Waits]
  <1> DEFINE p == <<Step("unregister")>> \o Tell(Waiting) \o more
  <1>1. Plain(<<Step("unregister")>>)
    BY PlainNamed DEF PlainNames
  <1>2. Plain(p)
    BY <1>1, WaitingOK, PlainTell, PlainConcat
  <1>3. Go(t, p)
    BY DEF EnterInactive
  <1>4. MovesPlainly(t)
    BY <1>2, <1>3, GoPlainly
  <1> QED BY <1>4, EmptyOK DEF EnterInactive

\* Staying in a state adds no step.
LEMMA StaysMoves ==
  ASSUME TodoOK, MutexHeld, NEW t \in Threads, todo[t] # <<>>, Go(t, <<>>), UNCHANGED lists
  PROVE  MovesPlainly(t) /\ lists' \in [Directions -> SUBSET Waits]
  BY PlainEmpty, GoPlainly DEF TodoOK

\* Closing adds plain steps only.
LEMMA CloseMoves ==
  ASSUME TodoOK, MutexHeld, NEW t \in Threads, todo[t] # <<>>, Close(t)
  PROVE  MovesPlainly(t) /\ lists' \in [Directions -> SUBSET Waits]
  <1>1. \/ Go(t, <<Step("unregister")>>) /\ UNCHANGED lists
        \/ EnterInactive(t, <<>>)
        \/ Go(t, <<>>) /\ UNCHANGED lists
    BY DEF Close, EnterDying, Stays
  <1>2. CASE Go(t, <<Step("unregister")>>) /\ UNCHANGED lists
    BY <1>2, PlainNamed, GoPlainly DEF PlainNames, TodoOK
  <1>3. CASE EnterInactive(t, <<>>)
    BY <1>3, PlainEmpty, EnterInactiveMoves
  <1>4. CASE Go(t, <<>>) /\ UNCHANGED lists
    BY <1>4, StaysMoves
  <1> QED BY <1>1, <1>2, <1>3, <1>4

-------------------------------------------------------------------------------
(* The steps that take, use and leave the manager's mutex. *)

\* After the last step under the mutex nobody has another.
LEMMA MutexIsFree ==
  ASSUME LInv, NEW t \in Threads, todo[t] # <<>>, Head(todo[t]).name \in LockSteps
  PROVE  /\ locks.manager = t /\ Plain(Tail(todo[t]))
         /\ \A u \in Threads \ {t} : Locking(todo[u]) = {}
  <1>1. todo[t] \in Seq(Steps) /\ \A i, j \in Locking(todo[t]) : i = j
    BY DEF LInv, TodoOK, MutexHeld
  <1>2. 1 \in Locking(todo[t])
    BY <1>1 DEF Locking
  <1>3. Tail(todo[t]) \in Seq(Steps) /\ \A i \in DOMAIN Tail(todo[t]) :
           i + 1 \in DOMAIN todo[t] /\ Tail(todo[t])[i] = todo[t][i + 1] /\ i + 1 # 1
    BY <1>1
  <1>4. \A i \in DOMAIN Tail(todo[t]) : Tail(todo[t])[i].name \notin LockSteps
    BY <1>1, <1>2, <1>3 DEF Locking
  <1>5. locks.manager = t
    BY <1>2 DEF LInv, MutexHeld
  <1>6. \A u \in Threads \ {t} : Locking(todo[u]) = {}
    BY <1>5 DEF LInv, MutexHeld
  <1> QED BY <1>3, <1>4, <1>5, <1>6 DEF Plain, Locking

\* While the mutex is free nobody has a step under it.
LEMMA NobodyInMutex ==
  ASSUME LInv, locks.manager = none
  PROVE  \A u \in Threads : Locking(todo[u]) = {} /\ ~Refers(todo[u])
  <1>1. \A u \in Threads : Locking(todo[u]) = {}
    BY ThreadsOK DEF LInv, MutexHeld
  <1> QED BY <1>1 DEF Locking, Refers, LockSteps

\* The steps after the first of plain ones are plain.
LEMMA TailPlain ==
  ASSUME NEW q, Plain(q), q # <<>>
  PROVE  Plain(Tail(q))
  <1>1. Tail(q) \in Seq(Steps) /\ \A i \in DOMAIN Tail(q) : i + 1 \in DOMAIN q /\ Tail(q)[i] = q[i + 1]
    BY DEF Plain
  <1> QED BY <1>1 DEF Plain, Locking

\* One step under the mutex, then plain ones.
LEMMA LockThenPlain ==
  ASSUME NEW p \in Seq(Steps), \A i, j \in Locking(p) : i = j, NEW q, Plain(q)
  PROVE  /\ p \o q \in Seq(Steps)
         /\ \A i, j \in Locking(p \o q) : i = j
         /\ Refers(p \o q) => Refers(p)
  <1>1. p \o q \in Seq(Steps) /\ Len(p \o q) = Len(p) + Len(q)
        /\ \A i \in 1 .. Len(p \o q) : (p \o q)[i] = IF i <= Len(p) THEN p[i] ELSE q[i - Len(p)]
    BY DEF Plain
  <1>2. \A i \in DOMAIN (p \o q) : (p \o q)[i].name \in LockSteps => i \in DOMAIN p /\ (p \o q)[i] = p[i]
    BY <1>1 DEF Plain, Locking
  <1>3. \A i \in Locking(p \o q) : i \in Locking(p)
    BY <1>2 DEF Locking
  <1>4. Refers(p \o q) => Refers(p)
    BY <1>2 DEF Refers, LockSteps
  <1> QED BY <1>1, <1>3, <1>4

\* A step under the mutex, after a plain one or not, is the only such one.
LEMMA LockNamed ==
  /\ \A n \in LockSteps : <<Step(n)>> \in Seq(Steps)
                          /\ (\A i, j \in Locking(<<Step(n)>>) : i = j)
                          /\ (Refers(<<Step(n)>>) => n = "refer")
  /\ \A m \in PlainNames, n \in LockSteps :
       /\ <<Step(m), Step(n)>> \in Seq(Steps)
       /\ \A i, j \in Locking(<<Step(m), Step(n)>>) : i = j
       /\ Refers(<<Step(m), Step(n)>>) => n = "refer"
  <1>1. \A n \in StepNames : Step(n) \in Steps /\ Step(n).name = n
    BY DEF Step, Steps
  <1>2. PlainNames \cup LockSteps \subseteq StepNames /\ PlainNames \cap LockSteps = {}
        /\ "refer" \in LockSteps
    BY DEF StepNames, PlainNames, LockSteps, Errors
  <1>3. \A n \in LockSteps : DOMAIN <<Step(n)>> = {1} /\ <<Step(n)>>[1].name = n
    BY <1>1, <1>2
  <1>4. \A m \in PlainNames, n \in LockSteps :
          LET p == <<Step(m), Step(n)>> IN
            /\ p \in Seq(Steps) /\ DOMAIN p = {1, 2} /\ p[1].name = m /\ p[2].name = n
    BY <1>1, <1>2
  <1>5. \A m \in PlainNames, n \in LockSteps : \A i \in Locking(<<Step(m), Step(n)>>) : i = 2
    BY <1>2, <1>4 DEF Locking
  <1>6. \A m \in PlainNames, n \in LockSteps : Refers(<<Step(m), Step(n)>>) => n = "refer"
    BY <1>2, <1>4 DEF Refers
  <1>7. \A n \in LockSteps : <<Step(n)>> \in Seq(Steps)
    BY <1>1, <1>2
  <1>8. \A n \in LockSteps : (\A i, j \in Locking(<<Step(n)>>) : i = j)
                             /\ (Refers(<<Step(n)>>) => n = "refer")
    BY <1>3 DEF Locking, Refers
  <1> QED BY <1>4, <1>5, <1>6, <1>7, <1>8

\* get_session: the one thread under the mutex has one step that needs it.
LEMMA GetSessionKeeps ==
  ASSUME LInv, NEW t \in Callers, GetSession(t)
  PROVE  LInv'
  <1> DEFINE n == IF Registered THEN "refer" ELSE "unlock"
             r == <<Step("register"), Step(n)>>
  <1>1. /\ todo' = [todo EXCEPT ![t] = r] /\ locks' = [locks EXCEPT !.manager = t]
        /\ life' = "registered" /\ UNCHANGED <<lists, committed>> /\ locks.manager = none
    BY DEF GetSession, Begin, Session
  <1>2. "register" \in PlainNames /\ n \in LockSteps
    BY DEF PlainNames, LockSteps
  <1>3. r \in Seq(Steps) /\ \A i, j \in Locking(r) : i = j
    BY <1>2, LockNamed
  <1>4. t \in Threads
    BY ThreadsOK
  <1>5. TodoOK'
    BY <1>1, <1>3, <1>4 DEF LInv, TodoOK
  <1>6. locks'.manager = t /\ todo'[t] = r /\ \A u \in Threads \ {t} : todo'[u] = todo[u]
    BY <1>1, <1>4 DEF LInv, TodoOK
  <1>7. Registered'
    BY <1>1 DEF Registered
  <1>8. MutexHeld'
    <2> SUFFICES ASSUME NEW u \in Threads
                 PROVE  /\ Locking(todo'[u]) # {} => locks'.manager = u
                        /\ \A i, j \in Locking(todo'[u]) : i = j
      BY <1>7 DEF MutexHeld, Locking, Refers
    <2>1. CASE u = t
      BY <2>1, <1>3, <1>6
    <2>2. CASE u # t
      BY <2>2, <1>1, <1>6, NobodyInMutex
    <2> QED BY <2>1, <2>2
  <1> QED BY <1>5, <1>7, <1>8 DEF LInv, ReferredIsRegistered

\* The end of a lock: the thread has only plain steps left, others had no other.
LEMMA LeaveKeeps ==
  ASSUME LInv, NEW t \in Threads, todo[t] # <<>>, Head(todo[t]).name \in LockSteps, Go(t, <<>>),
         locks' = [locks EXCEPT !.manager = none], UNCHANGED <<lists, committed, life>>
  PROVE  TodoOK' /\ MutexHeld'
  <1>1. Plain(Tail(todo[t])) /\ \A u \in Threads \ {t} : Locking(todo[u]) = {}
    BY MutexIsFree
  <1>2. todo' = [todo EXCEPT ![t] = Tail(todo[t])]
    <2>1. <<>> \o Tail(todo[t]) = Tail(todo[t])
      BY <1>1 DEF Plain
    <2> QED BY <2>1 DEF Go, LInv, TodoOK
  <1>3. TodoOK'
    BY <1>1, <1>2 DEF LInv, TodoOK, Plain
  <1>4. \A u \in Threads : Locking(todo'[u]) = {}
    BY <1>1, <1>2 DEF LInv, TodoOK, Plain
  <1>5. \A u \in Threads : ~Refers(todo'[u])
    BY <1>4 DEF Locking, Refers, LockSteps
  <1> QED BY <1>3, <1>4, <1>5 DEF MutexHeld, Locking, Refers

\* external_reference: the session it takes is registered as long as the mutex is held.
LEMMA ReferKeeps ==
  ASSUME LInv, NEW t \in Threads, Refer(t)
  PROVE  LInv'
  <1>1. todo[t] # <<>> /\ Head(todo[t]).name = "refer" /\ Go(t, <<>>)
        /\ locks' = [locks EXCEPT !.manager = none] /\ UNCHANGED <<lists, committed, life>>
    BY DEF Refer, At, Session
  <1>2. TodoOK' /\ MutexHeld'
    BY <1>1, LeaveKeeps DEF LockSteps
  <1>3. Refers(todo[t])
    <2>1. todo[t] \in Seq(Steps)
      BY <1>1 DEF LInv, TodoOK
    <2>2. 1 \in DOMAIN todo[t] /\ todo[t][1].name = "refer"
      BY <1>1, <2>1
    <2> QED BY <2>2 DEF Refers
  <1>4. Registered'
    BY <1>1, <1>3 DEF LInv, MutexHeld, Registered
  <1> QED BY <1>2, <1>4 DEF LInv, ReferredIsRegistered

\* Leaving the mutex keeps the invariant.
LEMMA UnlockKeeps ==
  ASSUME LInv, NEW t \in Threads, Unlock(t)
  PROVE  LInv'
  <1>1. /\ todo[t] # <<>> /\ Head(todo[t]).name = "unlock" /\ Go(t, <<>>)
        /\ locks' = [locks EXCEPT !.manager = none]
        /\ UNCHANGED <<lists, committed, life, held>>
    BY DEF Unlock, At, Session
  <1>2. TodoOK' /\ MutexHeld'
    BY <1>1, LeaveKeeps DEF LockSteps
  <1> QED BY <1>1, <1>2 DEF LInv, ReferredIsRegistered, Registered

\* unregister_session erases only when nobody is under the mutex, so nobody is
\* about to take the reference.
LEMMA UnregisterKeeps ==
  ASSUME LInv, NEW t \in Threads, Unregister(t)
  PROVE  LInv'
  <1>1. /\ todo[t] # <<>> /\ locks.manager = none /\ UNCHANGED <<lists, committed, held>>
        /\ todo[t] \in Seq(Steps)
    BY DEF Unregister, At, Session, LInv, TodoOK
  <1>2. \A u \in Threads : Locking(todo[u]) = {} /\ ~Refers(todo[u])
    BY <1>1, NobodyInMutex
  <1>3. CASE MustStay
    <2> DEFINE r == <<Step("release")>> \o Tail(todo[t])
    <2>1. /\ Go(t, <<Step("release")>>) /\ life' = life /\ locks' = [locks EXCEPT !.manager = t]
      BY <1>3 DEF Unregister
    <2>2. Plain(Tail(todo[t]))
      BY <1>1, <1>2, TailPlain DEF Plain
    <2>3. r \in Seq(Steps) /\ (\A i, j \in Locking(r) : i = j) /\ ~Refers(r)
      BY <2>2, LockNamed, LockThenPlain DEF LockSteps
    <2>4. todo' = [todo EXCEPT ![t] = r]
      BY <2>1 DEF Go, LInv, TodoOK
    <2>5. TodoOK'
      BY <1>1, <2>1, <2>3, <2>4 DEF LInv, TodoOK
    <2>6. MutexHeld'
      <3> SUFFICES ASSUME NEW u \in Threads
                   PROVE  /\ Locking(todo'[u]) # {} => locks'.manager = u
                          /\ \A i, j \in Locking(todo'[u]) : i = j
                          /\ ~Refers(todo'[u])
        BY DEF MutexHeld, Locking, Refers
      <3>1. CASE u = t
        BY <3>1, <2>1, <2>3, <2>4 DEF LInv, TodoOK
      <3>2. CASE u # t
        BY <3>2, <1>2, <2>4 DEF LInv, TodoOK
      <3> QED BY <3>1, <3>2
    <2> QED BY <1>1, <2>1, <2>5, <2>6 DEF LInv, ReferredIsRegistered, Registered
  <1>4. CASE ~MustStay
    <2>1. Go(t, <<>>) /\ UNCHANGED locks
      BY <1>4 DEF Unregister
    <2>2. MovesPlainly(t)
      BY <1>1, <2>1, PlainEmpty, GoPlainly DEF LInv
    <2>3. TodoOK'
      BY <1>1, <2>1, <2>2 DEF LInv, TodoOK, MovesPlainly
    <2>4. \A u \in Threads : Locking(todo'[u]) = {} /\ ~Refers(todo'[u])
      BY <1>2, <2>2 DEF MovesPlainly
    <2>5. MutexHeld'
      BY <2>4 DEF MutexHeld, Locking, Refers
    <2>6. held' = {}
      BY <1>1, <1>4 DEF MustStay, Referenced
    <2> QED BY <2>3, <2>5, <2>6 DEF LInv, ReferredIsRegistered
  <1> QED BY <1>3, <1>4

\* Releasing the reference of the call keeps the invariant: the mutex is still held.
LEMMA ReleaseKeeps ==
  ASSUME LInv, NEW t \in Threads, Release(t)
  PROVE  LInv'
  <1> DEFINE p == IF held \cup temps' = {} THEN <<Step("drop"), Step("unlock")>> ELSE <<Step("unlock")>>
             r == p \o Tail(todo[t])
  <1>1. /\ todo[t] # <<>> /\ Head(todo[t]).name = "release" /\ Go(t, p)
        /\ UNCHANGED <<lists, committed, life, held, locks>>
    BY DEF Release, At, Session
  <1>2. locks.manager = t /\ Plain(Tail(todo[t])) /\ \A u \in Threads \ {t} : Locking(todo[u]) = {}
    BY <1>1, MutexIsFree DEF LockSteps
  <1>3. p \in Seq(Steps) /\ (\A i, j \in Locking(p) : i = j) /\ ~Refers(p)
    BY LockNamed DEF LockSteps, PlainNames
  <1>4. r \in Seq(Steps) /\ (\A i, j \in Locking(r) : i = j) /\ ~Refers(r)
    BY <1>2, <1>3, LockThenPlain
  <1>5. todo' = [todo EXCEPT ![t] = r]
    BY <1>1 DEF Go, LInv, TodoOK
  <1>6. TodoOK'
    BY <1>1, <1>4, <1>5 DEF LInv, TodoOK
  <1>7. MutexHeld'
    <2> SUFFICES ASSUME NEW u \in Threads
                 PROVE  /\ Locking(todo'[u]) # {} => locks'.manager = u
                        /\ \A i, j \in Locking(todo'[u]) : i = j
                        /\ Refers(todo'[u]) => Registered'
      BY DEF MutexHeld, Locking, Refers
    <2>1. CASE u = t
      BY <2>1, <1>1, <1>2, <1>4, <1>5 DEF LInv, TodoOK
    <2>2. CASE u # t
      <3>1. todo'[u] = todo[u]
        BY <2>2, <1>5 DEF LInv, TodoOK
      <3> QED BY <3>1, <1>1 DEF LInv, MutexHeld, Registered
    <2> QED BY <2>1, <2>2
  <1> QED BY <1>1, <1>6, <1>7 DEF LInv, ReferredIsRegistered, Registered

-------------------------------------------------------------------------------
(* The other calls and steps add plain steps only. *)

\* Taking or leaving the user's mutex leaves the manager's alone.
LEMMA LocksOfUser ==
  ASSUME TodoOK, NEW x \in Threads \cup {none}, locks' = [locks EXCEPT !.user = x]
  PROVE  /\ locks' \in [manager : Threads \cup {none}, user : Threads \cup {none}]
         /\ locks'.manager = locks.manager
  BY DEF TodoOK

\* Every call keeps the invariant.
LEMMA CallKeeps ==
  ASSUME LInv, NEW t \in Callers, Call(t)
  PROVE  LInv'
  <1>1. TodoOK /\ t \in Threads
    BY ThreadsOK DEF LInv
  <1>2. Plain(<<>>) /\ \A n \in PlainNames : Plain(<<Step(n)>>)
    BY PlainEmpty, PlainNamed
  <1>3. ASSUME NEW p, Plain(p), Begin(t, p), lists' \in [Directions -> SUBSET Waits], committed' \in Nat,
               locks' \in [manager : Threads \cup {none}, user : Threads \cup {none}],
               locks'.manager = locks.manager, life' = life, held' \subseteq held
        PROVE  LInv'
    <2>1. MovesPlainly(t)
      BY <1>1, <1>3, StartPlainly DEF Begin
    <2> QED BY <1>1, <1>3, <2>1, PlainInvariant
  <1>4. ASSUME UNCHANGED <<lists, committed>>, NEW p, Plain(p), Begin(t, p),
               locks' \in [manager : Threads \cup {none}, user : Threads \cup {none}],
               locks'.manager = locks.manager, life' = life, held' \subseteq held
        PROVE  LInv'
    BY <1>1, <1>3, <1>4 DEF TodoOK
  <1>5. ASSUME UNCHANGED <<lists, committed, locks, life, held>>, NEW p, Plain(p), Begin(t, p)
        PROVE  LInv'
    BY <1>1, <1>4, <1>5 DEF TodoOK
  <1>6. CASE GetSession(t)
    BY <1>6, GetSessionKeeps
  <1>7. CASE DropReference(t)
    <2> DEFINE p == IF held' \cup temps = {} THEN <<Step("drop")>> ELSE <<>>
    <2>1. Plain(p)
      BY <1>2 DEF PlainNames
    <2>2. Begin(t, p) /\ UNCHANGED <<lists, committed, locks, life>> /\ held' \subseteq held
      BY <1>7 DEF DropReference, Session
    <2> QED BY <1>1, <1>4, <2>1, <2>2 DEF TodoOK
  <1>8. CASE LogOutUser(t)
    <2> DEFINE p == (IF user.pool = "sessions" /\ Alive THEN <<Step("logout")>> ELSE <<>>)
                      \o <<Step("loggedOut")>>
    <2>1. Plain(p)
      BY <1>2, PlainConcat DEF PlainNames
    <2>2. Begin(t, p) /\ UNCHANGED <<lists, committed, life, held>>
          /\ locks' = [locks EXCEPT !.user = t]
      BY <1>8 DEF LogOutUser, Session
    <2> QED BY <1>1, <1>4, <2>1, <2>2, LocksOfUser
  <1>9. CASE LogIn(t)
    <2>1. PICK p \in {<<>>, <<Step("revive")>>} : Begin(t, p)
      BY <1>9 DEF LogIn
    <2>2. UNCHANGED <<lists, committed, locks, life, held>>
      BY <1>9 DEF LogIn, Session
    <2>3. Plain(p)
      BY <1>2 DEF PlainNames
    <2> QED BY <1>5, <2>1, <2>2, <2>3
  <1>10. CASE Suspend(t) \/ Resume(t) \/ NewHeaders(t)
    <2>1. PICK n \in {"logout", "revive", "configure"} : Begin(t, <<Step(n)>>)
      BY <1>10 DEF Suspend, Resume, NewHeaders
    <2>2. UNCHANGED <<lists, committed, locks, life, held>>
      BY <1>10 DEF Suspend, Resume, NewHeaders, Session, Outside
    <2>3. Plain(<<Step(n)>>)
      BY <1>2 DEF PlainNames
    <2> QED BY <1>5, <2>1, <2>2, <2>3
  <1>11. CASE Commit(t)
    <2> DEFINE x == [name |-> "notify", from |-> committed']
    <2>1. committed' \in Nat /\ UNCHANGED <<lists, locks, life, held>> /\ Begin(t, <<x>>)
      BY <1>1, <1>11 DEF Commit, Session, TodoOK
    <2>2. x \in Steps /\ x.name \notin LockSteps
      BY <2>1 DEF Steps, StepNames, PlainNames, LockSteps
    <2>3. Plain(<<x>>)
      BY <2>2, PlainStep
    <2> QED BY <1>1, <1>3, <2>1, <2>3 DEF TodoOK
  <1>12. CASE \E d \in Directions : WaitFor(t, d)
    <2>1. PICK d \in Directions : WaitFor(t, d)
      BY <1>12
    <2>2. Begin(t, <<>>) /\ UNCHANGED <<committed, locks, life, held>>
      BY <2>1 DEF WaitFor, Outside
    <2>3. lists' \in [Directions -> SUBSET Waits]
      BY <1>1, <2>1 DEF WaitFor, TodoOK
    <2> QED BY <1>1, <1>2, <1>3, <2>2, <2>3 DEF TodoOK
  <1> QED BY <1>6, <1>7, <1>8, <1>9, <1>10, <1>11, <1>12 DEF Call

\* Every later step of a thread keeps the invariant.
LEMMA GoOnKeeps ==
  ASSUME LInv, NEW t \in Threads, GoOn(t)
  PROVE  LInv'
  <1>1. TodoOK /\ MutexHeld
    BY DEF LInv
  <1>2. CASE Register(t)
    <2>1. PICK p \in {<<>>, <<Step("revive")>>} : Go(t, p)
      BY <1>2 DEF Register
    <2>2. todo[t] # <<>> /\ UNCHANGED <<lists, committed, locks, life, held>>
      BY <1>2 DEF Register, At, Session
    <2>3. Plain(p)
      BY PlainEmpty, PlainNamed DEF PlainNames
    <2> QED BY <1>1, <2>1, <2>2, <2>3, GoPlainly, PlainInvariant DEF TodoOK
  <1>3. CASE ReviveIfNeeded(t) \/ Notify(t) \/ CallBlocks(t)
    <2>1. /\ Go(t, <<>>) /\ todo[t] # <<>> /\ UNCHANGED <<lists, committed, locks, life, held>>
      BY <1>3 DEF ReviveIfNeeded, Revive, Notify, CallBlocks, At, Session, Outside
    <2> QED BY <1>1, <2>1, StaysMoves, PlainInvariant DEF TodoOK
  <1>4. CASE DidDrop(t)
    <2>1. todo[t] # <<>> /\ UNCHANGED <<committed, locks, life, held>>
      BY <1>4 DEF DidDrop, At, Outside
    <2>2. Close(t) \/ Stays(t)
      BY <1>4, Zenon DEF DidDrop
    <2>3. MovesPlainly(t) /\ lists' \in [Directions -> SUBSET Waits]
      BY <1>1, <2>1, <2>2, CloseMoves, StaysMoves DEF Stays
    <2> QED BY <1>1, <2>1, <2>3, PlainInvariant DEF TodoOK
  <1>5. CASE LoggedOut(t)
    <2>1. Go(t, <<>>) /\ todo[t] # <<>> /\ UNCHANGED <<lists, committed, life, held>>
          /\ locks' = [locks EXCEPT !.user = none]
      BY <1>5 DEF LoggedOut, At, Session
    <2>2. locks' \in [manager : Threads \cup {none}, user : Threads \cup {none}]
          /\ locks'.manager = locks.manager
      BY <1>1, <2>1, LocksOfUser
    <2> QED BY <1>1, <2>1, <2>2, StaysMoves, PlainInvariant DEF TodoOK
  <1>6. CASE LogOut(t)
    <2>1. todo[t] # <<>> /\ UNCHANGED <<committed, locks, life, held>>
      BY <1>6 DEF LogOut, At, Outside
    <2>2. EnterInactive(t, <<>>) \/ Stays(t)
      BY <1>6, Zenon DEF LogOut
    <2>3. MovesPlainly(t) /\ lists' \in [Directions -> SUBSET Waits]
      BY <1>1, <2>1, <2>2, EnterInactiveMoves, PlainEmpty, StaysMoves DEF Stays
    <2> QED BY <1>1, <2>1, <2>3, PlainInvariant DEF TodoOK
  <1>7. CASE UpdateConfiguration(t)
    <2>1. todo[t] # <<>> /\ UNCHANGED <<committed, locks, life, held>>
          /\ (\/ EnterInactive(t, <<Step("configure")>>)
              \/ Go(t, <<Step("revive")>>) /\ UNCHANGED lists)
      BY <1>7 DEF UpdateConfiguration, At, Outside, Session
    <2>2. Plain(<<Step("configure")>>) /\ Plain(<<Step("revive")>>)
      BY PlainNamed DEF PlainNames
    <2>3. MovesPlainly(t) /\ lists' \in [Directions -> SUBSET Waits]
      BY <1>1, <2>1, <2>2, EnterInactiveMoves, GoPlainly DEF TodoOK
    <2> QED BY <1>1, <2>1, <2>3, PlainInvariant DEF TodoOK
  <1> QED BY <1>2, <1>3, <1>4, <1>5, <1>6, <1>7, ReferKeeps, UnlockKeeps, UnregisterKeeps, ReleaseKeeps
       DEF GoOn

\* Every step of the client keeps the invariant.
LEMMA ClientKeeps ==
  ASSUME LInv, Client
  PROVE  LInv'
  <1>1. TodoOK /\ MutexHeld /\ client \in Threads
    BY ThreadsOK DEF LInv
  <1>2. ASSUME MovesPlainly(client), lists' \in [Directions -> SUBSET Waits],
               UNCHANGED <<committed, locks, life, held>>
        PROVE  LInv'
    BY <1>1, <1>2, PlainInvariant DEF TodoOK
  <1>3. ASSUME UNCHANGED <<todo, lists, committed, locks, life, held>> PROVE LInv'
    BY <1>3 DEF LInv, TodoOK, MutexHeld, ReferredIsRegistered, Registered, Locking, Refers
  <1> DEFINE ends == <<Step("unregister")>> \o Tell(Waiting)
  <1>4. Plain(ends)
    BY <1>1, PlainNamed, PlainTell, PlainConcat, WaitingOK DEF PlainNames
  <1>5. CASE Upload
    BY <1>3, <1>5 DEF Upload, Outside
  <1>6. CASE \E h \in DOMAIN link.handlers : Completed(h)
    <2>1. PICK h \in DOMAIN link.handlers : Completed(h)
      BY <1>6
    <2>2. UNCHANGED <<committed, locks, life, held>>
      BY <2>1 DEF Completed, Outside
    <2>3. \/ lists' = Empty /\ todo' = [todo EXCEPT ![client] = ends]
          \/ /\ h.kind \in Directions /\ lists' = [lists EXCEPT ![h.kind] = {}]
             /\ todo' = [todo EXCEPT ![client] = Tell(lists[h.kind])]
          \/ UNCHANGED <<lists, todo>>
      BY <2>1 DEF Completed
    <2>4. CASE lists' = Empty /\ todo' = [todo EXCEPT ![client] = ends]
      BY <1>1, <1>2, <1>4, <2>2, <2>4, StartPlainly, EmptyOK
    <2>5. CASE /\ h.kind \in Directions /\ lists' = [lists EXCEPT ![h.kind] = {}]
               /\ todo' = [todo EXCEPT ![client] = Tell(lists[h.kind])]
      <3>1. lists[h.kind] \in SUBSET Waits /\ lists' \in [Directions -> SUBSET Waits]
        BY <1>1, <2>5 DEF TodoOK
      <3>2. MovesPlainly(client)
        BY <1>1, <2>5, <3>1, PlainTell, StartPlainly
      <3> QED BY <1>2, <2>2, <3>1, <3>2
    <2>6. CASE UNCHANGED <<lists, todo>>
      BY <1>3, <2>2, <2>6
    <2> QED BY <2>3, <2>4, <2>5, <2>6
  <1>7. CASE \E error \in Errors, fatal \in BOOLEAN : HandleError(error, fatal)
    <2>1. PICK error \in Errors, fatal \in BOOLEAN : HandleError(error, fatal)
      BY <1>7
    <2>2. UNCHANGED <<committed, locks, life, held>>
      BY <2>1 DEF HandleError, Outside
    <2>3. \/ lists' = Empty /\ todo' = [todo EXCEPT ![client] = ends]
          \/ UNCHANGED lists /\ todo' = [todo EXCEPT ![client] = <<Step(error)>>]
          \/ UNCHANGED <<lists, todo>>
      BY <2>1 DEF HandleError
    <2>4. CASE lists' = Empty /\ todo' = [todo EXCEPT ![client] = ends]
      BY <1>1, <1>2, <1>4, <2>2, <2>4, StartPlainly, EmptyOK
    <2>5. CASE UNCHANGED lists /\ todo' = [todo EXCEPT ![client] = <<Step(error)>>]
      <3>1. Plain(<<Step(error)>>)
        BY PlainNamed DEF PlainNames
      <3>2. MovesPlainly(client)
        BY <1>1, <2>5, <3>1, StartPlainly
      <3> QED BY <1>1, <1>2, <2>2, <2>5, <3>2 DEF TodoOK
    <2>6. CASE UNCHANGED <<lists, todo>>
      BY <1>3, <2>2, <2>6
    <2> QED BY <2>3, <2>4, <2>5, <2>6
  <1>8. CASE TokenExpired
    <2>1. Go(client, <<>>) /\ todo[client] # <<>> /\ UNCHANGED <<lists, committed, locks, life, held>>
      BY <1>8 DEF TokenExpired, At, Outside
    <2> QED BY <1>1, <1>2, <2>1, StaysMoves
  <1>9. CASE BadAuthentication \/ OtherError
    <2>1. PICK more \in {<<>>, <<Step("invalidate")>>} : Go(client, Tell(Waiting) \o more)
      BY <1>9 DEF BadAuthentication, OtherError, CancelPendingWaits
    <2>2. todo[client] # <<>> /\ lists' = Empty /\ UNCHANGED <<committed, locks, life, held>>
      BY <1>9 DEF BadAuthentication, OtherError, CancelPendingWaits, At, Outside
    <2>3. Plain(more)
      BY PlainEmpty, PlainNamed DEF PlainNames
    <2>4. Plain(Tell(Waiting) \o more)
      BY <1>1, <2>3, PlainTell, PlainConcat, WaitingOK
    <2> QED BY <1>1, <1>2, <2>1, <2>2, <2>4, GoPlainly, EmptyOK
  <1>10. CASE Invalidate
    <2>1. Go(client, <<>>) /\ todo[client] # <<>> /\ UNCHANGED <<lists, committed, locks, life, held>>
      BY <1>10 DEF Invalidate, At, Session
    <2> QED BY <1>1, <1>2, <2>1, StaysMoves
  <1>11. CASE FileError
    <2>1. EnterInactive(client, <<>>) /\ todo[client] # <<>> /\ UNCHANGED <<committed, locks, life, held>>
      BY <1>11 DEF FileError, At, Outside
    <2> QED BY <1>1, <1>2, <2>1, EnterInactiveMoves, PlainEmpty
  <1> QED BY <1>5, <1>6, <1>7, <1>8, <1>9, <1>10, <1>11 DEF Client

-------------------------------------------------------------------------------
\* The first argument's invariant holds at first.
LEMMA LInvInit == Init => LInv
  <1> SUFFICES ASSUME Init PROVE LInv
    OBVIOUS
  <1>1. TodoOK
    BY EmptyOK DEF Init, TodoOK
  <1>2. \A t \in Threads : Locking(todo[t]) = {} /\ ~Refers(todo[t])
    BY DEF Init, Locking, Refers
  <1>3. held = {}
    BY DEF Init
  <1> QED BY <1>1, <1>2, <1>3 DEF LInv, MutexHeld, ReferredIsRegistered, Locking, Refers

\* Every step keeps the first argument's invariant.
LEMMA LInvNext == LInv /\ [Next]_vars => LInv'
  <1> SUFFICES ASSUME LInv, [Next]_vars PROVE LInv'
    OBVIOUS
  <1>1. ASSUME UNCHANGED <<todo, lists, committed, locks, life, held>> PROVE LInv'
    BY <1>1 DEF LInv, TodoOK, MutexHeld, ReferredIsRegistered, Registered, Locking, Refers
  <1>2. CASE UNCHANGED vars
    BY <1>1, <1>2 DEF vars
  <1>3. CASE RefreshAccessToken
    BY <1>1, <1>3 DEF RefreshAccessToken
  <1>4. CASE \E t \in Callers : Call(t)
    BY <1>4, CallKeeps
  <1>5. CASE \E t \in Threads : GoOn(t)
    BY <1>5, GoOnKeeps
  <1>6. CASE Client
    BY <1>6, ClientKeeps
  <1> QED BY <1>2, <1>3, <1>4, <1>5, <1>6 DEF Next

\* A session a Realm holds is always in the manager's map, whoever ends it in the
\* meantime: opening the file again finds it.
THEOREM HeldStaysRegistered == Spec => []ReferredIsRegistered
  <1>1. LInv => ReferredIsRegistered
    BY DEF LInv
  <1> QED BY <1>1, LInvInit, LInvNext, PTL DEF Spec

\* At most one thread is under the manager's mutex, and only the one that has it.
THEOREM OneInTheMutex == Spec => []MutexHeld
  <1>1. LInv => MutexHeld
    BY DEF LInv
  <1> QED BY <1>1, LInvInit, LInvNext, PTL DEF Spec

-------------------------------------------------------------------------------
(* The second argument is about the session itself: the numbers of its     *)
(* deaths, the handlers of its sync::Session, the blocks that wait.        *)

States == {"inactive", "waiting", "active", "dying"}
SessionType == [state : States, session : Nat, deferredClose : BOOLEAN, deferredCommit : Nat,
                deaths : Nat, policy : Policies]
HandlerType == [kind : Directions \cup {"death"}, session : Nat, upto : Nat, death : Nat]
Handlers == DOMAIN link.handlers

Numbers ==
  /\ s \in SessionType
  /\ link \in [sessions : Nat, announced : Nat, uploaded : Nat, handlers : {link.handlers}]
  /\ Handlers \subseteq HandlerType
  /\ ghost \in [noted : Nat, owed : Nat]

\* The handler that ends the present death waits for what is owed, in the
\* session that is dying; those of deaths called off have smaller numbers.
DeathsCounted ==
  \A h \in Handlers : h.kind = "death" =>
    /\ h.death <= s.deaths
    /\ h.death = s.deaths =>
         (h.upto = ghost.owed /\ (s.state = "dying" => h.session = s.session))

\* The first half of NobodyIsForgotten, whether or not the session is alive.
Attended ==
  s.state \in {"active", "dying"} =>
    /\ \A d \in Directions : lists[d] # {} => \E h \in Handlers : h.kind = d /\ h.session = s.session
    /\ s.state = "dying" => \E h \in Handlers :
         h.kind = "death" /\ h.session = s.session /\ h.death = s.deaths

SInv == Numbers /\ DeathsCounted /\ Attended

-------------------------------------------------------------------------------
\* The larger of two numbers.
LEMMA MaxIsUpper ==
  ASSUME NEW a \in Nat, NEW b \in Nat
  PROVE  Max({a, b}) \in Nat /\ a <= Max({a, b}) /\ b <= Max({a, b}) /\ Max({a, b}) \in {a, b}
  <1>1. \E x \in {a, b} : \A y \in {a, b} : x >= y
    OBVIOUS
  <1>2. Max({a, b}) \in {a, b} /\ \A y \in {a, b} : Max({a, b}) >= y
    BY <1>1 DEF Max
  <1> QED BY <1>2

\* A session that is made knows of all that was announced, deferred or committed.
LEMMA KnownIsEnough ==
  ASSUME Numbers, committed \in Nat, NEW makes \in BOOLEAN
  PROVE  /\ KnownWith(makes) \in Nat
         /\ link.announced <= KnownWith(makes) /\ s.deferredCommit <= KnownWith(makes)
         /\ makes => committed <= KnownWith(makes)
  <1> DEFINE S == {link.announced, s.deferredCommit} \cup IF makes THEN {committed} ELSE {}
  <1>1. link.announced \in Nat /\ s.deferredCommit \in Nat
    BY DEF Numbers, SessionType
  <1>2. \E x \in S : \A y \in S : x >= y
    <2>1. PICK a \in {link.announced, s.deferredCommit} : a >= link.announced /\ a >= s.deferredCommit
      BY <1>1
    <2>2. CASE makes
      <3>1. PICK b \in {a, committed} : b >= a /\ b >= committed
        BY <1>1, <2>1
      <3>2. b \in S /\ \A y \in S : b >= y
        BY <1>1, <2>1, <2>2, <3>1
      <3> QED BY <3>2
    <2>3. CASE ~makes
      BY <2>1, <2>3
    <2> QED BY <2>2, <2>3
  <1>3. KnownWith(makes) \in S /\ \A y \in S : KnownWith(makes) >= y
    BY <1>2 DEF KnownWith, Max
  <1> QED BY <1>1, <1>3

\* The handlers after more are watched, or one was called.
LEMMA MoreHandlers ==
  ASSUME NEW B, NEW C
  PROVE  DOMAIN (B (+) C) = DOMAIN B \cup DOMAIN C
  BY DEF (+)

\* Calling one handler leaves the others.
LEMMA FewerHandlers ==
  ASSUME NEW B, NEW h
  PROVE  DOMAIN BagRemove(B, h) \subseteq DOMAIN B /\ DOMAIN B \subseteq DOMAIN BagRemove(B, h) \cup {h}
  BY DEF BagRemove

\* What add_completion_callback asks for, and the handler of Dying::enter_state.
LEMMA WatchedHandlers ==
  ASSUME NEW D \in SUBSET Directions, NEW n \in Nat, NEW upto \in Nat
  PROVE  /\ DOMAIN Watched(D, n, upto) \subseteq HandlerType
         /\ \A h \in DOMAIN Watched(D, n, upto) : h.kind # "death" /\ h.session = n
         /\ \A d \in D : \E h \in DOMAIN Watched(D, n, upto) : h.kind = d /\ h.session = n
  <1> DEFINE at(d) == Waiter(d, n, IF d = "upload" THEN upto ELSE 0, 0)
  <1>1. DOMAIN Watched(D, n, upto) = {at(d) : d \in D}
    BY DEF Watched, SetToBag
  <1>2. \A d \in Directions : at(d) \in HandlerType /\ at(d).kind = d /\ at(d).session = n /\ d # "death"
    BY DEF Waiter, HandlerType, Directions
  <1> QED BY <1>1, <1>2

\* The handler that watches for the end of a dying session.
LEMMA DeathHandler ==
  ASSUME NEW old, old.session \in Nat, old.deaths \in Nat, NEW upto \in Nat
  PROVE  LET h == Waiter("death", old.session, upto, old.deaths + 1) IN
           /\ DOMAIN DeathWatch(old, upto) = {h}
           /\ h \in HandlerType /\ h.kind = "death" /\ h.session = old.session /\ h.upto = upto
           /\ h.death = old.deaths + 1
  <1>1. DOMAIN DeathWatch(old, upto) = {Waiter("death", old.session, upto, old.deaths + 1)}
    BY DEF DeathWatch, SetToBag
  <1>2. Waiter("death", old.session, upto, old.deaths + 1) \in HandlerType
    BY DEF Waiter, HandlerType
  <1> QED BY <1>1, <1>2 DEF Waiter

\* What starting to die makes of a session.
LEMMA DyingSession ==
  ASSUME NEW old \in SessionType
  PROVE  /\ Dying(old) \in SessionType /\ Dying(old).state = "dying"
         /\ Dying(old).deaths = old.deaths + 1 /\ Dying(old).session = old.session
         /\ Dying(old).deferredCommit = old.deferredCommit
  <1> DEFINE begun == [old EXCEPT !.state = "dying"]
  <1>1. /\ begun \in SessionType /\ begun.state = "dying" /\ begun.session = old.session
        /\ begun.deferredCommit = old.deferredCommit /\ old.deaths \in Nat
    BY DEF SessionType, States
  <1>2. Dying(old) = [begun EXCEPT !.deaths = old.deaths + 1]
    BY DEF Dying
  <1> HIDE DEF begun
  <1> QED BY <1>1, <1>2 DEF SessionType

\* The session's invariant holds at first.
LEMMA SInvInit == Init => SInv
  <1> SUFFICES ASSUME Init PROVE SInv
    OBVIOUS
  <1>1. link.handlers = EmptyBag /\ DOMAIN link.handlers = {}
    BY DEF Init, EmptyBag, SetToBag
  <1>2. Numbers
    BY <1>1 DEF Init, Numbers, Handlers, SessionType, States
  <1> QED BY <1>1, <1>2 DEF Init, SInv, DeathsCounted, Attended, Handlers

-------------------------------------------------------------------------------
(* What each step of the session does to it. *)

\* Where the session stays its invariant does.
LEMMA StillSInv == SInv /\ UNCHANGED <<s, lists, link, ghost>> => SInv'
  BY DEF SInv, Numbers, DeathsCounted, Attended, Handlers

\* The session ends; a handler may be called for that.
LEMMA EndsSInv ==
  ASSUME SInv, s' = [s EXCEPT !.state = "inactive", !.session = 0], ghost' = ghost,
         \/ link' = link
         \/ \E h : link' = [link EXCEPT !.handlers = BagRemove(@, h)]
  PROVE  SInv'
  <1>1. /\ link' \in [sessions : Nat, announced : Nat, uploaded : Nat, handlers : {link'.handlers}]
        /\ Handlers' \subseteq Handlers
    <2>1. CASE link' = link
      BY <2>1 DEF SInv, Numbers, Handlers
    <2>2. CASE \E h : link' = [link EXCEPT !.handlers = BagRemove(@, h)]
      <3>1. PICK h : link' = [link EXCEPT !.handlers = BagRemove(@, h)]
        BY <2>2
      <3>2. link'.handlers = BagRemove(link.handlers, h)
        BY <3>1 DEF SInv, Numbers
      <3> QED BY <3>1, <3>2, FewerHandlers DEF SInv, Numbers, Handlers
    <2> QED BY <2>1, <2>2
  <1>2. /\ s' \in SessionType
        /\ s'.state = "inactive" /\ s'.deaths = s.deaths
    BY DEF SInv, Numbers, SessionType, States
  <1>3. Numbers'
    BY <1>1, <1>2 DEF SInv, Numbers
  <1>4. DeathsCounted'
    BY <1>1, <1>2 DEF SInv, DeathsCounted
  <1> QED BY <1>2, <1>3, <1>4 DEF SInv, Attended

\* Starting to die keeps the session's invariant: a handler watches for the end.
LEMMA EnterDyingSInv ==
  ASSUME SInv, s.state = "active", s' = Dying(s), lists' = lists,
         link' = [link EXCEPT !.handlers = @ (+) DeathWatch(s, link.announced)],
         ghost' = [ghost EXCEPT !.owed = link.announced]
  PROVE  SInv'
  <1> DEFINE h == Waiter("death", s.session, link.announced, s.deaths + 1)
  <1>1. s \in SessionType /\ s.session \in Nat /\ s.deaths \in Nat /\ link.announced \in Nat
    BY DEF SInv, Numbers, SessionType
  <1>2. /\ Handlers' = Handlers \cup {h}
        /\ h \in HandlerType /\ h.kind = "death" /\ h.session = s.session
        /\ h.upto = link.announced /\ h.death = s.deaths + 1
    <2>1. link'.handlers = link.handlers (+) DeathWatch(s, link.announced)
      BY DEF SInv, Numbers
    <2>2. Handlers' = Handlers \cup DOMAIN DeathWatch(s, link.announced)
      BY <2>1, MoreHandlers DEF Handlers
    <2> QED BY <1>1, <2>2, DeathHandler
  <1> HIDE DEF h
  <1>4. /\ s' \in SessionType
        /\ s'.state = "dying" /\ s'.deaths = s.deaths + 1 /\ s'.session = s.session
    BY <1>1, DyingSession
  <1>5. ghost' \in [noted : Nat, owed : Nat] /\ ghost'.owed = link.announced
    BY <1>1 DEF SInv, Numbers
  <1>6. Numbers'
    <2>1. link' \in [sessions : Nat, announced : Nat, uploaded : Nat, handlers : {link'.handlers}]
      BY DEF SInv, Numbers
    <2> QED BY <1>2, <1>4, <1>5, <2>1 DEF SInv, Numbers
  <1>7. DeathsCounted'
    <2> SUFFICES ASSUME NEW g \in Handlers', g.kind = "death"
                 PROVE  /\ g.death <= s'.deaths
                        /\ g.death = s'.deaths =>
                             (g.upto = ghost'.owed /\ (s'.state = "dying" => g.session = s'.session))
      BY DEF DeathsCounted
    <2>1. CASE g = h
      BY <1>1, <1>2, <1>4, <1>5, <2>1
    <2>2. CASE g \in Handlers
      <3>1. g.death <= s.deaths /\ g.death \in Nat
        BY <2>2 DEF SInv, DeathsCounted, Numbers, HandlerType
      <3> QED BY <1>1, <1>4, <3>1
    <2> QED BY <1>2, <2>1, <2>2
  <1>8. Attended'
    BY <1>2, <1>4 DEF SInv, Attended
  <1> QED BY <1>6, <1>7, <1>8 DEF SInv

\* Closing keeps the session's invariant.
LEMMA CloseSInv ==
  ASSUME SInv, NEW t, Close(t)
  PROVE  SInv'
  <1>1. CASE UNCHANGED <<s, lists, link, ghost>>
    BY <1>1, StillSInv
  <1>2. CASE EnterInactive(t, <<>>)
    BY <1>2, EndsSInv DEF EnterInactive
  <1>3. CASE s' = [s EXCEPT !.deferredClose = TRUE] /\ UNCHANGED <<lists, link, ghost>> /\ s.state = "waiting"
    <2>1. /\ s' \in SessionType
          /\ s'.state = "waiting" /\ s'.deaths = s.deaths
      BY <1>3 DEF SInv, Numbers, SessionType
    <2> QED BY <1>3, <2>1 DEF SInv, Numbers, DeathsCounted, Attended, Handlers
  <1>4. CASE s.state = "active" /\ EnterDying(t)
    BY <1>4, EnterDyingSInv DEF EnterDying
  <1>5. \/ UNCHANGED <<s, lists, link, ghost>>
        \/ EnterInactive(t, <<>>)
        \/ s' = [s EXCEPT !.deferredClose = TRUE] /\ UNCHANGED <<lists, link, ghost>> /\ s.state = "waiting"
        \/ s.state = "active" /\ EnterDying(t)
    BY DEF Close, Stays
  <1> QED BY <1>1, <1>2, <1>3, <1>4, <1>5

\* Reviving keeps the session's invariant.
LEMMA ReviveSInv ==
  ASSUME SInv, NEW t, Revive(t)
  PROVE  SInv'
  <1>0. UNCHANGED <<lists, ghost>>
    BY DEF Revive
  <1>1. CASE s.state = "dying"
    <2> DEFINE W == Watched(Pending, s.session, link.announced)
    <2>1. s' = [s EXCEPT !.state = "active"] /\ link' = [link EXCEPT !.handlers = @ (+) W]
      BY <1>1 DEF Revive
    <2>2. /\ s' \in SessionType
          /\ s'.state = "active" /\ s'.deaths = s.deaths /\ s'.session = s.session
      BY <2>1 DEF SInv, Numbers, SessionType, States
    <2>3. /\ link' \in [sessions : Nat, announced : Nat, uploaded : Nat, handlers : {link'.handlers}]
          /\ Handlers' = Handlers \cup DOMAIN W
      <3>1. link'.handlers = link.handlers (+) W
        BY <2>1 DEF SInv, Numbers
      <3> QED BY <2>1, <3>1, MoreHandlers DEF SInv, Numbers, Handlers
    <2>4. DOMAIN W \subseteq HandlerType /\ \A h \in DOMAIN W : h.kind # "death"
      <3>1. Pending \in SUBSET Directions /\ s.session \in Nat /\ link.announced \in Nat
        BY DEF Pending, SInv, Numbers, SessionType
      <3> QED BY <3>1, WatchedHandlers
    <2> HIDE DEF W
    <2>5. Numbers'
      BY <1>0, <2>2, <2>3, <2>4 DEF SInv, Numbers
    <2>6. DeathsCounted'
      BY <1>0, <1>1, <2>2, <2>3, <2>4 DEF SInv, DeathsCounted
    <2>7. Attended'
      BY <1>0, <1>1, <2>2, <2>3 DEF SInv, Attended
    <2> QED BY <2>5, <2>6, <2>7 DEF SInv
  <1>2. CASE s.state \in {"inactive", "waiting"}
    <2>1. link' = link /\ s'.state = "waiting" /\ s'.deaths = s.deaths
          /\ s' \in SessionType
      BY <1>2 DEF Revive, SInv, Numbers, SessionType, States
    <2> QED BY <1>0, <2>1 DEF SInv, Numbers, DeathsCounted, Attended, Handlers
  <1>3. CASE s.state = "active"
    BY <1>0, <1>3, StillSInv DEF Revive
  <1> QED BY <1>1, <1>2, <1>3 DEF SInv, Numbers, SessionType, States

\* A session is made or kept, with a handler for each direction somebody waits
\* for, and one more if it is to close.
LEMMA RefreshSInv ==
  ASSUME SInv, committed \in Nat, RefreshAccessToken
  PROVE  SInv'
  <1> DEFINE makes == s.session = 0
             n     == IF makes THEN link.sessions + 1 ELSE s.session
             known == KnownWith(makes)
             now   == [s EXCEPT !.state = "active", !.session = n, !.deferredCommit = 0]
             dies  == s.deferredClose /\ s.policy = "AfterChangesUploaded"
             W     == Watched(Pending, n, known)
             more  == IF dies THEN W (+) DeathWatch(now, known) ELSE W
             h     == Waiter("death", n, known, s.deaths + 1)
  <1>1. /\ s.state = "waiting" /\ s' = (IF dies THEN Dying(now) ELSE now)
        /\ link' = [link EXCEPT !.sessions = n, !.announced = known, !.handlers = @ (+) more]
        /\ ghost' = (IF dies THEN [ghost EXCEPT !.owed = known] ELSE ghost)
        /\ lists' = lists
    BY DEF RefreshAccessToken
  <1>2. /\ n \in Nat /\ known \in Nat /\ s.deaths \in Nat /\ s \in SessionType
        /\ Pending \in SUBSET Directions
    <2>1. Numbers /\ makes \in BOOLEAN
      BY DEF SInv
    <2>2. known \in Nat
      <3> HIDE DEF makes
      <3> QED BY <2>1, KnownIsEnough
    <2>3. n \in Nat /\ s.deaths \in Nat /\ s \in SessionType /\ Pending \in SUBSET Directions
      BY <2>1 DEF Numbers, SessionType, Pending
    <2> QED BY <2>2, <2>3
  <1>3. now \in SessionType /\ now.state = "active" /\ now.session = n /\ now.deaths = s.deaths
    BY <1>2 DEF SessionType, States
  <1>4. /\ s' \in SessionType /\ s'.session = n
        /\ dies => s'.state = "dying" /\ s'.deaths = s.deaths + 1
        /\ ~dies => s'.state = "active" /\ s'.deaths = s.deaths
    <2> HIDE DEF now, n, known
    <2> QED BY <1>1, <1>3, DyingSession
  <1>5. /\ DOMAIN W \subseteq HandlerType /\ (\A g \in DOMAIN W : g.kind # "death")
        /\ \A d \in Pending : \E g \in DOMAIN W : g.kind = d /\ g.session = n
    BY <1>2, WatchedHandlers
  <1>6. /\ DOMAIN DeathWatch(now, known) = {h}
        /\ h \in HandlerType /\ h.kind = "death" /\ h.session = n /\ h.upto = known
        /\ h.death = s.deaths + 1
    <2> HIDE DEF now, n, known
    <2> DEFINE g == Waiter("death", now.session, known, now.deaths + 1)
    <2>1. now.session \in Nat /\ now.deaths \in Nat /\ known \in Nat
      BY <1>2, <1>3
    <2>2. /\ DOMAIN DeathWatch(now, known) = {g}
          /\ g \in HandlerType /\ g.kind = "death" /\ g.session = now.session /\ g.upto = known
          /\ g.death = now.deaths + 1
      BY <2>1, DeathHandler
    <2>3. g = h
      BY <1>3
    <2> HIDE DEF g, h
    <2> QED BY <1>3, <2>2, <2>3
  <1> HIDE DEF now, n, known, W, h
  <1>7. DOMAIN more = DOMAIN W \cup (IF dies THEN {h} ELSE {})
    BY <1>6, MoreHandlers
  <1> HIDE DEF more
  <1>8. /\ link' \in [sessions : Nat, announced : Nat, uploaded : Nat, handlers : {link'.handlers}]
        /\ Handlers' = Handlers \cup DOMAIN more
    <2>1. link'.handlers = link.handlers (+) more
      BY <1>1 DEF SInv, Numbers
    <2>2. link' \in [sessions : Nat, announced : Nat, uploaded : Nat, handlers : {link'.handlers}]
      BY <1>1, <1>2 DEF SInv, Numbers
    <2> QED BY <2>1, <2>2, MoreHandlers DEF Handlers
  <1>9. ghost' \in [noted : Nat, owed : Nat] /\ (dies => ghost'.owed = known) /\ (~dies => ghost' = ghost)
    BY <1>1, <1>2 DEF SInv, Numbers
  <1>10. Numbers'
    <2>1. Handlers' \subseteq HandlerType
      BY <1>5, <1>6, <1>7, <1>8 DEF SInv, Numbers
    <2> QED BY <1>4, <1>8, <1>9, <2>1 DEF Numbers
  <1>11. DeathsCounted'
    <2> SUFFICES ASSUME NEW g \in Handlers', g.kind = "death"
                 PROVE  /\ g.death <= s'.deaths
                        /\ g.death = s'.deaths =>
                             (g.upto = ghost'.owed /\ (s'.state = "dying" => g.session = s'.session))
      BY DEF DeathsCounted
    <2>1. g \in Handlers \/ (dies /\ g = h)
      BY <1>5, <1>7, <1>8
    <2>2. CASE dies /\ g = h
      BY <1>2, <1>4, <1>6, <1>9, <2>2
    <2>3. CASE g \in Handlers
      <3>1. /\ g.death \in Nat /\ g.death <= s.deaths
            /\ g.death = s.deaths => g.upto = ghost.owed
        BY <2>3 DEF SInv, DeathsCounted, Numbers, HandlerType
      <3>2. CASE dies
        BY <1>2, <1>4, <3>1, <3>2
      <3>3. CASE ~dies
        BY <1>2, <1>4, <1>9, <3>1, <3>3
      <3> QED BY <3>2, <3>3
    <2> QED BY <2>1, <2>2, <2>3
  <1>12. Attended'
    <2>1. \A d \in Directions : lists'[d] # {} => \E g \in Handlers' : g.kind = d /\ g.session = s'.session
      BY <1>1, <1>4, <1>5, <1>7, <1>8 DEF Pending
    <2>2. s'.state = "dying" => \E g \in Handlers' :
            g.kind = "death" /\ g.session = s'.session /\ g.death = s'.deaths
      BY <1>4, <1>6, <1>7, <1>8
    <2> QED BY <2>1, <2>2 DEF Attended
  <1> QED BY <1>10, <1>11, <1>12 DEF SInv

\* wait_for_..._completion: the first to wait in a direction is attended.
LEMMA WaitForSInv ==
  ASSUME SInv, lists \in [Directions -> SUBSET Waits], NEW t, NEW d \in Directions, WaitFor(t, d)
  PROVE  SInv'
  <1>1. PICK w \in Waits : lists' = [lists EXCEPT ![d] = @ \cup {w}]
    BY DEF WaitFor
  <1>2. UNCHANGED <<s, ghost>>
    BY DEF WaitFor
  <1>3. \A e \in Directions : e # d => lists'[e] = lists[e]
    BY <1>1
  <1>4. CASE lists[d] = {} /\ s.state \in {"active", "dying"}
    <2> DEFINE W == Watched({d}, s.session, link.announced)
    <2>1. link' = [link EXCEPT !.handlers = @ (+) W]
      BY <1>4 DEF WaitFor
    <2>2. /\ DOMAIN W \subseteq HandlerType /\ (\A h \in DOMAIN W : h.kind # "death")
          /\ \E h \in DOMAIN W : h.kind = d /\ h.session = s.session
      <3>1. s.session \in Nat /\ link.announced \in Nat
        BY DEF SInv, Numbers, SessionType
      <3> QED BY <3>1, WatchedHandlers
    <2> HIDE DEF W
    <2>3. /\ link' \in [sessions : Nat, announced : Nat, uploaded : Nat, handlers : {link'.handlers}]
          /\ Handlers' = Handlers \cup DOMAIN W
      <3>1. link'.handlers = link.handlers (+) W
        BY <2>1 DEF SInv, Numbers
      <3> QED BY <2>1, <3>1, MoreHandlers DEF SInv, Numbers, Handlers
    <2>4. Numbers'
      BY <1>2, <2>2, <2>3 DEF SInv, Numbers
    <2>5. DeathsCounted'
      BY <1>2, <2>2, <2>3 DEF SInv, DeathsCounted
    <2>6. Attended'
      BY <1>2, <1>3, <2>2, <2>3 DEF SInv, Attended
    <2> QED BY <2>4, <2>5, <2>6 DEF SInv
  <1>5. CASE ~(lists[d] = {} /\ s.state \in {"active", "dying"})
    <2>1. link' = link
      BY <1>5 DEF WaitFor
    <2> QED BY <1>2, <1>3, <1>5, <2>1 DEF SInv, Numbers, DeathsCounted, Attended, Handlers
  <1> QED BY <1>4, <1>5

\* Telling the session of a commit keeps its invariant.
LEMMA NotifySInv ==
  ASSUME SInv, NEW t, NEW v \in Nat,
         s' = IF s.state = "waiting" THEN [s EXCEPT !.deferredCommit = v] ELSE s,
         link' = IF s.state = "active" THEN [link EXCEPT !.announced = Max({@, v})] ELSE link,
         ghost' = IF s.state = "dying" THEN ghost ELSE [ghost EXCEPT !.noted = Max({@, v})],
         lists' = lists
  PROVE  SInv'
  <1>1. s' \in SessionType /\ s'.state = s.state /\ s'.deaths = s.deaths /\ s'.session = s.session
    BY DEF SInv, Numbers, SessionType
  <1>2. /\ link' \in [sessions : Nat, announced : Nat, uploaded : Nat, handlers : {link'.handlers}]
        /\ Handlers' = Handlers
    <2>1. link.announced \in Nat /\ Max({link.announced, v}) \in Nat
      BY MaxIsUpper DEF SInv, Numbers
    <2> QED BY <2>1 DEF SInv, Numbers, Handlers
  <1>3. ghost' \in [noted : Nat, owed : Nat] /\ ghost'.owed = ghost.owed
    <2>1. ghost.noted \in Nat /\ Max({ghost.noted, v}) \in Nat
      BY MaxIsUpper DEF SInv, Numbers
    <2> QED BY <2>1 DEF SInv, Numbers
  <1> QED BY <1>1, <1>2, <1>3 DEF SInv, Numbers, DeathsCounted, Attended

\* An upload keeps the session's invariant.
LEMMA UploadSInv ==
  ASSUME SInv, Upload
  PROVE  SInv'
  <1>1. link' = [link EXCEPT !.uploaded = @ + 1] /\ UNCHANGED <<s, lists, ghost>>
    BY DEF Upload
  <1>2. /\ link' \in [sessions : Nat, announced : Nat, uploaded : Nat, handlers : {link'.handlers}]
        /\ Handlers' = Handlers
    BY <1>1 DEF SInv, Numbers, Handlers
  <1> QED BY <1>1, <1>2 DEF SInv, Numbers, DeathsCounted, Attended

\* A handler is called: those who waited for it are told, or the death it is
\* for is over, or it comes too late.
LEMMA CompletedSInv ==
  ASSUME SInv, lists \in [Directions -> SUBSET Waits], NEW h \in Handlers, Completed(h),
         Alive \/ s.state = "inactive"
  PROVE  SInv'
  <1>0. \/ s' = [s EXCEPT !.state = "inactive", !.session = 0]
        \/ /\ h.kind \in Directions /\ Alive /\ s' = s
           /\ lists' = [lists EXCEPT ![h.kind] = {}]
        \/ /\ ~(h.kind = "death" /\ Alive /\ EndsDeath(h)) /\ ~(h.kind \in Directions /\ Alive)
           /\ UNCHANGED <<s, lists>>
    BY DEF Completed
  <1>1. link' = [link EXCEPT !.handlers = BagRemove(@, h)] /\ ghost' = ghost
    BY DEF Completed
  <1>2. CASE s' = [s EXCEPT !.state = "inactive", !.session = 0]
    BY <1>1, <1>2, EndsSInv
  <1>3. CASE s' = s
    <2>1. /\ link' \in [sessions : Nat, announced : Nat, uploaded : Nat, handlers : {link'.handlers}]
          /\ Handlers' \subseteq Handlers /\ Handlers \subseteq Handlers' \cup {h}
      <3>1. link'.handlers = BagRemove(link.handlers, h)
        BY <1>1 DEF SInv, Numbers
      <3> QED BY <1>1, <3>1, FewerHandlers DEF SInv, Numbers, Handlers
    <2>2. Numbers' /\ DeathsCounted'
      BY <1>1, <1>3, <2>1 DEF SInv, Numbers, DeathsCounted
    <2>3. Attended'
      <3> SUFFICES ASSUME s.state \in {"active", "dying"}, Alive
                   PROVE  /\ \A d \in Directions : lists'[d] # {} =>
                                \E g \in Handlers' : g.kind = d /\ g.session = s.session
                          /\ s.state = "dying" => \E g \in Handlers' :
                                g.kind = "death" /\ g.session = s.session /\ g.death = s.deaths
        BY <1>3 DEF Attended
      <3>1. CASE /\ ~(h.kind = "death" /\ Alive /\ EndsDeath(h)) /\ ~(h.kind \in Directions /\ Alive)
                 /\ UNCHANGED <<s, lists>>
        <4>1. h.kind = "death" /\ "death" \notin Directions
          BY <3>1 DEF SInv, Numbers, HandlerType, Directions
        <4> QED BY <2>1, <3>1, <4>1 DEF SInv, Attended, EndsDeath
      <3>2. CASE /\ h.kind \in Directions /\ Alive /\ s' = s
                 /\ lists' = [lists EXCEPT ![h.kind] = {}]
        <4>1. /\ "death" \notin Directions
              /\ \A d \in Directions : lists'[d] # {} => d # h.kind /\ lists'[d] = lists[d]
          BY <3>2 DEF Directions
        <4> QED BY <2>1, <3>2, <4>1 DEF SInv, Attended
      <3>3. s' # [s EXCEPT !.state = "inactive", !.session = 0]
        BY <1>3 DEF SInv, Numbers, SessionType
      <3> QED BY <1>0, <3>1, <3>2, <3>3
    <2> QED BY <2>2, <2>3 DEF SInv
  <1> QED BY <1>0, <1>2, <1>3

-------------------------------------------------------------------------------
(* Which steps change the session at all. *)

\* Every call keeps the session's invariant.
LEMMA CallSInv ==
  ASSUME SInv, TodoOK, NEW t \in Callers, Call(t)
  PROVE  SInv'
  <1>1. CASE \E d \in Directions : WaitFor(t, d)
    BY <1>1, WaitForSInv DEF TodoOK
  <1>2. CASE UNCHANGED Session
    BY <1>2, StillSInv DEF Session
  <1>3. (\E d \in Directions : WaitFor(t, d)) \/ UNCHANGED Session
    BY Zenon DEF Call, GetSession, DropReference, LogOutUser, LogIn, Suspend, Resume, NewHeaders, Commit
  <1> QED BY <1>1, <1>2, <1>3

\* Becoming inactive keeps the session's invariant.
LEMMA EnterInactiveSInv ==
  ASSUME SInv, NEW t, NEW more, EnterInactive(t, more)
  PROVE  SInv'
  BY EndsSInv DEF EnterInactive

\* Which steps of a thread change the session, and how.
LEMMA GoOnChanges ==
  ASSUME NEW t \in Threads, GoOn(t)
  PROVE  UNCHANGED Session \/ (\E more : EnterInactive(t, more)) \/ Close(t) \/ Revive(t) \/ Notify(t)
  <1>1. CASE Register(t) \/ Refer(t) \/ Unlock(t) \/ Unregister(t) \/ Release(t) \/ LoggedOut(t) \/ CallBlocks(t)
    BY <1>1, Zenon DEF Register, Refer, Unlock, Unregister, Release, LoggedOut, CallBlocks
  <1>2. CASE ReviveIfNeeded(t) \/ Notify(t)
    BY <1>2 DEF ReviveIfNeeded
  <1>3. CASE DidDrop(t)
    BY <1>3 DEF DidDrop, Stays, Session
  <1>4. CASE LogOut(t) \/ UpdateConfiguration(t)
    BY <1>4 DEF LogOut, UpdateConfiguration, Stays, Session
  <1> QED BY <1>1, <1>2, <1>3, <1>4 DEF GoOn

\* Every later step of a thread keeps the session's invariant.
LEMMA GoOnSInv ==
  ASSUME SInv, TodoOK, NEW t \in Threads, GoOn(t),
         \A i \in DOMAIN todo[t] : todo[t][i].name = "notify" => todo[t][i].from \in Nat
  PROVE  SInv'
  <1>1. CASE UNCHANGED Session
    BY <1>1, StillSInv DEF Session
  <1>2. CASE \E more : EnterInactive(t, more)
    BY <1>2, EnterInactiveSInv
  <1>3. CASE Close(t)
    BY <1>3, CloseSInv
  <1>4. CASE Revive(t)
    BY <1>4, ReviveSInv
  <1>5. CASE Notify(t)
    <2>1. todo[t] # <<>> /\ todo[t] \in Seq(Steps) /\ Head(todo[t]).name = "notify"
      BY <1>5 DEF Notify, At, TodoOK
    <2>2. Head(todo[t]).from \in Nat
      BY <2>1
    <2>3. PICK v \in Head(todo[t]).from .. committed :
            /\ s' = IF s.state = "waiting" THEN [s EXCEPT !.deferredCommit = v] ELSE s
            /\ link' = IF s.state = "active" THEN [link EXCEPT !.announced = Max({@, v})] ELSE link
            /\ ghost' = IF s.state = "dying" THEN ghost ELSE [ghost EXCEPT !.noted = Max({@, v})]
      BY <1>5 DEF Notify
    <2>4. v \in Nat
      BY <2>2 DEF TodoOK
    <2>5. lists' = lists
      BY <1>5 DEF Notify
    <2> QED BY <2>3, <2>4, <2>5, NotifySInv
  <1> QED BY <1>1, <1>2, <1>3, <1>4, <1>5, GoOnChanges

\* The waits end and the session goes on, or its lists are emptied with it.
LEMMA NoListsSInv ==
  ASSUME SInv, lists' = Empty, UNCHANGED <<s, link, ghost>>
  PROVE  SInv'
  <1>1. \A d \in Directions : lists'[d] = {}
    BY DEF Empty
  <1> QED BY <1>1 DEF SInv, Numbers, DeathsCounted, Attended, Handlers

\* Every step of the client keeps the session's invariant.
LEMMA ClientSInv ==
  ASSUME SInv, TodoOK, Client, Alive \/ s.state = "inactive"
  PROVE  SInv'
  <1>1. CASE Upload
    BY <1>1, UploadSInv
  <1>2. CASE \E h \in DOMAIN link.handlers : Completed(h)
    BY <1>2, CompletedSInv DEF Handlers, TodoOK
  <1>3. CASE \E error \in Errors, fatal \in BOOLEAN : HandleError(error, fatal)
    <2>1. UNCHANGED <<link, ghost>>
      BY <1>3 DEF HandleError
    <2>2. s' = [s EXCEPT !.state = "inactive", !.session = 0] \/ UNCHANGED <<s, lists>>
      BY <1>3 DEF HandleError
    <2> QED BY <2>1, <2>2, EndsSInv, StillSInv
  <1>4. CASE TokenExpired
    <2>1. CASE s.state = "active"
      <3>1. s' = [s EXCEPT !.state = "waiting", !.deferredClose = FALSE] /\ UNCHANGED <<lists, link, ghost>>
        BY <1>4, <2>1 DEF TokenExpired
      <3>2. s' \in SessionType /\ s'.state = "waiting" /\ s'.deaths = s.deaths
        BY <3>1 DEF SInv, Numbers, SessionType, States
      <3> QED BY <3>1, <3>2 DEF SInv, Numbers, DeathsCounted, Attended, Handlers
    <2>2. CASE s.state # "active"
      BY <1>4, <2>2, StillSInv DEF TokenExpired
    <2> QED BY <2>1, <2>2
  <1>5. CASE BadAuthentication \/ OtherError
    BY <1>5, NoListsSInv DEF BadAuthentication, OtherError, CancelPendingWaits
  <1>6. CASE Invalidate
    BY <1>6, StillSInv DEF Invalidate, Session
  <1>7. CASE FileError
    BY <1>7, EnterInactiveSInv DEF FileError
  <1> QED BY <1>1, <1>2, <1>3, <1>4, <1>5, <1>6, <1>7 DEF Client

-------------------------------------------------------------------------------
(* Before the session is made there is nothing to do but to finish a log out. *)

Lives == {"unmade", "registered", "erased"}
OnlyLoggingOut(q) == \A i \in DOMAIN q : q[i].name = "loggedOut"
Fresh ==
  /\ life \in Lives
  /\ life = "unmade" => s.state = "inactive" /\ \A t \in Threads : OnlyLoggingOut(todo[t])

\* What a commit has still to tell is a version.
Versions ==
  \A t \in Threads : \A i \in DOMAIN todo[t] : todo[t][i].name = "notify" => todo[t][i].from \in Nat

\* A thread takes up the steps p before those it has after its present one.
Rest(q) == IF q = <<>> THEN <<>> ELSE Tail(q)
TakesUp(t, p) == todo' = [todo EXCEPT ![t] = p \o Rest(@)]

\* Where the steps of a thread that takes up new ones come from.
LEMMA Taken ==
  ASSUME TodoOK, NEW t \in Threads, NEW p \in Seq(Steps), TakesUp(t, p)
  PROVE  /\ \A u \in Threads \ {t} : todo'[u] = todo[u]
         /\ \A i \in DOMAIN todo'[t] :
              \/ i \in DOMAIN p /\ todo'[t][i] = p[i]
              \/ /\ i > Len(p) /\ i - Len(p) + 1 \in DOMAIN todo[t]
                 /\ todo'[t][i] = todo[t][i - Len(p) + 1]
         /\ todo'[t] = p \o Rest(todo[t])
  <1> DEFINE q == todo[t]
             r == p \o Rest(q)
  <1>1. q \in Seq(Steps) /\ todo'[t] = r /\ \A u \in Threads \ {t} : todo'[u] = todo[u]
    BY DEF TodoOK, TakesUp
  <1>2. CASE q = <<>>
    <2>1. r = p
      BY <1>2 DEF Rest
    <2> QED BY <1>1, <2>1
  <1>3. CASE q # <<>>
    <2>1. /\ Rest(q) \in Seq(Steps) /\ Len(Rest(q)) = Len(q) - 1
          /\ \A i \in 1 .. Len(q) - 1 : Rest(q)[i] = q[i + 1]
      BY <1>1, <1>3 DEF Rest
    <2>2. /\ Len(r) = Len(p) + Len(q) - 1 /\ r \in Seq(Steps)
          /\ \A i \in 1 .. Len(r) : r[i] = IF i <= Len(p) THEN p[i] ELSE q[i - Len(p) + 1]
      <3> DEFINE rest == Rest(q)
      <3>1. rest \in Seq(Steps) /\ p \in Seq(Steps)
        BY <2>1
      <3> HIDE DEF rest
      <3>2. /\ p \o rest \in Seq(Steps) /\ Len(p \o rest) = Len(p) + Len(rest)
            /\ \A i \in 1 .. Len(p \o rest) :
                 (p \o rest)[i] = IF i <= Len(p) THEN p[i] ELSE rest[i - Len(p)]
        BY <3>1
      <3>3. r = p \o rest /\ Len(p) \in Nat /\ Len(q) \in Nat
        BY <1>1 DEF rest
      <3>4. Len(rest) = Len(q) - 1 /\ \A i \in 1 .. Len(q) - 1 : rest[i] = q[i + 1]
        BY <2>1 DEF rest
      <3> HIDE DEF r, q
      <3>5. \A i \in 1 .. Len(r) : ~(i <= Len(p)) => i - Len(p) \in 1 .. Len(q) - 1
        BY <3>2, <3>3, <3>4
      <3> QED BY <3>2, <3>3, <3>4, <3>5
    <2> HIDE DEF r, q
    <2>3. \A i \in 1 .. Len(r) : i <= Len(p) \/ i - Len(p) + 1 \in 1 .. Len(q)
      BY <1>1, <2>2
    <2>4. DOMAIN r = 1 .. Len(r) /\ DOMAIN q = 1 .. Len(q) /\ DOMAIN p = 1 .. Len(p) /\ Len(p) \in Nat
      BY <1>1, <2>2
    <2>5. ASSUME NEW i \in DOMAIN r
          PROVE  \/ i \in DOMAIN p /\ r[i] = p[i]
                 \/ i > Len(p) /\ i - Len(p) + 1 \in DOMAIN q /\ r[i] = q[i - Len(p) + 1]
      <3>1. i \in 1 .. Len(r) /\ i \in Nat /\ i >= 1
        BY <2>2, <2>4
      <3>2. CASE i <= Len(p)
        BY <2>2, <2>4, <3>1, <3>2
      <3>3. CASE ~(i <= Len(p))
        <4>1. i > Len(p)
          BY <2>4, <3>1, <3>3
        <4>2. i - Len(p) + 1 \in DOMAIN q
          BY <2>3, <2>4, <3>1, <3>3
        <4>3. r[i] = q[i - Len(p) + 1]
          BY <2>2, <3>1, <3>3
        <4> QED BY <4>1, <4>2, <4>3
      <3> QED BY <3>2, <3>3
    <2> QED BY <1>1, <2>5 DEF q, r
  <1> QED BY <1>2, <1>3

\* Going on takes up the steps that are added.
LEMMA GoTakesUp ==
  ASSUME TodoOK, NEW t \in Threads, todo[t] # <<>>, NEW p, Go(t, p)
  PROVE  TakesUp(t, p)
  BY DEF Go, TakesUp, Rest, TodoOK

\* Beginning a call takes up its steps.
LEMMA BeginTakesUp ==
  ASSUME TodoOK, NEW t \in Threads, todo[t] = <<>>, NEW p \in Seq(Steps), todo' = [todo EXCEPT ![t] = p]
  PROVE  TakesUp(t, p)
  <1>1. p \o Rest(todo[t]) = p
    BY DEF Rest
  <1> QED BY <1>1 DEF TakesUp, TodoOK

-------------------------------------------------------------------------------
(* The steps a thread takes up: quiet ones, or one that calls blocks which  *)
(* are taken from the lists at once.                                        *)

Quiet == StepNames \ {"tell", "notify"}
QuietSteps(p) == p \in Seq(Steps) /\ \A i \in DOMAIN p : p[i].name \in Quiet

Tells(q, w) == {i \in DOMAIN q : q[i].name = "tell" /\ w \in q[i].waits}
Telling(p, W) ==
  /\ p \in Seq(Steps) /\ \A i \in DOMAIN p : p[i].name # "notify"
  /\ \A w \in Waits : (w \notin W => Tells(p, w) = {}) /\ \A i, j \in Tells(p, w) : i = j

TakenFrom(D) == UNION {lists[d] : d \in D}
Moves(t, p) ==
  /\ TakesUp(t, p) /\ told' = told /\ committed' = committed
  /\ \/ QuietSteps(p) /\ lists' = lists
     \/ \E D \in SUBSET Directions :
          /\ Telling(p, TakenFrom(D))
          /\ lists' = [d \in Directions |-> IF d \in D THEN {} ELSE lists[d]]

\* Steps that tell nobody of anything are quiet.
LEMMA QuietNamed ==
  /\ QuietSteps(<<>>)
  /\ \A n \in Quiet : Step(n) \in Steps /\ QuietSteps(<<Step(n)>>)
  /\ \A n, m \in Quiet : QuietSteps(<<Step(n), Step(m)>>)
  <1>1. \A n \in Quiet : Step(n) \in Steps /\ Step(n).name = n
    BY DEF Step, Steps, Quiet
  <1>2. \A n \in Quiet : <<Step(n)>> \in Seq(Steps) /\ DOMAIN <<Step(n)>> = {1} /\ <<Step(n)>>[1] = Step(n)
    BY <1>1
  <1>3. \A n, m \in Quiet : LET p == <<Step(n), Step(m)>> IN
          p \in Seq(Steps) /\ DOMAIN p = {1, 2} /\ p[1] = Step(n) /\ p[2] = Step(m)
    BY <1>1
  <1>4. \A n \in Quiet : QuietSteps(<<Step(n)>>)
    BY <1>1, <1>2 DEF QuietSteps
  <1>5. \A n, m \in Quiet : QuietSteps(<<Step(n), Step(m)>>)
    BY <1>1, <1>3 DEF QuietSteps
  <1>6. QuietSteps(<<>>)
    BY DEF QuietSteps
  <1> QED BY <1>1, <1>4, <1>5, <1>6

\* Quiet steps after quiet steps are quiet.
LEMMA QuietConcat ==
  ASSUME NEW p, QuietSteps(p), NEW q, QuietSteps(q)
  PROVE  QuietSteps(p \o q)
  <1>1. p \o q \in Seq(Steps) /\ Len(p \o q) = Len(p) + Len(q)
        /\ \A i \in 1 .. Len(p \o q) : (p \o q)[i] = IF i <= Len(p) THEN p[i] ELSE q[i - Len(p)]
    BY DEF QuietSteps
  <1> QED BY <1>1 DEF QuietSteps

\* Telling some blocks tells no other, and none twice.
LEMMA TellingTell ==
  ASSUME NEW W \in SUBSET Waits
  PROVE  Telling(Tell(W), W)
  <1>1. Tell(W) \in Seq(Steps)
    BY PlainTell DEF Plain
  <1>2. CASE W = {}
    <2>1. Tell(W) = <<>>
      BY <1>2 DEF Tell
    <2> QED BY <2>1 DEF Telling, Tells
  <1>3. CASE W # {}
    <2> DEFINE x == [name |-> "tell", waits |-> W]
    <2>1. Tell(W) = <<x>> /\ x.name = "tell" /\ x.waits = W
      BY <1>3 DEF Tell
    <2>2. "tell" # "notify"
      OBVIOUS
    <2> HIDE DEF x
    <2>3. DOMAIN Tell(W) = {1} /\ Tell(W)[1] = x
      BY <2>1
    <2> QED BY <1>1, <2>1, <2>2, <2>3 DEF Telling, Tells
  <1> QED BY <1>2, <1>3

\* Quiet steps before or after tell nobody.
LEMMA TellingConcat ==
  ASSUME NEW W, NEW p, Telling(p, W), NEW a, QuietSteps(a)
  PROVE  Telling(a \o p, W) /\ Telling(p \o a, W)
  <1>0. p \in Seq(Steps) /\ a \in Seq(Steps) /\ "tell" \notin Quiet /\ "notify" \notin Quiet
    BY DEF Telling, QuietSteps, Quiet
  <1>1. /\ a \o p \in Seq(Steps) /\ Len(a \o p) = Len(a) + Len(p)
        /\ \A i \in 1 .. Len(a \o p) : (a \o p)[i] = IF i <= Len(a) THEN a[i] ELSE p[i - Len(a)]
    BY <1>0
  <1>2. /\ p \o a \in Seq(Steps) /\ Len(p \o a) = Len(p) + Len(a)
        /\ \A i \in 1 .. Len(p \o a) : (p \o a)[i] = IF i <= Len(p) THEN p[i] ELSE a[i - Len(p)]
    BY <1>0
  <1>3. \A i \in DOMAIN (a \o p) :
          \/ (a \o p)[i].name \in Quiet
          \/ i > Len(a) /\ i - Len(a) \in DOMAIN p /\ (a \o p)[i] = p[i - Len(a)]
    BY <1>0, <1>1 DEF QuietSteps
  <1>4. \A i \in DOMAIN (p \o a) :
          \/ (p \o a)[i].name \in Quiet
          \/ i \in DOMAIN p /\ (p \o a)[i] = p[i]
    BY <1>0, <1>2 DEF QuietSteps
  <1>5. Telling(a \o p, W)
    <2> DEFINE r == a \o p
    <2>1. r \in Seq(Steps) /\ DOMAIN r \subseteq Nat /\ Len(a) \in Nat
      BY <1>0, <1>1
    <2>2. \A i \in DOMAIN r :
            \/ r[i].name \in Quiet
            \/ i > Len(a) /\ i - Len(a) \in DOMAIN p /\ r[i] = p[i - Len(a)]
      BY <1>3
    <2> HIDE DEF r
    <2>3. \A i \in DOMAIN r : r[i].name # "notify"
      BY <1>0, <2>2 DEF Telling
    <2>4. \A w : \A i \in Tells(r, w) : i - Len(a) \in Tells(p, w)
      BY <1>0, <2>2 DEF Tells
    <2>5. ASSUME NEW w \in Waits PROVE (w \notin W => Tells(r, w) = {}) /\ \A i, j \in Tells(r, w) : i = j
      <3>1. \A i, j \in Tells(r, w) : i - Len(a) = j - Len(a)
        BY <2>4 DEF Telling
      <3>2. \A i, j \in Tells(r, w) : i = j
        BY <2>1, <3>1 DEF Tells
      <3> QED BY <2>4, <3>2 DEF Telling
    <2> QED BY <2>1, <2>3, <2>5 DEF Telling, r
  <1>6. Telling(p \o a, W)
    <2> DEFINE r == p \o a
    <2>1. r \in Seq(Steps)
      BY <1>2
    <2>2. \A i \in DOMAIN r : r[i].name \in Quiet \/ (i \in DOMAIN p /\ r[i] = p[i])
      BY <1>4
    <2> HIDE DEF r
    <2>3. \A i \in DOMAIN r : r[i].name # "notify"
      BY <1>0, <2>2 DEF Telling
    <2>4. \A w : \A i \in Tells(r, w) : i \in Tells(p, w)
      BY <1>0, <2>2 DEF Tells
    <2> QED BY <2>1, <2>3, <2>4 DEF Telling, r
  <1> QED BY <1>5, <1>6

\* The blocks of every list, and those of one.
LEMMA TakenAll ==
  ASSUME TodoOK
  PROVE  /\ TakenFrom(Directions) = Waiting
         /\ Empty = [d \in Directions |-> IF d \in Directions THEN {} ELSE lists[d]]
         /\ \A e \in Directions :
              /\ TakenFrom({e}) = lists[e]
              /\ [lists EXCEPT ![e] = {}] = [d \in Directions |-> IF d \in {e} THEN {} ELSE lists[d]]
  <1>1. TakenFrom(Directions) = Waiting
    BY DEF TakenFrom, Waiting
  <1>2. Empty = [d \in Directions |-> IF d \in Directions THEN {} ELSE lists[d]]
    BY DEF Empty
  <1>3. \A e \in Directions : TakenFrom({e}) = lists[e]
    BY DEF TakenFrom
  <1>4. \A e \in Directions :
          [lists EXCEPT ![e] = {}] = [d \in Directions |-> IF d \in {e} THEN {} ELSE lists[d]]
    BY DEF TodoOK
  <1> QED BY <1>1, <1>2, <1>3, <1>4

\* Emptying the lists into a call moves the blocks to it.
LEMMA EmptyingMoves ==
  ASSUME TodoOK, NEW t \in Threads, NEW p, TakesUp(t, p), Telling(p, Waiting), lists' = Empty,
         UNCHANGED <<told, committed>>
  PROVE  Moves(t, p)
  <1>1. Telling(p, TakenFrom(Directions))
        /\ lists' = [d \in Directions |-> IF d \in Directions THEN {} ELSE lists[d]]
    BY TakenAll
  <1> QED BY <1>1 DEF Moves

\* Becoming inactive tells the blocks that wait, each once.
LEMMA EndingTells ==
  ASSUME TodoOK, NEW more, QuietSteps(more)
  PROVE  /\ Telling(<<Step("unregister")>> \o Tell(Waiting) \o more, Waiting)
         /\ Telling(<<Step("unregister")>> \o Tell(Waiting), Waiting)
         /\ Telling(Tell(Waiting) \o more, Waiting)
  <1>1. Telling(Tell(Waiting), Waiting)
    BY WaitingOK, TellingTell
  <1>2. QuietSteps(<<Step("unregister")>>)
    BY QuietNamed DEF Quiet, StepNames, PlainNames
  <1> QED BY <1>1, <1>2, TellingConcat

\* The names of the quiet steps.
LEMMA QuietNames ==
  {"register", "refer", "unlock", "revive", "drop", "unregister", "release", "logout", "loggedOut",
   "configure", "invalidate"} \cup Errors \subseteq Quiet
  BY DEF Quiet, StepNames, PlainNames, Errors

\* Every call moves blocks, or is a commit, or a wait.
LEMMA CallMoves ==
  ASSUME TodoOK, NEW t \in Callers, Call(t)
  PROVE  \/ \E p : Moves(t, p)
         \/ Commit(t)
         \/ \E d \in Directions : WaitFor(t, d)
  <1>1. t \in Threads
    BY ThreadsOK
  <1>2. ASSUME NEW p, QuietSteps(p), Begin(t, p), UNCHANGED <<lists, told, committed>>
        PROVE  \E q : Moves(t, q)
    <2>1. TakesUp(t, p)
      BY <1>1, <1>2, BeginTakesUp DEF Begin, QuietSteps
    <2> QED BY <1>2, <2>1 DEF Moves
  <1>3. ASSUME NEW n \in Quiet, Begin(t, <<Step(n)>>), UNCHANGED <<lists, told, committed>>
        PROVE  \E q : Moves(t, q)
    BY <1>2, <1>3, QuietNamed
  <1>4. ASSUME Begin(t, <<>>), UNCHANGED <<lists, told, committed>>
        PROVE  \E q : Moves(t, q)
    BY <1>2, <1>4, QuietNamed
  <1>5. CASE GetSession(t)
    <2>1. PICK n \in {"refer", "unlock"} : Begin(t, <<Step("register"), Step(n)>>)
      BY <1>5 DEF GetSession
    <2>2. UNCHANGED <<lists, told, committed>>
      BY <1>5 DEF GetSession, Session
    <2>3. QuietSteps(<<Step("register"), Step(n)>>)
      BY QuietNamed, QuietNames
    <2> QED BY <1>2, <2>1, <2>2, <2>3
  <1>6. CASE DropReference(t)
    <2>1. Begin(t, <<Step("drop")>>) \/ Begin(t, <<>>)
      BY <1>6 DEF DropReference
    <2>2. UNCHANGED <<lists, told, committed>>
      BY <1>6 DEF DropReference, Session
    <2> QED BY <1>3, <1>4, <2>1, <2>2, QuietNames
  <1>7. CASE LogOutUser(t)
    <2>1. UNCHANGED <<lists, told, committed>>
      BY <1>7 DEF LogOutUser, Session
    <2> DEFINE p == (IF user.pool = "sessions" /\ Alive THEN <<Step("logout")>> ELSE <<>>)
                      \o <<Step("loggedOut")>>
    <2>2. Begin(t, p)
      BY <1>7 DEF LogOutUser
    <2>3. QuietSteps(p)
      <3>1. QuietSteps(<<Step("logout")>>) /\ QuietSteps(<<Step("loggedOut")>>) /\ QuietSteps(<<>>)
        BY QuietNamed, QuietNames
      <3> QED BY <3>1, QuietConcat
    <2> HIDE DEF p
    <2> QED BY <1>2, <2>1, <2>2, <2>3
  <1>8. CASE LogIn(t)
    <2>1. Begin(t, <<Step("revive")>>) \/ Begin(t, <<>>)
      BY <1>8 DEF LogIn
    <2>2. UNCHANGED <<lists, told, committed>>
      BY <1>8 DEF LogIn, Session
    <2> QED BY <1>3, <1>4, <2>1, <2>2, QuietNames
  <1>9. CASE Suspend(t) \/ Resume(t) \/ NewHeaders(t)
    <2>1. PICK n \in {"logout", "revive", "configure"} : Begin(t, <<Step(n)>>)
      BY <1>9 DEF Suspend, Resume, NewHeaders
    <2>2. UNCHANGED <<lists, told, committed>>
      BY <1>9 DEF Suspend, Resume, NewHeaders, Session, Outside
    <2> QED BY <1>3, <2>1, <2>2, QuietNames
  <1> QED BY <1>5, <1>6, <1>7, <1>8, <1>9 DEF Call

\* Every later step of a thread moves blocks or calls them.
LEMMA GoOnMoves ==
  ASSUME TodoOK, NEW t \in Threads, GoOn(t)
  PROVE  (\E p : Moves(t, p)) \/ CallBlocks(t)
  <1>1. ASSUME NEW p, QuietSteps(p), Go(t, p), todo[t] # <<>>, UNCHANGED <<lists, told, committed>>
        PROVE  \E q : Moves(t, q)
    BY <1>1, GoTakesUp DEF Moves
  <1>2. ASSUME NEW n \in Quiet, Go(t, <<Step(n)>>), todo[t] # <<>>, UNCHANGED <<lists, told, committed>>
        PROVE  \E q : Moves(t, q)
    BY <1>1, <1>2, QuietNamed
  <1>3. ASSUME Go(t, <<>>), todo[t] # <<>>, UNCHANGED <<lists, told, committed>>
        PROVE  \E q : Moves(t, q)
    BY <1>1, <1>3, QuietNamed
  <1>4. ASSUME NEW more, QuietSteps(more), EnterInactive(t, more), todo[t] # <<>>, UNCHANGED <<told, committed>>
        PROVE  \E q : Moves(t, q)
    BY <1>4, GoTakesUp, EndingTells, EmptyingMoves DEF EnterInactive
  <1>5. CASE Register(t)
    <2>1. Go(t, <<Step("revive")>>) \/ Go(t, <<>>)
      BY <1>5 DEF Register
    <2>2. todo[t] # <<>> /\ UNCHANGED <<lists, told, committed>>
      BY <1>5 DEF Register, At, Session
    <2> QED BY <1>2, <1>3, <2>1, <2>2, QuietNames
  <1>6. CASE Refer(t) \/ Unlock(t) \/ LoggedOut(t) \/ ReviveIfNeeded(t) \/ Notify(t)
    <2>1. Go(t, <<>>) /\ todo[t] # <<>> /\ UNCHANGED <<lists, told, committed>>
      BY <1>6 DEF Refer, Unlock, LoggedOut, ReviveIfNeeded, Revive, Notify, At, Session, Outside
    <2> QED BY <1>3, <2>1
  <1>7. CASE DidDrop(t)
    <2>1. todo[t] # <<>> /\ UNCHANGED <<told, committed>>
      BY <1>7 DEF DidDrop, At, Outside
    <2>2. Close(t) \/ Stays(t)
      BY <1>7, Zenon DEF DidDrop
    <2>3. \/ Go(t, <<Step("unregister")>>) /\ UNCHANGED lists
          \/ EnterInactive(t, <<>>)
          \/ Go(t, <<>>) /\ UNCHANGED lists
      BY <2>2 DEF Close, EnterDying, Stays
    <2> QED BY <1>2, <1>3, <1>4, <2>1, <2>3, QuietNames, QuietNamed
  <1>8. CASE Unregister(t)
    <2>1. Go(t, <<Step("release")>>) \/ Go(t, <<>>)
      BY <1>8 DEF Unregister
    <2>2. todo[t] # <<>> /\ UNCHANGED <<lists, told, committed>>
      BY <1>8 DEF Unregister, At, Session
    <2> QED BY <1>2, <1>3, <2>1, <2>2, QuietNames
  <1>9. CASE Release(t)
    <2>1. Go(t, <<Step("drop"), Step("unlock")>>) \/ Go(t, <<Step("unlock")>>)
      BY <1>9 DEF Release
    <2>2. todo[t] # <<>> /\ UNCHANGED <<lists, told, committed>>
      BY <1>9 DEF Release, At, Session
    <2>3. QuietSteps(<<Step("drop"), Step("unlock")>>)
      BY QuietNamed, QuietNames
    <2> QED BY <1>1, <1>2, <2>1, <2>2, <2>3, QuietNames
  <1>10. CASE LogOut(t)
    <2>1. todo[t] # <<>> /\ UNCHANGED <<told, committed>>
      BY <1>10 DEF LogOut, At, Outside
    <2>2. EnterInactive(t, <<>>) \/ (Go(t, <<>>) /\ UNCHANGED lists)
      BY <1>10 DEF LogOut, Stays
    <2> QED BY <1>3, <1>4, <2>1, <2>2, QuietNamed
  <1>11. CASE UpdateConfiguration(t)
    <2>1. todo[t] # <<>> /\ UNCHANGED <<told, committed>>
      BY <1>11 DEF UpdateConfiguration, At, Outside
    <2>2. EnterInactive(t, <<Step("configure")>>) \/ (Go(t, <<Step("revive")>>) /\ UNCHANGED lists)
      BY <1>11 DEF UpdateConfiguration, Session
    <2>3. QuietSteps(<<Step("configure")>>)
      BY QuietNamed, QuietNames
    <2> QED BY <1>2, <1>4, <2>1, <2>2, <2>3, QuietNames
  <1> QED BY <1>5, <1>6, <1>7, <1>8, <1>9, <1>10, <1>11 DEF GoOn

\* Every step of the client moves blocks or leaves them.
LEMMA ClientMoves ==
  ASSUME TodoOK, Client
  PROVE  (\E p : Moves(client, p)) \/ UNCHANGED <<todo, lists, told, committed>>
  <1>0. client \in Threads /\ QuietSteps(<<>>)
    BY ThreadsOK, QuietNamed
  <1> DEFINE ends == <<Step("unregister")>> \o Tell(Waiting)
  <1>1. Telling(ends, Waiting)
    BY <1>0, EndingTells
  <1>2. ASSUME todo[client] = <<>>, lists' = Empty, todo' = [todo EXCEPT ![client] = ends],
               UNCHANGED <<told, committed>>
        PROVE  \E p : Moves(client, p)
    <2>1. TakesUp(client, ends)
      BY <1>0, <1>1, <1>2, BeginTakesUp DEF Telling
    <2> QED BY <1>0, <1>1, <1>2, <2>1, EmptyingMoves
  <1> HIDE DEF ends
  <1>3. CASE Upload
    BY <1>3 DEF Upload, Outside
  <1>4. CASE \E h \in DOMAIN link.handlers : Completed(h)
    <2>1. PICK h \in DOMAIN link.handlers : Completed(h)
      BY <1>4
    <2>2. todo[client] = <<>> /\ UNCHANGED <<told, committed>>
      BY <2>1 DEF Completed, Outside
    <2>3. \/ lists' = Empty /\ todo' = [todo EXCEPT ![client] = ends]
          \/ /\ h.kind \in Directions /\ lists' = [lists EXCEPT ![h.kind] = {}]
             /\ todo' = [todo EXCEPT ![client] = Tell(lists[h.kind])]
          \/ UNCHANGED <<lists, todo>>
      BY <2>1 DEF Completed, ends
    <2>4. CASE /\ h.kind \in Directions /\ lists' = [lists EXCEPT ![h.kind] = {}]
               /\ todo' = [todo EXCEPT ![client] = Tell(lists[h.kind])]
      <3>1. lists[h.kind] \in SUBSET Waits
        BY <2>4 DEF TodoOK
      <3>2. Telling(Tell(lists[h.kind]), TakenFrom({h.kind}))
        BY <2>4, <3>1, TakenAll, TellingTell
      <3>3. TakesUp(client, Tell(lists[h.kind]))
        BY <1>0, <2>2, <2>4, <3>2, BeginTakesUp DEF Telling
      <3>4. lists' = [d \in Directions |-> IF d \in {h.kind} THEN {} ELSE lists[d]]
        BY <2>4, TakenAll
      <3>5. \E D \in SUBSET Directions :
              /\ Telling(Tell(lists[h.kind]), TakenFrom(D))
              /\ lists' = [d \in Directions |-> IF d \in D THEN {} ELSE lists[d]]
        <4>1. {h.kind} \in SUBSET Directions
          BY <2>4
        <4> QED BY <4>1, <3>2, <3>4
      <3> QED BY <2>2, <3>3, <3>5 DEF Moves
    <2> QED BY <1>2, <2>2, <2>3, <2>4
  <1>5. CASE \E error \in Errors, fatal \in BOOLEAN : HandleError(error, fatal)
    <2>1. PICK error \in Errors, fatal \in BOOLEAN : HandleError(error, fatal)
      BY <1>5
    <2>2. todo[client] = <<>> /\ UNCHANGED <<told, committed>>
      BY <2>1 DEF HandleError, Outside
    <2>3. \/ lists' = Empty /\ todo' = [todo EXCEPT ![client] = ends]
          \/ UNCHANGED lists /\ todo' = [todo EXCEPT ![client] = <<Step(error)>>]
          \/ UNCHANGED <<lists, todo>>
      BY <2>1 DEF HandleError, ends
    <2>4. CASE UNCHANGED lists /\ todo' = [todo EXCEPT ![client] = <<Step(error)>>]
      <3>1. QuietSteps(<<Step(error)>>)
        BY QuietNamed, QuietNames
      <3>2. TakesUp(client, <<Step(error)>>)
        BY <1>0, <2>2, <2>4, <3>1, BeginTakesUp DEF QuietSteps
      <3> QED BY <2>2, <2>4, <3>1, <3>2 DEF Moves
    <2> QED BY <1>2, <2>2, <2>3, <2>4
  <1>6. ASSUME NEW p, Go(client, p), todo[client] # <<>>, QuietSteps(p), UNCHANGED <<lists, told, committed>>
        PROVE  \E q : Moves(client, q)
    BY <1>0, <1>6, GoTakesUp DEF Moves
  <1>7. CASE TokenExpired \/ Invalidate
    <2>1. Go(client, <<>>) /\ todo[client] # <<>> /\ UNCHANGED <<lists, told, committed>>
      BY <1>7 DEF TokenExpired, Invalidate, At, Outside, Session
    <2> QED BY <1>0, <1>6, <2>1
  <1>8. CASE BadAuthentication \/ OtherError
    <2>1. PICK more \in {<<>>, <<Step("invalidate")>>} : Go(client, Tell(Waiting) \o more)
      BY <1>8 DEF BadAuthentication, OtherError, CancelPendingWaits
    <2>2. todo[client] # <<>> /\ lists' = Empty /\ UNCHANGED <<told, committed>>
      BY <1>8 DEF BadAuthentication, OtherError, CancelPendingWaits, At, Outside
    <2>3. QuietSteps(more)
      BY QuietNamed, QuietNames
    <2>4. Telling(Tell(Waiting) \o more, Waiting)
      BY <2>3, EndingTells
    <2> QED BY <1>0, <2>1, <2>2, <2>4, GoTakesUp, EmptyingMoves
  <1>9. CASE FileError
    <2> DEFINE p == <<Step("unregister")>> \o Tell(Waiting) \o <<>>
    <2>1. Go(client, p) /\ todo[client] # <<>> /\ lists' = Empty /\ UNCHANGED <<told, committed>>
      BY <1>9 DEF FileError, EnterInactive, At, Outside
    <2>2. Telling(p, Waiting)
      BY <1>0, EndingTells
    <2> HIDE DEF p
    <2> QED BY <1>0, <2>1, <2>2, GoTakesUp, EmptyingMoves
  <1> QED BY <1>3, <1>4, <1>5, <1>7, <1>8, <1>9 DEF Client

-------------------------------------------------------------------------------
(* No block is in two places. *)

InOnePlace ==
  \A w \in Waits :
    /\ told[w] \in {0, 1}
    /\ told[w] = 1 => /\ \A d \in Directions : w \notin lists[d]
                      /\ \A t \in Threads : Tells(todo[t], w) = {}
    /\ \A d \in Directions : w \in lists[d] =>
         /\ \A e \in Directions : w \in lists[e] => e = d
         /\ \A t \in Threads : Tells(todo[t], w) = {}
    /\ \A t, u \in Threads : \A i \in Tells(todo[t], w), j \in Tells(todo[u], w) : t = u /\ i = j

\* What a thread is about to call is what it takes up or what it had.
LEMMA TellsTaken ==
  ASSUME TodoOK, NEW t \in Threads, NEW p \in Seq(Steps), TakesUp(t, p), NEW w
  PROVE  /\ \A u \in Threads \ {t} : Tells(todo'[u], w) = Tells(todo[u], w)
         /\ \A i \in Tells(todo'[t], w) :
              \/ i \in Tells(p, w)
              \/ i \in Nat /\ i > Len(p) /\ i - Len(p) + 1 \in Tells(todo[t], w)
  <1>1. \A i \in DOMAIN todo'[t] :
          \/ i \in DOMAIN p /\ todo'[t][i] = p[i]
          \/ /\ i > Len(p) /\ i - Len(p) + 1 \in DOMAIN todo[t]
             /\ todo'[t][i] = todo[t][i - Len(p) + 1]
    BY Taken
  <1>2. DOMAIN todo'[t] \subseteq Nat
    <2>1. todo[t] \in Seq(Steps) /\ Rest(todo[t]) \in Seq(Steps)
      BY DEF TodoOK, Rest
    <2> DEFINE rest == Rest(todo[t])
    <2>2. p \o rest \in Seq(Steps)
      <3> HIDE DEF rest
      <3> QED BY <2>1 DEF rest
    <2>3. todo'[t] = p \o rest
      BY Taken
    <2> HIDE DEF rest
    <2> QED BY <2>2, <2>3
  <1>3. \A u \in Threads \ {t} : todo'[u] = todo[u]
    BY Taken
  <1> QED BY <1>1, <1>2, <1>3 DEF Tells

\* What takes up no call of w leaves w where it is.
LEMMA UntoldStays ==
  ASSUME TodoOK, NEW t \in Threads, NEW p \in Seq(Steps), TakesUp(t, p), NEW w, Tells(p, w) = {},
         \A v, u \in Threads : \A i \in Tells(todo[v], w), j \in Tells(todo[u], w) : v = u /\ i = j
  PROVE  /\ (\A u \in Threads : Tells(todo[u], w) = {}) => \A u \in Threads : Tells(todo'[u], w) = {}
         /\ \A v, u \in Threads : \A i \in Tells(todo'[v], w), j \in Tells(todo'[u], w) : v = u /\ i = j
  <1> DEFINE n == Len(p)
  <1>1. n \in Nat
    OBVIOUS
  <1>2. \A u \in Threads \ {t} : Tells(todo'[u], w) = Tells(todo[u], w)
    BY TellsTaken
  <1>3. \A i \in Tells(todo'[t], w) : i \in Nat /\ i - n + 1 \in Tells(todo[t], w)
    BY TellsTaken
  <1> HIDE DEF n
  <1>4. \A i, j \in Tells(todo'[t], w) : i = j
    <2> SUFFICES ASSUME NEW i \in Tells(todo'[t], w), NEW j \in Tells(todo'[t], w) PROVE i = j
      OBVIOUS
    <2>1. /\ i \in Nat /\ i - n + 1 \in Tells(todo[t], w)
          /\ j \in Nat /\ j - n + 1 \in Tells(todo[t], w)
      BY <1>3
    <2>2. \A k, l \in Tells(todo[t], w) : k = l
      OBVIOUS
    <2>3. i - n + 1 = j - n + 1
      BY <2>1, <2>2
    <2> QED BY <1>1, <2>1, <2>3
  <1>5. (\A u \in Threads : Tells(todo[u], w) = {}) => \A u \in Threads : Tells(todo'[u], w) = {}
    BY <1>2, <1>3
  <1>6. ASSUME NEW v \in Threads, NEW u \in Threads, NEW i \in Tells(todo'[v], w), NEW j \in Tells(todo'[u], w)
        PROVE  v = u
    <2>1. \E k \in Tells(todo[v], w) : TRUE
      BY <1>2, <1>3
    <2>2. \E k \in Tells(todo[u], w) : TRUE
      BY <1>2, <1>3
    <2> QED BY <2>1, <2>2
  <1>7. ASSUME NEW v \in Threads, NEW i \in Tells(todo'[v], w), NEW j \in Tells(todo'[v], w)
        PROVE  i = j
    <2>1. CASE v = t
      BY <1>4, <2>1
    <2>2. CASE v # t
      BY <1>2, <2>2
    <2> QED BY <2>1, <2>2
  <1> QED BY <1>5, <1>6, <1>7

\* A move leaves each block in one place.
LEMMA MovesInOnePlace ==
  ASSUME TodoOK, InOnePlace, NEW t \in Threads, NEW p, Moves(t, p)
  PROVE  InOnePlace'
  <1>1. TakesUp(t, p) /\ told' = told /\ p \in Seq(Steps)
    BY DEF Moves, QuietSteps, Telling
  <1> SUFFICES ASSUME NEW w \in Waits
               PROVE  /\ told'[w] \in {0, 1}
                      /\ told'[w] = 1 => /\ \A d \in Directions : w \notin lists'[d]
                                         /\ \A u \in Threads : Tells(todo'[u], w) = {}
                      /\ \A d \in Directions : w \in lists'[d] =>
                           /\ \A e \in Directions : w \in lists'[e] => e = d
                           /\ \A u \in Threads : Tells(todo'[u], w) = {}
                      /\ \A v, u \in Threads : \A i \in Tells(todo'[v], w), j \in Tells(todo'[u], w) :
                           v = u /\ i = j
    BY DEF InOnePlace, Tells
  <1>2. ASSUME Tells(p, w) = {}, \A d \in Directions : w \in lists'[d] => w \in lists[d]
        PROVE  /\ told'[w] \in {0, 1}
               /\ told'[w] = 1 => /\ \A d \in Directions : w \notin lists'[d]
                                  /\ \A u \in Threads : Tells(todo'[u], w) = {}
               /\ \A d \in Directions : w \in lists'[d] =>
                    /\ \A e \in Directions : w \in lists'[e] => e = d
                    /\ \A u \in Threads : Tells(todo'[u], w) = {}
               /\ \A v, u \in Threads : \A i \in Tells(todo'[v], w), j \in Tells(todo'[u], w) :
                    v = u /\ i = j
    <2>1. /\ (\A u \in Threads : Tells(todo[u], w) = {}) => \A u \in Threads : Tells(todo'[u], w) = {}
          /\ \A v, u \in Threads : \A i \in Tells(todo'[v], w), j \in Tells(todo'[u], w) : v = u /\ i = j
      BY <1>1, <1>2, UntoldStays DEF InOnePlace
    <2> QED BY <1>1, <1>2, <2>1 DEF InOnePlace
  <1>3. CASE QuietSteps(p) /\ lists' = lists
    <2>1. Tells(p, w) = {}
      BY <1>3 DEF QuietSteps, Tells, Quiet
    <2> QED BY <1>2, <1>3, <2>1
  <1>4. CASE \E D \in SUBSET Directions :
               /\ Telling(p, TakenFrom(D))
               /\ lists' = [d \in Directions |-> IF d \in D THEN {} ELSE lists[d]]
    <2>1. PICK D \in SUBSET Directions :
            /\ Telling(p, TakenFrom(D))
            /\ lists' = [d \in Directions |-> IF d \in D THEN {} ELSE lists[d]]
      BY <1>4
    <2>2. CASE w \notin TakenFrom(D)
      <3>1. Tells(p, w) = {}
        BY <2>1, <2>2 DEF Telling
      <3>2. \A d \in Directions : w \in lists'[d] => w \in lists[d]
        BY <2>1
      <3> QED BY <1>2, <3>1, <3>2
    <2>3. CASE w \in TakenFrom(D)
      <3>1. PICK d \in D : w \in lists[d]
        BY <2>3 DEF TakenFrom
      <3>2. /\ told[w] # 1 /\ \A e \in Directions : w \in lists[e] => e = d
            /\ \A u \in Threads : Tells(todo[u], w) = {}
        BY <2>1, <3>1 DEF InOnePlace
      <3>3. \A e \in Directions : w \notin lists'[e]
        BY <2>1, <3>1, <3>2
      <3>4. /\ \A u \in Threads \ {t} : Tells(todo'[u], w) = {}
            /\ \A i \in Tells(todo'[t], w) : i \in Tells(p, w)
        BY <1>1, <3>2, TellsTaken
      <3>5. \A i, j \in Tells(p, w) : i = j
        BY <2>1 DEF Telling
      <3>6. \A v, u \in Threads : \A i \in Tells(todo'[v], w), j \in Tells(todo'[u], w) : v = u /\ i = j
        BY <3>4, <3>5
      <3>7. told'[w] = 0
        BY <1>1, <3>2 DEF InOnePlace
      <3> QED BY <3>3, <3>6, <3>7
    <2> QED BY <2>2, <2>3
  <1> QED BY <1>3, <1>4 DEF Moves

\* A new wait puts its block in one list.
LEMMA WaitForInOnePlace ==
  ASSUME TodoOK, InOnePlace, NEW t \in Callers, NEW d \in Directions, WaitFor(t, d)
  PROVE  InOnePlace'
  <1>1. PICK w \in Waits \ Waited : lists' = [lists EXCEPT ![d] = @ \cup {w}]
    BY DEF WaitFor
  <1>2. told' = told /\ todo' = todo
    <2>1. t \in Threads /\ todo[t] = <<>> /\ todo' = [todo EXCEPT ![t] = <<>>] /\ told' = told
      BY ThreadsOK DEF WaitFor, Begin, Outside
    <2> QED BY <2>1 DEF TodoOK
  <1>3. /\ \A e \in Directions : w \notin lists[e]
        /\ told[w] # 1
        /\ \A u \in Threads : Tells(todo[u], w) = {}
    <2>1. \A e \in Directions : w \notin lists[e]
      BY <1>1 DEF Waited, Waiting
    <2>2. told[w] # 1
      BY <1>1 DEF Waited
    <2>3. ASSUME NEW u \in Threads, NEW i \in Tells(todo[u], w) PROVE FALSE
      <3>1. todo[u][i] \in Range(todo[u]) /\ todo[u][i].name = "tell" /\ w \in todo[u][i].waits
        BY <2>3 DEF Tells, Range
      <3> QED BY <1>1, <3>1 DEF Waited
    <2> QED BY <2>1, <2>2, <2>3
  <1>4. \A e \in Directions : lists'[e] = IF e = d THEN lists[d] \cup {w} ELSE lists[e]
    BY <1>1 DEF TodoOK
  <1> SUFFICES ASSUME NEW x \in Waits
               PROVE  /\ told[x] \in {0, 1}
                      /\ told[x] = 1 => /\ \A e \in Directions : x \notin lists'[e]
                                        /\ \A u \in Threads : Tells(todo[u], x) = {}
                      /\ \A e \in Directions : x \in lists'[e] =>
                           /\ \A f \in Directions : x \in lists'[f] => f = e
                           /\ \A u \in Threads : Tells(todo[u], x) = {}
                      /\ \A v, u \in Threads : \A i \in Tells(todo[v], x), j \in Tells(todo[u], x) :
                           v = u /\ i = j
    BY <1>2 DEF InOnePlace, Tells
  <1>5. CASE x = w
    BY <1>3, <1>4, <1>5 DEF InOnePlace
  <1>6. CASE x # w
    <2>1. \A e \in Directions : x \in lists'[e] <=> x \in lists[e]
      BY <1>4, <1>6
    <2> QED BY <2>1 DEF InOnePlace
  <1> QED BY <1>5, <1>6

\* Calling the blocks leaves each of them in one place: told.
LEMMA CallBlocksInOnePlace ==
  ASSUME TodoOK, InOnePlace, NEW t \in Threads, CallBlocks(t)
  PROVE  InOnePlace'
  <1> DEFINE W == Head(todo[t]).waits
  <1>1. /\ todo[t] # <<>> /\ todo[t] \in Seq(Steps) /\ Head(todo[t]).name = "tell" /\ TakesUp(t, <<>>)
        /\ lists' = lists /\ told' = [w \in Waits |-> told[w] + IF w \in W THEN 1 ELSE 0]
    BY GoTakesUp DEF CallBlocks, At, TodoOK, Session
  <1>2. <<>> \in Seq(Steps) /\ Len(<<>>) = 0 /\ \A w : Tells(<<>>, w) = {}
    BY DEF Tells
  <1> SUFFICES ASSUME NEW w \in Waits
               PROVE  /\ told'[w] \in {0, 1}
                      /\ told'[w] = 1 => /\ \A d \in Directions : w \notin lists[d]
                                         /\ \A u \in Threads : Tells(todo'[u], w) = {}
                      /\ \A d \in Directions : w \in lists[d] =>
                           /\ \A e \in Directions : w \in lists[e] => e = d
                           /\ \A u \in Threads : Tells(todo'[u], w) = {}
                      /\ \A v, u \in Threads : \A i \in Tells(todo'[v], w), j \in Tells(todo'[u], w) :
                           v = u /\ i = j
    BY <1>1 DEF InOnePlace, Tells
  <1>3. CASE w \in W
    <2>1. 1 \in Tells(todo[t], w)
      BY <1>1, <1>3 DEF Tells
    <2>2. /\ told[w] = 0 /\ \A d \in Directions : w \notin lists[d]
          /\ \A u \in Threads \ {t} : Tells(todo[u], w) = {}
          /\ \A i \in Tells(todo[t], w) : i = 1
      BY <2>1 DEF InOnePlace
    <2>3. \A u \in Threads : Tells(todo'[u], w) = {}
      <3>1. \A u \in Threads \ {t} : Tells(todo'[u], w) = {}
        BY <1>1, <1>2, <2>2, TellsTaken
      <3>2. ASSUME NEW i \in Tells(todo'[t], w) PROVE FALSE
        <4>1. i \in Nat /\ i > 0 /\ i - 0 + 1 \in Tells(todo[t], w)
          BY <1>1, <1>2, TellsTaken
        <4> QED BY <2>2, <4>1
      <3> QED BY <3>1, <3>2
    <2>4. told'[w] = 1
      BY <1>1, <1>3, <2>2
    <2> QED BY <2>2, <2>3, <2>4
  <1>4. CASE w \notin W
    <2>1. /\ (\A u \in Threads : Tells(todo[u], w) = {}) => \A u \in Threads : Tells(todo'[u], w) = {}
          /\ \A v, u \in Threads : \A i \in Tells(todo'[v], w), j \in Tells(todo'[u], w) : v = u /\ i = j
      BY <1>1, <1>2, UntoldStays DEF InOnePlace
    <2>2. told'[w] = told[w]
      BY <1>1, <1>4 DEF InOnePlace
    <2> QED BY <2>1, <2>2 DEF InOnePlace
  <1> QED BY <1>3, <1>4

-------------------------------------------------------------------------------
(* What the session was told of reaches the client. *)

\* A commit that has still to tell the session tells it of the latest version.
Noticed ==
  \A t \in Threads : \A i \in DOMAIN todo[t] :
    todo[t][i].name = "notify" => t \in Writers /\ todo[t][i].from = committed

\* With a token what was noted is announced; while one is waited for, it is
\* kept for the session there is, and a session that is made knows of it all.
Announced ==
  /\ ghost.noted <= committed
  /\ s.state = "inactive" => s.session = 0
  /\ s.state = "waiting" /\ s.session # 0 =>
       ghost.noted <= link.announced \/ ghost.noted <= s.deferredCommit
  /\ s.state \in {"active", "dying"} => ghost.noted <= link.announced

OldNotices ==
  \A u \in Threads : \A i \in DOMAIN todo'[u] :
    todo'[u][i].name = "notify" => \E j \in DOMAIN todo[u] : todo[u][j] = todo'[u][i]

\* Steps that tell of no commit leave the old ones to tell.
LEMMA TakesOldNotices ==
  ASSUME TodoOK, NEW t \in Threads, NEW p \in Seq(Steps), TakesUp(t, p),
         \A i \in DOMAIN p : p[i].name # "notify"
  PROVE  OldNotices
  BY Taken DEF OldNotices

\* A move tells of no new commit.
LEMMA MovesOldNotices ==
  ASSUME TodoOK, NEW t \in Threads, NEW p, Moves(t, p)
  PROVE  OldNotices
  <1>1. TakesUp(t, p) /\ p \in Seq(Steps) /\ \A i \in DOMAIN p : p[i].name # "notify"
    BY DEF Moves, QuietSteps, Telling, Quiet
  <1> QED BY <1>1, TakesOldNotices

\* Only a commit gives notice.
LEMMA NextNotices ==
  ASSUME TodoOK, [Next]_vars
  PROVE  (OldNotices /\ committed' = committed) \/ \E t \in Callers : Commit(t)
  <1>1. ASSUME todo' = todo PROVE OldNotices
    BY <1>1 DEF OldNotices
  <1>2. ASSUME NEW t \in Threads, NEW p, Moves(t, p) PROVE OldNotices /\ committed' = committed
    BY <1>2, MovesOldNotices DEF Moves
  <1>3. ASSUME NEW t \in Threads, TakesUp(t, <<>>) PROVE OldNotices
    <2>1. <<>> \in Seq(Steps) /\ \A i \in DOMAIN <<>> : <<>>[i].name # "notify"
      OBVIOUS
    <2> QED BY <1>3, <2>1, TakesOldNotices
  <1>4. CASE UNCHANGED vars
    BY <1>1, <1>4 DEF vars
  <1>5. CASE RefreshAccessToken
    BY <1>1, <1>5 DEF RefreshAccessToken
  <1>6. ASSUME NEW t \in Callers, Call(t), ~Commit(t) PROVE OldNotices /\ committed' = committed
    <2>1. t \in Threads
      BY ThreadsOK
    <2>2. CASE \E p : Moves(t, p)
      BY <1>2, <2>1, <2>2
    <2>3. CASE \E d \in Directions : WaitFor(t, d)
      <3>1. todo[t] = <<>> /\ todo' = [todo EXCEPT ![t] = <<>>] /\ committed' = committed
        BY <2>3 DEF WaitFor, Begin, Outside
      <3>2. TakesUp(t, <<>>)
        <4>1. <<>> \in Seq(Steps)
          OBVIOUS
        <4> QED BY <2>1, <3>1, <4>1, BeginTakesUp
      <3> QED BY <1>3, <2>1, <3>1, <3>2
    <2> QED BY <1>6, <2>2, <2>3, CallMoves
  <1>7. ASSUME NEW t \in Threads, GoOn(t) PROVE OldNotices /\ committed' = committed
    <2>1. CASE \E p : Moves(t, p)
      BY <1>2, <2>1
    <2>2. CASE CallBlocks(t)
      <3>1. todo[t] # <<>> /\ Go(t, <<>>) /\ committed' = committed
        BY <2>2 DEF CallBlocks, At
      <3> QED BY <1>3, <3>1, GoTakesUp
    <2> QED BY <1>7, <2>1, <2>2, GoOnMoves
  <1>8. CASE Client
    BY <1>1, <1>2, <1>8, ClientMoves, ThreadsOK
  <1> QED BY <1>4, <1>5, <1>6, <1>7, <1>8 DEF Next

\* What a commit adds: one version, and that the session is told of it.
LEMMA CommitTakes ==
  ASSUME TodoOK, NEW t \in Callers, Commit(t)
  PROVE  /\ t \in Threads /\ t \in Writers /\ committed' = committed + 1
         /\ \A u \in Threads \ {t} : todo'[u] = todo[u]
         /\ todo'[t] = << [name |-> "notify", from |-> committed'] >>
  BY ThreadsOK DEF Commit, Begin, TodoOK

\* Every step keeps what commits have to tell versions.
LEMMA VersionsNext ==
  ASSUME TodoOK, Versions, [Next]_vars
  PROVE  Versions'
  <1>1. CASE OldNotices
    BY <1>1 DEF OldNotices, Versions
  <1>2. CASE \E t \in Callers : Commit(t)
    <2>1. PICK t \in Callers : Commit(t)
      BY <1>2
    <2> DEFINE x == [name |-> "notify", from |-> committed']
    <2>2. x.from \in Nat
      BY <2>1, CommitTakes DEF TodoOK
    <2> HIDE DEF x
    <2>3. \A u \in Threads \ {t} : todo'[u] = todo[u]
      BY <2>1, CommitTakes
    <2>4. todo'[t] = <<x>>
      BY <2>1, CommitTakes DEF x
    <2>5. \A i \in DOMAIN todo'[t] : todo'[t][i] = x
      BY <2>4
    <2> QED BY <2>2, <2>3, <2>5 DEF Versions
  <1> QED BY <1>1, <1>2, NextNotices

\* With one writer every step leaves the latest version to tell.
LEMMA NoticedNext ==
  ASSUME TodoOK, Noticed, [Next]_vars, \A t, u \in Writers : t = u
  PROVE  Noticed'
  <1>1. CASE OldNotices /\ committed' = committed
    BY <1>1 DEF OldNotices, Noticed
  <1>2. CASE \E t \in Callers : Commit(t)
    <2>1. PICK t \in Callers : Commit(t)
      BY <1>2
    <2> DEFINE x == [name |-> "notify", from |-> committed']
    <2>2. x.from = committed' /\ t \in Writers
      BY <2>1, CommitTakes
    <2> HIDE DEF x
    <2>3. \A u \in Threads \ {t} : todo'[u] = todo[u]
      BY <2>1, CommitTakes
    <2>4. todo'[t] = <<x>>
      BY <2>1, CommitTakes DEF x
    <2>5. \A i \in DOMAIN todo'[t] : todo'[t][i] = x
      BY <2>4
    <2>6. \A u \in Threads \ {t} : \A i \in DOMAIN todo[u] : todo[u][i].name # "notify"
      BY <2>2 DEF Noticed
    <2> QED BY <2>2, <2>3, <2>5, <2>6 DEF Noticed
  <1> QED BY <1>1, <1>2, NextNotices

-------------------------------------------------------------------------------
\* A step that changes neither what was noted nor what is announced.
LEMMA AnnouncedStays ==
  ASSUME Announced, Numbers, committed \in Nat, committed' = committed \/ committed' = committed + 1,
         ghost'.noted = ghost.noted, link'.announced = link.announced,
         \/ s'.state = s.state /\ s'.session = s.session /\ s'.deferredCommit = s.deferredCommit
         \/ s'.state = "inactive" /\ s'.session = 0
         \/ s'.state = "waiting" /\ s.state = "inactive" /\ s'.session = s.session
         \/ s'.state = "dying" /\ s.state = "active"
         \/ s'.state = "active" /\ s.state = "dying"
         \/ s'.state = "waiting" /\ s.state = "active"
  PROVE  Announced'
  <1>1. ghost.noted \in Nat /\ link.announced \in Nat
    BY DEF Numbers
  <1>2. ghost'.noted <= committed'
    BY <1>1 DEF Announced
  <1> QED BY <1>2 DEF Announced

\* Becoming inactive owes nobody an announcement.
LEMMA AnnouncedEnds ==
  ASSUME Announced, Numbers, committed \in Nat, committed' = committed,
         s' = [s EXCEPT !.state = "inactive", !.session = 0], ghost' = ghost,
         link'.announced = link.announced
  PROVE  Announced'
  <1>1. s'.state = "inactive" /\ s'.session = 0
    BY DEF Numbers, SessionType
  <1> QED BY <1>1, AnnouncedStays

\* A refreshed token announces what was kept.
LEMMA AnnouncedRefresh ==
  ASSUME Announced, Numbers, committed \in Nat, RefreshAccessToken
  PROVE  Announced'
  <1> DEFINE makes == s.session = 0
             n     == IF makes THEN link.sessions + 1 ELSE s.session
             known == KnownWith(makes)
             now   == [s EXCEPT !.state = "active", !.session = n, !.deferredCommit = 0]
  <1>1. /\ s.state = "waiting" /\ (s' = now \/ s' = Dying(now)) /\ link'.announced = known
        /\ ghost'.noted = ghost.noted /\ committed' = committed
    BY DEF RefreshAccessToken, Numbers
  <1>2. s \in SessionType /\ n \in Nat /\ ghost.noted \in Nat /\ makes \in BOOLEAN
        /\ link.announced \in Nat /\ s.deferredCommit \in Nat
    BY DEF Numbers, SessionType
  <1>3. now \in SessionType /\ now.state = "active"
    BY <1>2 DEF SessionType, States
  <1>4. /\ known \in Nat /\ link.announced <= known /\ s.deferredCommit <= known
        /\ makes => committed <= known
    <2> HIDE DEF makes
    <2> QED BY <1>2, KnownIsEnough
  <1>5. makes \/ ghost.noted <= link.announced \/ ghost.noted <= s.deferredCommit
    BY <1>1 DEF Announced
  <1>6. ghost.noted <= committed
    BY DEF Announced
  <1> HIDE DEF makes, n, known, now
  <1>7. ghost.noted <= known
    BY <1>2, <1>4, <1>5, <1>6
  <1>8. s'.state \in {"active", "dying"}
    BY <1>1, <1>3, DyingSession
  <1> QED BY <1>1, <1>6, <1>7, <1>8 DEF Announced

\* A commit that the session is told of is announced or kept.
LEMMA AnnouncedNotify ==
  ASSUME Announced, Numbers, TodoOK, Noticed, NEW t \in Threads, Notify(t)
  PROVE  Announced'
  <1>1. Head(todo[t]).from = committed
    <2>1. todo[t] # <<>> /\ todo[t] \in Seq(Steps) /\ Head(todo[t]).name = "notify"
      BY DEF Notify, At, TodoOK
    <2>2. 1 \in DOMAIN todo[t] /\ Head(todo[t]) = todo[t][1]
      BY <2>1
    <2> QED BY <2>1, <2>2 DEF Noticed
  <1>2. /\ s' = IF s.state = "waiting" THEN [s EXCEPT !.deferredCommit = committed] ELSE s
        /\ link' = IF s.state = "active" THEN [link EXCEPT !.announced = Max({@, committed})] ELSE link
        /\ ghost' = IF s.state = "dying" THEN ghost ELSE [ghost EXCEPT !.noted = Max({@, committed})]
    <2>1. \A v \in Head(todo[t]).from .. committed : v = committed
      BY <1>1 DEF TodoOK
    <2> QED BY <2>1 DEF Notify
  <1>3. committed' = committed /\ committed \in Nat
    BY DEF Notify, Outside, TodoOK
  <1>4. /\ ghost.noted \in Nat /\ ghost.noted <= committed /\ link.announced \in Nat
    BY DEF Announced, Numbers
  <1>5. Max({ghost.noted, committed}) = committed
    BY <1>3, <1>4, MaxIsUpper
  <1>6. s.state # "dying" => ghost'.noted = committed
    BY <1>2, <1>5 DEF Numbers
  <1>7. CASE s.state = "active"
    <2>1. link'.announced = Max({link.announced, committed})
      BY <1>2, <1>7 DEF Numbers
    <2>2. committed <= link'.announced
      BY <1>3, <1>4, <2>1, MaxIsUpper
    <2>3. s' = s /\ ghost'.noted = committed
      BY <1>2, <1>6, <1>7
    <2> QED BY <1>3, <1>7, <2>2, <2>3 DEF Announced
  <1>8. CASE s.state = "waiting"
    <2>1. s'.state = "waiting" /\ s'.deferredCommit = committed
      BY <1>2, <1>8 DEF Numbers, SessionType
    <2> QED BY <1>3, <1>6, <1>8, <2>1 DEF Announced
  <1>9. CASE s.state = "inactive"
    BY <1>2, <1>3, <1>6, <1>9 DEF Announced
  <1>10. CASE s.state = "dying"
    BY <1>2, <1>3, <1>4, <1>10 DEF Announced
  <1> QED BY <1>7, <1>8, <1>9, <1>10 DEF Numbers, SessionType, States

\* Every step leaves what was noted announced or kept.
LEMMA AnnouncedNext ==
  ASSUME Announced, Numbers, TodoOK, Noticed, [Next]_vars
  PROVE  Announced'
  <1>0. committed \in Nat
    BY DEF TodoOK
  <1>1. ASSUME UNCHANGED <<s, ghost>>, link'.announced = link.announced,
               committed' = committed \/ committed' = committed + 1
        PROVE  Announced'
    BY <1>0, <1>1, AnnouncedStays
  <1>2. ASSUME NEW t, NEW more, EnterInactive(t, more), committed' = committed
        PROVE  Announced'
    BY <1>0, <1>2, AnnouncedEnds DEF EnterInactive
  <1>3. ASSUME NEW t, Close(t), committed' = committed
        PROVE  Announced'
    <2>1. CASE UNCHANGED <<s, ghost, link>>
      BY <1>1, <1>3, <2>1
    <2>2. CASE EnterInactive(t, <<>>)
      BY <1>2, <1>3, <2>2
    <2>3. CASE s' = [s EXCEPT !.deferredClose = TRUE] /\ UNCHANGED <<link, ghost>>
      <3>1. s'.state = s.state /\ s'.session = s.session /\ s'.deferredCommit = s.deferredCommit
        BY <2>3 DEF Numbers, SessionType
      <3> QED BY <1>0, <1>3, <2>3, <3>1, AnnouncedStays
    <2>4. CASE s.state = "active" /\ EnterDying(t)
      <3>1. s'.state = "dying"
        BY <2>4, DyingSession DEF EnterDying, Numbers
      <3>2. link'.announced = link.announced /\ ghost'.noted = ghost.noted
        BY <2>4 DEF EnterDying, Numbers
      <3> QED BY <1>0, <1>3, <2>4, <3>1, <3>2, AnnouncedStays
    <2> QED BY <1>3, <2>1, <2>2, <2>3, <2>4 DEF Close, Stays
  <1>4. ASSUME NEW t, Revive(t), committed' = committed
        PROVE  Announced'
    <2>1. ghost' = ghost /\ link'.announced = link.announced
      BY <1>4 DEF Revive, Numbers
    <2>2. \/ s'.state = s.state /\ s'.session = s.session /\ s'.deferredCommit = s.deferredCommit
          \/ s'.state = "waiting" /\ s.state = "inactive" /\ s'.session = s.session
          \/ s'.state = "active" /\ s.state = "dying"
      BY <1>4 DEF Revive, Numbers, SessionType
    <2> QED BY <1>0, <1>4, <2>1, <2>2, AnnouncedStays
  <1>5. CASE UNCHANGED vars
    BY <1>1, <1>5 DEF vars
  <1>6. CASE RefreshAccessToken
    BY <1>0, <1>6, AnnouncedRefresh
  <1>7. ASSUME NEW t \in Callers, Call(t) PROVE Announced'
    <2>1. CASE \E d \in Directions : WaitFor(t, d)
      BY <1>1, <2>1 DEF WaitFor, Outside, Numbers
    <2>2. CASE UNCHANGED Session
      <3>1. committed' = committed \/ committed' = committed + 1
        BY <1>7, Zenon DEF Call, GetSession, DropReference, LogOutUser, LogIn, Suspend, Resume, NewHeaders,
             Commit, WaitFor, Outside
      <3> QED BY <1>1, <2>2, <3>1 DEF Session
    <2>3. (\E d \in Directions : WaitFor(t, d)) \/ UNCHANGED Session
      BY <1>7, Zenon DEF Call, GetSession, DropReference, LogOutUser, LogIn, Suspend, Resume, NewHeaders, Commit
    <2> QED BY <2>1, <2>2, <2>3
  <1>8. ASSUME NEW t \in Threads, GoOn(t) PROVE Announced'
    <2>1. committed' = committed
      <3>1. CASE \E p : Moves(t, p)
        BY <3>1 DEF Moves
      <3>2. CASE CallBlocks(t)
        BY <3>2 DEF CallBlocks
      <3> QED BY <1>8, <3>1, <3>2, GoOnMoves
    <2>2. CASE UNCHANGED Session
      BY <1>1, <2>1, <2>2 DEF Session
    <2>3. CASE (\E more : EnterInactive(t, more)) \/ Close(t) \/ Revive(t)
      BY <1>2, <1>3, <1>4, <2>1, <2>3
    <2>4. CASE Notify(t)
      BY <2>4, AnnouncedNotify
    <2> QED BY <1>8, <2>2, <2>3, <2>4, GoOnChanges
  <1>9. CASE Client
    <2>1. committed' = committed
      BY <1>9, Zenon DEF Client, Upload, Completed, HandleError, TokenExpired, BadAuthentication, Invalidate, FileError,
           OtherError, Outside
    <2>2. CASE Upload
      BY <1>1, <2>1, <2>2 DEF Upload, Numbers
    <2>3. CASE \E h \in DOMAIN link.handlers : Completed(h)
      <3>1. ghost' = ghost /\ link'.announced = link.announced
        BY <2>3 DEF Completed, Numbers
      <3>2. s' = [s EXCEPT !.state = "inactive", !.session = 0] \/ s' = s
        BY <2>3 DEF Completed
      <3> QED BY <1>0, <1>1, <2>1, <3>1, <3>2, AnnouncedEnds
    <2>4. CASE \E error \in Errors, fatal \in BOOLEAN : HandleError(error, fatal)
      <3>1. UNCHANGED <<link, ghost>>
        BY <2>4 DEF HandleError
      <3>2. s' = [s EXCEPT !.state = "inactive", !.session = 0] \/ s' = s
        BY <2>4 DEF HandleError
      <3> QED BY <1>0, <1>1, <2>1, <3>1, <3>2, AnnouncedEnds
    <2>5. CASE TokenExpired
      <3>1. UNCHANGED <<link, ghost>>
        BY <2>5 DEF TokenExpired
      <3>2. s' = s \/ (s'.state = "waiting" /\ s.state = "active")
        BY <2>5 DEF TokenExpired, Numbers, SessionType
      <3> QED BY <1>0, <1>1, <2>1, <3>1, <3>2, AnnouncedStays
    <2>6. CASE BadAuthentication \/ OtherError \/ Invalidate
      BY <1>1, <2>1, <2>6 DEF BadAuthentication, OtherError, CancelPendingWaits, Invalidate, Session
    <2>7. CASE FileError
      BY <1>2, <2>1, <2>7 DEF FileError
    <2> QED BY <1>9, <2>2, <2>3, <2>4, <2>5, <2>6, <2>7 DEF Client
  <1> QED BY <1>5, <1>6, <1>7, <1>8, <1>9 DEF Next

-------------------------------------------------------------------------------
\* A session's life moves on to registered or erased only.
LEMMA LivesOn ==
  ASSUME [Next]_vars
  PROVE  life' = life \/ life' \in {"registered", "erased"}
  <1>1. CASE UNCHANGED vars
    BY <1>1 DEF vars
  <1>2. CASE RefreshAccessToken
    BY <1>2 DEF RefreshAccessToken
  <1>3. ASSUME NEW t \in Callers, Call(t) PROVE life' = life \/ life' = "registered"
    BY <1>3, Zenon DEF Call, GetSession, DropReference, LogOutUser, LogIn, Suspend, Resume, NewHeaders,
       Commit, WaitFor, Outside
  <1>4. ASSUME NEW t \in Threads, GoOn(t) PROVE life' = life \/ life' = "erased"
    BY <1>4, Zenon DEF GoOn, Register, Refer, Unlock, ReviveIfNeeded, DidDrop, Unregister, Release, LoggedOut,
       LogOut, UpdateConfiguration, Notify, CallBlocks, Outside
  <1>5. CASE Client
    BY <1>5, Zenon DEF Client, Upload, Completed, HandleError, TokenExpired, BadAuthentication, Invalidate,
       FileError, OtherError, Outside
  <1> QED BY <1>1, <1>2, <1>3, <1>4, <1>5 DEF Next

\* Every step leaves a session that nobody has asked for inactive.
LEMMA FreshNext ==
  ASSUME LInv, Fresh, [Next]_vars
  PROVE  Fresh'
  <1>1. life' \in Lives
    BY LivesOn DEF Fresh, Lives
  <1> SUFFICES ASSUME life' = "unmade"
               PROVE  s'.state = "inactive" /\ \A t \in Threads : OnlyLoggingOut(todo'[t])
    BY <1>1 DEF Fresh, OnlyLoggingOut
  <1>2. life = "unmade"
    BY LivesOn
  <1>3. ~Registered /\ ~Alive /\ held = {}
    BY <1>2 DEF LInv, ReferredIsRegistered, Registered, Alive
  <1>4. s.state = "inactive" /\ \A t \in Threads : OnlyLoggingOut(todo[t])
    BY <1>2 DEF Fresh
  <1>5. ASSUME UNCHANGED <<s, todo>> PROVE s'.state = "inactive" /\ \A t \in Threads : OnlyLoggingOut(todo'[t])
    BY <1>4, <1>5
  <1>6. TodoOK /\ client \in Threads /\ Callers \subseteq Threads
    BY ThreadsOK DEF LInv
  <1>7. ASSUME NEW t \in Threads, NEW name, At(t, name) PROVE name = "loggedOut"
    <2>1. todo[t] \in Seq(Steps) /\ todo[t] # <<>> /\ Head(todo[t]).name = name
      BY <1>6, <1>7 DEF At, TodoOK
    <2>2. 1 \in DOMAIN todo[t] /\ Head(todo[t]) = todo[t][1]
      BY <2>1
    <2> QED BY <1>4, <2>1, <2>2 DEF OnlyLoggingOut
  <1>8. CASE UNCHANGED vars
    BY <1>5, <1>8 DEF vars
  <1>9. CASE RefreshAccessToken
    BY <1>3, <1>9 DEF RefreshAccessToken
  <1>10. ASSUME NEW t \in Callers, Call(t)
         PROVE  s'.state = "inactive" /\ \A u \in Threads : OnlyLoggingOut(todo'[u])
    <2>1. LogOutUser(t) \/ LogIn(t)
      <3>1. ~GetSession(t)
        <4>1. "registered" # "unmade"
          OBVIOUS
        <4> QED BY <4>1 DEF GetSession
      <3>2. ~DropReference(t) /\ ~Commit(t)
        BY <1>3 DEF DropReference, Commit
      <3>3. ~Suspend(t) /\ ~Resume(t) /\ ~NewHeaders(t) /\ \A d \in Directions : ~WaitFor(t, d)
        BY <1>3 DEF Suspend, Resume, NewHeaders, WaitFor
      <3> QED BY <1>10, <3>1, <3>2, <3>3 DEF Call
    <2>2. t \in Threads /\ s' = s
      BY <1>6, <2>1 DEF LogOutUser, LogIn, Session
    <2>3. CASE LogOutUser(t)
      <3>1. todo' = [todo EXCEPT ![t] = <<>> \o <<Step("loggedOut")>>]
        BY <1>3, <2>3 DEF LogOutUser, Begin
      <3>2. todo'[t] = <<>> \o <<Step("loggedOut")>> /\ \A u \in Threads \ {t} : todo'[u] = todo[u]
        BY <1>6, <2>2, <3>1 DEF TodoOK
      <3>3. OnlyLoggingOut(<<>> \o <<Step("loggedOut")>>)
        <4> DEFINE x == Step("loggedOut")
        <4>1. x.name = "loggedOut"
          BY DEF Step
        <4> HIDE DEF x
        <4>2. <<>> \o <<x>> = <<x>> /\ DOMAIN <<x>> = {1} /\ <<x>>[1] = x
          OBVIOUS
        <4>3. OnlyLoggingOut(<<>> \o <<x>>)
          BY <4>1, <4>2 DEF OnlyLoggingOut
        <4> QED BY <4>3 DEF x
      <3> QED BY <1>4, <2>2, <3>2, <3>3
    <2>4. CASE LogIn(t)
      <3>1. todo' = [todo EXCEPT ![t] = <<>>]
        BY <1>3, <2>4 DEF LogIn, Begin
      <3>2. todo'[t] = <<>> /\ \A u \in Threads \ {t} : todo'[u] = todo[u]
        BY <1>6, <2>2, <3>1 DEF TodoOK
      <3> QED BY <1>4, <2>2, <3>2 DEF OnlyLoggingOut
    <2> QED BY <2>1, <2>3, <2>4
  <1>11. ASSUME NEW t \in Threads, GoOn(t)
         PROVE  s'.state = "inactive" /\ \A u \in Threads : OnlyLoggingOut(todo'[u])
    <2>1. LoggedOut(t)
      <3>1. ~At(t, "register") /\ ~At(t, "refer") /\ ~At(t, "unlock") /\ ~At(t, "revive") /\ ~At(t, "drop")
            /\ ~At(t, "unregister") /\ ~At(t, "release") /\ ~At(t, "logout") /\ ~At(t, "configure")
            /\ ~At(t, "notify") /\ ~At(t, "tell")
        BY <1>7
      <3> QED BY <1>11, <3>1 DEF GoOn, Register, Refer, Unlock, ReviveIfNeeded, DidDrop, Unregister,
                 Release, LogOut, UpdateConfiguration, Notify, CallBlocks
    <2>2. todo[t] # <<>> /\ Go(t, <<>>) /\ s' = s
      BY <2>1 DEF LoggedOut, At, Session
    <2>3. TakesUp(t, <<>>)
      BY <1>6, <2>2, GoTakesUp
    <2>4. /\ \A u \in Threads \ {t} : todo'[u] = todo[u]
          /\ \A i \in DOMAIN todo'[t] : \E j \in DOMAIN todo[t] : todo'[t][i] = todo[t][j]
      <3> DEFINE p == <<>>
      <3>1. p \in Seq(Steps) /\ DOMAIN p = {} /\ TakesUp(t, p)
        BY <2>3
      <3> HIDE DEF p
      <3>2. /\ \A u \in Threads \ {t} : todo'[u] = todo[u]
            /\ \A i \in DOMAIN todo'[t] : i \notin DOMAIN p =>
                 /\ i - Len(p) + 1 \in DOMAIN todo[t]
                 /\ todo'[t][i] = todo[t][i - Len(p) + 1]
        BY <1>6, <3>1, Taken
      <3> QED BY <3>1, <3>2
    <2> QED BY <1>4, <2>2, <2>4 DEF OnlyLoggingOut
  <1>12. CASE Client
    <2>1. ~TokenExpired /\ ~BadAuthentication /\ ~Invalidate /\ ~FileError /\ ~OtherError
      <3>1. /\ ~At(client, "token_expired") /\ ~At(client, "bad_authentication") /\ ~At(client, "invalidate")
            /\ ~At(client, "file") /\ ~At(client, "other")
        BY <1>6, <1>7
      <3> QED BY <3>1 DEF TokenExpired, BadAuthentication, Invalidate, FileError, OtherError
    <2>2. \A error \in Errors, fatal \in BOOLEAN : ~HandleError(error, fatal)
      BY <1>3 DEF HandleError
    <2>3. CASE Upload
      BY <1>5, <2>3 DEF Upload
    <2>4. CASE \E h \in DOMAIN link.handlers : Completed(h)
      BY <1>3, <1>5, <2>4 DEF Completed
    <2> QED BY <1>12, <2>1, <2>2, <2>3, <2>4 DEF Client
  <1> QED BY <1>8, <1>9, <1>10, <1>11, <1>12 DEF Next

-------------------------------------------------------------------------------
(* The theorems. *)

SyncInv == LInv /\ SInv /\ Fresh /\ Versions /\ InOnePlace

\* The invariant holds at first.
LEMMA SyncInvInit == Init => SyncInv
  <1> SUFFICES ASSUME Init PROVE SyncInv
    OBVIOUS
  <1>1. /\ life = "unmade" /\ s.state = "inactive" /\ told = [w \in Waits |-> 0] /\ lists = Empty
        /\ \A t \in Threads : todo[t] = <<>>
    BY DEF Init
  <1>2. Fresh
    BY <1>1 DEF Fresh, Lives, OnlyLoggingOut
  <1>3. Versions
    BY <1>1 DEF Versions
  <1>4. InOnePlace
    <2>1. \A t \in Threads : \A w : Tells(todo[t], w) = {}
      BY <1>1 DEF Tells
    <2> QED BY <1>1, <2>1 DEF InOnePlace, Empty
  <1> QED BY <1>2, <1>3, <1>4, LInvInit, SInvInit DEF SyncInv

\* Every step keeps the session's invariant.
LEMMA SInvNext ==
  ASSUME SyncInv, [Next]_vars
  PROVE  SInv'
  <1>1. SInv /\ TodoOK /\ Versions
    BY DEF SyncInv, LInv
  <1>2. CASE UNCHANGED vars
    BY <1>1, <1>2, StillSInv DEF vars
  <1>3. CASE RefreshAccessToken
    BY <1>1, <1>3, RefreshSInv DEF TodoOK
  <1>4. CASE \E t \in Callers : Call(t)
    BY <1>1, <1>4, CallSInv
  <1>5. CASE \E t \in Threads : GoOn(t)
    BY <1>1, <1>5, GoOnSInv DEF Versions
  <1>6. CASE Client /\ Next
    <2>1. Alive \/ s.state = "inactive"
      BY <1>6 DEF Next, SyncInv, Fresh, Lives, Alive, Registered
    <2> QED BY <1>1, <1>6, <2>1, ClientSInv
  <1> QED BY <1>2, <1>3, <1>4, <1>5, <1>6 DEF Next

\* Every step leaves each block in one place.
LEMMA InOnePlaceNext ==
  ASSUME TodoOK, InOnePlace, [Next]_vars
  PROVE  InOnePlace'
  <1>1. ASSUME UNCHANGED <<todo, lists, told>> PROVE InOnePlace'
    BY <1>1 DEF InOnePlace, Tells
  <1>2. CASE UNCHANGED vars
    BY <1>1, <1>2 DEF vars
  <1>3. CASE RefreshAccessToken
    BY <1>1, <1>3 DEF RefreshAccessToken
  <1>4. ASSUME NEW t \in Callers, Call(t) PROVE InOnePlace'
    <2>1. t \in Threads
      BY ThreadsOK
    <2>2. CASE \E p : Moves(t, p)
      BY <2>1, <2>2, MovesInOnePlace
    <2>3. CASE \E d \in Directions : WaitFor(t, d)
      BY <2>3, WaitForInOnePlace
    <2>4. CASE Commit(t)
      <3> DEFINE x == [name |-> "notify", from |-> committed']
      <3>1. lists' = lists /\ told' = told
        BY <2>4 DEF Commit, Session
      <3>2. todo'[t] = <<x>> /\ \A u \in Threads \ {t} : todo'[u] = todo[u]
        BY <2>4, CommitTakes
      <3>3. x.name # "tell"
        OBVIOUS
      <3> HIDE DEF x
      <3>4. \A w : Tells(todo'[t], w) = {}
        BY <3>2, <3>3 DEF Tells
      <3> QED BY <2>1, <3>1, <3>2, <3>4 DEF InOnePlace, Tells
    <2> QED BY <1>4, <2>2, <2>3, <2>4, CallMoves
  <1>5. ASSUME NEW t \in Threads, GoOn(t) PROVE InOnePlace'
    BY <1>5, GoOnMoves, MovesInOnePlace, CallBlocksInOnePlace
  <1>6. CASE Client
    BY <1>1, <1>6, ClientMoves, MovesInOnePlace, ThreadsOK
  <1> QED BY <1>2, <1>3, <1>4, <1>5, <1>6 DEF Next

\* Every step keeps the invariant.
LEMMA SyncInvNext == SyncInv /\ [Next]_vars => SyncInv'
  <1> SUFFICES ASSUME SyncInv, [Next]_vars PROVE SyncInv'
    OBVIOUS
  <1>1. LInv' /\ Fresh'
    BY LInvNext, FreshNext DEF SyncInv
  <1>2. Versions' /\ InOnePlace'
    BY VersionsNext, InOnePlaceNext DEF SyncInv, LInv
  <1> QED BY <1>1, <1>2, SInvNext DEF SyncInv

\* Each block is in one list, in one call or told, and once there.
LEMMA OnlyOnce ==
  ASSUME InOnePlace, NEW w \in Waits
  PROVE  Places(w) <= 1
  <1> DEFINE L == {d \in Directions : w \in lists[d]}
             T == {x \in UNION {{t} \X DOMAIN todo[t] : t \in Threads} :
                     todo[x[1]][x[2]].name = "tell" /\ w \in todo[x[1]][x[2]].waits}
  <1>1. \A x \in T : x[1] \in Threads /\ x[2] \in Tells(todo[x[1]], w) /\ x = <<x[1], x[2]>>
    BY DEF Tells
  <1>2. \A x, y \in T : x = y
    <2> SUFFICES ASSUME NEW x \in T, NEW y \in T PROVE x = y
      OBVIOUS
    <2> HIDE DEF T
    <2>1. x[1] = y[1] /\ x[2] = y[2]
      BY <1>1 DEF InOnePlace
    <2> QED BY <1>1, <2>1
  <1>3. \A d, e \in L : d = e
    BY DEF InOnePlace
  <1>4. ASSUME NEW S, \A x, y \in S : x = y
        PROVE  Cardinality(S) \in {0, 1} /\ (S = {} => Cardinality(S) = 0)
    <2>1. CASE S = {}
      BY <2>1, FS_EmptySet
    <2>2. CASE S # {}
      <3>1. PICK x \in S : TRUE
        BY <2>2
      <3>2. S = {x}
        BY <1>4, <3>1
      <3> QED BY <3>2, FS_Singleton
    <2> QED BY <2>1, <2>2
  <1>5. told[w] \in {0, 1}
    BY DEF InOnePlace
  <1>6. told[w] = 1 => L = {} /\ T = {}
    BY <1>1 DEF InOnePlace
  <1>7. L # {} => T = {}
    BY <1>1 DEF InOnePlace
  <1> HIDE DEF L, T
  <1>8. /\ Cardinality(L) \in {0, 1} /\ (L = {} => Cardinality(L) = 0)
        /\ Cardinality(T) \in {0, 1} /\ (T = {} => Cardinality(T) = 0)
    BY <1>2, <1>3, <1>4
  <1>9. told[w] + Cardinality(L) + Cardinality(T) <= 1
    BY <1>5, <1>6, <1>7, <1>8
  <1> QED BY <1>9 DEF Places, L, T

\* Who waits for the end of an upload or a download is not forgotten while the
\* session is connected, and not told twice, whatever the threads and the errors
\* of the client do to the session meanwhile.
THEOREM WaitsAreKept == Spec => []NobodyIsForgotten
  <1>1. SyncInv => NobodyIsForgotten
    BY OnlyOnce DEF SyncInv, SInv, Attended, NobodyIsForgotten, Handlers
  <1> QED BY <1>1, SyncInvInit, SyncInvNext, PTL DEF Spec

\* A session that closes after its changes are uploaded ends when the server has
\* all that was owed at the present death, never when an earlier one is over.
THEOREM DeathsAreNotMixed == Spec => DyingLosesNothing
  <1>1. ASSUME SyncInv, [Next]_vars
        PROVE  [\A h \in DOMAIN link.handlers :
                  Completed(h) /\ s.state = "dying" /\ s'.state = "inactive" => ghost.owed <= link.uploaded]_vars
    <2> SUFFICES ASSUME NEW h \in DOMAIN link.handlers, Completed(h), s.state = "dying", s'.state = "inactive"
                 PROVE  ghost.owed <= link.uploaded
      OBVIOUS
    <2>1. h.kind = "death" /\ EndsDeath(h)
      BY DEF Completed
    <2>2. h.upto = ghost.owed /\ h.session = s.session
      BY <1>1, <2>1 DEF SyncInv, SInv, DeathsCounted, Handlers, EndsDeath
    <2>3. h.upto <= link.uploaded
      BY <2>1, <2>2 DEF Completed, Done
    <2> QED BY <2>2, <2>3
  <1> QED BY <1>1, SyncInvInit, SyncInvNext, PTL DEF Spec, DyingLosesNothing

\* If one thread commits, as the application does, all that a session with a
\* token was told of is announced to the client: while it waited, while it was
\* dying and called back, with a new sync::Session or the old one.
THEOREM CommitsAreAnnounced ==
  ASSUME \A t, u \in Writers : t = u
  PROVE  Spec => []ActiveHasAnnounced
  <1> DEFINE AInv == SyncInv /\ Noticed /\ Announced
  <1>1. Init => AInv
    <2> SUFFICES ASSUME Init PROVE AInv
      OBVIOUS
    <2>1. Noticed
      BY DEF Init, Noticed
    <2>2. Announced
      BY DEF Init, Announced
    <2> QED BY <2>1, <2>2, SyncInvInit
  <1>2. AInv /\ [Next]_vars => AInv'
    <2> SUFFICES ASSUME AInv, [Next]_vars PROVE AInv'
      OBVIOUS
    <2>1. TodoOK /\ Numbers
      BY DEF SyncInv, LInv, SInv
    <2>2. SyncInv'
      BY SyncInvNext
    <2>3. Noticed' /\ Announced'
      BY <2>1, NoticedNext, AnnouncedNext
    <2> QED BY <2>2, <2>3
  <1>3. AInv => ActiveHasAnnounced
    BY DEF Announced, ActiveHasAnnounced
  <1> HIDE DEF AInv
  <1> QED BY <1>1, <1>2, <1>3, PTL DEF Spec
===============================================================================
