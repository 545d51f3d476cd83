----------------------------- MODULE SyncSessions ------------------------------
(***************************************************************************)
(* The life of the SyncSession of one Realm file (ObjectStore: SyncSession *)
(* and its states, and what SyncManager and SyncUser do with it), between  *)
(* the threads of the application and the thread of the sync client.       *)
(*                                                                         *)
(* A critical section of m_state_mutex is one step.  The mutexes of the    *)
(* manager and of the user are held over several steps, and what a thread  *)
(* has still to do in the call it is in is a sequence of steps, todo[t].   *)
(* The threads may block each other for ever: the manager's mutex is taken *)
(* under the user's in SyncUser::log_out and the other way round in        *)
(* get_session, and a thread may ask for the manager's mutex twice.        *)
(*                                                                         *)
(* Versions of the file are numbers; the client knows those it was told of *)
(* (announced) and those the server has (uploaded).  The SyncSession is    *)
(* made once: what happens after its path was unregistered and opened      *)
(* anew, with another object, is left out.                                 *)
(***************************************************************************)
EXTENDS Naturals, Sequences, FiniteSets, BagsExt, SequencesExt, FiniteSetsExt

CONSTANTS Callers,     \* threads of the application
          client,      \* the thread of the sync client
          none,        \* no thread
          Writers,     \* the threads that commit transactions
          Policies,    \* the stop policies a configuration may ask for
          MaxVersion,  \* bound: versions of the file
          MaxWaits,    \* bound: calls of wait_for_..._completion
          MaxCalls     \* bound: calls of the application and errors

ASSUME ThreadsAssumption ==
  /\ client \notin Callers /\ none \notin Callers \cup {client} /\ Writers \subseteq Callers
ASSUME PoliciesAssumption ==
  Policies \subseteq {"Immediately", "LiveIndefinitely", "AfterChangesUploaded"}

VARIABLES
  s,          \* the members of the SyncSession
  lists,      \* the blocks that wait, by direction
  told,       \* how often each block was called
  asked,      \* the binding was asked for a token
  held,       \* the callers that hold the external reference
  temps,      \* the threads that hold it inside unregister_session
  life,       \* unmade; registered in SyncManager::m_sessions; erased from there
  user,       \* the members of the SyncUser
  locks,      \* who holds the mutexes of the manager and of the user
  link,       \* the sync client and its sessions
  committed,  \* the latest version of the file
  todo,       \* todo[t]: what t has still to do in the call it is in
  left,       \* calls that may still be made
  broken,     \* unregister_session dereferenced the end of the map
  ghost       \* noted: the version notify was called with; owed: see Dying

vars == <<s, lists, told, asked, held, temps, life, user, locks, link,
          committed, todo, left, broken, ghost>>

Threads == Callers \cup {client}
Directions == {"upload", "download"}
Waits == 1 .. MaxWaits
Empty == [d \in Directions |-> {}]

\* m_session counts the sync::Sessions made; 0 is the null pointer.
Init ==
  /\ \E p \in Policies :
       s = [state |-> "inactive", session |-> 0, deferredClose |-> FALSE,
            deferredCommit |-> 0, deaths |-> 0, policy |-> p]
  /\ lists = Empty /\ told = [w \in Waits |-> 0] /\ asked = FALSE
  /\ held = {} /\ temps = {} /\ life = "unmade"
  /\ user = [state |-> "active", pool |-> "none"]
  /\ locks = [manager |-> none, user |-> none]
  /\ link = [sessions |-> 0, announced |-> 0, uploaded |-> 0, handlers |-> EmptyBag]
  /\ committed = 0 /\ todo = [t \in Threads |-> <<>>] /\ left = MaxCalls /\ broken = FALSE
  /\ ghost = [noted |-> 0, owed |-> 0]

---------------------------------------------------------------------------------
(* Steps of the calls. *)

Step(name) == [name |-> name]
Tell(W) == IF W = {} THEN <<>> ELSE << [name |-> "tell", waits |-> W] >>
At(t, name) == todo[t] # <<>> /\ Head(todo[t]).name = name
Go(t, steps) == todo' = [todo EXCEPT ![t] = steps \o Tail(@)]

\* A caller that is in no call begins one.
Begin(t, steps) == left > 0 /\ left' = left - 1 /\ todo[t] = <<>> /\ todo' = [todo EXCEPT ![t] = steps]

Referenced == held \cup temps # {}

Registered == life = "registered"

\* m_sessions has a shared_ptr, and so has a thread inside a call on the session.
Alive == Registered \/ (life = "erased" /\ \E t \in Threads : todo[t] # <<>>)

Waiting == UNION {lists[d] : d \in Directions}

---------------------------------------------------------------------------------
(* The states of SyncSession and the moves between them. *)

\* What a sync::Session of number n is asked to call when it is done.
Waiter(kind, n, upto, death) == [kind |-> kind, session |-> n, upto |-> upto, death |-> death]

\* add_completion_callback, for the directions D.
Watched(D, n, upto) == SetToBag({Waiter(d, n, IF d = "upload" THEN upto ELSE 0, 0) : d \in D})

\* Inactive::enter_state: the lists are taken and the session destroyed under the
\* lock; the path is unregistered and the blocks are called after it, then more.
EnterInactive(t, more) ==
  /\ s' = [s EXCEPT !.state = "inactive", !.session = 0]
  /\ lists' = Empty
  /\ Go(t, <<Step("unregister")>> \o Tell(Waiting) \o more)
  /\ UNCHANGED <<asked, link, ghost>>

\* Dying::enter_state: the end of the upload is waited for, and recognised by the
\* count of deaths.  What has been announced is owed to the server.
Dying(old) == [old EXCEPT !.state = "dying", !.deaths = @ + 1]
DeathWatch(old, upto) == SetToBag({Waiter("death", old.session, upto, old.deaths + 1)})

EnterDying(t) ==
  /\ s' = Dying(s)
  /\ link' = [link EXCEPT !.handlers = @ (+) DeathWatch(s, link.announced)]
  /\ ghost' = [ghost EXCEPT !.owed = link.announced]
  /\ Go(t, <<>>) /\ UNCHANGED <<lists, asked>>

Stays(t) == Go(t, <<>>) /\ UNCHANGED <<s, lists, asked, link, ghost>>

\* State::close, by state and stop policy.
Close(t) ==
  CASE s.state = "inactive" ->
         Go(t, <<Step("unregister")>>) /\ UNCHANGED <<s, lists, asked, link, ghost>>
    [] s.state \in {"waiting", "active"} /\ s.policy = "Immediately" -> EnterInactive(t, <<>>)
    [] s.state = "waiting" /\ s.policy # "Immediately" ->
         s' = [s EXCEPT !.deferredClose = TRUE] /\ Go(t, <<>>) /\ UNCHANGED <<lists, asked, link, ghost>>
    [] s.state = "active" /\ s.policy = "AfterChangesUploaded" -> EnterDying(t)
    [] OTHER -> Stays(t)

\* Mutation of Pending: a session that is active again asks for nobody.
PendingForgotten == {}

\* Active::enter_state: blocks that wait are waited for again.
Pending == {d \in Directions : lists[d] # {}}

\* Inactive::revive_if_needed and WaitingForAccessToken::enter_state, then the
\* call of bind_session_handler; Dying and WaitingForAccessToken are called off.
Revive(t) ==
  /\ s' = CASE s.state = "inactive" -> [s EXCEPT !.state = "waiting", !.deferredClose = FALSE]
            [] s.state = "dying"    -> [s EXCEPT !.state = "active"]
            [] s.state = "waiting"  -> [s EXCEPT !.deferredClose = FALSE]
            [] OTHER -> s
  /\ asked' = (asked \/ s.state = "inactive")
  /\ link' = IF s.state = "dying"
             THEN [link EXCEPT !.handlers = @ (+) Watched(Pending, s.session, link.announced)] ELSE link
  /\ Go(t, <<>>) /\ UNCHANGED <<lists, ghost>>

\* Mutation of KnownWith: the commit that was deferred is dropped.
KnownWithoutDeferred(makes) == IF makes THEN committed ELSE link.announced

\* What the client knows once it has a token: all that is in the file when the
\* session is bound, and the commit that was deferred.
KnownWith(makes) == Max({link.announced, s.deferredCommit} \cup IF makes THEN {committed} ELSE {})

\* SyncSession::refresh_access_token while it is waited for: a session is made
\* and bound unless there is one, and closed if that was deferred.
RefreshAccessToken ==
  /\ asked /\ Alive /\ s.state = "waiting"
  /\ LET makes == s.session = 0
         n     == IF makes THEN link.sessions + 1 ELSE s.session
         known == KnownWith(makes)
         now   == [s EXCEPT !.state = "active", !.session = n, !.deferredCommit = 0]
         dies  == s.deferredClose /\ s.policy = "AfterChangesUploaded"
         asksFor == Watched(Pending, n, known)
     IN /\ s' = IF dies THEN Dying(now) ELSE now
        /\ link' = [link EXCEPT !.sessions = n, !.announced = known,
                      !.handlers = @ (+) IF dies THEN asksFor (+) DeathWatch(now, known) ELSE asksFor]
        /\ ghost' = IF dies THEN [ghost EXCEPT !.owed = known] ELSE ghost
  /\ UNCHANGED <<lists, told, asked, held, temps, life, user, locks, committed, todo, left, broken>>

---------------------------------------------------------------------------------
(* Calls of the application. *)

Outside == <<told, held, temps, life, user, locks, committed, broken>>
Session == <<s, lists, asked, link, ghost>>

\* SyncManager::get_session, from the lock of its mutex on.
GetSession(t) ==
  /\ t \notin held /\ locks.manager = none /\ life # "erased"
  /\ locks' = [locks EXCEPT !.manager = t] /\ life' = "registered"
  /\ held' = IF Registered THEN held ELSE {t}
  /\ Begin(t, <<Step("register"), Step(IF Registered THEN "refer" ELSE "unlock")>>)
  /\ UNCHANGED Session /\ UNCHANGED <<told, temps, user, committed, broken>>

\* SyncUser::register_session.
Register(t) ==
  /\ At(t, "register") /\ locks.user = none
  /\ user' = CASE user.state = "active"    -> [user EXCEPT !.pool = "sessions"]
               [] user.state = "loggedOut" -> [user EXCEPT !.pool = "waiting"]
               [] user.state = "error"     -> user
  /\ Go(t, IF user.state = "active" THEN <<Step("revive")>> ELSE <<>>)
  /\ UNCHANGED Session /\ UNCHANGED <<told, held, temps, life, locks, committed, left, broken>>

\* SyncSession::external_reference, the end of get_session.
Refer(t) ==
  /\ At(t, "refer") /\ Go(t, <<>>)
  /\ held' = held \cup {t} /\ locks' = [locks EXCEPT !.manager = none]
  /\ UNCHANGED Session /\ UNCHANGED <<told, temps, life, user, committed, left, broken>>

\* The end of the scope of the manager's mutex.
Unlock(t) ==
  /\ At(t, "unlock") /\ Go(t, <<>>) /\ locks' = [locks EXCEPT !.manager = none]
  /\ UNCHANGED Session /\ UNCHANGED <<told, held, temps, life, user, committed, left, broken>>

ReviveIfNeeded(t) == At(t, "revive") /\ Revive(t) /\ UNCHANGED Outside /\ UNCHANGED left

\* A Realm is closed: its share of the external reference goes.
DropReference(t) ==
  /\ t \in held /\ held' = held \ {t}
  /\ Begin(t, IF held' \cup temps = {} THEN <<Step("drop")>> ELSE <<>>)
  /\ UNCHANGED Session /\ UNCHANGED <<told, temps, life, user, locks, committed, broken>>

\* did_drop_external_reference: unless it is resurrected, the session is closed.
DidDrop(t) ==
  /\ At(t, "drop") /\ (IF Referenced THEN Stays(t) ELSE Close(t))
  /\ UNCHANGED Outside /\ UNCHANGED left

\* Mutation of MustStay: what is inactive is unregistered.
NeverStays == FALSE

\* existing_external_reference, as unregister_session asks it.
MustStay == Referenced

\* SyncManager::unregister_session, asking for an existing external reference.
Unregister(t) ==
  /\ At(t, "unregister") /\ locks.manager = none
  /\ IF MustStay
     THEN /\ temps' = temps \cup {t} /\ locks' = [locks EXCEPT !.manager = t]
          /\ Go(t, <<Step("release")>>) /\ UNCHANGED life
     ELSE life' = "erased" /\ Go(t, <<>>) /\ UNCHANGED <<temps, locks>>
  /\ broken' = ~Registered
  /\ UNCHANGED Session /\ UNCHANGED <<told, held, user, committed, left>>

\* The reference asked for goes, and may be the last one.
Release(t) ==
  /\ At(t, "release") /\ temps' = temps \ {t}
  /\ Go(t, IF held \cup temps' = {} THEN <<Step("drop"), Step("unlock")>> ELSE <<Step("unlock")>>)
  /\ UNCHANGED Session /\ UNCHANGED <<told, held, life, user, locks, committed, left, broken>>

\* SyncUser::log_out, under the user's mutex to the end.
LogOutUser(t) ==
  /\ locks.user = none /\ user.state # "loggedOut"
  /\ locks' = [locks EXCEPT !.user = t] /\ user' = [user EXCEPT !.state = "loggedOut"]
  /\ Begin(t, (IF user.pool = "sessions" /\ Alive THEN <<Step("logout")>> ELSE <<>>)
                \o <<Step("loggedOut")>>)
  /\ UNCHANGED Session /\ UNCHANGED <<told, held, temps, life, committed, broken>>

LoggedOut(t) ==
  /\ At(t, "loggedOut") /\ Go(t, <<>>) /\ locks' = [locks EXCEPT !.user = none]
  /\ user' = [user EXCEPT !.pool = IF @ = "sessions" THEN (IF Alive THEN "waiting" ELSE "none") ELSE @]
  /\ UNCHANGED Session /\ UNCHANGED <<told, held, temps, life, committed, left, broken>>

\* SyncUser::update_refresh_token: a user who logs in again has his sessions back.
LogIn(t) ==
  /\ locks.user = none /\ user.state = "loggedOut"
  /\ LET waits == user.pool = "waiting" /\ Alive IN
     /\ user' = [state |-> "active", pool |-> IF waits THEN "sessions" ELSE "none"]
     /\ Begin(t, IF waits THEN <<Step("revive")>> ELSE <<>>)
  /\ UNCHANGED Session /\ UNCHANGED <<told, held, temps, life, locks, committed, broken>>

\* RLMSyncSession suspend and resume; a token that is refused ends like suspend.
Suspend(t) ==
  Registered /\ Begin(t, <<Step("logout")>>) /\ UNCHANGED Session /\ UNCHANGED Outside
Resume(t) ==
  Registered /\ Begin(t, <<Step("revive")>>) /\ UNCHANGED Session /\ UNCHANGED Outside

\* SyncSession::log_out: whatever it is doing, it stops.
LogOut(t) ==
  /\ At(t, "logout") /\ (IF s.state = "inactive" THEN Stays(t) ELSE EnterInactive(t, <<>>))
  /\ UNCHANGED Outside /\ UNCHANGED left

\* setCustomRequestHeaders gives the session a new configuration.
NewHeaders(t) ==
  /\ user = [state |-> "active", pool |-> "sessions"] /\ Alive /\ locks.user = none
  /\ Begin(t, <<Step("configure")>>) /\ UNCHANGED Session /\ UNCHANGED Outside

\* SyncSession::update_configuration: inactive until it stays so, then revived.
UpdateConfiguration(t) ==
  /\ At(t, "configure")
  /\ IF s.state = "inactive" THEN Go(t, <<Step("revive")>>) /\ UNCHANGED Session
     ELSE EnterInactive(t, <<Step("configure")>>)
  /\ UNCHANGED Outside /\ UNCHANGED left

\* wait_for_upload_completion and wait_for_download_completion: the session is
\* asked only if nobody waits for that direction yet.
Waited ==
  Waiting \cup {w \in Waits :
    \/ told[w] > 0
    \/ \E t \in Threads : \E step \in Range(todo[t]) : step.name = "tell" /\ w \in step.waits}

WaitFor(t, d) ==
  /\ Registered /\ Begin(t, <<>>)
  /\ \E w \in Waits \ Waited :
       /\ \A v \in Waits \ Waited : w <= v
       /\ lists' = [lists EXCEPT ![d] = @ \cup {w}]
  /\ link' = IF lists[d] = {} /\ s.state \in {"active", "dying"}
             THEN [link EXCEPT !.handlers = @ (+) Watched({d}, s.session, link.announced)] ELSE link
  /\ UNCHANGED <<s, asked, ghost>> /\ UNCHANGED Outside

\* RealmCoordinator::commit_write: the file has a version more, then the session
\* is told of the latest one.
Commit(t) ==
  /\ t \in held \cap Writers /\ committed < MaxVersion /\ committed' = committed + 1
  /\ Begin(t, << [name |-> "notify", from |-> committed'] >>)
  /\ UNCHANGED Session /\ UNCHANGED <<told, held, temps, life, user, locks, broken>>

\* SyncSession::nonsync_transact_notify: at once, when there is a token, or not.
Notify(t) ==
  /\ At(t, "notify") /\ Go(t, <<>>)
  /\ \E v \in Head(todo[t]).from .. committed :
       /\ s' = IF s.state = "waiting" THEN [s EXCEPT !.deferredCommit = v] ELSE s
       /\ link' = IF s.state = "active" THEN [link EXCEPT !.announced = Max({@, v})] ELSE link
       /\ ghost' = IF s.state = "dying" THEN ghost ELSE [ghost EXCEPT !.noted = Max({@, v})]
  /\ UNCHANGED <<lists, asked>> /\ UNCHANGED Outside /\ UNCHANGED left

\* The blocks are called.
CallBlocks(t) ==
  /\ At(t, "tell") /\ Go(t, <<>>)
  /\ told' = [w \in Waits |-> told[w] + IF w \in Head(todo[t]).waits THEN 1 ELSE 0]
  /\ UNCHANGED Session
  /\ UNCHANGED <<held, temps, life, user, locks, committed, left, broken>>

---------------------------------------------------------------------------------
(* The sync client. *)

\* A changeset is acknowledged by the server; it need not have been announced.
Upload ==
  /\ s.session # 0 /\ link.uploaded < committed
  /\ link' = [link EXCEPT !.uploaded = @ + 1]
  /\ UNCHANGED <<s, lists, asked, ghost, todo, left>> /\ UNCHANGED Outside

\* What a completion handler is called for: it is done, or its session is gone.
Done(h) == h.session # s.session \/ h.kind = "download" \/ h.upto <= link.uploaded

\* Mutation of EndsDeath: a death that was called off ends the next one.
EndsAnyDeath(h) == s.state = "dying"

\* The handler of Dying::enter_state.
EndsDeath(h) == s.state = "dying" /\ s.deaths = h.death

\* A completion handler is called, of a session that is there or was destroyed.
Completed(h) ==
  /\ todo[client] = <<>> /\ h \in DOMAIN link.handlers /\ Done(h)
  /\ link' = [link EXCEPT !.handlers = BagRemove(@, h)]
  /\ CASE h.kind = "death" /\ Alive /\ EndsDeath(h) ->
            /\ s' = [s EXCEPT !.state = "inactive", !.session = 0] /\ lists' = Empty
            /\ todo' = [todo EXCEPT ![client] = <<Step("unregister")>> \o Tell(Waiting)]
       [] h.kind \in Directions /\ Alive ->
            /\ lists' = [lists EXCEPT ![h.kind] = {}]
            /\ todo' = [todo EXCEPT ![client] = Tell(lists[h.kind])]
            /\ UNCHANGED s
       [] OTHER -> UNCHANGED <<s, lists, todo>>
  /\ UNCHANGED <<asked, ghost, left>> /\ UNCHANGED Outside

\* SyncSession::handle_error, its first critical section: a dying session ends
\* with a fatal error and swallows any other.
Errors == {"token_expired", "bad_authentication", "file", "other"}

HandleError(error, fatal) ==
  /\ link.sessions > 0 /\ Alive /\ left > 0 /\ left' = left - 1 /\ todo[client] = <<>>
  /\ IF s.state = "dying"
     THEN IF fatal
          THEN /\ s' = [s EXCEPT !.state = "inactive", !.session = 0] /\ lists' = Empty
               /\ todo' = [todo EXCEPT ![client] = <<Step("unregister")>> \o Tell(Waiting)]
          ELSE UNCHANGED <<s, lists, todo>>
     ELSE todo' = [todo EXCEPT ![client] = <<Step(error)>>] /\ UNCHANGED <<s, lists>>
  /\ UNCHANGED <<asked, link, ghost>> /\ UNCHANGED Outside

\* cancel_pending_waits.
CancelPendingWaits(more) ==
  lists' = Empty /\ Go(client, Tell(Waiting) \o more) /\ UNCHANGED <<s, asked, link, ghost>>

\* token_expired: access_token_expired asks for another token, with the same session.
TokenExpired ==
  /\ At(client, "token_expired") /\ Go(client, <<>>)
  /\ s' = IF s.state = "active" THEN [s EXCEPT !.state = "waiting", !.deferredClose = FALSE] ELSE s
  /\ asked' = (asked \/ s.state = "active")
  /\ UNCHANGED <<lists, link, ghost, left>> /\ UNCHANGED Outside

\* bad_authentication: the waits end, and the user is invalid.
BadAuthentication ==
  /\ At(client, "bad_authentication") /\ CancelPendingWaits(<<Step("invalidate")>>)
  /\ UNCHANGED Outside /\ UNCHANGED left

Invalidate ==
  /\ At(client, "invalidate") /\ locks.user = none /\ Go(client, <<>>)
  /\ user' = [user EXCEPT !.state = "error"]
  /\ UNCHANGED Session /\ UNCHANGED <<told, held, temps, life, locks, committed, left, broken>>

\* The errors about the file: the session ends, even if it has ended meanwhile.
FileError ==
  /\ At(client, "file") /\ EnterInactive(client, <<>>)
  /\ UNCHANGED Outside /\ UNCHANGED left

\* Other fatal errors, and any with cancel_waits_on_nonfatal_error: the waits end.
OtherError ==
  /\ At(client, "other") /\ CancelPendingWaits(<<>>)
  /\ UNCHANGED Outside /\ UNCHANGED left

---------------------------------------------------------------------------------
Call(t) ==
  \/ GetSession(t) \/ DropReference(t) \/ LogOutUser(t) \/ LogIn(t)
  \/ Suspend(t) \/ Resume(t) \/ NewHeaders(t) \/ Commit(t)
  \/ \E d \in Directions : WaitFor(t, d)

GoOn(t) ==
  \/ Register(t) \/ Refer(t) \/ Unlock(t) \/ ReviveIfNeeded(t) \/ DidDrop(t)
  \/ Unregister(t) \/ Release(t) \/ LoggedOut(t) \/ LogOut(t) \/ UpdateConfiguration(t)
  \/ Notify(t) \/ CallBlocks(t)

Client ==
  \/ Upload \/ \E h \in DOMAIN link.handlers : Completed(h)
  \/ \E error \in Errors, fatal \in BOOLEAN : HandleError(error, fatal)
  \/ TokenExpired \/ BadAuthentication \/ Invalidate \/ FileError \/ OtherError

Next ==
  /\ ~broken /\ (life = "erased" => Alive)
  /\ (\E t \in Callers : Call(t)) \/ (\E t \in Threads : GoOn(t)) \/ RefreshAccessToken \/ Client

Spec == Init /\ [][Next]_vars

---------------------------------------------------------------------------------
(* What must be true. *)

\* Where a block is: in a list, in what a thread is about to call, or called.
Places(w) ==
  told[w] + Cardinality({d \in Directions : w \in lists[d]})
    + Cardinality({x \in UNION {{t} \X DOMAIN todo[t] : t \in Threads} :
        todo[x[1]][x[2]].name = "tell" /\ w \in todo[x[1]][x[2]].waits})

\* While the session is connected nobody waits in vain: for each direction in
\* which blocks wait the present sync::Session has a handler that calls them,
\* and for a session that is dying one that ends it, after any number of
\* revivals, expired tokens and new sessions.  And nobody is called twice: a
\* block is in one place.
NobodyIsForgotten ==
  /\ Alive /\ s.state \in {"active", "dying"} =>
       /\ \A d \in {e \in Directions : lists[e] # {}} : \E h \in DOMAIN link.handlers : h.kind = d /\ h.session = s.session
       /\ s.state = "dying" => \E h \in DOMAIN link.handlers :
            h.kind = "death" /\ h.session = s.session /\ h.death = s.deaths
  /\ \A w \in Waits : Places(w) <= 1

\* A session that closes after its changes are uploaded does so when the server
\* has all that was announced before it began to die, not when an earlier death
\* that was called off is over.
DyingLosesNothing ==
  [][\A h \in DOMAIN link.handlers :
       Completed(h) /\ s.state = "dying" /\ s'.state = "inactive" => ghost.owed <= link.uploaded]_vars

\* With a token, the client knows of every commit the session was notified of,
\* while it waited for the token too; what comes while it is dying is left out.
\* (With two threads that commit, the older notification may be kept.)
ActiveHasAnnounced == s.state = "active" => ghost.noted <= link.announced

\* As long as a Realm holds the session the manager finds it: no second session
\* is made for the file, whatever ends the session at the same time.
ReferredIsRegistered == held # {} => Registered
=================================================================================
