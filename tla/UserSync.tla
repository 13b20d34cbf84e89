------------------------------ MODULE UserSync ------------------------------
(***************************************************************************)
(* Cross-device user data: My List, progress and Continue Watching live in *)
(* a browser's localStorage (static/js/storage.js) and are mirrored to the *)
(* account by a debounced sync, which the server merges item by item       *)
(* (internal/server/handlers_userdata.go).                                 *)
(***************************************************************************)
EXTENDS Integers, FiniteSets

CONSTANTS
    Devices,     \* browsers, one page each
    Users,       \* accounts
    Titles,
    MaxClock,    \* bound: edits are stamped 1..MaxClock
    MaxFlights,  \* bound: syncs of one page under way at once
    MaxLoads,    \* bound: page loads after the first, anywhere
    CWMax,       \* entries Continue Watching holds
    Nobody

ASSUME UserSyncAssumption ==
    /\ {MaxClock, MaxFlights, CWMax} \subseteq Nat \ {0}
    /\ MaxLoads \in Nat
    /\ Nobody \notin Users

VARIABLES
    clock,    \* stamp of the last edit, anywhere
    account,  \* [Users -> Data]                   userdata rows; no row: Empty
    local,    \* [Devices -> Data]                 localStorage
    bound,    \* [Devices -> Users or Nobody]      goflix_user
    cookie,   \* [Devices -> Users or Nobody]      whose session the browser has
    page,     \* [Devices -> Page]                 storage.js in the page open
    flights,  \* set of Flight                     /api/userdata/sync under way
    author,   \* [1..MaxClock -> Users or Nobody]  whose browser an edit was made in
    loads     \* page loads so far

vars == <<clock, account, local, bound, cookie, page, flights, author, loads>>

Stamps == 0..MaxClock

\* What is kept of an entry is its stamp (listAt, at); 0: there is none.
\* removed: the tombstones, one map for My List and Continue Watching.
Data == [list : [Titles -> Stamps], cw : [Titles -> Stamps],
         progress : [Titles -> Stamps], removed : [Titles -> Stamps], prefs : Stamps]

None == [t \in Titles |-> 0]
Empty == [list |-> None, cw |-> None, progress |-> None, removed |-> None, prefs |-> 0]

\* binding: initPromise is not resolved.  leaving: how far a sign-out has got.
Page == [binding : BOOLEAN, sync : {"pending", "on", "off"}, timer : BOOLEAN,
         leaving : {"no", "logout", "cleared"}]

Fresh == [binding |-> TRUE, sync |-> "pending", timer |-> FALSE, leaving |-> "no"]

\* user: whose cookie went with the request.  data: the snapshot, then the answer.
\* orphan: sent by a page that has been left since.
Flight == [dev : Devices, user : Users \cup {Nobody},
           stage : {"sent", "orphan", "answered", "denied"}, data : Data]

Init ==
    /\ clock = 0
    /\ account = [u \in Users |-> Empty]
    /\ local = [d \in Devices |-> Empty]
    /\ bound = [d \in Devices |-> Nobody]
    /\ cookie \in [Devices -> Users \cup {Nobody}]
    /\ page = [d \in Devices |-> Fresh]
    /\ flights = {}
    /\ author = [n \in 1..MaxClock |-> Nobody]
    /\ loads = 0

-----------------------------------------------------------------------------
(* The merge *)

Later(a, b) == IF a >= b THEN a ELSE b

\* Fault: the client's copy wins, however old.
NewestClient(f, g) == [t \in Titles |-> IF f[t] # 0 THEN f[t] ELSE g[t]]

Newest(f, g) == [t \in Titles |-> Later(f[t], g[t])]

\* Fault: an entry outlives its tombstone.
AliveAlways(f, removed) == f

\* filterTombstoned, and applyTombstones in the client.
Alive(f, removed) == [t \in Titles |-> IF removed[t] >= f[t] THEN 0 ELSE f[t]]

\* The CWMax newest entries.
Capped(f) ==
    [t \in Titles |-> IF Cardinality({u \in Titles : f[u] > f[t]}) < CWMax THEN f[t] ELSE 0]

\* The server's My List is a union in which the client's copy is kept; the rest
\* keeps the newest stamp.
Merge(st, in) ==
    LET removed == Newest(in.removed, st.removed)
        union == [t \in Titles |-> IF in.list[t] # 0 THEN in.list[t] ELSE st.list[t]]
    IN  [list |-> Alive(union, removed),
         cw |-> Alive(Capped(Newest(in.cw, st.cw)), removed),
         progress |-> Newest(in.progress, st.progress),
         removed |-> removed,
         prefs |-> Later(in.prefs, st.prefs)]

-----------------------------------------------------------------------------
(* Edits *)

Now == clock + 1

\* An edit is written to localStorage, and queues a sync unless sync is off.
Edit(d, data) ==
    /\ clock < MaxClock
    /\ clock' = Now
    /\ local' = [local EXCEPT ![d] = data]
    /\ page' = [page EXCEPT ![d].timer = @ \/ page[d].sync # "off"]
    /\ author' = [author EXCEPT ![Now] = bound[d]]
    /\ UNCHANGED <<account, bound, cookie, flights, loads>>

\* Removing a title leaves a tombstone; adding it to My List again clears it.
ToggleMyList(d, t) ==
    Edit(d, IF local[d].list[t] = 0
            THEN [local[d] EXCEPT !.list[t] = Now, !.removed[t] = 0]
            ELSE [local[d] EXCEPT !.list[t] = 0, !.removed[t] = Now])

SaveProgress(d, t) == Edit(d, [local[d] EXCEPT !.progress[t] = Now])

AddToContinueWatching(d, t) ==
    Edit(d, [local[d] EXCEPT !.cw = Capped([@ EXCEPT ![t] = Now])])

RemoveFromContinueWatching(d, t) ==
    Edit(d, [local[d] EXCEPT !.cw[t] = 0, !.removed[t] = Now])

SaveAVPrefs(d) == Edit(d, [local[d] EXCEPT !.prefs = Now])

-----------------------------------------------------------------------------
(* The sync *)

Snapshot(data) ==
    [data EXCEPT !.list = Alive(data.list, data.removed), !.cw = Alive(data.cw, data.removed)]

\* The syncs of the page that is open.
UnderWay(d) == {f \in flights : f.dev = d /\ f.stage # "orphan"}

\* syncNowInternal, with the localStorage the step leaves.
SyncNow(d, data) ==
    \/ /\ page[d].sync = "off"
       /\ UNCHANGED flights
    \/ /\ page[d].sync # "off"
       /\ Cardinality(UnderWay(d)) < MaxFlights
       /\ flights' = flights \cup {[dev |-> d, user |-> cookie[d], stage |-> "sent",
                                    data |-> Snapshot(data)]}

\* Fault: syncNow does not wait for initPromise.
SyncTimerEarly(d) ==
    /\ page[d].timer
    /\ page' = [page EXCEPT ![d].timer = FALSE]
    /\ SyncNow(d, local[d])
    /\ UNCHANGED <<clock, account, local, bound, cookie, author, loads>>

\* The debounce timer of queueSync: syncNow.
SyncTimer(d) ==
    /\ page[d].timer
    /\ ~page[d].binding
    /\ page' = [page EXCEPT ![d].timer = FALSE]
    /\ SyncNow(d, local[d])
    /\ UNCHANGED <<clock, account, local, bound, cookie, author, loads>>

\* The answer takes the request's place, when a page is left to hear it.
Answered(f, answer) == (flights \ {f}) \cup {g \in {answer} : f.stage = "sent"}

\* userdataSyncHandler: the session is looked up as the request arrives, and a
\* failure to save is only logged.
Serve(f) ==
    LET u == f.user
        merged == Merge(account[u], f.data)
    IN  /\ f.stage \in {"sent", "orphan"}
        /\ \/ /\ u # Nobody /\ cookie[f.dev] = u
              /\ \/ account' = [account EXCEPT ![u] = merged]
                 \/ UNCHANGED account
              /\ flights' = Answered(f, [f EXCEPT !.stage = "answered", !.data = merged])
           \/ /\ u = Nobody \/ cookie[f.dev] # u
              /\ flights' = Answered(f, [f EXCEPT !.stage = "denied"])
              /\ UNCHANGED account
        /\ UNCHANGED <<clock, local, bound, cookie, page, author, loads>>

\* Fault: the preferences are replaced like all the rest.
AppliedWholly(data, answer) ==
    [answer EXCEPT !.removed = IF @ = None THEN data.removed ELSE @]

\* applyMerged: everything is replaced, but not newer preferences, nor tombstones
\* by none (the answer omits an empty map).
Applied(data, answer) ==
    [answer EXCEPT !.removed = IF @ = None THEN data.removed ELSE @,
                   !.prefs = Later(answer.prefs, data.prefs)]

Hear(f) ==
    /\ f.stage \in {"answered", "denied"}
    /\ flights' = flights \ {f}
    /\ IF f.stage = "answered"
       THEN /\ local' = [local EXCEPT ![f.dev] = Applied(local[f.dev], f.data)]
            /\ page' = [page EXCEPT ![f.dev].sync = "on"]
       ELSE /\ page' = [page EXCEPT ![f.dev].sync = "off"]
            /\ UNCHANGED local
    /\ UNCHANGED <<clock, account, bound, cookie, author, loads>>

\* The request or its answer is lost: "local state remains authoritative".
Lose(f) ==
    /\ flights' = flights \ {f}
    /\ UNCHANGED <<clock, account, local, bound, cookie, page, author, loads>>

-----------------------------------------------------------------------------
(* initialSync: whose data this is *)

\* Nobody is signed in: nothing leaves this browser.
BindAnonymous(d) ==
    /\ page[d].binding
    /\ cookie[d] = Nobody
    /\ page' = [page EXCEPT ![d].binding = FALSE, ![d].sync = "off"]
    /\ UNCHANGED <<clock, account, local, bound, cookie, flights, author, loads>>

\* Another known account's data is wiped, an anonymous visitor's adopted.  A timer
\* that fired is waiting for this, and not cleared.
BindUser(d) ==
    LET other == bound[d] \notin {Nobody, cookie[d]}
        data == IF other THEN Empty ELSE local[d]
    IN  /\ page[d].binding
        /\ cookie[d] # Nobody
        /\ local' = [local EXCEPT ![d] = data]
        /\ bound' = [bound EXCEPT ![d] = cookie[d]]
        /\ \E fired \in BOOLEAN :
              page' = [page EXCEPT ![d].binding = FALSE, ![d].timer = @ /\ (fired \/ ~other)]
        /\ SyncNow(d, data)
        /\ UNCHANGED <<clock, account, cookie, author, loads>>

\* The status request fails: the binding is written empty, and a sync sent.
BindUnreachable(d) ==
    /\ page[d].binding
    /\ bound' = [bound EXCEPT ![d] = Nobody]
    /\ page' = [page EXCEPT ![d].binding = FALSE]
    /\ SyncNow(d, local[d])
    /\ UNCHANGED <<clock, account, local, cookie, author, loads>>

-----------------------------------------------------------------------------
(* Signing in and out *)

\* A page load: nobody hears the answers any more that the page before waited
\* for; kept: what may still reach the server of what it sent.
Load(d, kept) ==
    /\ page' = [page EXCEPT ![d] = Fresh]
    /\ flights' = {f \in flights : f.dev # d} \cup kept
    /\ loads < MaxLoads
    /\ loads' = loads + 1
    /\ UNCHANGED <<clock, account, local, bound, author>>

Orphans(d) ==
    {[f EXCEPT !.stage = "orphan"] :
        f \in {g \in flights : g.dev = d /\ g.stage \in {"sent", "orphan"}}}

Reload(d) == Load(d, Orphans(d)) /\ UNCHANGED cookie

\* The sign-in page leads back to the first page.  What was sent before went with
\* a session that is over, and only meets a refusal.
SignIn(d, u) ==
    /\ cookie[d] = Nobody
    /\ cookie' = [cookie EXCEPT ![d] = u]
    /\ Load(d, {})

\* The session ends on the server: it expired, or was signed out elsewhere.
SessionEnds(d) ==
    /\ cookie[d] # Nobody
    /\ cookie' = [cookie EXCEPT ![d] = Nobody]
    /\ UNCHANGED <<clock, account, local, bound, page, flights, author, loads>>

\* Signing out: the request, which may fail; then the data of this browser is
\* cleared; then the page is left, by Reload.
SignOut(d) ==
    /\ cookie[d] # Nobody
    /\ page[d].leaving = "no"
    /\ page' = [page EXCEPT ![d].leaving = "logout"]
    /\ \E c \in {Nobody, cookie[d]} : cookie' = [cookie EXCEPT ![d] = c]
    /\ UNCHANGED <<clock, account, local, bound, flights, author, loads>>

ClearLocalUserData(d) ==
    /\ page[d].leaving = "logout"
    /\ local' = [local EXCEPT ![d] = Empty]
    /\ bound' = [bound EXCEPT ![d] = Nobody]
    /\ page' = [page EXCEPT ![d].leaving = "cleared", ![d].timer = FALSE, ![d].sync = "off"]
    /\ UNCHANGED <<clock, account, cookie, flights, author, loads>>

\* userdataClearHandler
ClearAccount(u) ==
    /\ \E d \in Devices : cookie[d] = u
    /\ account' = [account EXCEPT ![u] = Empty]
    /\ UNCHANGED <<clock, local, bound, cookie, page, flights, author, loads>>

Next ==
    \/ \E d \in Devices, t \in Titles :
          \/ ToggleMyList(d, t) \/ SaveProgress(d, t)
          \/ AddToContinueWatching(d, t) \/ RemoveFromContinueWatching(d, t)
    \/ \E d \in Devices :
          \/ SaveAVPrefs(d) \/ SyncTimer(d)
          \/ BindAnonymous(d) \/ BindUser(d) \/ BindUnreachable(d)
          \/ Reload(d) \/ SessionEnds(d) \/ SignOut(d) \/ ClearLocalUserData(d)
          \/ \E u \in Users : SignIn(d, u)
    \/ \E f \in flights : Serve(f) \/ Hear(f) \/ Lose(f)
    \/ \E u \in Users : ClearAccount(u)

Spec == Init /\ [][Next]_vars

-----------------------------------------------------------------------------
(* Properties *)

TypeOK ==
    /\ clock \in Stamps
    /\ account \in [Users -> Data]
    /\ local \in [Devices -> Data]
    /\ bound \in [Devices -> Users \cup {Nobody}]
    /\ cookie \in [Devices -> Users \cup {Nobody}]
    /\ page \in [Devices -> Page]
    /\ flights \in SUBSET Flight
    /\ author \in [1..MaxClock -> Users \cup {Nobody}]
    /\ loads \in 0..MaxLoads

\* "Never snapshot local data before the initial binding decision" (syncNow):
\* no sync is under way while it is open whose data this is.
BoundBeforeSync == \A d \in Devices : page[d].binding => UnderWay(d) = {}

\* A title that was removed stays removed on the server, however old the copies
\* that devices still send (handlers_userdata.go: "keeps one device's deletion
\* from being resurrected by another device's older copy").
NoZombies ==
    \A u \in Users, t \in Titles :
        /\ account[u].list[t] # 0 => account[u].list[t] > account[u].removed[t]
        /\ account[u].cw[t] # 0 => account[u].cw[t] > account[u].removed[t]

AsNew(a, b) ==
    /\ \A t \in Titles : a.progress[t] >= b.progress[t] /\ a.removed[t] >= b.removed[t]
    /\ a.prefs >= b.prefs

\* Syncs that arrive late or out of order take no progress, tombstone or
\* preference of the account back to an older one (merge: "newer At wins"); only
\* deleting the data does.
ServerKeepsNewest ==
    [][\A u \in Users : account'[u] = Empty \/ AsNew(account'[u], account[u])]_vars

\* Preferences set while a sync is under way survive its answer (applyMerged
\* compares the clocks).
PrefsNeverBack ==
    [][\A d \in Devices : local'[d].prefs < local[d].prefs => local'[d] = Empty]_vars

\* "A shared computer's next visitor starts clean instead of inheriting the
\* previous user's list and progress" (clearLocalUserData): in a browser that
\* sign-out has cleared, nothing turns up again but what is edited there.
ClearedStaysEmpty ==
    [][\A d \in Devices :
          page[d].leaving = "cleared" /\ cookie[d] = Nobody
              /\ local[d] = Empty /\ clock' = clock => local'[d] = Empty]_vars

\* "Entries newer than the tombstone (re-adds) survive it" (userDataState).
ReAddsSurvive ==
    [][\A u \in Users, t \in Titles :
          account'[u] # Empty /\ account[u].list[t] > account'[u].removed[t] =>
              account'[u].list[t] # 0]_vars

\* "Different accounts never see each other's data": what an account holds was
\* edited in browsers bound to it, or to none.
Isolated ==
    \A u \in Users, t \in Titles, n \in 1..MaxClock :
        n \in {account[u].list[t], account[u].cw[t], account[u].progress[t], account[u].prefs}
            => author[n] \in {u, Nobody}
=============================================================================
