--------------------------- MODULE UserSyncProofs ---------------------------
(***************************************************************************)
(* For any browsers, accounts and titles: what a merge keeps, and that no  *)
(* order of edits, syncs, page loads and sign-outs breaks it.              *)
(***************************************************************************)
EXTENDS UserSync, TLAPS

\* No preference is stamped after the last edit, wherever it has got to.
PrefsArePast ==
    /\ \A u \in Users : account[u].prefs <= clock
    /\ \A d \in Devices : local[d].prefs <= clock
    /\ \A f \in flights : f.data.prefs <= clock

\* What NoZombies says of one account.
Sound(st) ==
    \A t \in Titles : /\ st.list[t] # 0 => st.list[t] > st.removed[t]
                      /\ st.cw[t] # 0 => st.cw[t] > st.removed[t]

IInv == TypeOK /\ BoundBeforeSync /\ NoZombies /\ PrefsArePast

-----------------------------------------------------------------------------
(* The operators *)

LEMMA NowIsStamp == ASSUME TypeOK, clock < MaxClock PROVE Now \in Stamps /\ Now > clock
BY UserSyncAssumption DEF TypeOK, Now, Stamps

LEMMA EmptyIsData == Empty \in Data /\ Empty.prefs = 0
BY UserSyncAssumption DEF Empty, None, Data, Stamps

LEMMA LaterType ==
    ASSUME NEW a \in Stamps, NEW b \in Stamps
    PROVE  Later(a, b) \in Stamps /\ Later(a, b) >= a /\ Later(a, b) >= b
           /\ Later(a, b) \in {a, b}
BY UserSyncAssumption DEF Later, Stamps

LEMMA NewestType ==
    ASSUME NEW f \in [Titles -> Stamps], NEW g \in [Titles -> Stamps]
    PROVE  /\ Newest(f, g) \in [Titles -> Stamps]
           /\ \A t \in Titles : Newest(f, g)[t] >= f[t] /\ Newest(f, g)[t] >= g[t]
BY LaterType DEF Newest

LEMMA AliveType ==
    ASSUME NEW f \in [Titles -> Stamps], NEW removed \in [Titles -> Stamps]
    PROVE  /\ Alive(f, removed) \in [Titles -> Stamps]
           /\ \A t \in Titles : Alive(f, removed)[t] # 0 => Alive(f, removed)[t] > removed[t]
BY UserSyncAssumption DEF Alive, Stamps

LEMMA CappedType ==
    ASSUME NEW f \in [Titles -> Stamps] PROVE Capped(f) \in [Titles -> Stamps]
BY UserSyncAssumption DEF Capped, Stamps

\* The merge of two states is a state; tombstones outrank what it keeps; and
\* progress, tombstones and preferences are as new as in either.
LEMMA MergeKeeps ==
    ASSUME NEW st \in Data, NEW in \in Data
    PROVE  LET m == Merge(st, in)
           IN  /\ m \in Data
               /\ \A t \in Titles :
                     /\ m.list[t] # 0 => m.list[t] > m.removed[t]
                     /\ m.cw[t] # 0 => m.cw[t] > m.removed[t]
                     /\ m.progress[t] >= st.progress[t]
                     /\ m.removed[t] >= st.removed[t]
               /\ m.prefs >= st.prefs
               /\ m.prefs \in {st.prefs, in.prefs}
<1> DEFINE removed == Newest(in.removed, st.removed)
           union == [t \in Titles |-> IF in.list[t] # 0 THEN in.list[t] ELSE st.list[t]]
           cw == Capped(Newest(in.cw, st.cw))
           m == Merge(st, in)
<1>1. /\ \A g \in {st, in} : /\ {g.list, g.cw, g.progress, g.removed} \subseteq [Titles -> Stamps]
                             /\ g.prefs \in Stamps
  BY DEF Data
<1>2. /\ removed \in [Titles -> Stamps] /\ union \in [Titles -> Stamps]
      /\ cw \in [Titles -> Stamps]
  BY <1>1, NewestType, CappedType
<1>3. /\ m.list = Alive(union, removed) /\ m.cw = Alive(cw, removed)
      /\ m.progress = Newest(in.progress, st.progress)
      /\ m.removed = removed
      /\ m.prefs = Later(in.prefs, st.prefs)
  BY DEF Merge
<1>4. m \in Data
  <2>1. /\ Alive(union, removed) \in [Titles -> Stamps] /\ Alive(cw, removed) \in [Titles -> Stamps]
        /\ Newest(in.progress, st.progress) \in [Titles -> Stamps]
        /\ Later(in.prefs, st.prefs) \in Stamps
    BY <1>1, <1>2, AliveType, NewestType, LaterType
  <2> HIDE DEF removed, union, cw
  <2> QED BY <2>1, <1>2 DEF Merge, Data, removed, union, cw
<1> HIDE DEF removed, union, cw, m
<1>5. ASSUME NEW t \in Titles
      PROVE  /\ m.list[t] # 0 => m.list[t] > m.removed[t]
             /\ m.cw[t] # 0 => m.cw[t] > m.removed[t]
  BY <1>2, <1>3, AliveType
<1>6. ASSUME NEW t \in Titles
      PROVE  m.progress[t] >= st.progress[t] /\ m.removed[t] >= st.removed[t]
  <2>1. Newest(in.progress, st.progress)[t] >= st.progress[t]
    BY <1>1, NewestType
  <2>2. removed[t] >= st.removed[t]
    BY <1>1, NewestType DEF removed
  <2> QED BY <2>1, <2>2, <1>3
<1>7. m.prefs >= st.prefs /\ m.prefs \in {st.prefs, in.prefs}
  BY <1>1, <1>3, LaterType
<1> QED BY <1>4, <1>5, <1>6, <1>7 DEF m

LEMMA SnapshotType ==
    ASSUME NEW data \in Data PROVE Snapshot(data) \in Data /\ Snapshot(data).prefs = data.prefs
<1>1. /\ Alive(data.list, data.removed) \in [Titles -> Stamps]
      /\ Alive(data.cw, data.removed) \in [Titles -> Stamps]
  BY AliveType DEF Data
<1> QED BY <1>1 DEF Snapshot, Data

LEMMA AppliedType ==
    ASSUME NEW data \in Data, NEW answer \in Data
    PROVE  /\ Applied(data, answer) \in Data
           /\ Applied(data, answer).prefs >= data.prefs
           /\ Applied(data, answer).prefs \in {data.prefs, answer.prefs}
<1> DEFINE removed == IF answer.removed = None THEN data.removed ELSE answer.removed
<1>2. removed \in [Titles -> Stamps]
  BY DEF Data
<1>3. Applied(data, answer) = [answer EXCEPT !.removed = removed,
                                            !.prefs = Later(answer.prefs, data.prefs)]
  BY DEF Applied, Data
<1> HIDE DEF removed
<1>1. Later(answer.prefs, data.prefs) \in Stamps /\ Later(answer.prefs, data.prefs) >= data.prefs
      /\ Later(answer.prefs, data.prefs) \in {data.prefs, answer.prefs}
  BY LaterType DEF Data
<1> QED BY <1>1, <1>2, <1>3 DEF Data
-----------------------------------------------------------------------------
(* Edits and syncs *)

\* syncNowInternal adds at most a request of its own page, and none when off.
LEMMA SyncNowAdds ==
    ASSUME TypeOK, NEW d \in Devices, NEW data \in Data, SyncNow(d, data)
    PROVE  /\ flights' \in SUBSET Flight
           /\ \A f \in flights' : \/ f \in flights
                                  \/ f.dev = d /\ f.data.prefs = data.prefs /\ page[d].sync # "off"
<1> DEFINE new == [dev |-> d, user |-> cookie[d], stage |-> "sent", data |-> Snapshot(data)]
<1>1. new \in Flight /\ new.dev = d /\ new.data.prefs = data.prefs
  <2>1. cookie[d] \in Users \cup {Nobody}
    BY DEF TypeOK
  <2> QED BY <2>1, SnapshotType DEF Flight
<1> HIDE DEF new
<1> QED BY <1>1 DEF SyncNow, TypeOK, new

\* An edit of stamp Now is the newest there is.
LEMMA EditInv ==
    ASSUME IInv, NEW d \in Devices, NEW data \in Data,
           data.prefs <= Now, Edit(d, data)
    PROVE  IInv'
<1> USE DEF IInv
<1>1. Now \in Stamps /\ Now > clock /\ clock \in Int
  BY NowIsStamp DEF Edit, TypeOK, Stamps
<1>2. TypeOK'
  <2>1. page' \in [Devices -> Page]
    <3>1. [page[d] EXCEPT !.timer = @ \/ page[d].sync # "off"] \in Page
      BY DEF TypeOK, Page
    <3> QED BY <3>1 DEF Edit, TypeOK
  <2>2. author' \in [1..MaxClock -> Users \cup {Nobody}]
    BY DEF Edit, TypeOK
  <2>3. local' \in [Devices -> Data] /\ clock' \in Stamps
    BY <1>1 DEF Edit, TypeOK
  <2> QED BY <2>1, <2>2, <2>3 DEF Edit, TypeOK
<1>3. BoundBeforeSync'
  <2>1. \A e \in Devices : page'[e].binding = page[e].binding
    BY DEF Edit, TypeOK, Page
  <2> QED BY <2>1 DEF Edit, BoundBeforeSync, UnderWay
<1>4. NoZombies'
  BY DEF Edit, NoZombies
<1>5. PrefsArePast'
  <2>1. \A e \in Devices : local'[e].prefs <= Now
    <3> SUFFICES ASSUME NEW e \in Devices PROVE local'[e].prefs <= Now
      OBVIOUS
    <3>1. CASE e = d BY <3>1 DEF Edit, TypeOK
    <3>2. CASE e # d
      <4>1. local'[e].prefs = local[e].prefs /\ local[e].prefs <= clock /\ local[e].prefs \in Int
        BY <3>2, UserSyncAssumption DEF Edit, TypeOK, PrefsArePast, Data, Stamps
      <4> QED BY <4>1, <1>1 DEF Stamps
    <3> QED BY <3>1, <3>2
  <2>2. \A u \in Users : account[u].prefs \in Int /\ account[u].prefs <= clock
    BY UserSyncAssumption DEF TypeOK, PrefsArePast, Data, Stamps
  <2>3. \A f \in flights : f.data.prefs \in Int /\ f.data.prefs <= clock
    BY UserSyncAssumption DEF TypeOK, PrefsArePast, Flight, Data, Stamps
  <2>4. clock' = Now /\ account' = account /\ flights' = flights
    BY DEF Edit
  <2> QED BY <1>1, <2>1, <2>2, <2>3, <2>4 DEF PrefsArePast, Stamps
<1> QED BY <1>2, <1>3, <1>4, <1>5

\* An edit of a title leaves the preferences as they were.
LEMMA TitleEdit ==
    ASSUME IInv, NEW d \in Devices, NEW t \in Titles,
           \/ ToggleMyList(d, t) \/ SaveProgress(d, t)
           \/ AddToContinueWatching(d, t) \/ RemoveFromContinueWatching(d, t)
    PROVE  \E data \in Data : /\ Edit(d, data)
                              /\ data.prefs = local[d].prefs
                              /\ data.prefs <= Now
<1>0. clock < MaxClock
  BY DEF ToggleMyList, SaveProgress, AddToContinueWatching, RemoveFromContinueWatching, Edit
<1>1. Now \in Stamps /\ Now > clock /\ 0 \in Stamps
  BY <1>0, NowIsStamp, UserSyncAssumption DEF IInv, Stamps
<1>2. local[d] \in Data /\ local[d].prefs <= clock /\ clock \in Int
  BY UserSyncAssumption DEF IInv, TypeOK, PrefsArePast, Stamps
<1>3. local[d].prefs <= Now
  BY <1>1, <1>2, UserSyncAssumption DEF Data, Stamps
<1>4. CASE ToggleMyList(d, t)
  <2> DEFINE added == [local[d] EXCEPT !.list[t] = Now, !.removed[t] = 0]
             removed == [local[d] EXCEPT !.list[t] = 0, !.removed[t] = Now]
  <2>1. /\ added \in Data /\ added.prefs = local[d].prefs
        /\ removed \in Data /\ removed.prefs = local[d].prefs
    BY <1>1, <1>2 DEF Data
  <2>2. Edit(d, added) \/ Edit(d, removed)
    BY <1>4 DEF ToggleMyList
  <2> HIDE DEF added, removed
  <2> QED BY <1>3, <2>1, <2>2
<1>5. CASE SaveProgress(d, t)
  <2> DEFINE data == [local[d] EXCEPT !.progress[t] = Now]
  <2>1. data \in Data /\ data.prefs = local[d].prefs
    BY <1>1, <1>2 DEF Data
  <2>2. Edit(d, data)
    BY <1>5 DEF SaveProgress
  <2> HIDE DEF data
  <2> QED BY <1>3, <2>1, <2>2
<1>6. CASE AddToContinueWatching(d, t)
  <2> DEFINE cw == Capped([local[d].cw EXCEPT ![t] = Now])
             data == [local[d] EXCEPT !.cw = cw]
  <2>1. cw \in [Titles -> Stamps]
    BY <1>1, <1>2, CappedType DEF Data
  <2>2. Edit(d, data)
    BY <1>2, <1>6 DEF AddToContinueWatching, Data
  <2> HIDE DEF cw
  <2>3. data \in Data /\ data.prefs = local[d].prefs
    BY <1>2, <2>1 DEF Data
  <2> HIDE DEF data
  <2> QED BY <1>3, <2>2, <2>3
<1>7. CASE RemoveFromContinueWatching(d, t)
  <2> DEFINE data == [local[d] EXCEPT !.cw[t] = 0, !.removed[t] = Now]
  <2>1. data \in Data /\ data.prefs = local[d].prefs
    BY <1>1, <1>2 DEF Data
  <2>2. Edit(d, data)
    BY <1>7 DEF RemoveFromContinueWatching
  <2> HIDE DEF data
  <2> QED BY <1>3, <2>1, <2>2
<1> QED BY <1>4, <1>5, <1>6, <1>7

\* A step of neither the clock nor the accounts.
LEMMA MoveInv ==
    ASSUME IInv, clock' = clock, account' = account, TypeOK',
           \A e \in Devices : local'[e].prefs <= clock,
           \A f \in flights' : f.data.prefs <= clock,
           \A e \in Devices, f \in flights' : page'[e].binding => f.dev # e \/ f.stage = "orphan"
    PROVE  IInv'
<1>1. BoundBeforeSync'
  BY DEF BoundBeforeSync, UnderWay
<1>2. NoZombies' /\ PrefsArePast'
  BY DEF IInv, NoZombies, PrefsArePast
<1> QED BY <1>1, <1>2 DEF IInv

\* What IInv says of the data it is applied to.
LEMMA Facts ==
    ASSUME IInv
    PROVE  /\ clock \in Nat
           /\ \A e \in Devices : local[e] \in Data /\ local[e].prefs <= clock /\ page[e] \in Page
           /\ \A f \in flights : f \in Flight /\ f.data \in Data /\ f.data.prefs <= clock
                                 /\ f.dev \in Devices /\ (f.stage # "orphan" => ~page[f.dev].binding)
BY UserSyncAssumption DEF IInv, TypeOK, PrefsArePast, BoundBeforeSync, UnderWay, Flight, Stamps

LEMMA SyncTimerInv == ASSUME IInv, NEW d \in Devices, SyncTimer(d) PROVE IInv'
<1>1. /\ flights' \in SUBSET Flight
      /\ \A f \in flights' : f \in flights \/ (f.dev = d /\ f.data.prefs = local[d].prefs)
  BY Facts, SyncNowAdds DEF SyncTimer, IInv
<1>2. page' \in [Devices -> Page] /\ \A e \in Devices : page'[e].binding = page[e].binding
  BY DEF SyncTimer, IInv, TypeOK, Page
<1>3. TypeOK'
  BY <1>1, <1>2 DEF SyncTimer, IInv, TypeOK
<1>4. \A f \in flights' : f.data.prefs <= clock
  BY <1>1, Facts
<1>5. \A e \in Devices, f \in flights' : page'[e].binding => f.dev # e \/ f.stage = "orphan"
  BY <1>1, <1>2, Facts DEF SyncTimer
<1> QED BY <1>3, <1>4, <1>5, Facts, MoveInv DEF SyncTimer

\* initialSync leaves data in the localStorage of d, and perhaps a request.
LEMMA BindWithInv ==
    ASSUME IInv, NEW d \in Devices, NEW data \in Data, data.prefs <= clock,
           local' = [local EXCEPT ![d] = data],
           SyncNow(d, data) \/ flights' = flights,
           BindAnonymous(d) \/ BindUser(d) \/ BindUnreachable(d)
    PROVE  IInv'
<1>3. /\ flights' \in SUBSET Flight
      /\ \A f \in flights' : f \in flights \/ (f.dev = d /\ f.data.prefs = data.prefs)
  BY SyncNowAdds DEF IInv, TypeOK
<1>4. /\ page' \in [Devices -> Page] /\ ~page'[d].binding
      /\ \A e \in Devices : e # d => page'[e].binding = page[e].binding
  <2> DEFINE quiet == [page[d] EXCEPT !.binding = FALSE]
             off == [page[d] EXCEPT !.binding = FALSE, !.sync = "off"]
             still == [page[d] EXCEPT !.binding = FALSE, !.timer = FALSE]
  <2>1. page[d] \in Page
    BY Facts
  <2>2. \A q \in {quiet, off, still} : q \in Page /\ ~q.binding
    BY <2>1 DEF Page
  <2>3. page' = [page EXCEPT ![d] = quiet] \/ page' = [page EXCEPT ![d] = off]
        \/ page' = [page EXCEPT ![d] = still]
    <3>1. CASE BindAnonymous(d)
      BY <2>1, <3>1 DEF BindAnonymous, IInv, TypeOK
    <3>2. CASE BindUnreachable(d)
      BY <2>1, <3>2 DEF BindUnreachable, IInv, TypeOK
    <3>3. CASE BindUser(d)
      <4>1. PICK fired \in BOOLEAN :
               page' = [page EXCEPT ![d].binding = FALSE,
                                    ![d].timer = @ /\ (fired \/ ~(bound[d] \notin {Nobody, cookie[d]}))]
        BY <3>3 DEF BindUser
      <4> DEFINE timer == page[d].timer /\ (fired \/ ~(bound[d] \notin {Nobody, cookie[d]}))
      <4>2. timer = page[d].timer \/ timer = FALSE
        BY <2>1 DEF Page
      <4>5. page' = [page EXCEPT ![d].binding = FALSE, ![d].timer = timer]
        BY <4>1
      <4> HIDE DEF timer
      <4>3. page' = [page EXCEPT ![d] = [page[d] EXCEPT !.binding = FALSE, !.timer = timer]]
        BY <4>5 DEF IInv, TypeOK
      <4>4. timer = page[d].timer => [page[d] EXCEPT !.binding = FALSE, !.timer = timer] = quiet
        BY <2>1 DEF Page
      <4> QED BY <4>2, <4>3, <4>4
    <3> QED BY <3>1, <3>2, <3>3
  <2> HIDE DEF quiet, off, still
  <2> QED BY <2>2, <2>3 DEF IInv, TypeOK
<1>5. bound' \in [Devices -> Users \cup {Nobody}]
  <2>1. cookie[d] \in Users \cup {Nobody}
    BY DEF IInv, TypeOK
  <2> QED BY <2>1 DEF IInv, TypeOK, BindAnonymous, BindUnreachable, BindUser
<1>6. /\ clock' = clock /\ account' = account /\ cookie' = cookie
      /\ author' = author /\ loads' = loads
  BY DEF BindAnonymous, BindUnreachable, BindUser
<1>7. local' \in [Devices -> Data]
  BY DEF IInv, TypeOK
<1>8. TypeOK'
  BY <1>3, <1>4, <1>5, <1>6, <1>7 DEF IInv, TypeOK
<1>9. \A e \in Devices : local'[e].prefs <= clock
  BY Facts DEF IInv, TypeOK
<1>10. \A f \in flights' : f.data.prefs <= clock
  BY <1>3, Facts
<1>11. \A e \in Devices, f \in flights' : page'[e].binding => f.dev # e \/ f.stage = "orphan"
  BY <1>3, <1>4, Facts
<1> QED BY <1>6, <1>8, <1>9, <1>10, <1>11, MoveInv

LEMMA BindInv ==
    ASSUME IInv, NEW d \in Devices,
           BindAnonymous(d) \/ BindUser(d) \/ BindUnreachable(d)
    PROVE  IInv'
<1>1. CASE BindAnonymous(d)
  <2>1. local' = [local EXCEPT ![d] = local[d]] /\ flights' = flights
    BY <1>1 DEF BindAnonymous, IInv, TypeOK
  <2> QED BY <1>1, <2>1, Facts, BindWithInv
<1>2. CASE BindUnreachable(d)
  <2>1. local' = [local EXCEPT ![d] = local[d]] /\ SyncNow(d, local[d])
    BY <1>2 DEF BindUnreachable, IInv, TypeOK
  <2> QED BY <1>2, <2>1, Facts, BindWithInv
<1>3. CASE BindUser(d)
  <2> DEFINE data == IF bound[d] \notin {Nobody, cookie[d]} THEN Empty ELSE local[d]
  <2>1. data \in Data /\ data.prefs <= clock
    BY Facts, EmptyIsData
  <2>2. SyncNow(d, data) /\ local' = [local EXCEPT ![d] = data]
    BY <1>3 DEF BindUser
  <2> HIDE DEF data
  <2> QED BY <1>3, <2>1, <2>2, BindWithInv
<1> QED BY <1>1, <1>2, <1>3

\* What a page sent stays as it was, and nobody waits for it any more.
LEMMA LoadInv ==
    ASSUME IInv, NEW d \in Devices, Reload(d) \/ \E u \in Users : SignIn(d, u)
    PROVE  IInv'
<1>1. PICK kept \in SUBSET Orphans(d) :
         Load(d, kept) /\ cookie' \in [Devices -> Users \cup {Nobody}]
  BY DEF Reload, SignIn, IInv, TypeOK
<1>2. Fresh \in Page
  BY DEF Fresh, Page
<1>3. /\ page' \in [Devices -> Page]
      /\ \A e \in Devices : e # d => page'[e] = page[e]
  BY <1>1, <1>2 DEF Load, IInv, TypeOK
<1>4. \A f \in Orphans(d) : /\ f \in Flight /\ f.stage = "orphan"
                            /\ f.data.prefs <= clock
  <2> SUFFICES ASSUME NEW g \in flights, NEW f, f = [g EXCEPT !.stage = "orphan"]
               PROVE  f \in Flight /\ f.stage = "orphan" /\ f.data.prefs <= clock
    BY DEF Orphans
  <2>1. f \in Flight /\ f.stage = "orphan" /\ f.data = g.data
    BY Facts DEF Flight
  <2> QED BY <2>1, Facts
<1>5. loads' \in 0..MaxLoads
  BY <1>1, UserSyncAssumption DEF Load, IInv, TypeOK
<1>6. \A f \in flights' : (f \in flights /\ f.dev # d) \/ f \in Orphans(d)
  BY <1>1 DEF Load
<1>7. TypeOK'
  BY <1>1, <1>3, <1>4, <1>5, <1>6 DEF Load, IInv, TypeOK
<1>8. \A e \in Devices, f \in flights' : page'[e].binding => f.dev # e \/ f.stage = "orphan"
  BY <1>3, <1>4, <1>6, Facts
<1>9. \A f \in flights' : f.data.prefs <= clock
  BY <1>4, <1>6, Facts
<1> QED BY <1>1, <1>7, <1>8, <1>9, Facts, MoveInv DEF Load

LEMMA LeaveInv ==
    ASSUME IInv, NEW d \in Devices,
           SessionEnds(d) \/ SignOut(d) \/ ClearLocalUserData(d)
    PROVE  IInv'
<1>1. /\ page' \in [Devices -> Page] /\ \A e \in Devices : page'[e].binding = page[e].binding
  <2>1. page \in [Devices -> Page] /\ page[d] \in Page
    BY DEF IInv, TypeOK
  <2>2. CASE SessionEnds(d)
    BY <2>1, <2>2 DEF SessionEnds
  <2>3. CASE SignOut(d)
    <3> DEFINE q == [page[d] EXCEPT !.leaving = "logout"]
    <3>1. q \in Page /\ q.binding = page[d].binding
      BY <2>1 DEF Page
    <3>2. page' = [page EXCEPT ![d] = q]
      BY <2>1, <2>3 DEF SignOut
    <3> HIDE DEF q
    <3> QED BY <2>1, <3>1, <3>2
  <2>4. CASE ClearLocalUserData(d)
    <3> DEFINE q == [page[d] EXCEPT !.leaving = "cleared", !.timer = FALSE, !.sync = "off"]
    <3>1. q \in Page /\ q.binding = page[d].binding
      BY <2>1 DEF Page
    <3>2. page' = [page EXCEPT ![d] = q]
      BY <2>1, <2>4 DEF ClearLocalUserData
    <3> HIDE DEF q
    <3> QED BY <2>1, <3>1, <3>2
  <2> QED BY <2>2, <2>3, <2>4
<1>2. cookie' \in [Devices -> Users \cup {Nobody}] /\ bound' \in [Devices -> Users \cup {Nobody}]
  BY DEF SessionEnds, SignOut, ClearLocalUserData, IInv, TypeOK
<1>3. /\ local' \in [Devices -> Data] /\ \A e \in Devices : local'[e].prefs <= clock
  <2>1. CASE local' = local BY <2>1, Facts DEF IInv, TypeOK
  <2>2. CASE local' = [local EXCEPT ![d] = Empty]
    BY <2>2, Facts, EmptyIsData DEF IInv, TypeOK
  <2> QED BY <2>1, <2>2 DEF SessionEnds, SignOut, ClearLocalUserData
<1>4. /\ clock' = clock /\ account' = account /\ flights' = flights /\ author' = author
      /\ loads' = loads
  BY DEF SessionEnds, SignOut, ClearLocalUserData
<1>5. TypeOK'
  BY <1>1, <1>2, <1>3, <1>4 DEF IInv, TypeOK
<1> QED BY <1>1, <1>3, <1>4, <1>5, Facts, MoveInv

LEMMA LoseInv == ASSUME IInv, NEW f \in flights, Lose(f) PROVE IInv'
<1>1. TypeOK'
  BY DEF Lose, IInv, TypeOK
<1> QED BY <1>1, Facts, MoveInv DEF Lose

LEMMA HearInv == ASSUME IInv, NEW f \in flights, Hear(f) PROVE IInv'
<1>1. f.dev \in Devices /\ f.data \in Data /\ f.data.prefs <= clock
  BY Facts
<1>2. /\ Applied(local[f.dev], f.data) \in Data
      /\ Applied(local[f.dev], f.data).prefs <= clock
  <2>1. Applied(local[f.dev], f.data).prefs \in {local[f.dev].prefs, f.data.prefs}
    BY <1>1, Facts, AppliedType
  <2> QED BY <1>1, <2>1, Facts, AppliedType
<1>3. /\ local' \in [Devices -> Data] /\ \A e \in Devices : local'[e].prefs <= clock
  <2>1. CASE local' = local BY <2>1, Facts DEF IInv, TypeOK
  <2>2. CASE local' = [local EXCEPT ![f.dev] = Applied(local[f.dev], f.data)]
    BY <1>1, <1>2, <2>2, Facts DEF IInv, TypeOK
  <2> QED BY <2>1, <2>2 DEF Hear
<1>4. /\ page' \in [Devices -> Page] /\ \A e \in Devices : page'[e].binding = page[e].binding
  <2>1. PICK how \in {"on", "off"} : page' = [page EXCEPT ![f.dev].sync = how]
    BY DEF Hear
  <2> QED BY <1>1, <2>1 DEF IInv, TypeOK, Page
<1>5. flights' \subseteq flights
  BY DEF Hear
<1>6. TypeOK'
  BY <1>3, <1>4, <1>5 DEF Hear, IInv, TypeOK
<1> QED BY <1>3, <1>4, <1>5, <1>6, Facts, MoveInv DEF Hear

\* The server's step: a merge, or a refusal.
LEMMA ServeInv == ASSUME IInv, NEW f \in flights, Serve(f) PROVE IInv'
<1> DEFINE u == f.user
           merged == Merge(account[u], f.data)
<1>1. CASE /\ u # Nobody
           /\ account' = [account EXCEPT ![u] = merged] \/ account' = account
           /\ flights' = Answered(f, [f EXCEPT !.stage = "answered", !.data = merged])
  <2>1. u \in Users /\ account[u] \in Data /\ account[u].prefs <= clock
    BY <1>1 DEF IInv, TypeOK, Flight, PrefsArePast
  <2>2. merged \in Data /\ merged.prefs <= clock
    <3>1. merged \in Data /\ merged.prefs \in {account[u].prefs, f.data.prefs}
      BY <2>1, Facts, MergeKeeps
    <3> QED BY <2>1, <3>1, Facts
  <2>3. Sound(merged)
    BY <2>1, Facts, MergeKeeps DEF Sound
  <2> DEFINE answer == [f EXCEPT !.stage = "answered", !.data = merged]
  <2>4. answer \in Flight /\ answer.data = merged /\ answer.dev = f.dev
    BY <2>2, Facts DEF Flight
  <2>5. \A g \in flights' : g \in flights \/ (g = answer /\ f.stage = "sent")
    BY <1>1 DEF Answered
  <2> HIDE DEF merged, answer
  <2>6. TypeOK'
    BY <1>1, <2>2, <2>4, <2>5 DEF Serve, IInv, TypeOK
  <2>7. BoundBeforeSync'
    <3>1. \A g \in flights' : g \in flights \/ (g.dev = f.dev /\ f.stage = "sent")
      BY <2>4, <2>5
    <3> QED BY <3>1, Facts DEF Serve, BoundBeforeSync, UnderWay
  <2>8. \A v \in Users : account'[v] = merged \/ account'[v] = account[v]
    BY <1>1 DEF IInv, TypeOK
  <2>9. NoZombies'
    <3>1. \A v \in Users : Sound(account[v])
      BY DEF IInv, NoZombies, Sound
    <3>2. \A v \in Users : Sound(account'[v])
      BY <2>3, <2>8, <3>1, Zenon
    <3> QED BY <3>2 DEF NoZombies, Sound
  <2>10. PrefsArePast'
    BY <2>2, <2>4, <2>5, <2>8, Facts DEF Serve, IInv, PrefsArePast
  <2> QED BY <2>6, <2>7, <2>9, <2>10 DEF IInv
<1>2. CASE account' = account /\ flights' = Answered(f, [f EXCEPT !.stage = "denied"])
  <2> DEFINE answer == [f EXCEPT !.stage = "denied"]
  <2>1. answer \in Flight /\ answer.data = f.data /\ answer.dev = f.dev
    BY Facts DEF Flight
  <2> HIDE DEF answer
  <2>2. \A g \in flights' : g \in flights \/ (g = answer /\ f.stage = "sent")
    BY <1>2 DEF Answered, answer
  <2>3. TypeOK'
    BY <1>2, <2>1, <2>2 DEF Serve, IInv, TypeOK
  <2>4. \A g \in flights' : g \in flights \/ (g.dev = f.dev /\ f.stage = "sent")
    BY <2>1, <2>2
  <2> QED BY <1>2, <2>1, <2>2, <2>3, <2>4, Facts, MoveInv DEF Serve
<1> QED BY <1>1, <1>2 DEF Serve

LEMMA ClearAccountInv == ASSUME IInv, NEW u \in Users, ClearAccount(u) PROVE IInv'
<1>1. \A v \in Users : account'[v] = Empty \/ account'[v] = account[v]
  BY DEF ClearAccount, IInv, TypeOK
<1>2. TypeOK'
  BY EmptyIsData DEF ClearAccount, IInv, TypeOK
<1>3. BoundBeforeSync'
  BY DEF ClearAccount, IInv, BoundBeforeSync, UnderWay
<1>4. \A t \in Titles : Empty.list[t] = 0 /\ Empty.cw[t] = 0
  BY DEF Empty, None
<1>5. NoZombies'
  BY <1>1, <1>4 DEF IInv, NoZombies
<1>6. PrefsArePast'
  BY <1>1, EmptyIsData, Facts DEF ClearAccount, IInv, PrefsArePast
<1> QED BY <1>2, <1>3, <1>5, <1>6 DEF IInv

LEMMA EditsInv ==
    ASSUME IInv, NEW d \in Devices,
           \/ SaveAVPrefs(d)
           \/ \E t \in Titles : \/ ToggleMyList(d, t) \/ SaveProgress(d, t)
                               \/ AddToContinueWatching(d, t) \/ RemoveFromContinueWatching(d, t)
    PROVE  IInv'
<1>1. CASE SaveAVPrefs(d)
  <2>1. Now \in Stamps /\ local[d] \in Data
    BY <1>1, NowIsStamp, Facts DEF SaveAVPrefs, Edit, IInv
  <2>2. [local[d] EXCEPT !.prefs = Now] \in Data /\ [local[d] EXCEPT !.prefs = Now].prefs <= Now
    BY <2>1, UserSyncAssumption DEF Data, Stamps
  <2> QED BY <1>1, <2>2, EditInv DEF SaveAVPrefs
<1>2. ASSUME NEW t \in Titles,
             \/ ToggleMyList(d, t) \/ SaveProgress(d, t)
             \/ AddToContinueWatching(d, t) \/ RemoveFromContinueWatching(d, t)
      PROVE  IInv'
  <2>1. PICK data \in Data : Edit(d, data) /\ data.prefs <= Now
    BY <1>2, TitleEdit
  <2> QED BY <2>1, EditInv
<1> QED BY <1>1, <1>2

LEMMA InitIInv == Init => IInv
<1> SUFFICES ASSUME Init PROVE IInv
  OBVIOUS
<1>1. Fresh \in Page /\ 0 \in Stamps /\ 0 \in 0..MaxLoads /\ Nobody \in Users \cup {Nobody}
  BY UserSyncAssumption DEF Fresh, Page, Stamps
<1>2. TypeOK
  BY <1>1, EmptyIsData DEF Init, TypeOK
<1>3. BoundBeforeSync
  BY DEF Init, BoundBeforeSync, UnderWay
<1>4. NoZombies
  BY DEF Init, NoZombies, Empty, None
<1>5. PrefsArePast
  BY EmptyIsData DEF Init, PrefsArePast
<1> QED BY <1>2, <1>3, <1>4, <1>5 DEF IInv
\* IInv is inductive.
LEMMA NextIInv == IInv /\ [Next]_vars => IInv'
<1> SUFFICES ASSUME IInv, [Next]_vars PROVE IInv'
  OBVIOUS
<1>1. ASSUME NEW d \in Devices, NEW t \in Titles,
             \/ ToggleMyList(d, t) \/ SaveProgress(d, t)
             \/ AddToContinueWatching(d, t) \/ RemoveFromContinueWatching(d, t)
      PROVE  IInv'
  BY <1>1, EditsInv
<1>2. ASSUME NEW d \in Devices, SaveAVPrefs(d) PROVE IInv'
  BY <1>2, EditsInv
<1>3. ASSUME NEW d \in Devices, SyncTimer(d) PROVE IInv'
  BY <1>3, SyncTimerInv
<1>4. ASSUME NEW d \in Devices, BindAnonymous(d) \/ BindUser(d) \/ BindUnreachable(d)
      PROVE  IInv'
  BY <1>4, BindInv
<1>5. ASSUME NEW d \in Devices, Reload(d) \/ \E u \in Users : SignIn(d, u) PROVE IInv'
  BY <1>5, LoadInv
<1>6. ASSUME NEW d \in Devices, SessionEnds(d) \/ SignOut(d) \/ ClearLocalUserData(d)
      PROVE  IInv'
  BY <1>6, LeaveInv
<1>7. ASSUME NEW f \in flights, Serve(f) PROVE IInv'
  BY <1>7, ServeInv
<1>8. ASSUME NEW f \in flights, Hear(f) PROVE IInv'
  BY <1>8, HearInv
<1>9. ASSUME NEW f \in flights, Lose(f) PROVE IInv'
  BY <1>9, LoseInv
<1>10. ASSUME NEW u \in Users, ClearAccount(u) PROVE IInv'
  BY <1>10, ClearAccountInv
<1>11. CASE UNCHANGED vars
  BY <1>11 DEF vars, IInv, TypeOK, BoundBeforeSync, UnderWay, NoZombies, PrefsArePast
<1> QED BY <1>1, <1>2, <1>3, <1>4, <1>5, <1>6, <1>7, <1>8, <1>9, <1>10, <1>11 DEF Next

\* The invariant the theorems rest on holds in every reachable state.
THEOREM Inductive == Spec => []IInv
BY InitIInv, NextIInv, PTL DEF Spec

\* Type correctness.
THEOREM TypeCorrect == Spec => []TypeOK
<1>1. IInv => TypeOK
  BY DEF IInv
<1> QED BY <1>1, Inductive, PTL

\* While it is open whose data localStorage holds, none of it is on its way to
\* the server, for any number of pages, reloads and timers.
THEOREM BindingComesFirst == Spec => []BoundBeforeSync
<1>1. IInv => BoundBeforeSync
  BY DEF IInv
<1> QED BY <1>1, Inductive, PTL

\* No account ever holds an entry its own tombstone outranks, whichever devices
\* send which copies in which order.
THEOREM RemovedStaysRemoved == Spec => []NoZombies
<1>1. IInv => NoZombies
  BY DEF IInv
<1> QED BY <1>1, Inductive, PTL

-----------------------------------------------------------------------------
(* What a step may never do *)

\* Only the server and ClearAccount write an account.
LEMMA AccountWriters ==
    ASSUME [Next]_vars
    PROVE  \/ account' = account
           \/ \E f \in flights : Serve(f)
           \/ \E u \in Users : ClearAccount(u)
BY DEF Next, vars, ToggleMyList, SaveProgress, AddToContinueWatching, RemoveFromContinueWatching,
       SaveAVPrefs, Edit, SyncTimer, BindAnonymous, BindUser, BindUnreachable, Reload, Load, SignIn,
       SessionEnds, SignOut, ClearLocalUserData, Hear, Lose

\* Whatever arrives late or out of order, progress, tombstones and preferences
\* of an account only get newer, until it is cleared.
THEOREM AccountsOnlyGetNewer == Spec => ServerKeepsNewest
<1> DEFINE Good == \A u \in Users : account'[u] = Empty \/ AsNew(account'[u], account[u])
<1>1. ASSUME IInv, [Next]_vars PROVE Good
  <2>1. \A u \in Users : account[u] \in Data
    BY <1>1 DEF IInv, TypeOK
  <2>2. \A st \in Data : AsNew(st, st)
    BY UserSyncAssumption DEF AsNew, Data, Stamps
  <2>3. \A st \in Data, in \in Data : AsNew(Merge(st, in), st)
    BY MergeKeeps DEF AsNew
  <2>4. CASE account' = account
    BY <2>1, <2>2, <2>4
  <2>5. ASSUME NEW f \in flights, Serve(f) PROVE Good
    <3>1. f.data \in Data
      BY <1>1, Facts
    <3>2. CASE account' = account
      BY <2>1, <2>2, <3>2
    <3>3. CASE account' = [account EXCEPT ![f.user] = Merge(account[f.user], f.data)]
      <4>1. \A u \in Users : account'[u] = account[u] \/ account'[u] = Merge(account[u], f.data)
        BY <1>1, <3>3 DEF IInv, TypeOK
      <4> QED BY <2>1, <2>2, <2>3, <3>1, <4>1
    <3> QED BY <2>5, <3>2, <3>3 DEF Serve
  <2>6. ASSUME NEW u \in Users, ClearAccount(u) PROVE Good
    <3>1. \A v \in Users : account'[v] = Empty \/ account'[v] = account[v]
      BY <1>1, <2>6 DEF ClearAccount, IInv, TypeOK
    <3> QED BY <2>1, <2>2, <3>1
  <2> QED BY <1>1, <2>4, <2>5, <2>6, AccountWriters
<1>2. IInv /\ [Next]_vars
         => [\A u \in Users : account'[u] = Empty \/ AsNew(account'[u], account[u])]_vars
  BY <1>1
<1> QED BY <1>2, Inductive, PTL DEF Spec, ServerKeepsNewest

\* Only the answer of a sync, an edit of the preferences, initialSync and signing
\* out write localStorage's preferences.
THEOREM PreferencesSurvive == Spec => PrefsNeverBack
<1> DEFINE Good == \A d \in Devices : local'[d].prefs < local[d].prefs => local'[d] = Empty
<1>1. ASSUME IInv, [Next]_vars PROVE Good
  <2> USE <1>1
  <2>1. ASSUME NEW e \in Devices, NEW data, local' = [local EXCEPT ![e] = data],
               data = Empty \/ (data.prefs \in Int /\ data.prefs >= local[e].prefs)
        PROVE  Good
    <3>1. \A d \in Devices : local'[d] = local[d] \/ (d = e /\ local'[d] = data)
      BY <2>1 DEF IInv, TypeOK
    <3>2. \A d \in Devices : local[d].prefs \in Int
      BY Facts, UserSyncAssumption DEF Data, Stamps
    <3> QED BY <2>1, <3>1, <3>2
  <2>2. CASE local' = local
    BY <2>2, Facts, UserSyncAssumption DEF Data, Stamps
  <2> HIDE DEF Good
  <2>3. ASSUME NEW d \in Devices, NEW t \in Titles,
               \/ ToggleMyList(d, t) \/ SaveProgress(d, t)
               \/ AddToContinueWatching(d, t) \/ RemoveFromContinueWatching(d, t)
        PROVE  Good
    <3>1. PICK data \in Data : Edit(d, data) /\ data.prefs = local[d].prefs
      BY <2>3, TitleEdit
    <3>2. data.prefs \in Int /\ data.prefs >= local[d].prefs
      BY <3>1, UserSyncAssumption DEF Data, Stamps
    <3>3. local' = [local EXCEPT ![d] = data]
      BY <3>1 DEF Edit
    <3> QED BY <2>1, <3>2, <3>3
  <2>4. ASSUME NEW d \in Devices, SaveAVPrefs(d) PROVE Good
    <3>1. Now \in Int /\ Now > clock /\ clock \in Int /\ local[d] \in Data
          /\ local[d].prefs <= clock /\ local[d].prefs \in Int
      BY <2>4, NowIsStamp, Facts, UserSyncAssumption DEF SaveAVPrefs, Edit, IInv, Data, Stamps
    <3>2. [local[d] EXCEPT !.prefs = Now].prefs = Now
      BY <3>1 DEF Data
    <3>3. Now >= local[d].prefs
      BY <3>1
    <3> QED BY <2>1, <2>4, <3>1, <3>2, <3>3 DEF SaveAVPrefs, Edit
  <2>5. ASSUME NEW d \in Devices, BindUser(d) PROVE Good
    <3> DEFINE data == IF bound[d] \notin {Nobody, cookie[d]} THEN Empty ELSE local[d]
    <3>1. local' = [local EXCEPT ![d] = data]
      BY <2>5 DEF BindUser
    <3>2. data = Empty \/ (data.prefs \in Int /\ data.prefs >= local[d].prefs)
      BY Facts, UserSyncAssumption DEF Data, Stamps
    <3> HIDE DEF data
    <3> QED BY <2>1, <3>1, <3>2
  <2>6. ASSUME NEW d \in Devices, ClearLocalUserData(d) PROVE Good
    BY <2>1, <2>6 DEF ClearLocalUserData
  <2>7. ASSUME NEW f \in flights, Hear(f) PROVE Good
    <3> DEFINE data == Applied(local[f.dev], f.data)
    <3>1. f.dev \in Devices /\ f.data \in Data /\ local[f.dev] \in Data
      BY Facts
    <3>2. data \in Data /\ data.prefs >= local[f.dev].prefs
      BY <3>1, AppliedType
    <3>3. data.prefs \in Int
      BY <3>2, UserSyncAssumption DEF Data, Stamps
    <3> HIDE DEF data
    <3>4. local' = local \/ local' = [local EXCEPT ![f.dev] = data]
      BY <2>7 DEF Hear, data
    <3> QED BY <2>1, <2>2, <3>1, <3>2, <3>3, <3>4
  <2>8. \/ local' = local
        \/ \E d \in Devices : \/ SaveAVPrefs(d) \/ BindUser(d) \/ ClearLocalUserData(d)
                              \/ \E t \in Titles :
                                    \/ ToggleMyList(d, t) \/ SaveProgress(d, t)
                                    \/ AddToContinueWatching(d, t)
                                    \/ RemoveFromContinueWatching(d, t)
        \/ \E f \in flights : Hear(f)
    BY DEF Next, vars, SyncTimer, BindAnonymous, BindUnreachable, Reload, Load, SignIn,
           SessionEnds, SignOut, Serve, Lose, ClearAccount
  <2> QED BY <2>2, <2>3, <2>4, <2>5, <2>6, <2>7, <2>8
<1>2. IInv /\ [Next]_vars
         => [\A d \in Devices : local'[d].prefs < local[d].prefs => local'[d] = Empty]_vars
  BY <1>1
<1> QED BY <1>2, Inductive, PTL DEF Spec, PrefsNeverBack
=============================================================================
