--------------------------- MODULE AccountsProofs ---------------------------
(***************************************************************************)
(* Safety of the account store for any accounts, tokens and requests, and  *)
(* the proof that its tables implement AccountBook; then safety of what    *)
(* else outlives the process, the catalog and the block list.              *)
(***************************************************************************)
EXTENDS Accounts, Restarts, FiniteSetTheorems, SequenceTheorems, WellFoundedInduction,
        TLAPS

\* Only a token that was given to a browser opens a session.
OpenAreMinted == \A k \in Tokens : session[k] # NoSession => k \in minted

\* Accounts never all leave, so that none there means none there yet: an import
\* into an empty table is the first one.
EmptyIsNew == Live = {} => admins = {} /\ \A u \in Ids : account[u] = "unused"

IInv == TypeOK /\ SessionsHaveAccounts /\ AdminRemains /\ OpenAreMinted /\ EmptyIsNew

bookVars == <<account, admins, session, minted>>

-----------------------------------------------------------------------------
(* Facts about the tables *)

\* A request has the ids its handler uses.
LEMMA RequestIds ==
    ASSUME TypeOK, NEW r \in Reqs, req[r].stage # "idle"
    PROVE  req[r] \in Request /\ req[r].user \in Ids /\ req[r].target \in Ids
<1>1. req[r] \in Request \cup {Idle}
  BY DEF TypeOK
<1>2. req[r] # Idle
  BY DEF Idle
<1>3. QED
  BY <1>1, <1>2 DEF Request

\* "The last remaining admin": where two are counted, one is left without the other.
LEMMA OneAdminLeft ==
    ASSUME TypeOK, Cardinality(Admins) > 1, NEW u \in Ids
    PROVE  Admins \ {u} # {}
<1>1. IsFiniteSet(Admins)
  BY AccountsAssumption, FS_Subset DEF Admins, Live
<1>2. SUFFICES ASSUME Admins \subseteq {u} PROVE FALSE
  OBVIOUS
<1>3. Cardinality(Admins) <= Cardinality({u}) /\ Cardinality({u}) = 1
  BY <1>2, FS_Subset, FS_Singleton
<1>4. QED
  BY <1>1, <1>3, FS_CardinalityType

\* Who may go leaves somebody in charge.
LEMMA InChargeWithout ==
    ASSUME TypeOK, AdminRemains, NEW r \in Reqs, req[r].stage # "idle", MayGo(r)
    PROVE  Admins \ {req[r].target} # {}
<1>1. req[r].target \in Live /\ req[r].target \in Ids
  BY RequestIds DEF MayGo
<1>2. CASE req[r].target \in Admins
  BY <1>1, <1>2, OneAdminLeft DEF MayGo
<1>3. CASE req[r].target \notin Admins
  BY <1>1, <1>3 DEF AdminRemains
<1>4. QED
  BY <1>2, <1>3

\* The sessions after pruning are some of those before; after a sign-out, too.
LEMMA FewerSessions ==
    ASSUME TypeOK, NEW k \in Tokens
    PROVE  /\ Pruned(session)[k] \in {session[k], NoSession}
           /\ \A u : SignedOut(u)[k] \in {session[k], NoSession}
BY DEF Pruned, SignedOut

\* Steps that leave the accounts and who manages them alone.
LEMMA AccountsStay ==
    ASSUME AdminRemains, EmptyIsNew, UNCHANGED <<account, admins>>
    PROVE  AdminRemains' /\ EmptyIsNew' /\ Live' = Live
BY DEF AdminRemains, EmptyIsNew, Admins, Live

\* Steps that only take sessions away.
LEMMA SessionsGo ==
    ASSUME SessionsHaveAccounts, OpenAreMinted, Live' = Live, minted' = minted,
           \A k \in Tokens : session'[k] \in {session[k], NoSession}
    PROVE  SessionsHaveAccounts' /\ OpenAreMinted'
BY DEF SessionsHaveAccounts, OpenAreMinted

-----------------------------------------------------------------------------
(* Type correctness *)

LEMMA InitType == Init => TypeOK
<1> SUFFICES ASSUME Init PROVE TypeOK
  OBVIOUS
<1>1. files \subseteq {"users"} \cup DataFile
  BY DEF Init, DataFile
<1>2. served \in 0..MaxServed /\ crashes \in 0..MaxCrashes
  BY AccountsAssumption DEF Init
<1>3. QED
  BY <1>1, <1>2 DEF Init, TypeOK, Session, Row

\* Typing of what the tables become.
LEMMA SessionTypes ==
    ASSUME TypeOK
    PROVE  /\ Pruned(session) \in [Tokens -> Session \cup {NoSession}]
           /\ \A u : SignedOut(u) \in [Tokens -> Session \cup {NoSession}]
           /\ \A k \in Tokens, s \in Session \cup {NoSession} :
                [session EXCEPT ![k] = s] \in [Tokens -> Session \cup {NoSession}]
           /\ \A u \in Ids : [user |-> u, left |-> SessionTTL] \in Session
<1>1. session \in [Tokens -> Session \cup {NoSession}]
  BY DEF TypeOK
<1>2. Pruned(session) \in [Tokens -> Session \cup {NoSession}]
  BY <1>1 DEF Pruned
<1>3. \A u : SignedOut(u) \in [Tokens -> Session \cup {NoSession}]
  BY <1>1 DEF SignedOut
<1>4. \A u \in Ids : [user |-> u, left |-> SessionTTL] \in Session
  BY AccountsAssumption DEF Session
<1>5. QED
  BY <1>1, <1>2, <1>3, <1>4

\* A request only ever moves to a stage of its own or ends.
LEMMA RequestTypes ==
    ASSUME TypeOK, NEW r \in Reqs
    PROVE  /\ Answer(r) => req' \in [Reqs -> Request \cup {Idle}]
           /\ \A st \in {"name", "guard", "act", "mint", "drop", "save"} :
                (req[r].stage # "idle" /\ To(r, st)) => req' \in [Reqs -> Request \cup {Idle}]
<1>1. Answer(r) => req' \in [Reqs -> Request \cup {Idle}]
  BY DEF TypeOK, Answer
<1>2. ASSUME NEW st \in {"name", "guard", "act", "mint", "drop", "save"},
             req[r].stage # "idle", To(r, st)
      PROVE  req' \in [Reqs -> Request \cup {Idle}]
  <2>1. [req[r] EXCEPT !.stage = st] \in Request
    BY <1>2, RequestIds DEF Request
  <2>2. QED
    BY <1>2, <2>1 DEF TypeOK, To
<1>3. QED
  BY <1>1, <1>2

LEMMA AcceptType ==
    ASSUME TypeOK, NEW r \in Reqs, Accept(r) PROVE served' \in 0..MaxServed
BY AccountsAssumption DEF TypeOK, Accept

LEMMA StartType ==
    ASSUME TypeOK, ImportUsers \/ ImportData \/ Retire \/ Crash \/ Tick PROVE TypeOK'
<1>1. CASE ImportUsers
  <2>1. CASE NoUsers
    BY <1>1, <2>1 DEF TypeOK, ImportUsers, NoUsers
  <2>2. CASE UsersInserted
    <3>1. account' \in [Ids -> {"unused", "live", "gone"}] /\ admins' \subseteq Ids
      BY <2>2, AccountsAssumption DEF TypeOK, UsersInserted, LegacyUsers
    <3>2. (CHOOSE u \in LegacyUsers : TRUE) \in Ids
      BY AccountsAssumption DEF LegacyUsers
    <3>3. [user |-> CHOOSE u \in LegacyUsers : TRUE, left |-> SessionTTL] \in Session
      BY <3>2, SessionTypes
    <3>4. PICK k \in (Tokens \ minted) \cup {Nobody} :
            /\ minted' = minted \cup ({k} \ {Nobody})
            /\ session' = [t \in Tokens |->
                  IF t = k THEN [user |-> CHOOSE u \in LegacyUsers : TRUE, left |-> SessionTTL]
                           ELSE session[t]]
      BY <2>2 DEF UsersInserted
    <3>5. session' \in [Tokens -> Session \cup {NoSession}]
      BY <3>3, <3>4 DEF TypeOK
    <3>6. minted' \subseteq Tokens
      BY <3>4 DEF TypeOK
    <3>7. boot' = "retire users"
      BY <2>2 DEF UsersInserted
    <3>8. QED
      BY <1>1, <3>1, <3>5, <3>6, <3>7 DEF TypeOK, ImportUsers
  <2>3. QED
    BY <1>1, <2>1, <2>2 DEF ImportUsers
<1>2. CASE ImportData
  <2>1. row' \in [Ids \cup {Household} -> Row]
    BY <1>2 DEF TypeOK, ImportData, Row
  <2>2. QED
    BY <1>2, <2>1 DEF TypeOK, ImportData
<1>3. CASE Retire
  BY <1>3 DEF TypeOK, Retire
<1>4. CASE Crash
  <2>1. req' \in [Reqs -> Request \cup {Idle}]
    BY <1>4 DEF Crash
  <2>2. crashes' \in 0..MaxCrashes
    <3>1. crashes \in 0..MaxCrashes
      BY DEF TypeOK
    <3>2. crashes < MaxCrashes /\ crashes' = crashes + 1
      BY <1>4 DEF Crash
    <3>3. QED
      BY <3>1, <3>2, AccountsAssumption
  <2>3. QED
    BY <1>4, <2>1, <2>2 DEF TypeOK, Crash
<1>5. CASE Tick
  <2>1. session' \in [Tokens -> Session \cup {NoSession}]
    <3>1. ASSUME NEW k \in Tokens
          PROVE  [session[k] EXCEPT !.left = IF @ < 0 THEN @ ELSE @ - 1]
                    \in Session \cup {NoSession}
      <4>1. CASE session[k] = NoSession
        BY <4>1 DEF NoSession
      <4>2. CASE session[k] \in Session
        BY <4>2, AccountsAssumption DEF Session
      <4>3. QED
        BY <4>1, <4>2 DEF TypeOK
    <3>2. QED
      BY <1>5, <3>1 DEF Tick
  <2>2. QED
    BY <1>5, <2>1 DEF TypeOK, Tick
<1>6. QED
  BY <1>1, <1>2, <1>3, <1>4, <1>5

LEMMA SignInType ==
    ASSUME TypeOK, NEW r \in Reqs, Register(r) \/ Login(r) \/ Mint(r) PROVE TypeOK'
<1>1. CASE Register(r)
  <2>1. PICK u \in Ids \ LegacyUsers :
          /\ account' = [account EXCEPT ![u] = "live"]
          /\ admins' = IF Live = {} THEN admins \cup {u} ELSE admins
          /\ req' = [req EXCEPT ![r] = [op |-> "register", stage |-> "mint",
                                        user |-> u, target |-> u]]
    BY <1>1 DEF Register
  <2>2. [op |-> "register", stage |-> "mint", user |-> u, target |-> u] \in Request
    BY DEF Request, Ops
  <2>3. req' \in [Reqs -> Request \cup {Idle}]
    BY <2>1, <2>2 DEF TypeOK
  <2>4. account' \in [Ids -> {"unused", "live", "gone"}] /\ admins' \subseteq Ids
    BY <2>1 DEF TypeOK
  <2>5. QED
    BY <1>1, <2>3, <2>4, SessionTypes, AcceptType DEF TypeOK, Register
<1>2. CASE Login(r)
  <2>1. PICK u \in Live :
          req' = [req EXCEPT ![r] = [op |-> "login", stage |-> "mint", user |-> u, target |-> u]]
    BY <1>2 DEF Login
  <2>2. [op |-> "login", stage |-> "mint", user |-> u, target |-> u] \in Request
    BY DEF Request, Ops, Live
  <2>3. req' \in [Reqs -> Request \cup {Idle}]
    BY <2>1, <2>2 DEF TypeOK
  <2>4. QED
    BY <1>2, <2>3, SessionTypes, AcceptType DEF TypeOK, Login
<1>3. CASE Mint(r)
  <2>1. req' \in [Reqs -> Request \cup {Idle}]
    BY <1>3, RequestTypes DEF Mint
  <2>2. [user |-> req[r].user, left |-> SessionTTL] \in Session
    BY <1>3, RequestIds, SessionTypes DEF Mint
  <2>3. session' \in [Tokens -> Session \cup {NoSession}] /\ minted' \subseteq Tokens
    BY <1>3, <2>2 DEF TypeOK, Mint
  <2>4. QED
    BY <1>3, <2>1, <2>3 DEF TypeOK, Mint
<1>4. QED
  BY <1>1, <1>2, <1>3

LEMMA SessionStepType ==
    ASSUME TypeOK, NEW r \in Reqs, NEW k \in Tokens, Logout(k) \/ Authorize(r, k) PROVE TypeOK'
<1>1. CASE Logout(k)
  BY <1>1, SessionTypes DEF TypeOK, Logout
<1>2. CASE Authorize(r, k) /\ Expired(session[k])
  BY <1>2, SessionTypes, AcceptType DEF TypeOK, Authorize
<1>3. CASE Authorize(r, k) /\ ~Expired(session[k])
  <2>1. session[k] \in Session
    <3>1. session[k] \in Session \cup {NoSession}
      BY DEF TypeOK
    <3>2. session[k] # NoSession
      BY <1>3 DEF Expired, NoSession
    <3>3. QED
      BY <3>1, <3>2
  <2>2. [session[k] EXCEPT !.left = SessionTTL] \in Session /\ session[k].user \in Ids
    BY <2>1, AccountsAssumption DEF Session
  <2>3. session' \in [Tokens -> Session \cup {NoSession}]
    BY <1>3, <2>2 DEF TypeOK, Authorize
  <2>4. PICK op \in Ops, t \in Ids :
          req' = [req EXCEPT ![r] = [op |-> op, stage |-> "name",
                                     user |-> session[k].user, target |-> t]]
    BY <1>3 DEF Authorize
  <2>5. [op |-> op, stage |-> "name", user |-> session[k].user, target |-> t] \in Request
    BY <2>2 DEF Request
  <2>6. req' \in [Reqs -> Request \cup {Idle}]
    BY <2>4, <2>5 DEF TypeOK
  <2>7. QED
    BY <1>3, <2>3, <2>6, AcceptType DEF TypeOK, Authorize
<1>4. QED
  BY <1>1, <1>2, <1>3

LEMMA HandlerType ==
    ASSUME TypeOK, NEW r \in Reqs,
           Identify(r) \/ AdminGuard(r) \/ SignOutEverywhere(r) \/ Delete(r)
    PROVE  TypeOK'
<1>1. CASE Identify(r)
  BY <1>1, RequestTypes DEF TypeOK, Identify
<1>2. CASE AdminGuard(r)
  BY <1>2, RequestTypes DEF TypeOK, AdminGuard
<1>3. CASE SignOutEverywhere(r)
  BY <1>3, RequestTypes, SessionTypes DEF TypeOK, SignOutEverywhere
<1>4. CASE Delete(r)
  <2>1. req' \in [Reqs -> Request \cup {Idle}]
    BY <1>4, RequestTypes DEF Delete
  <2>2. session' \in [Tokens -> Session \cup {NoSession}]
    <3>1. session' = SignedOut(req[r].target) \/ session' = session
      BY <1>4 DEF Delete
    <3>2. SignedOut(req[r].target) \in [Tokens -> Session \cup {NoSession}]
      BY SessionTypes
    <3>3. session \in [Tokens -> Session \cup {NoSession}]
      BY DEF TypeOK
    <3>4. QED
      BY <3>1, <3>2, <3>3
  <2>3. account' \in [Ids -> {"unused", "live", "gone"}]
    BY <1>4 DEF TypeOK, Delete
  <2>4. QED
    BY <1>4, <2>1, <2>2, <2>3 DEF TypeOK, Delete
<1>5. QED
  BY <1>1, <1>2, <1>3, <1>4

LEMMA RowType ==
    ASSUME TypeOK, NEW r \in Reqs,
           DropState(r) \/ SyncLoad(r) \/ SyncSave(r) \/ Get(r) \/ Clear(r)
    PROVE  TypeOK'
<1>1. ASSUME NEW u \in Ids, StateFor(u) PROVE row' \in [Ids \cup {Household} -> Row]
  BY <1>1 DEF TypeOK, StateFor, Row
<1>2. CASE DropState(r)
  <2>1. row' \in [Ids \cup {Household} -> Row]
    BY <1>2 DEF TypeOK, DropState, Row
  <2>2. QED
    BY <1>2, <2>1, RequestTypes DEF TypeOK, DropState
<1>3. CASE SyncLoad(r)
  <2>1. row' \in [Ids \cup {Household} -> Row]
    BY <1>1, <1>3, RequestIds DEF SyncLoad
  <2>2. \A op \in Ops : [req[r] EXCEPT !.stage = "save", !.op = op] \in Request
    BY <1>3, RequestIds DEF Request, SyncLoad
  <2>3. req' \in [Reqs -> Request \cup {Idle}]
    BY <1>3, <2>2 DEF TypeOK, SyncLoad, Ops
  <2>4. QED
    BY <1>3, <2>1, <2>3 DEF TypeOK, SyncLoad
<1>4. CASE SyncSave(r)
  <2>1. row' \in [Ids \cup {Household} -> Row]
    BY <1>4 DEF TypeOK, SyncSave, Row
  <2>2. QED
    BY <1>4, <2>1, RequestTypes DEF TypeOK, SyncSave
<1>5. CASE Get(r)
  BY <1>1, <1>5, RequestIds, RequestTypes DEF TypeOK, Get
<1>6. CASE Clear(r)
  <2>1. row' \in [Ids \cup {Household} -> Row]
    BY <1>6 DEF TypeOK, Clear, Row
  <2>2. QED
    BY <1>6, <2>1, RequestTypes DEF TypeOK, Clear
<1>7. QED
  BY <1>2, <1>3, <1>4, <1>5, <1>6

-----------------------------------------------------------------------------
(* The invariant, one lemma per kind of step *)

Safe == SessionsHaveAccounts /\ AdminRemains /\ OpenAreMinted /\ EmptyIsNew

LEMMA InitSafe == Init => Safe
BY DEF Init, Safe, SessionsHaveAccounts, AdminRemains, OpenAreMinted, EmptyIsNew, Admins, Live

\* Steps that only touch requests, rows and files.
LEMMA TablesStaySafe == ASSUME Safe, UNCHANGED bookVars PROVE Safe'
<1>1. AdminRemains' /\ EmptyIsNew' /\ Live' = Live
  BY AccountsStay DEF Safe, bookVars
<1>2. QED
  BY <1>1, SessionsGo DEF Safe, bookVars

\* sessionFor: whose session it is stays, and how long the others last.
LEMMA Slides ==
    ASSUME TypeOK, NEW r \in Reqs, NEW k \in Tokens, Authorize(r, k), ~Expired(session[k])
    PROVE  /\ session[k] # NoSession
           /\ session'[k].user = session[k].user /\ session'[k].left = SessionTTL
           /\ \A q \in Tokens \ {k} : session'[q] = session[q]
<1>1. session[k] \in Session \cup {NoSession} /\ session[k] # NoSession
  <2>1. session[k] \in Session \cup {NoSession}
    BY DEF TypeOK
  <2>2. session[k] # NoSession
    BY DEF Expired, NoSession
  <2>3. QED
    BY <2>1, <2>2
<1>2. session' = [session EXCEPT ![k].left = SessionTTL]
  BY DEF Authorize
<1>3. session'[k] = [session[k] EXCEPT !.left = SessionTTL]
  BY <1>2 DEF TypeOK
<1>4. \A q \in Tokens \ {k} : session'[q] = session[q]
  BY <1>2 DEF TypeOK
<1>5. session'[k].user = session[k].user /\ session'[k].left = SessionTTL
  <2>1. session[k] \in [user : Ids, left : -1..SessionTTL]
    BY <1>1 DEF Session
  <2>2. QED
    BY <1>3, <2>1
<1>6. QED
  BY <1>1, <1>4, <1>5

LEMMA SlideSafe ==
    ASSUME TypeOK, Safe, NEW r \in Reqs, NEW k \in Tokens, Authorize(r, k) PROVE Safe'
<1>1. AdminRemains' /\ EmptyIsNew' /\ Live' = Live
  BY AccountsStay DEF Safe, Authorize
<1>2. CASE Expired(session[k])
  BY <1>1, <1>2, SessionsGo DEF Safe, TypeOK, Authorize
<1>3. CASE ~Expired(session[k])
  <2>1. minted' = minted
    BY DEF Authorize
  <2>2. QED
    BY <1>1, <1>3, <2>1, Slides DEF Safe, SessionsHaveAccounts, OpenAreMinted
<1>4. QED
  BY <1>2, <1>3

\* A session ages, and does so once it has expired no longer.
LEMMA Ages ==
    ASSUME TypeOK, Tick, NEW k \in Tokens
    PROVE  /\ session'[k].user = session[k].user
           /\ session'[k] # NoSession => session[k] # NoSession
           /\ Expired(session[k]) => Expired(session'[k])
<1>1. session[k] \in Session \cup {NoSession}
  BY DEF TypeOK
<1>2. session'[k] = [session[k] EXCEPT !.left = IF @ < 0 THEN @ ELSE @ - 1]
  BY DEF Tick
<1>3. CASE session[k] = NoSession
  BY <1>2, <1>3 DEF NoSession, Expired
<1>4. CASE session[k] \in Session
  <2>1. session[k].user # Nobody
    BY <1>4, AccountsAssumption DEF Session
  <2>2. session'[k].user = session[k].user
    BY <1>2, <1>4 DEF Session
  <2>3. Expired(session[k]) => Expired(session'[k])
    BY <1>2, <1>4 DEF Session, Expired
  <2>4. QED
    BY <2>1, <2>2, <2>3 DEF NoSession
<1>5. QED
  BY <1>1, <1>3, <1>4

LEMMA TickSafe == ASSUME TypeOK, Safe, Tick PROVE Safe'
<1>1. AdminRemains' /\ EmptyIsNew' /\ Live' = Live
  BY AccountsStay DEF Safe, Tick
<1>2. minted' = minted
  BY DEF Tick
<1>3. QED
  BY <1>1, <1>2, Ages DEF Safe, SessionsHaveAccounts, OpenAreMinted

LEMMA SessionsGoSafe ==
    ASSUME TypeOK, Safe, UNCHANGED <<account, admins, minted>>,
           \A k \in Tokens : session'[k] \in {session[k], NoSession}
    PROVE  Safe'
<1>1. AdminRemains' /\ EmptyIsNew' /\ Live' = Live
  BY AccountsStay DEF Safe
<1>2. QED
  BY <1>1, SessionsGo DEF Safe

\* The foreign key: a session goes in only for an account that is there.
LEMMA MintSafe == ASSUME TypeOK, Safe, NEW r \in Reqs, Mint(r) PROVE Safe'
<1>1. AdminRemains' /\ EmptyIsNew' /\ Live' = Live
  BY AccountsStay DEF Safe, Mint
<1>2. PICK k \in Tokens \ minted :
        /\ minted' = minted \cup {k}
        /\ session' = IF req[r].user \in Live
                      THEN [session EXCEPT ![k] = [user |-> req[r].user, left |-> SessionTTL]]
                      ELSE session
  BY DEF Mint
<1>3. SessionsHaveAccounts'
  BY <1>1, <1>2 DEF TypeOK, Safe, SessionsHaveAccounts
<1>4. OpenAreMinted'
  BY <1>2 DEF TypeOK, Safe, OpenAreMinted
<1>5. QED
  BY <1>1, <1>3, <1>4 DEF Safe

\* The first account that registers manages the instance; a later one joins.
LEMMA RegisterSafe == ASSUME TypeOK, Safe, NEW r \in Reqs, Register(r) PROVE Safe'
<1>1. PICK u \in Ids \ LegacyUsers :
        /\ account[u] = "unused"
        /\ account' = [account EXCEPT ![u] = "live"]
        /\ admins' = IF Live = {} THEN admins \cup {u} ELSE admins
        /\ session' = Pruned(session)
  BY DEF Register
<1>2. Live' = Live \cup {u}
  BY <1>1 DEF TypeOK, Live
<1>3. Admins' # {}
  BY <1>1, <1>2 DEF Safe, AdminRemains, Admins
<1>4. \A k \in Tokens : session'[k] \in {session[k], NoSession}
  BY <1>1, FewerSessions
<1>5. SessionsHaveAccounts' /\ OpenAreMinted'
  BY <1>2, <1>4 DEF Safe, SessionsHaveAccounts, OpenAreMinted, Register
<1>6. QED
  BY <1>2, <1>3, <1>5 DEF Safe, AdminRemains, EmptyIsNew

LEMMA ImportSafe == ASSUME TypeOK, Safe, ImportUsers PROVE Safe'
<1>1. CASE NoUsers
  BY <1>1, TablesStaySafe DEF NoUsers, bookVars
<1>2. CASE UsersInserted
  <2>1. PICK k \in (Tokens \ minted) \cup {Nobody} :
          /\ minted' = minted \cup ({k} \ {Nobody})
          /\ session' = [t \in Tokens |->
                IF t = k THEN [user |-> CHOOSE u \in LegacyUsers : TRUE, left |-> SessionTTL]
                         ELSE session[t]]
    BY <1>2 DEF UsersInserted
  <2>2. Live' = Live \cup LegacyUsers /\ admins' = admins \cup LegacyAdmins
    BY <1>2, AccountsAssumption DEF Live, UsersInserted
  <2>3. Admins' # {}
    BY <2>2, AccountsAssumption DEF Admins, LegacyUsers
  <2>4. (CHOOSE u \in LegacyUsers : TRUE) \in LegacyUsers
    BY AccountsAssumption DEF LegacyUsers
  <2>5. SessionsHaveAccounts'
    BY <2>1, <2>2, <2>4 DEF Safe, SessionsHaveAccounts
  <2>6. OpenAreMinted'
    BY <2>1, AccountsAssumption DEF Safe, OpenAreMinted
  <2>7. QED
    BY <2>3, <2>5, <2>6 DEF Safe, AdminRemains, EmptyIsNew, Admins
<1>3. QED
  BY <1>1, <1>2 DEF ImportUsers

LEMMA DeleteSafe == ASSUME TypeOK, Safe, NEW r \in Reqs, Delete(r) PROVE Safe'
<1>1. CASE account' = account
  <2>1. \A k \in Tokens : session'[k] \in {session[k], NoSession}
    BY FewerSessions DEF Delete
  <2>2. QED
    BY <1>1, <2>1, SessionsGoSafe DEF Delete
<1>2. CASE account' # account
  <2> DEFINE u == req[r].target
  <2>1. MayGo(r) /\ session' = SignedOut(u) /\ account' = [account EXCEPT ![u] = "gone"]
    BY <1>2 DEF Delete
  <2>2. admins' = admins /\ minted' = minted
    BY DEF Delete
  <2>3. Admins \ {u} # {}
    BY <2>1, InChargeWithout DEF Safe, Delete
  <2>4. Live' = Live \ {u}
    BY <2>1 DEF TypeOK, Live
  <2>5. Admins' # {}
    BY <2>2, <2>3, <2>4 DEF Admins
  <2>6. SessionsHaveAccounts'
    <3>1. ASSUME NEW k \in Tokens, session'[k] # NoSession PROVE session'[k].user \in Live'
      <4>1. session'[k] = session[k] /\ session[k].user # u
        BY <2>1, <3>1 DEF SignedOut
      <4>2. QED
        BY <2>4, <3>1, <4>1 DEF Safe, SessionsHaveAccounts
    <3>2. QED
      BY <3>1 DEF SessionsHaveAccounts
  <2>7. OpenAreMinted'
    BY <2>1, <2>2, FewerSessions DEF Safe, OpenAreMinted
  <2>8. QED
    BY <2>5, <2>6, <2>7 DEF Safe, AdminRemains, EmptyIsNew, Admins
<1>3. QED
  BY <1>1, <1>2

\* The invariant is kept by every step.
LEMMA StepInv == ASSUME IInv, [Next]_vars PROVE IInv'
<1> USE DEF IInv, Safe
<1>1. CASE UNCHANGED vars
  <2>1. TypeOK'
    BY <1>1 DEF vars, TypeOK
  <2>2. Safe'
    BY <1>1, TablesStaySafe DEF vars, bookVars
  <2>3. QED
    BY <2>1, <2>2
<1>2. CASE ImportUsers
  BY <1>2, StartType, ImportSafe
<1>3. CASE ImportData \/ Retire \/ Crash
  <2>1. UNCHANGED bookVars
    BY <1>3 DEF ImportData, Retire, Crash, bookVars
  <2>2. QED
    BY <1>3, <2>1, StartType, TablesStaySafe
<1>4. CASE Tick
  BY <1>4, StartType, TickSafe
<1>5. ASSUME NEW k \in Tokens, Logout(k) PROVE IInv'
  <2>1. \A q \in Tokens : session'[q] \in {session[q], NoSession}
    BY <1>5 DEF TypeOK, Logout
  <2>2. Safe'
    BY <1>5, <2>1, SessionsGoSafe DEF Logout
  <2>3. TypeOK'
    BY <1>5, SessionTypes DEF TypeOK, Logout
  <2>4. QED
    BY <2>2, <2>3
<1>6. ASSUME NEW r \in Reqs PROVE Register(r) => IInv'
  BY SignInType, RegisterSafe
<1>7. ASSUME NEW r \in Reqs, Login(r) \/ SignOutEverywhere(r) PROVE IInv'
  <2>1. \A q \in Tokens : session'[q] \in {session[q], NoSession}
    BY <1>7, FewerSessions DEF Login, SignOutEverywhere
  <2>2. Safe'
    BY <1>7, <2>1, SessionsGoSafe DEF Login, SignOutEverywhere
  <2>3. QED
    BY <1>7, <2>2, SignInType, HandlerType
<1>8. ASSUME NEW r \in Reqs PROVE Mint(r) => IInv'
  BY SignInType, MintSafe
<1>9. ASSUME NEW r \in Reqs PROVE Delete(r) => IInv'
  BY HandlerType, DeleteSafe
<1>10. ASSUME NEW r \in Reqs, Identify(r) \/ AdminGuard(r) PROVE IInv'
  <2>1. UNCHANGED bookVars
    BY <1>10 DEF Identify, AdminGuard, bookVars
  <2>2. QED
    BY <1>10, <2>1, HandlerType, TablesStaySafe
<1>11. ASSUME NEW r \in Reqs,
              DropState(r) \/ SyncLoad(r) \/ SyncSave(r) \/ Get(r) \/ Clear(r)
       PROVE  IInv'
  <2>1. UNCHANGED bookVars
    BY <1>11 DEF DropState, SyncLoad, SyncSave, Get, Clear, bookVars
  <2>2. QED
    BY <1>11, <2>1, RowType, TablesStaySafe
<1>12. ASSUME NEW r \in Reqs, NEW k \in Tokens PROVE Authorize(r, k) => IInv'
  BY SessionStepType, SlideSafe
<1>13. QED
  BY <1>1, <1>2, <1>3, <1>4, <1>5, <1>6, <1>7, <1>8, <1>9, <1>10, <1>11, <1>12 DEF Next

LEMMA Invariance == Spec => []IInv
<1>1. Init => IInv
  BY InitType, InitSafe DEF IInv, Safe
<1>2. QED
  BY <1>1, StepInv, PTL DEF Spec

\* Type correctness of the tables and of every request under way.
THEOREM TypeCorrect == Spec => []TypeOK
<1>1. IInv => TypeOK
  BY DEF IInv
<1>2. QED
  BY Invariance, <1>1, PTL

\* No session survives its account, however many requests delete accounts while
\* others sign in to them.
THEOREM SessionsSafe == Spec => []SessionsHaveAccounts
<1>1. IInv => SessionsHaveAccounts
  BY DEF IInv
<1>2. QED
  BY Invariance, <1>1, PTL

\* Accounts are never left without an administrator.
THEOREM AdminStays == Spec => []AdminRemains
<1>1. IInv => AdminRemains
  BY DEF IInv
<1>2. QED
  BY Invariance, <1>1, PTL

-----------------------------------------------------------------------------
(* The tables implement AccountBook *)

LEMMA BookInit == Init => Book!Init
BY DEF Init, Book!Init, Holder

LEMMA BookLive == Book!Live = Live
BY DEF Book!Live, Live

\* Steps that only touch requests, rows and files.
LEMMA BookStutter == ASSUME UNCHANGED bookVars PROVE UNCHANGED Book!vars
BY DEF bookVars, Book!vars, Holder, Expired

\* Whatever else happens to the sessions: none is opened, and those that change end.
LEMMA BookEnd ==
    ASSUME UNCHANGED <<account, admins>>,
           \A k \in Tokens : Holder'[k] \in {Holder[k], Ended}
    PROVE  Book!Next
<1> DEFINE K == {k \in Tokens : Holder'[k] # Holder[k]}
<1>1. Holder' = [k \in Tokens |-> IF k \in K THEN Ended ELSE Holder[k]]
  BY DEF Holder
<1>2. Book!End(K)
  BY <1>1 DEF Book!End
<1>3. K \in SUBSET Tokens
  OBVIOUS
<1>4. QED
  BY <1>2, <1>3 DEF Book!Next

\* Sessions that go have ended.
LEMMA GoneHasEnded ==
    ASSUME minted' = minted, NEW k \in Tokens, session'[k] \in {session[k], NoSession}
    PROVE  Holder'[k] \in {Holder[k], Ended}
BY DEF Holder, Expired, NoSession

\* A new session, in the book.
LEMMA OpensOne ==
    ASSUME NEW k \in Tokens \ minted, NEW u, minted' = minted \cup {k},
           session'[k] = [user |-> u, left |-> SessionTTL],
           \A q \in Tokens \ {k} : session'[q] = session[q]
    PROVE  Holder[k] = Nobody /\ Holder' = [Holder EXCEPT ![k] = u]
<1>1. Holder[k] = Nobody
  BY DEF Holder
<1>2. session'[k].left >= 0 /\ session'[k].user = u
  BY AccountsAssumption
<1>3. Holder'[k] = u
  BY <1>2, AccountsAssumption DEF Holder, Expired
<1>4. \A q \in Tokens \ {k} : Holder'[q] = Holder[q]
  BY DEF Holder, Expired
<1>5. DOMAIN Holder' = Tokens /\ Holder' = [q \in Tokens |-> Holder'[q]]
  BY DEF Holder
<1>6. Holder = [q \in Tokens |-> Holder[q]]
  BY DEF Holder
<1>7. QED
  BY <1>1, <1>3, <1>4, <1>5, <1>6

LEMMA BookSlide ==
    ASSUME TypeOK, Safe, NEW r \in Reqs, NEW k \in Tokens, Authorize(r, k)
    PROVE  Book!Next
<1>1. UNCHANGED <<account, admins, minted>>
  BY DEF Authorize
<1>2. CASE Expired(session[k])
  <2>1. \A q \in Tokens : session'[q] \in {session[q], NoSession}
    BY <1>2 DEF TypeOK, Authorize
  <2>2. QED
    BY <1>1, <2>1, GoneHasEnded, BookEnd
<1>3. CASE ~Expired(session[k])
  <2>1. \A q \in Tokens : Holder'[q] = Holder[q]
    BY <1>1, <1>3, Slides, AccountsAssumption DEF Holder, Expired
  <2>2. QED
    BY <1>1, <2>1, BookEnd
<1>4. QED
  BY <1>2, <1>3

LEMMA BookTick == ASSUME TypeOK, Tick PROVE Book!Next
<1>1. UNCHANGED <<account, admins, minted>>
  BY DEF Tick
<1>2. \A k \in Tokens : Holder'[k] \in {Holder[k], Ended}
  BY <1>1, Ages DEF Holder
<1>3. QED
  BY <1>1, <1>2, BookEnd

\* A token opens its session if the account is there, and is lost if it is not.
LEMMA BookMint == ASSUME TypeOK, Safe, NEW r \in Reqs, Mint(r) PROVE Book!Next
<1>1. PICK k \in Tokens \ minted :
        /\ minted' = minted \cup {k}
        /\ session' = IF req[r].user \in Live
                      THEN [session EXCEPT ![k] = [user |-> req[r].user, left |-> SessionTTL]]
                      ELSE session
  BY DEF Mint
<1>2. UNCHANGED <<account, admins>> /\ Holder[k] = Nobody
  BY <1>1 DEF Mint, Holder
<1>3. CASE req[r].user \in Live
  <2> DEFINE u == req[r].user
  <2>2. session'[k] = [user |-> u, left |-> SessionTTL]
    BY <1>1, <1>3 DEF TypeOK
  <2>3. \A q \in Tokens \ {k} : session'[q] = session[q]
    BY <1>1, <1>3 DEF TypeOK
  <2>4. Holder' = [Holder EXCEPT ![k] = u]
    BY <1>1, <2>2, <2>3, OpensOne
  <2>5. Book!Open(k, u)
    BY <1>2, <1>3, <2>4, BookLive DEF Book!Open
  <2>6. u \in Ids
    BY <1>3 DEF Live
  <2>7. QED
    BY <2>5, <2>6 DEF Book!Next
<1>4. CASE req[r].user \notin Live
  <2>1. session[k] = NoSession
    BY <1>1 DEF Safe, OpenAreMinted
  <2>2. Holder'[k] = Ended
    BY <1>1, <1>4, <2>1 DEF Holder, Expired, NoSession
  <2>3. \A q \in Tokens \ {k} : Holder'[q] = Holder[q]
    BY <1>1, <1>4 DEF Holder
  <2>4. QED
    BY <1>2, <2>2, <2>3, BookEnd
<1>5. QED
  BY <1>3, <1>4

\* The first account founds the book, a later one joins it.
LEMMA BookRegister == ASSUME TypeOK, Safe, NEW r \in Reqs, Register(r) PROVE Book!Next
<1>1. PICK u \in Ids \ LegacyUsers :
        /\ account[u] = "unused"
        /\ account' = [account EXCEPT ![u] = "live"]
        /\ admins' = IF Live = {} THEN admins \cup {u} ELSE admins
        /\ session' = Pruned(session)
  BY DEF Register
<1>2. Holder' = Holder
  BY <1>1 DEF Register, Holder, Pruned, Expired, NoSession
<1>3. CASE Live = {}
  <2>1. admins' = {u}
    BY <1>1, <1>3 DEF Safe, EmptyIsNew
  <2>2. account' = [v \in Ids |-> IF v \in {u} THEN "live" ELSE account[v]]
    BY <1>1 DEF TypeOK
  <2>3. Book!Found({u}, {u})
    BY <1>1, <1>2, <2>1, <2>2 DEF Book!Found
  <2>4. {u} \in SUBSET Ids /\ {u} \in SUBSET {u}
    OBVIOUS
  <2>5. QED
    BY <1>3, <2>3, <2>4, BookLive DEF Book!Next
<1>4. CASE Live # {}
  <2>1. Book!Join(u)
    BY <1>1, <1>2, <1>4, BookLive DEF Book!Join
  <2>2. QED
    BY <2>1 DEF Book!Next
<1>5. QED
  BY <1>3, <1>4

\* An import into an empty table founds the book; one that finds no file, fails or
\* sees a table in use does nothing.
LEMMA BookImport ==
    ASSUME ~CountMayFail, TypeOK, Safe, ImportUsers PROVE Book!Next \/ UNCHANGED Book!vars
<1>1. CASE NoUsers
  BY <1>1, BookStutter DEF NoUsers, bookVars
<1>2. CASE Live = {} /\ UsersInserted
  <2> DEFINE u == CHOOSE v \in LegacyUsers : TRUE
  <2>1. PICK k \in (Tokens \ minted) \cup {Nobody} :
          /\ account' = [v \in Ids |-> IF v \in LegacyUsers THEN "live" ELSE account[v]]
          /\ admins' = admins \cup LegacyAdmins
          /\ minted' = minted \cup ({k} \ {Nobody})
          /\ session' = [t \in Tokens |->
                IF t = k THEN [user |-> u, left |-> SessionTTL] ELSE session[t]]
    BY <1>2 DEF UsersInserted
  <2>2. u \in LegacyUsers
    BY AccountsAssumption DEF LegacyUsers
  <2> HIDE DEF u
  <2>3. admins' = LegacyAdmins /\ \A v \in LegacyUsers : account[v] = "unused"
    BY <1>2, <2>1, AccountsAssumption DEF Safe, EmptyIsNew
  <2>4. \/ UNCHANGED Holder
        \/ k \in Tokens /\ Holder[k] = Nobody /\ Holder' = [Holder EXCEPT ![k] = u]
    <3>1. CASE k = Nobody
      <4>1. minted' = minted /\ \A t \in Tokens : session'[t] = session[t]
        BY <2>1, <3>1, AccountsAssumption
      <4>2. QED
        BY <4>1 DEF Holder
    <3>2. CASE k \in Tokens \ minted
      <4>1. k # Nobody
        BY <3>2, AccountsAssumption
      <4>2. \A t \in Tokens \ {k} : session'[t] = session[t]
        BY <2>1
      <4>3. session'[k] = [user |-> u, left |-> SessionTTL] /\ minted' = minted \cup {k}
        BY <2>1, <3>2, <4>1
      <4>4. QED
        BY <3>2, <4>2, <4>3, OpensOne
    <3>3. QED
      BY <3>1, <3>2
  <2>5. Book!Found(LegacyUsers, LegacyAdmins)
    BY <2>1, <2>2, <2>3, <2>4, AccountsAssumption DEF Book!Found, LegacyUsers
  <2>6. LegacyUsers \in SUBSET Ids /\ LegacyAdmins \in SUBSET LegacyUsers
    BY AccountsAssumption DEF LegacyUsers
  <2>7. QED
    BY <1>2, <2>5, <2>6, BookLive DEF Book!Next
<1>3. QED
  BY <1>1, <1>2 DEF ImportUsers

\* An account leaves with its sessions; if only these are deleted, they end.
LEMMA BookDelete ==
    ASSUME TypeOK, Safe, NEW r \in Reqs, Delete(r) PROVE Book!Next
<1>1. admins' = admins /\ minted' = minted
  BY DEF Delete
<1>2. CASE account' = account
  <2>1. \A k \in Tokens : session'[k] \in {session[k], NoSession}
    BY FewerSessions DEF Delete
  <2>2. QED
    BY <1>1, <1>2, <2>1, GoneHasEnded, BookEnd
<1>3. CASE account' # account
  <2> DEFINE u == req[r].target
  <2>1. MayGo(r) /\ session' = SignedOut(u) /\ account' = [account EXCEPT ![u] = "gone"]
    BY <1>3 DEF Delete
  <2>2. u \in Live /\ u \in Ids
    BY <2>1 DEF MayGo, Live
  <2>3. (Live \cap admins) \ {u} # {}
    BY <2>1, InChargeWithout DEF Safe, Delete, Admins
  <2>4. Holder' = [k \in Tokens |-> IF Holder[k] = u THEN Ended ELSE Holder[k]]
    <3>1. u # Nobody /\ u # Ended
      BY <2>2, AccountsAssumption
    <3>2. QED
      BY <1>1, <2>1, <3>1 DEF Holder, SignedOut, Expired, NoSession
  <2>5. Book!Leave(u)
    BY <1>1, <2>1, <2>2, <2>3, <2>4, BookLive DEF Book!Leave
  <2>6. QED
    BY <2>2, <2>5 DEF Book!Next
<1>4. QED
  BY <1>2, <1>3

LEMMA BookStep ==
    ASSUME ~CountMayFail, IInv, [Next]_vars PROVE [Book!Next]_(Book!vars)
<1> USE DEF IInv, Safe
<1>1. CASE UNCHANGED vars
  BY <1>1, BookStutter DEF vars, bookVars
<1>2. CASE ImportUsers
  BY <1>2, BookImport
<1>3. CASE ImportData \/ Retire \/ Crash
  BY <1>3, BookStutter DEF ImportData, Retire, Crash, bookVars
<1>4. CASE Tick
  BY <1>4, BookTick
<1>5. ASSUME NEW k \in Tokens, Logout(k) PROVE Book!Next
  <2>1. \A q \in Tokens : session'[q] \in {session[q], NoSession}
    BY <1>5 DEF TypeOK, Logout
  <2>2. QED
    BY <1>5, <2>1, GoneHasEnded, BookEnd DEF Logout
<1>6. ASSUME NEW r \in Reqs, Login(r) \/ SignOutEverywhere(r) PROVE Book!Next
  <2>1. \A q \in Tokens : session'[q] \in {session[q], NoSession}
    BY <1>6, FewerSessions DEF Login, SignOutEverywhere
  <2>2. QED
    BY <1>6, <2>1, GoneHasEnded, BookEnd DEF Login, SignOutEverywhere
<1>7. ASSUME NEW r \in Reqs, Register(r) \/ Mint(r) \/ Delete(r) PROVE Book!Next
  BY <1>7, BookRegister, BookMint, BookDelete
<1>8. ASSUME NEW r \in Reqs,
             Identify(r) \/ AdminGuard(r) \/ DropState(r) \/ SyncLoad(r) \/ SyncSave(r)
                \/ Get(r) \/ Clear(r)
      PROVE  UNCHANGED Book!vars
  BY <1>8, BookStutter
  DEF Identify, AdminGuard, DropState, SyncLoad, SyncSave, Get, Clear, bookVars
<1>9. ASSUME NEW r \in Reqs, NEW k \in Tokens, Authorize(r, k) PROVE Book!Next
  BY <1>9, BookSlide
<1>10. QED
  BY <1>1, <1>2, <1>3, <1>4, <1>5, <1>6, <1>7, <1>8, <1>9 DEF Next

\* The tables implement the account book: through interleaved requests, crashes,
\* restarts and imports that run again, an account that was deleted never returns, a
\* session that ended is never open again, and administrators never all leave.
\* Only where a table's rows can always be counted: see ImportsIntoEmpty.
THEOREM ImplementsBook == ASSUME ~CountMayFail PROVE Spec => KeepsTheBook
<1>1. Init => Book!Init
  BY BookInit
<1>2. IInv /\ [Next]_vars => [Book!Next]_(Book!vars)
  BY BookStep
<1>3. QED
  BY <1>1, <1>2, Invariance, PTL DEF Spec, KeepsTheBook, Book!Spec

\* What the book is for: accounts that were deleted and sessions that ended are gone
\* for good, whatever is imported again and whoever still holds a token.
NothingReturns ==
    [][/\ \A u \in Ids : account[u] = "gone" => account'[u] = "gone"
       /\ \A k \in Tokens : Holder[k] = Ended => Holder'[k] = Ended]_vars

LEMMA BookForgetsNothing ==
    ASSUME TypeOK, [Book!Next]_(Book!vars)
    PROVE  /\ \A u \in Ids : account[u] = "gone" => account'[u] = "gone"
           /\ \A k \in Tokens : Holder[k] = Ended => Holder'[k] = Ended
<1> USE AccountsAssumption DEF TypeOK
<1>1. CASE UNCHANGED Book!vars
  BY <1>1 DEF Book!vars
<1>2. ASSUME NEW K \in SUBSET Tokens, Book!End(K)
      PROVE  /\ \A u \in Ids : account[u] = "gone" => account'[u] = "gone"
             /\ \A k \in Tokens : Holder[k] = Ended => Holder'[k] = Ended
  BY <1>2 DEF Book!End
<1>3. ASSUME NEW v \in Ids, Book!Join(v)
      PROVE  /\ \A u \in Ids : account[u] = "gone" => account'[u] = "gone"
             /\ \A k \in Tokens : Holder[k] = Ended => Holder'[k] = Ended
  BY <1>3 DEF Book!Join
<1>4. ASSUME NEW v \in Ids, Book!Leave(v)
      PROVE  /\ \A u \in Ids : account[u] = "gone" => account'[u] = "gone"
             /\ \A k \in Tokens : Holder[k] = Ended => Holder'[k] = Ended
  BY <1>4 DEF Book!Leave
<1>5. ASSUME NEW v \in Ids, NEW q \in Tokens, Book!Open(q, v)
      PROVE  /\ \A u \in Ids : account[u] = "gone" => account'[u] = "gone"
             /\ \A k \in Tokens : Holder[k] = Ended => Holder'[k] = Ended
  BY <1>5 DEF Book!Open, Holder
<1>6. ASSUME NEW S \in SUBSET Ids, NEW A \in SUBSET S, Book!Found(S, A)
      PROVE  /\ \A u \in Ids : account[u] = "gone" => account'[u] = "gone"
             /\ \A k \in Tokens : Holder[k] = Ended => Holder'[k] = Ended
  BY <1>6 DEF Book!Found, Holder
<1>7. QED
  BY <1>1, <1>2, <1>3, <1>4, <1>5, <1>6 DEF Book!Next

\* Deleted accounts and ended sessions never return, where tables can be counted.
THEOREM NothingReturnsHolds == ASSUME ~CountMayFail PROVE Spec => NothingReturns
<1>1. IInv /\ [Next]_vars =>
        [/\ \A u \in Ids : account[u] = "gone" => account'[u] = "gone"
         /\ \A k \in Tokens : Holder[k] = Ended => Holder'[k] = Ended]_vars
  BY BookStep, BookForgetsNothing DEF IInv
<1>2. QED
  BY <1>1, Invariance, PTL DEF Spec, NothingReturns

(***************************************************************************)
(* What else the process keeps on disk (Restarts): the catalog and the     *)
(* block list.                                                             *)
(***************************************************************************)
TitleLists ==
    (UNION {Answers[k] : k \in Kinds})
        \cup (UNION {{f[k] : k \in Kinds} : f \in LegacyFiles}) \cup {<< >>}

Books == [Kinds -> TitleLists]

Refresher == [at : {"idle", "fetching", "copying", "saving"}, next : Int,
              got : Books, chained : BOOLEAN]

CatalogTyped ==
    /\ cache \in Books /\ table \in Books /\ legacy \in Books
    /\ refresher \in [Kinds -> Refresher]
    /\ unread \in BOOLEAN /\ mixed \in BOOLEAN
    /\ stage \in {"off", "migrated", "blocks", "up"}
    /\ chain \in Nat \ {0}

\* Before the catalog is loaded nothing is in memory and nothing runs.
NothingRuns ==
    stage # "up" =>
        cache = Nothing /\ \A k \in Kinds : refresher[k] = NoRefresh

\* A refresh that does not write has copied nothing.
CopyFits ==
    \A k \in Kinds :
        /\ refresher[k].at \in {"idle", "fetching"} =>
             refresher[k].next = 1 /\ refresher[k].got = Nothing
        /\ refresher[k].at = "copying" => refresher[k].next \in 1..Len(KindOrder)

\* Unless mixed, one refresh writes at a time, and its copy is the caches so far.
CopyIsTrue ==
    ~mixed =>
        /\ \A j, k \in Kinds : Writing(j) /\ Writing(k) => j = k
        /\ \A k \in Kinds :
             /\ refresher[k].at = "copying" =>
                  \A i \in 1..(refresher[k].next - 1) :
                      refresher[k].got[KindOrder[i]] = cache[KindOrder[i]]
             /\ refresher[k].at = "saving" => refresher[k].got = cache
        /\ stage = "up" /\ cache = Nothing => table = Nothing

\* A list once had stays in its cache, and so in every copy and in the table.
ListsStay ==
    /\ \A j, k \in Kinds :
         refresher[j].got[k] # << >> => cache[k] # << >>
    /\ stage = "up" /\ ~unread =>
         \A k \in Kinds : table[k] # << >> => cache[k] # << >>

CatalogIInv ==
    /\ CatalogTyped /\ NothingRuns /\ CopyFits /\ CopyIsTrue /\ ListsStay
    /\ CatalogSurvives

LEMMA BookFacts ==
    /\ Nothing \in Books
    /\ LegacyFiles \subseteq Books
    /\ \A k \in Kinds : Answers[k] \subseteq TitleLists
    /\ \A i \in 1..Len(KindOrder) : KindOrder[i] \in Kinds
    /\ \A k \in Kinds : \E i \in 1..Len(KindOrder) : KindOrder[i] = k
    /\ Len(KindOrder) \in Nat
  <1>1. KindOrder \in Seq(Kinds)
    BY CatalogAssumption DEF CatalogAssumption
  <1>2. /\ Len(KindOrder) \in Nat
        /\ DOMAIN KindOrder = 1..Len(KindOrder)
        /\ \A i \in 1..Len(KindOrder) : KindOrder[i] \in Kinds
    BY <1>1
  <1>3. \A k \in Kinds : \E i \in 1..Len(KindOrder) : KindOrder[i] = k
    BY <1>2 DEF Kinds, Range
  <1>4. << >> \in TitleLists
    BY DEF TitleLists
  <1>5. Nothing \in Books
    BY <1>4 DEF Nothing, Books
  <1>6. \A k \in Kinds : Answers[k] \subseteq TitleLists
    BY DEF TitleLists
  <1>7. LegacyFiles \subseteq Books
    <2> SUFFICES ASSUME NEW f \in LegacyFiles PROVE f \in Books
      OBVIOUS
    <2>1. f = [k \in Kinds |-> f[k]]
      BY CatalogAssumption
    <2>2. \A k \in Kinds : f[k] \in TitleLists
      BY DEF TitleLists
    <2> QED BY <2>1, <2>2 DEF Books
  <1> QED BY <1>2, <1>3, <1>5, <1>6, <1>7

LEMMA CatalogBegins ==
    ASSUME DiskInit
    PROVE  CatalogIInv
  <1> USE DEF DiskInit, CatalogInit
  <1>1. NoRefresh \in Refresher
    BY BookFacts DEF NoRefresh, Refresher
  <1>2. \A k \in Kinds : refresher[k] = NoRefresh
    OBVIOUS
  <1>3. CatalogTyped
    <2>1. /\ cache = Nothing /\ table = Nothing /\ legacy \in LegacyFiles
          /\ refresher = [k \in Kinds |-> NoRefresh]
          /\ unread = FALSE /\ mixed = FALSE /\ stage = "off"
          /\ chain = Len(KindOrder) + 1
      OBVIOUS
    <2>2. chain \in Nat \ {0}
      BY <2>1, BookFacts
    <2>3. Nothing \in Books /\ LegacyFiles \subseteq Books
      BY BookFacts
    <2> QED BY <1>1, <2>1, <2>2, <2>3 DEF CatalogTyped
  <1>4. NothingRuns
    BY <1>2 DEF NothingRuns
  <1>5. CopyFits /\ CopyIsTrue /\ CatalogSurvives
    BY <1>2 DEF CopyFits, CopyIsTrue, CatalogSurvives, NoRefresh, Writing
  <1>6. ListsStay
    BY <1>2 DEF ListsStay, NoRefresh, Nothing
  <1> QED BY <1>3, <1>4, <1>5, <1>6 DEF CatalogIInv

\* A refresh that begins, begins with nothing copied.
LEMMA Beginning ==
    ASSUME CatalogTyped, CopyFits,
           NEW k \in Kinds, NEW c \in BOOLEAN
    PROVE  LET r == Begun(refresher, k, c) IN
           /\ r \in [Kinds -> Refresher]
           /\ \A j \in Kinds \ {k} : r[j] = refresher[j]
           /\ \/ r[k] = refresher[k]
              \/ /\ r[k].at = "fetching" /\ r[k].next = 1
                 /\ r[k].got = Nothing /\ refresher[k].at = "idle"
  <1> DEFINE new == [NoRefresh EXCEPT !.at = "fetching", !.chained = c]
  <1>1. /\ new \in Refresher /\ new.at = "fetching" /\ new.next = 1
        /\ new.got = Nothing
    <2>1. Nothing \in Books
      BY BookFacts
    <2>2. /\ NoRefresh \in Refresher
          /\ NoRefresh.next = 1 /\ NoRefresh.got = Nothing
      BY <2>1 DEF NoRefresh, Refresher
    <2> QED BY <2>2 DEF Refresher
  <1>2. Begun(refresher, k, c) =
          IF refresher[k].at = "idle" THEN [refresher EXCEPT ![k] = new] ELSE refresher
    BY DEF Begun
  <1> HIDE DEF new
  <1> QED BY <1>1, <1>2 DEF CatalogTyped

\* Steps that only begin refreshes.
LEMMA BeginningKeeps ==
    ASSUME CatalogIInv, stage = "up",
           UNCHANGED <<cache, table, legacy, unread, mixed, stage>>,
           chain' \in Nat \ {0},
           refresher' \in [Kinds -> Refresher],
           \A k \in Kinds :
               \/ refresher'[k] = refresher[k]
               \/ /\ refresher'[k].at = "fetching" /\ refresher'[k].next = 1
                  /\ refresher'[k].got = Nothing /\ refresher[k].at = "idle"
    PROVE  CatalogIInv'
  <1> USE DEF CatalogIInv
  <1>1. CatalogTyped' /\ NothingRuns'
    BY DEF CatalogTyped, NothingRuns
  <1>2. \A k \in Kinds : Writing(k)' <=> Writing(k)
    BY DEF Writing
  <1>3. CopyFits'
    BY DEF CopyFits
  <1>4. CopyIsTrue'
    BY <1>2 DEF CopyIsTrue
  <1>5. ListsStay'
    BY DEF ListsStay, Nothing
  <1>6. (CatalogSurvives)'
    BY <1>2 DEF CatalogSurvives
  <1> QED BY <1>1, <1>3, <1>4, <1>5, <1>6

LEMMA ChainKeeps ==
    ASSUME CatalogIInv, stage = "up", UNCHANGED stage,
           BootChain \/ RefreshTick
    PROVE  CatalogIInv'
  <1> USE DEF CatalogIInv
  <1>1. CASE BootChain
    <2>1. KindOrder[chain] \in Kinds
      BY <1>1, BookFacts DEF BootChain, CatalogTyped, CatalogIInv
    <2>2. /\ refresher' = Begun(refresher, KindOrder[chain], TRUE)
          /\ chain' = chain + 1
          /\ UNCHANGED <<cache, table, legacy, unread, mixed>>
      BY <1>1 DEF BootChain
    <2>3. chain' \in Nat \ {0}
      BY <2>2 DEF CatalogTyped
    <2>4. /\ refresher' \in [Kinds -> Refresher]
          /\ \A k \in Kinds :
               \/ refresher'[k] = refresher[k]
               \/ /\ refresher'[k].at = "fetching" /\ refresher'[k].next = 1
                  /\ refresher'[k].got = Nothing /\ refresher[k].at = "idle"
      BY <2>1, <2>2, Beginning
    <2> QED BY <2>2, <2>3, <2>4, BeginningKeeps
  <1>2. CASE RefreshTick
    <2>1. refresher' = [k \in Kinds |-> Begun(refresher, k, FALSE)[k]]
      BY <1>2 DEF RefreshTick
    <2>2. \A k \in Kinds :
            /\ refresher'[k] = Begun(refresher, k, FALSE)[k]
            /\ refresher'[k] \in Refresher
      BY <2>1, Beginning
    <2> QED BY <1>2, <2>1, <2>2, Beginning, BeginningKeeps DEF RefreshTick, CatalogTyped
  <1> QED BY <1>1, <1>2

LEMMA StoreKeeps ==
    ASSUME CatalogIInv, stage = "up", UNCHANGED stage,
           NEW k \in Kinds, Store(k)
    PROVE  CatalogIInv'
  <1> USE DEF CatalogIInv
  <1>1. PICK a \in Answers[k] :
          cache' = [cache EXCEPT ![k] = IF a = << >> THEN cache[k] ELSE a]
    BY DEF Store
  <1>2. /\ refresher[k].at = "fetching"
        /\ mixed' = ((\E j \in Kinds \ {k} : Writing(j))
                       \/ (mixed /\ cache' = Nothing))
        /\ refresher' = [refresher EXCEPT ![k].at = "copying"]
        /\ UNCHANGED <<table, legacy, chain, unread>>
    BY DEF Store
  <1>3. /\ refresher[k].next = 1 /\ refresher[k].got = Nothing
        /\ refresher[k] \in Refresher
    BY <1>2 DEF CopyFits, CatalogTyped
  <1>4. /\ refresher' \in [Kinds -> Refresher]
        /\ \A j \in Kinds \ {k} : refresher'[j] = refresher[j]
        /\ refresher'[k].at = "copying" /\ refresher'[k].next = 1
        /\ refresher'[k].got = Nothing
    <2> DEFINE r == [refresher[k] EXCEPT !.at = "copying"]
    <2>1. /\ r \in Refresher /\ r.at = "copying" /\ r.next = 1
          /\ r.got = Nothing
      BY <1>3 DEF Refresher
    <2>2. refresher' = [refresher EXCEPT ![k] = r]
      BY <1>2
    <2> HIDE DEF r
    <2> QED BY <2>1, <2>2 DEF CatalogTyped
  <1>5. cache' \in Books
    BY <1>1, BookFacts DEF CatalogTyped, Books
  <1>6. \A j \in Kinds : cache[j] # << >> => cache'[j] # << >>
    BY <1>1 DEF CatalogTyped, Books
  <1>7. CatalogTyped' /\ NothingRuns'
    BY <1>2, <1>4, <1>5 DEF CatalogTyped, NothingRuns
  <1>8. CopyFits'
    <2>1. 1 \in 1..Len(KindOrder)
      BY BookFacts
    <2> QED BY <1>4, <2>1 DEF CopyFits
  <1>9. CopyIsTrue'
    <2> SUFFICES ASSUME ~mixed' PROVE CopyIsTrue'
      BY DEF CopyIsTrue
    <2>1. \A j \in Kinds \ {k} : ~Writing(j) /\ ~Writing(j)'
      BY <1>2, <1>4 DEF Writing
    <2>2. cache' = Nothing => table' = Nothing
      <3> SUFFICES ASSUME cache' = Nothing PROVE table' = Nothing
        OBVIOUS
      <3>1. ~mixed
        BY <1>2
      <3>2. \A j \in Kinds : cache[j] = << >>
        BY <1>6 DEF Nothing
      <3>3. cache = Nothing
        BY <3>2 DEF CatalogTyped, Books, Nothing
      <3> QED BY <1>2, <3>1, <3>3 DEF CopyIsTrue
    <2>3. \A j \in Kinds \ {k} :
            refresher'[j].at # "copying" /\ refresher'[j].at # "saving"
      BY <2>1 DEF Writing
    <2> QED BY <1>4, <2>1, <2>2, <2>3 DEF CopyIsTrue
  <1>10. ListsStay'
    <2>1. \A j, i \in Kinds : refresher'[j].got[i] # << >> => cache'[i] # << >>
      BY <1>4, <1>6 DEF ListsStay, Nothing
    <2> QED BY <1>2, <1>6, <2>1 DEF ListsStay
  <1>11. (CatalogSurvives)'
    BY <1>4 DEF CatalogSurvives, Writing
  <1> QED BY <1>7, <1>8, <1>9, <1>10, <1>11

LEMMA CopyKeeps ==
    ASSUME CatalogIInv, stage = "up", UNCHANGED stage,
           NEW k \in Kinds, CopyCache(k)
    PROVE  CatalogIInv'
  <1> USE DEF CatalogIInv
  <1> DEFINE n == refresher[k].next
             m == KindOrder[n]
             got == [refresher[k].got EXCEPT ![m] = cache[m]]
             last == n = Len(KindOrder)
             r == [refresher[k] EXCEPT !.got = got, !.next = n + 1,
                     !.at = IF last THEN "saving" ELSE "copying"]
  <1>1. /\ refresher[k].at = "copying"
        /\ UNCHANGED <<cache, table, legacy, chain, unread, mixed>>
    BY DEF CopyCache
  <1>2. n \in 1..Len(KindOrder) /\ m \in Kinds /\ Len(KindOrder) \in Nat
    BY <1>1, BookFacts DEF CopyFits
  <1>3. got \in Books /\ got[m] = cache[m]
          /\ \A j \in Kinds \ {m} : got[j] = refresher[k].got[j]
    BY <1>2 DEF CatalogTyped, Refresher, Books
  <1>4. /\ r \in Refresher /\ r.got = got /\ r.next = n + 1
        /\ r.at = IF last THEN "saving" ELSE "copying"
    <2>1. refresher[k] \in Refresher
      BY DEF CatalogTyped
    <2>2. n + 1 \in Int /\ got \in Books
      BY <1>2, <1>3
    <2>3. CASE last
      <3>1. r = [refresher[k] EXCEPT !.got = got, !.next = n + 1, !.at = "saving"]
        BY <2>3
      <3> HIDE DEF got, last, r
      <3> QED BY <2>1, <2>2, <2>3, <3>1 DEF Refresher
    <2>4. CASE ~last
      <3>1. r = [refresher[k] EXCEPT !.got = got, !.next = n + 1, !.at = "copying"]
        BY <2>4
      <3> HIDE DEF got, last, r
      <3> QED BY <2>1, <2>2, <2>4, <3>1 DEF Refresher
    <2> QED BY <2>3, <2>4
  <1>5. /\ refresher' \in [Kinds -> Refresher]
        /\ refresher'[k] = r
        /\ \A j \in Kinds \ {k} : refresher'[j] = refresher[j]
    <2>1. refresher' = [refresher EXCEPT ![k] = r]
      BY <1>1 DEF CopyCache
    <2> HIDE DEF r
    <2> QED BY <1>4, <2>1 DEF CatalogTyped
  <1> HIDE DEF r
  <1>6. CatalogTyped' /\ NothingRuns'
    BY <1>1, <1>5 DEF CatalogTyped, NothingRuns
  <1>7. CopyFits'
    <2>1. ~last => n + 1 \in 1..Len(KindOrder)
      BY <1>2
    <2> QED BY <1>4, <1>5, <2>1 DEF CopyFits
  <1>8. \A j \in Kinds : Writing(j)' <=> Writing(j)
    BY <1>1, <1>4, <1>5 DEF Writing
  <1>9. CopyIsTrue'
    <2> SUFFICES ASSUME ~mixed PROVE CopyIsTrue'
      BY <1>1 DEF CopyIsTrue
    <2>1. \A i \in 1..n : got[KindOrder[i]] = cache[KindOrder[i]]
      <3> SUFFICES ASSUME NEW i \in 1..n
                   PROVE  got[KindOrder[i]] = cache[KindOrder[i]]
        OBVIOUS
      <3>1. KindOrder[i] \in Kinds
        BY <1>2, BookFacts
      <3>2. CASE KindOrder[i] = m
        BY <3>2, <1>3
      <3>3. CASE KindOrder[i] # m
        <4>1. i \in 1..(n - 1)
          BY <1>2, <3>3
        <4>2. refresher[k].got[KindOrder[i]] = cache[KindOrder[i]]
          BY <1>1, <4>1 DEF CopyIsTrue
        <4> QED BY <1>3, <3>1, <3>3, <4>2
      <3> QED BY <3>2, <3>3
    <2>2. last => got = cache
      <3> SUFFICES ASSUME last PROVE got = cache
        OBVIOUS
      <3>1. \A j \in Kinds : got[j] = cache[j]
        BY <2>1, BookFacts
      <3> HIDE DEF got
      <3> QED BY <1>3, <3>1 DEF CatalogTyped, Books
    <2>3. /\ r.at = "copying" => \A i \in 1..(r.next - 1) :
                                   r.got[KindOrder[i]] = cache[KindOrder[i]]
          /\ r.at = "saving" => r.got = cache
      <3> HIDE DEF got
      <3> QED BY <1>2, <1>4, <2>1, <2>2
    <2> HIDE DEF got, last
    <2> QED BY <1>1, <1>5, <1>8, <2>3 DEF CopyIsTrue
  <1>10. ListsStay'
    <2>1. \A i \in Kinds : got[i] # << >> => cache[i] # << >>
      BY <1>3 DEF ListsStay
    <2> HIDE DEF got
    <2> QED BY <1>1, <1>4, <1>5, <2>1 DEF ListsStay
  <1>11. (CatalogSurvives)'
    BY <1>1, <1>8 DEF CatalogSurvives
  <1> QED BY <1>6, <1>7, <1>9, <1>10, <1>11

LEMMA SaveKeeps ==
    ASSUME CatalogIInv, stage = "up", UNCHANGED stage,
           NEW k \in Kinds, SaveCatalogCaches(k)
    PROVE  CatalogIInv'
  <1> USE DEF CatalogIInv
  <1>1. /\ refresher[k].at = "saving"
        /\ refresher' = [refresher EXCEPT ![k] = NoRefresh]
        /\ UNCHANGED <<cache, legacy, chain, unread>>
    BY DEF SaveCatalogCaches
  <1>2. NoRefresh \in Refresher /\ Nothing \in Books
    BY BookFacts DEF NoRefresh, Refresher
  <1>3. /\ refresher' \in [Kinds -> Refresher]
        /\ refresher'[k] = NoRefresh
        /\ \A j \in Kinds \ {k} : refresher'[j] = refresher[j]
    BY <1>1, <1>2 DEF CatalogTyped
  <1>4. /\ NoRefresh.at = "idle" /\ NoRefresh.next = 1
        /\ NoRefresh.got = Nothing
    BY DEF NoRefresh
  <1>5. refresher[k].got \in Books
    BY DEF CatalogTyped, Refresher
  <1>6. \/ table' = refresher[k].got /\ mixed' = mixed
        \/ table' = table /\ refresher[k].got = Nothing /\ mixed' = mixed
        \/ table' = table /\ mixed' = TRUE
    BY DEF SaveCatalogCaches
  <1>7. CatalogTyped' /\ NothingRuns'
    BY <1>1, <1>3, <1>5, <1>6 DEF CatalogTyped, NothingRuns
  <1>8. CopyFits'
    BY <1>3, <1>4 DEF CopyFits
  <1>9. ListsStay'
    <2>1. \A i, j \in Kinds : refresher'[j].got[i] # << >> => cache[i] # << >>
      BY <1>3, <1>4 DEF ListsStay, Nothing
    <2>2. ~unread => \A j \in Kinds : table'[j] # << >> => cache[j] # << >>
      BY <1>6 DEF ListsStay
    <2> QED BY <1>1, <2>1, <2>2 DEF ListsStay
  <1>10. CopyIsTrue' /\ (CatalogSurvives)'
    <2> SUFFICES ASSUME ~mixed' PROVE CopyIsTrue' /\ (CatalogSurvives)'
      BY DEF CopyIsTrue, CatalogSurvives
    <2>1. ~mixed /\ refresher[k].got = cache
      BY <1>1, <1>6 DEF CopyIsTrue
    <2>2. table' = cache
      BY <1>6, <2>1 DEF CopyIsTrue
    <2>3. \A j \in Kinds : ~Writing(j)'
      BY <1>1, <1>3, <1>4, <2>1 DEF CopyIsTrue, Writing
    <2>4. CopyIsTrue'
      BY <1>1, <2>2, <2>3 DEF CopyIsTrue, Writing
    <2> QED BY <1>1, <2>2, <2>4 DEF CatalogSurvives
  <1> QED BY <1>7, <1>8, <1>9, <1>10

\* The steps of a start and the crash.
LEMMA StartKeeps ==
    ASSUME CatalogIInv,
           \/ Migrate \/ LoadBlocks \/ LoadCatalog \/ ProcessDies
    PROVE  CatalogIInv'
  <1> USE DEF CatalogIInv
  <1>1. /\ NoRefresh.at = "idle" /\ NoRefresh.next = 1
        /\ NoRefresh.got = Nothing /\ NoRefresh \in Refresher
        /\ Nothing \in Books /\ Len(KindOrder) + 1 \in Nat \ {0}
    BY BookFacts DEF NoRefresh, Refresher
  <1>2. CASE Migrate \/ LoadBlocks
    <2>1. /\ stage # "up" /\ stage' \in {"migrated", "blocks"}
          /\ UNCHANGED <<cache, refresher, chain, unread, mixed>>
          /\ table' \in Books /\ legacy' \in Books
      BY <1>1, <1>2 DEF Migrate, LoadBlocks, MigrateCatalogJSON,
           catalogVars, CatalogTyped
    <2>2. CatalogTyped' /\ NothingRuns' /\ CopyFits'
      BY <2>1 DEF CatalogTyped, NothingRuns, CopyFits
    <2>3. CopyIsTrue' /\ ListsStay' /\ (CatalogSurvives)'
      BY <2>1 DEF CopyIsTrue, ListsStay, CatalogSurvives, Writing
    <2> QED BY <2>2, <2>3
  <1>3. CASE LoadCatalog
    <2>1. /\ stage = "blocks" /\ stage' = "up" /\ chain' = 1
          /\ UNCHANGED <<table, legacy, refresher>> /\ mixed' = unread'
          /\ \/ unread' = FALSE
                /\ cache' = [k \in Kinds |->
                               IF cache[k] = << >> THEN table[k] ELSE cache[k]]
             \/ unread' = TRUE /\ UNCHANGED cache
      BY <1>3 DEF LoadCatalog, LoadSnapshot
    <2>2. /\ cache = Nothing
          /\ \A k \in Kinds : refresher[k] = NoRefresh
      BY <2>1 DEF NothingRuns
    <2>3. ~unread' => cache' = table
      BY <2>1, <2>2 DEF Nothing, CatalogTyped, Books
    <2>4. CatalogTyped'
      <3>1. cache' \in Books /\ unread' \in BOOLEAN /\ chain' \in Nat \ {0}
        <4>1. cache' \in Books
          BY <2>1, <2>3 DEF CatalogTyped
        <4>2. chain' \in Nat \ {0}
          BY <2>1
        <4> QED BY <2>1, <4>1, <4>2
      <3> QED BY <2>1, <3>1 DEF CatalogTyped
    <2>7. NothingRuns' /\ CopyFits'
      BY <2>1 DEF NothingRuns, CopyFits
    <2>5. ListsStay'
      <3>1. \A j, k \in Kinds : refresher'[j].got[k] = << >>
        BY <1>1, <2>1, <2>2 DEF Nothing
      <3> QED BY <2>1, <2>3, <3>1 DEF ListsStay
    <2>6. CopyIsTrue' /\ (CatalogSurvives)'
      <3>1. \A k \in Kinds : refresher'[k].at = "idle"
        BY <1>1, <2>1, <2>2
      <3> QED BY <2>1, <2>3, <3>1
              DEF CopyIsTrue, CatalogSurvives, Writing
    <2> QED BY <2>4, <2>5, <2>6, <2>7
  <1>4. CASE ProcessDies
    <2>1. /\ stage' = "off" /\ cache' = Nothing
          /\ refresher' = [k \in Kinds |-> NoRefresh]
          /\ chain' = Len(KindOrder) + 1 /\ unread' = FALSE /\ mixed' = FALSE
          /\ UNCHANGED <<table, legacy>>
      BY <1>4 DEF ProcessDies, CatalogCrash
    <2>2. \A k \in Kinds : refresher'[k] = NoRefresh
      BY <2>1
    <2>3. CatalogTyped' /\ NothingRuns' /\ CopyFits'
      BY <1>1, <2>1, <2>2 DEF CatalogTyped, NothingRuns, CopyFits
    <2>4. CopyIsTrue' /\ ListsStay' /\ (CatalogSurvives)'
      BY <1>1, <2>1, <2>2 DEF CopyIsTrue, ListsStay, CatalogSurvives,
           Writing, Nothing
    <2> QED BY <2>3, <2>4
  <1> QED BY <1>2, <1>3, <1>4

(***************************************************************************)
(* The block list.                                                         *)
(***************************************************************************)
Call == [at : {"idle", "changed", "removing", "opening", "writing", "renaming"},
         copy : SUBSET Ips, on : {"none", "tmp", "file", "gone"}]

BlocksTyped ==
    /\ blocked \subseteq Ips /\ settled \subseteq Ips
    /\ file \in Contents /\ tmp \in Contents
    /\ admin \in [Editors -> Call]
    /\ sure \in BOOLEAN

\* A writer has a handle, whatever became of its path.
WritersOpen == \A a \in Editors : admin[a].at = "writing" => admin[a].on # "none"

NobodyEdits == stage # "up" => \A a \in Editors : admin[a].at = "idle"

\* Unless two calls met or a write failed, one call is under way at most, and
\* until it renames or removes, the file is the list before it.
OneEdit ==
    sure /\ stage \in {"blocks", "up"} =>
        /\ \A a, b \in Editors :
             admin[a].at # "idle" /\ admin[b].at # "idle" => a = b
        /\ (\A a \in Editors : admin[a].at = "idle") => Readable(file) = blocked
        /\ \A a \in Editors :
             /\ admin[a].at # "idle" => Readable(file) = settled
             /\ admin[a].at = "removing" => blocked = {}
             /\ admin[a].at \in {"opening", "writing"} => admin[a].copy = blocked
             /\ admin[a].at = "writing" =>
                  admin[a].on = "tmp" /\ tmp = Blank
             /\ admin[a].at = "renaming" => tmp = List(blocked)

BlocksIInv == BlocksTyped /\ WritersOpen /\ NobodyEdits /\ OneEdit

LEMMA ContentFacts ==
    /\ NoFile \in Contents /\ Blank \in Contents
    /\ Torn \in Contents
    /\ \A s \in SUBSET Ips : List(s) \in Contents
    /\ \A s : Readable(List(s)) = s
    /\ Readable(NoFile) = {}
    /\ \A f \in Contents : Readable(f) \subseteq Ips
  <1>1. /\ NoFile \in Contents /\ Blank \in Contents
        /\ Torn \in Contents
        /\ \A s \in SUBSET Ips : List(s) \in Contents
    BY DEF Contents
  <1>2. /\ \A s : Readable(List(s)) = s
        /\ Readable(NoFile) = {}
        /\ Readable(Blank) = {} /\ Readable(Torn) = {}
    BY DEF List, NoFile, Blank, Torn, Readable
  <1>3. ASSUME NEW f \in Contents PROVE Readable(f) \subseteq Ips
    <2>1. \/ f \in {NoFile, Blank, Torn}
          \/ \E s \in SUBSET Ips : f = List(s)
      BY DEF Contents
    <2> QED BY <1>2, <2>1
  <1> QED BY <1>1, <1>2, <1>3

LEMMA WaitingFacts == Waiting \in Call /\ Waiting.at = "idle"
  BY DEF Waiting, Call

LEMMA BlocksBegin == DiskInit => BlocksIInv
  <1> SUFFICES ASSUME DiskInit PROVE BlocksIInv
    OBVIOUS
  <1>1. /\ blocked = {} /\ settled = {} /\ file = NoFile /\ tmp = NoFile
        /\ \A a \in Editors : admin[a] = Waiting
        /\ admin = [a \in Editors |-> Waiting] /\ sure = TRUE /\ stage = "off"
    BY DEF DiskInit, BlocksInit
  <1>2. BlocksTyped
    BY <1>1, ContentFacts, WaitingFacts DEF BlocksTyped
  <1> QED
    BY <1>1, <1>2, WaitingFacts DEF BlocksIInv, WritersOpen, NobodyEdits, OneEdit

\* A call's step that leaves everybody else's call alone.
LEMMA EditKeeps ==
    ASSUME BlocksIInv, stage = "up", stage' = "up", NEW a \in Editors,
           \/ \E list \in SUBSET Ips : Changed(a, list)
           \/ Copy(a) \/ OpenTmp(a)
    PROVE  BlocksIInv'
  <1> USE DEF BlocksIInv
  <1>1. admin[a] \in Call
    BY DEF BlocksTyped
  <1>2. PICK c \in Call :
          /\ admin' = [admin EXCEPT ![a] = c]
          /\ \/ /\ admin[a].at = "idle" /\ c.at = "changed"
                /\ file' = file /\ tmp' = tmp /\ blocked' \subseteq Ips
                /\ settled' = IF Busy = {} THEN blocked ELSE settled
                /\ sure' = (sure /\ Busy = {})
             \/ /\ admin[a].at = "changed" /\ c.copy = blocked
                /\ \/ c.at = "removing" /\ blocked = {}
                   \/ c.at = "opening"
                /\ UNCHANGED <<file, tmp, blocked, settled, sure>>
             \/ /\ admin[a].at = "opening" /\ c.at = "writing" /\ c.on = "tmp"
                /\ c.copy = admin[a].copy /\ tmp' = Blank
                /\ UNCHANGED <<file, blocked, settled, sure>>
             \/ /\ admin[a].at = "opening" /\ c.at = "idle" /\ sure' = FALSE
                /\ UNCHANGED <<file, tmp, blocked, settled>>
    <2>1. CASE \E list \in SUBSET Ips : Changed(a, list)
      <3> DEFINE c == [admin[a] EXCEPT !.at = "changed"]
      <3>1. c \in Call /\ c.at = "changed"
        BY <1>1 DEF Call
      <3>2. admin' = [admin EXCEPT ![a] = c]
        BY <2>1 DEF Changed
      <3> HIDE DEF c
      <3> QED BY <2>1, <3>1, <3>2 DEF Changed
    <2>2. CASE Copy(a)
      <3> DEFINE c == [admin[a] EXCEPT
                         !.at = IF blocked = {} THEN "removing" ELSE "opening",
                         !.copy = blocked]
      <3>1. /\ c \in Call /\ c.copy = blocked
            /\ c.at = IF blocked = {} THEN "removing" ELSE "opening"
        BY <1>1 DEF Call, BlocksTyped
      <3>2. admin' = [admin EXCEPT ![a] = c]
        BY <2>2 DEF Copy
      <3> HIDE DEF c
      <3> QED BY <2>2, <3>1, <3>2 DEF Copy
    <2>3. CASE OpenTmp(a)
      <3> DEFINE c == [admin[a] EXCEPT !.at = "writing", !.on = "tmp"]
      <3>1. /\ c \in Call /\ c.at = "writing" /\ c.on = "tmp"
            /\ c.copy = admin[a].copy
        BY <1>1 DEF Call
      <3>2. \/ admin' = [admin EXCEPT ![a] = c] /\ tmp' = Blank /\ UNCHANGED sure
            \/ /\ admin' = [admin EXCEPT ![a] = Waiting]
               /\ sure' = FALSE /\ UNCHANGED tmp
        BY <2>3 DEF OpenTmp
      <3>3. admin[a].at = "opening" /\ UNCHANGED <<file, blocked, settled>>
        BY <2>3 DEF OpenTmp
      <3> HIDE DEF c
      <3> QED BY <3>1, <3>2, <3>3, WaitingFacts
    <2> QED BY <2>1, <2>2, <2>3
  <1>3. /\ admin' \in [Editors -> Call] /\ admin'[a] = c
        /\ \A b \in Editors \ {a} : admin'[b] = admin[b]
    BY <1>2 DEF BlocksTyped
  <1>4. BlocksTyped'
    BY <1>2, <1>3, ContentFacts DEF BlocksTyped
  <1>5. WritersOpen' /\ NobodyEdits'
    BY <1>2, <1>3 DEF WritersOpen, NobodyEdits
  <1>6. OneEdit'
    BY <1>2, <1>3 DEF OneEdit, Busy
  <1> QED BY <1>4, <1>5, <1>6

\* The write, over whatever is behind the handle.
LEMMA WriteKeeps ==
    ASSUME BlocksIInv, stage = "up", stage' = "up", NEW a \in Editors,
           WriteTmp(a)
    PROVE  BlocksIInv'
  <1> USE DEF BlocksIInv
  <1> DEFINE w == admin[a]
             c == [w EXCEPT !.at = "renaming", !.on = "none"]
  <1>1. w \in Call /\ w.at = "writing" /\ w.on \in {"tmp", "file", "gone"}
    BY DEF WriteTmp, BlocksTyped, WritersOpen, Call
  <1>2. c \in Call /\ c.at = "renaming"
    BY <1>1 DEF Call
  <1>3. UNCHANGED <<blocked, settled>>
    BY DEF WriteTmp
  <1>4. \/ /\ admin' = [admin EXCEPT ![a] = c] /\ sure' = sure
           /\ \/ w.on = "tmp" /\ tmp' \in Over(tmp, w.copy) /\ UNCHANGED file
              \/ w.on = "file" /\ file' \in Over(file, w.copy) /\ UNCHANGED tmp
              \/ w.on = "gone" /\ UNCHANGED <<file, tmp>>
        \/ /\ admin' = [admin EXCEPT ![a] = Waiting] /\ sure' = FALSE
           /\ UNCHANGED <<file, tmp>>
    <2> HIDE DEF c
    <2>1. CASE w.on = "tmp"
      BY <2>1 DEF WriteTmp, c
    <2>2. CASE w.on = "file"
      BY <2>2 DEF WriteTmp, c
    <2>3. CASE w.on = "gone"
      BY <2>3 DEF WriteTmp, c
    <2> QED BY <1>1, <2>1, <2>2, <2>3
  <1>5. \A f : Over(f, w.copy) \subseteq Contents
    <2>1. w.copy \in SUBSET Ips
      BY <1>1 DEF Call
    <2> QED BY <2>1, ContentFacts DEF Over
  <1>6. Over(Blank, w.copy) = {List(w.copy)}
    BY DEF Over, Blank
  <1> HIDE DEF c
  <1>7. PICK d \in Call :
          admin' = [admin EXCEPT ![a] = d]
            /\ (d = c \/ (d.at = "idle" /\ sure' = FALSE))
    <2>1. CASE admin' = [admin EXCEPT ![a] = c]
      BY <1>2, <2>1
    <2>2. CASE admin' = [admin EXCEPT ![a] = Waiting] /\ sure' = FALSE
      BY <2>2, WaitingFacts
    <2> QED BY <1>4, <2>1, <2>2
  <1>8. /\ admin' \in [Editors -> Call] /\ admin'[a] = d
        /\ \A b \in Editors \ {a} : admin'[b] = admin[b]
    BY <1>7 DEF BlocksTyped
  <1>9. BlocksTyped'
    BY <1>3, <1>4, <1>5, <1>8 DEF BlocksTyped
  <1>10. WritersOpen' /\ NobodyEdits'
    BY <1>2, <1>7, <1>8 DEF WritersOpen, NobodyEdits
  <1>11. OneEdit'
    <2> SUFFICES ASSUME sure' PROVE OneEdit'
      BY DEF OneEdit
    <2>1. sure /\ admin' = [admin EXCEPT ![a] = c]
      BY <1>4
    <2>2. /\ w.on = "tmp" /\ tmp = Blank /\ w.copy = blocked
          /\ Readable(file) = settled
          /\ \A b \in Editors \ {a} : admin[b].at = "idle"
      BY <1>1, <2>1 DEF OneEdit
    <2>3. tmp' = List(blocked) /\ UNCHANGED file
      BY <1>4, <1>6, <2>1, <2>2
    <2>4. admin'[a] = c
      BY <2>1 DEF BlocksTyped
    <2> QED BY <1>2, <1>3, <1>8, <2>2, <2>3, <2>4 DEF OneEdit
  <1> QED BY <1>9, <1>10, <1>11

\* The steps that end a call and move a path take the open handles along.
LEMMA MovedFacts ==
    ASSUME BlocksTyped, NEW from \in {"tmp", "file"}, NEW to \in {"file", "gone"}
    PROVE  /\ Moved(from, to) \in [Editors -> Call]
           /\ \A b \in Editors :
                /\ Moved(from, to)[b].at = admin[b].at
                /\ admin[b].on # "none" => Moved(from, to)[b].on # "none"
  <1>1. ASSUME NEW b \in Editors
        PROVE  /\ Moved(from, to)[b] \in Call
               /\ Moved(from, to)[b].at = admin[b].at
               /\ admin[b].on # "none" => Moved(from, to)[b].on # "none"
    <2> DEFINE on == IF admin[b].on = from THEN to
                     ELSE IF admin[b].on = to THEN "gone" ELSE admin[b].on
    <2>1. Moved(from, to)[b] = [admin[b] EXCEPT !.on = on]
      BY DEF Moved
    <2>2. admin[b] \in Call
      BY DEF BlocksTyped
    <2>3. on \in {"none", "tmp", "file", "gone"}
            /\ (admin[b].on # "none" => on # "none")
      BY <2>2 DEF Call
    <2> HIDE DEF on
    <2> QED BY <2>1, <2>2, <2>3 DEF Call
  <1>2. Moved(from, to) = [b \in Editors |-> Moved(from, to)[b]]
    BY DEF Moved
  <1> QED BY <1>1, <1>2

LEMMA EndKeeps ==
    ASSUME BlocksIInv, stage = "up", stage' = "up", NEW a \in Editors,
           RemoveFile(a) \/ Rename(a)
    PROVE  BlocksIInv'
  <1> USE DEF BlocksIInv
  <1>1. PICK from \in {"tmp", "file"}, to \in {"file", "gone"} :
          admin' = [Moved(from, to) EXCEPT ![a] = Waiting]
    BY DEF RemoveFile, Rename
  <1>2. /\ admin' \in [Editors -> Call] /\ admin'[a] = Waiting
        /\ \A b \in Editors \ {a} :
             /\ admin'[b].at = admin[b].at
             /\ admin[b].on # "none" => admin'[b].on # "none"
    BY <1>1, MovedFacts, WaitingFacts
  <1>3. UNCHANGED <<blocked, settled>>
    BY DEF RemoveFile, Rename
  <1>4. \/ admin[a].at = "removing" /\ file' = NoFile /\ UNCHANGED <<tmp, sure>>
        \/ /\ admin[a].at = "renaming" /\ file' = tmp /\ tmp' = NoFile
           /\ UNCHANGED sure
        \/ tmp' = NoFile /\ sure' = FALSE /\ UNCHANGED file
    BY DEF RemoveFile, Rename
  <1>5. BlocksTyped'
    BY <1>2, <1>3, <1>4, ContentFacts DEF BlocksTyped
  <1>6. WritersOpen' /\ NobodyEdits'
    BY <1>2, WaitingFacts DEF WritersOpen, NobodyEdits
  <1>7. OneEdit'
    <2> SUFFICES ASSUME sure' PROVE OneEdit'
      BY DEF OneEdit
    <2>1. \A b \in Editors : admin'[b].at = "idle"
      BY <1>2, <1>4, WaitingFacts DEF OneEdit
    <2>2. Readable(file') = blocked
      BY <1>4, ContentFacts DEF OneEdit
    <2> QED BY <1>3, <2>1, <2>2 DEF OneEdit
  <1> QED BY <1>5, <1>6, <1>7

\* The steps of a start, the crash, and what leaves the block list alone.
LEMMA BlocksStartKeeps ==
    ASSUME BlocksIInv,
           \/ Migrate \/ LoadBlocks \/ LoadCatalog \/ ProcessDies
    PROVE  BlocksIInv'
  <1> USE DEF BlocksIInv
  <1>1. CASE Migrate \/ LoadCatalog
    <2>1. /\ UNCHANGED <<blocked, file, tmp, admin, settled, sure>>
          /\ \/ stage = "off" /\ stage' = "migrated"
             \/ stage = "blocks" /\ stage' = "up"
      BY <1>1 DEF Migrate, LoadCatalog, blockVars
    <2> QED BY <2>1 DEF BlocksTyped, WritersOpen, NobodyEdits, OneEdit
  <1>2. CASE LoadBlocks
    <2>1. /\ blocked' = Readable(file) /\ settled' = Readable(file)
          /\ sure' = TRUE /\ UNCHANGED <<file, tmp, admin>>
          /\ stage = "migrated" /\ stage' = "blocks"
      BY <1>2 DEF LoadBlocks, LoadBlockedIPs
    <2>2. Readable(file) \subseteq Ips
      BY ContentFacts DEF BlocksTyped
    <2>3. \A a \in Editors : admin'[a].at = "idle"
      BY <2>1 DEF NobodyEdits
    <2> QED BY <2>1, <2>2, <2>3 DEF BlocksTyped, WritersOpen, NobodyEdits, OneEdit
  <1>3. CASE ProcessDies
    <2>1. /\ blocked' = {} /\ admin' = [a \in Editors |-> Waiting]
          /\ UNCHANGED <<file, tmp, settled, sure>> /\ stage' = "off"
      BY <1>3 DEF ProcessDies, BlocksCrash
    <2>2. \A a \in Editors : admin'[a].at = "idle"
      BY <2>1, WaitingFacts
    <2>3. admin' \in [Editors -> Call]
      BY <2>1, WaitingFacts
    <2> QED BY <2>1, <2>2, <2>3 DEF BlocksTyped, WritersOpen, NobodyEdits, OneEdit
  <1> QED BY <1>1, <1>2, <1>3

(***************************************************************************)
(* Both together.                                                          *)
(***************************************************************************)
DiskIInv == CatalogIInv /\ BlocksIInv

LEMMA DiskKeeps ==
    ASSUME DiskIInv, [DiskNext]_diskVars
    PROVE  DiskIInv'
  <1> USE DEF DiskIInv
  <1>1. CASE Migrate \/ LoadBlocks \/ LoadCatalog \/ ProcessDies
    BY <1>1, StartKeeps, BlocksStartKeeps
  <1>2. CASE Refresh
    <2>1. /\ stage = "up" /\ stage' = stage /\ RefreshStep
          /\ UNCHANGED <<blocked, file, tmp, admin, settled, sure>>
      BY <1>2 DEF Refresh, blockVars
    <2>2. CatalogIInv'
      BY <2>1, ChainKeeps, StoreKeeps, CopyKeeps, SaveKeeps DEF RefreshStep
    <2>3. BlocksIInv'
      BY <2>1 DEF BlocksIInv, BlocksTyped, WritersOpen, NobodyEdits, OneEdit
    <2> QED BY <2>2, <2>3
  <1>3. CASE Moderate
    <2>1. /\ stage = "up" /\ stage' = stage /\ BlockStep
          /\ UNCHANGED <<cache, table, legacy, refresher, chain, unread, mixed>>
      BY <1>3 DEF Moderate, catalogVars
    <2>2. CatalogIInv'
      BY <2>1 DEF CatalogIInv, CatalogTyped, NothingRuns, CopyFits, CopyIsTrue,
           ListsStay, CatalogSurvives, Writing
    <2>3. BlocksIInv'
      <3>1. PICK a \in Editors :
              \/ \E ip \in Ips : BlockIP(a, ip) \/ UnblockIP(a, ip)
              \/ Copy(a) \/ RemoveFile(a) \/ OpenTmp(a)
              \/ WriteTmp(a) \/ Rename(a)
        BY <2>1 DEF BlockStep
      <3>2. (\E ip \in Ips : BlockIP(a, ip) \/ UnblockIP(a, ip))
              => \E list \in SUBSET Ips : Changed(a, list)
        BY DEF BlockIP, UnblockIP, BlocksIInv, BlocksTyped
      <3> QED BY <2>1, <3>1, <3>2, EditKeeps, WriteKeeps, EndKeeps
    <2> QED BY <2>2, <2>3
  <1>4. CASE UNCHANGED diskVars
    <2>1. UNCHANGED <<cache, table, legacy, refresher, chain, unread, mixed,
                      blocked, file, tmp, admin, settled, sure, stage>>
      BY <1>4 DEF diskVars, catalogVars, blockVars
    <2>2. CatalogIInv'
      BY <2>1 DEF CatalogIInv, CatalogTyped, NothingRuns, CopyFits, CopyIsTrue,
           ListsStay, CatalogSurvives, Writing
    <2>3. BlocksIInv'
      BY <2>1 DEF BlocksIInv, BlocksTyped, WritersOpen, NobodyEdits, OneEdit
    <2> QED BY <2>2, <2>3
  <1> QED BY <1>1, <1>2, <1>3, <1>4 DEF DiskNext

LEMMA DiskInvariance == DiskSpec => []DiskIInv
  <1>1. DiskInit => DiskIInv
    BY CatalogBegins, BlocksBegin DEF DiskIInv
  <1>2. DiskIInv /\ [DiskNext]_diskVars => DiskIInv'
    BY DiskKeeps
  <1> QED BY <1>1, <1>2, PTL DEF DiskSpec

(* What a start reads is what the last process had: of the catalog once    *)
(* the refreshes are quiet, of the block list at any moment, but for the   *)
(* failures and meetings the two properties name.                          *)
THEOREM RestartSafe == DiskSpec => []RestartKeeps
  <1>1. BlocksIInv => BlocksSurvive
    <2> SUFFICES ASSUME BlocksIInv, stage = "up", sure
                 PROVE  Readable(file) \in
                          (IF Busy = {} THEN {blocked} ELSE {settled, blocked})
      BY DEF BlocksSurvive
    <2> QED BY DEF BlocksIInv, OneEdit, Busy
  <1>2. DiskIInv => RestartKeeps
    BY <1>1 DEF DiskIInv, CatalogIInv, RestartKeeps
  <1> QED BY DiskInvariance, <1>2, PTL

(* A list the table holds is never replaced by an empty one, by whatever   *)
(* refresh saves last.                                                     *)
THEOREM ListsAreKept == DiskSpec => NothingForgotten
  <1>1. DiskIInv /\ [DiskNext]_diskVars
          => [~unread /\ ~mixed =>
                \A k \in Kinds : table[k] # << >> => table'[k] # << >>]_table
    <2> SUFFICES ASSUME DiskIInv, [DiskNext]_diskVars, table' # table,
                        ~unread, ~mixed, NEW k \in Kinds, table[k] # << >>
                 PROVE  table'[k] # << >>
      OBVIOUS
    <2>1. table # Nothing
      BY DEF Nothing
    <2>2. PICK j \in Kinds : stage = "up" /\ SaveCatalogCaches(j)
      BY <2>1 DEF DiskNext, diskVars, catalogVars, Migrate,
           MigrateCatalogJSON, LoadBlocks, LoadCatalog,
           LoadSnapshot, ProcessDies, CatalogCrash, Refresh,
           RefreshStep, BootChain, RefreshTick, Store,
           CopyCache, Moderate
    <2>3. table' = refresher[j].got /\ refresher[j].at = "saving"
      BY <2>2 DEF SaveCatalogCaches
    <2>4. refresher[j].got = cache
      BY <2>3 DEF DiskIInv, CatalogIInv, CopyIsTrue
    <2> QED BY <2>2, <2>3, <2>4 DEF DiskIInv, CatalogIInv, ListsStay
  <1> QED BY DiskInvariance, <1>1, PTL DEF DiskSpec, NothingForgotten

(***************************************************************************)
(* The home page.                                                          *)
(***************************************************************************)
\* Induction over the naturals: a set that lacks one lacks a least one.
LEMMA Counting ==
    ASSUME NEW S, 0 \in S, \A n \in Nat : n \in S => n + 1 \in S
    PROVE  Nat \subseteq S
  <1> SUFFICES ASSUME Nat \ S # {} PROVE FALSE
    OBVIOUS
  <1>1. PICK m \in Nat \ S : \A k \in Nat \ S : ~(<<k, m>> \in OpToRel(<, Nat))
    BY NatLessThanWellFounded, WFMin
  <1>2. \A k \in Nat \ S : ~(k < m)
    BY <1>1 DEF OpToRel
  <1>3. m # 0
    OBVIOUS
  <1>4. m - 1 \in Nat /\ m - 1 \in S
    BY <1>2, <1>3
  <1> QED BY <1>4

\* What FlattenSeq has joined after each of the first n pieces.
Flattens(pieces, n, flat) ==
    flat = [i \in 1..n |-> IF i = 1 THEN pieces[i] ELSE flat[i - 1] \o pieces[i]]

LEMMA FlattensThere ==
    ASSUME NEW pieces, NEW n \in Nat
    PROVE  \E flat : Flattens(pieces, n, flat)
  <1> DEFINE S == {m \in Nat : \E g : Flattens(pieces, m, g)}
  <1>1. 0 \in S
    <2>1. Flattens(pieces, 0, [i \in 1..0 |-> 0])
      BY DEF Flattens
    <2> QED BY <2>1
  <1>2. ASSUME NEW m \in Nat, m \in S PROVE m + 1 \in S
    <2>1. PICK g : Flattens(pieces, m, g)
      BY <1>2
    <2> DEFINE h == [i \in 1..m + 1 |-> IF i <= m THEN g[i]
                                        ELSE IF i = 1 THEN pieces[i] ELSE g[m] \o pieces[i]]
    <2>2. \A i \in 1..m : g[i] = IF i = 1 THEN pieces[i] ELSE g[i - 1] \o pieces[i]
      <3> HIDE DEF h, S
      <3> QED BY <2>1 DEF Flattens
    <2>3. \A i \in 1..m + 1 : h[i] = IF i = 1 THEN pieces[i] ELSE h[i - 1] \o pieces[i]
      BY <2>2
    <2>4. Flattens(pieces, m + 1, h)
      BY <2>3 DEF Flattens
    <2> QED BY <2>4
  <1> HIDE DEF S
  <1>3. n \in S
    BY <1>1, <1>2, Counting
  <1> QED BY <1>3 DEF S

LEMMA FlatIsASeq ==
    ASSUME NEW S, NEW pieces \in Seq(Seq(S))
    PROVE  FlattenSeq(pieces) \in Seq(S)
  <1> DEFINE n == Len(pieces)
  <1>1. n \in Nat /\ \A i \in 1..n : pieces[i] \in Seq(S)
    BY LenProperties, ElementOfSeq
  <1>2. CASE n = 0
    BY <1>2, EmptySeq DEF FlattenSeq
  <1>3. CASE n # 0
    <2> DEFINE flat == CHOOSE f : Flattens(pieces, n, f)
    <2>1. FlattenSeq(pieces) = flat[n]
      BY <1>3 DEF FlattenSeq, Flattens
    <2>2. Flattens(pieces, n, flat)
      BY <1>1, FlattensThere
    <2> HIDE DEF flat, n
    <2>3. \A i \in 1..n : flat[i] = IF i = 1 THEN pieces[i] ELSE flat[i - 1] \o pieces[i]
      BY <2>2 DEF Flattens
    <2>r. \A i \in 1..n : i # 1 => flat[i] = flat[i - 1] \o pieces[i]
      BY <2>3
    <2> DEFINE T == {i \in Nat : i + 1 <= n => flat[i + 1] \in Seq(S)}
    <2>4. 0 \in T
      BY <1>1, <1>3, <2>3
    <2>5. ASSUME NEW m \in Nat, m \in T PROVE m + 1 \in T
      <3> SUFFICES ASSUME m + 1 + 1 <= n PROVE flat[m + 1 + 1] \in Seq(S)
        OBVIOUS
      <3>1. flat[m + 1] \in Seq(S) /\ m + 1 + 1 \in 1..n /\ pieces[m + 1 + 1] \in Seq(S)
        BY <1>1, <2>5
      <3>2. PICK k \in 1..n : k = m + 1 + 1 /\ k # 1 /\ k - 1 = m + 1
        BY <3>1
      <3>3. flat[k] = flat[k - 1] \o pieces[k]
        BY <2>r, <3>2, Zenon
      <3>4. flat[k - 1] \in Seq(S) /\ pieces[k] \in Seq(S)
        BY <3>1, <3>2
      <3>5. flat[k] \in Seq(S)
        BY <3>3, <3>4, ConcatProperties
      <3> QED BY <3>2, <3>5
    <2> HIDE DEF T
    <2>6. n - 1 \in T
      <3>1. n - 1 \in Nat
        BY <1>1, <1>3
      <3> QED BY <2>4, <2>5, <3>1, Counting
    <2>7. flat[n] \in Seq(S)
      BY <1>1, <2>6 DEF T
    <2> QED BY <2>1, <2>7
  <1> QED BY <1>2, <1>3

LEMMA SingleIsASeq ==
    ASSUME NEW S, NEW x \in S PROVE <<x>> \in Seq(S)
  OBVIOUS

LEMMA TaggedIsASeq ==
    ASSUME NEW s \in Seq(Films), NEW tag
    PROVE  Tagged(s, tag) \in Seq(Films)
  <1> DEFINE pieces == [i \in 1..Len(s) |-> IF s[i].cat = tag THEN <<s[i]>> ELSE << >>]
  <1>1. Len(s) \in Nat /\ \A i \in 1..Len(s) : s[i] \in Films
    BY LenProperties, ElementOfSeq
  <1>2. \A i \in 1..Len(s) : <<s[i]>> \in Seq(Films)
    BY <1>1, SingleIsASeq
  <1>3. << >> \in Seq(Films)
    BY EmptySeq
  <1>4. pieces \in [1..Len(s) -> Seq(Films)]
    BY <1>2, <1>3
  <1>5. pieces \in Seq(Seq(Films))
    BY <1>1, <1>4, SeqDef
  <1> QED BY <1>5, FlatIsASeq DEF Tagged

LEMMA InterleavedIsASeq ==
    ASSUME NEW a \in Seq(Films), NEW b \in Seq(Films)
    PROVE  InterleaveMovies(a, b) \in Seq(Films)
  <1> DEFINE n == Len(a) + Len(b)
             pieces == [i \in 1..n |-> Item(a, i) \o Item(b, i)]
  <1>1. n \in Nat /\ Len(a) \in Nat /\ Len(b) \in Nat
    BY LenProperties
  <1>2. ASSUME NEW s \in Seq(Films), Len(s) \in Nat, NEW i \in 1..n
        PROVE  Item(s, i) \in Seq(Films)
    <2>1. CASE i <= Len(s)
      <3>1. s[i] \in Films
        BY <1>1, <1>2, <2>1, ElementOfSeq
      <3> QED BY <2>1, <3>1, SingleIsASeq DEF Item
    <2>2. CASE ~(i <= Len(s))
      BY <2>2, EmptySeq DEF Item
    <2> QED BY <2>1, <2>2
  <1>3. \A i \in 1..n : Item(a, i) \o Item(b, i) \in Seq(Films)
    BY <1>1, <1>2, ConcatProperties
  <1>4. pieces \in [1..n -> Seq(Films)]
    BY <1>3
  <1>5. pieces \in Seq(Seq(Films))
    BY <1>1, <1>4, SeqDef
  <1> QED BY <1>5, FlatIsASeq DEF InterleaveMovies

Falling(s) == \A i, j \in 1..Len(s) : i < j => s[i].rating >= s[j].rating

\* The titles up to one in the order of the ratings: more of them for a later one.
LEMMA PlacesGrow ==
    ASSUME NEW s \in Seq(Films), NEW i \in 1..Len(s), NEW j \in 1..Len(s)
    PROVE  /\ Cardinality(NotBelow(s, i)) \in 1..Len(s)
           /\ i # j => \/ Cardinality(NotBelow(s, i)) < Cardinality(NotBelow(s, j))
                       \/ Cardinality(NotBelow(s, j)) < Cardinality(NotBelow(s, i))
           /\ Cardinality(NotBelow(s, i)) < Cardinality(NotBelow(s, j))
                => s[i].rating >= s[j].rating
  <1>1. Len(s) \in Nat /\ IsFiniteSet(1..Len(s)) /\ Cardinality(1..Len(s)) = Len(s)
    <2>1. Len(s) \in Nat
      BY LenProperties
    <2>2. /\ IsFiniteSet(1..Len(s))
          /\ Cardinality(1..Len(s)) = IF 1 > Len(s) THEN 0 ELSE Len(s) - 1 + 1
      BY <2>1, FS_Interval
    <2> QED BY <2>1, <2>2
  <1>2. \A h \in 1..Len(s) : s[h].rating \in Nat
    <2>1. \A h \in 1..Len(s) : s[h] \in Films
      BY ElementOfSeq
    <2> QED BY <2>1 DEF Films
  <1>3. ASSUME NEW h \in 1..Len(s)
        PROVE  /\ NotBelow(s, h) \in SUBSET (1..Len(s)) /\ h \in NotBelow(s, h)
               /\ IsFiniteSet(NotBelow(s, h)) /\ Cardinality(NotBelow(s, h)) \in Nat
               /\ Cardinality(NotBelow(s, h)) <= Len(s) /\ Cardinality(NotBelow(s, h)) # 0
    <2>1. NotBelow(s, h) \in SUBSET (1..Len(s)) /\ h \in NotBelow(s, h)
      BY <1>1 DEF NotBelow
    <2>2. /\ IsFiniteSet(NotBelow(s, h)) /\ Cardinality(NotBelow(s, h)) \in Nat
          /\ Cardinality(NotBelow(s, h)) <= Len(s)
      BY <1>1, <2>1, FS_Subset, FS_CardinalityType
    <2> QED BY <2>1, <2>2, FS_EmptySet
  <1>4. ASSUME NEW h \in 1..Len(s), NEW g \in 1..Len(s), g \notin NotBelow(s, h)
        PROVE  /\ Cardinality(NotBelow(s, h)) < Cardinality(NotBelow(s, g))
               /\ s[h].rating >= s[g].rating
    <2>1. NotBelow(s, h) \in SUBSET NotBelow(s, g)
      BY <1>1, <1>2, <1>4 DEF NotBelow
    <2>2. NotBelow(s, h) # NotBelow(s, g)
      BY <1>3, <1>4
    <2>3. /\ Cardinality(NotBelow(s, h)) <= Cardinality(NotBelow(s, g))
          /\ Cardinality(NotBelow(s, h)) # Cardinality(NotBelow(s, g))
      BY <1>3, <2>1, <2>2, FS_Subset
    <2>4. s[h].rating >= s[g].rating
      BY <1>1, <1>2, <1>4 DEF NotBelow
    <2> QED BY <1>3, <2>3, <2>4
  <1>5. i # j => i \notin NotBelow(s, j) \/ j \notin NotBelow(s, i)
    BY <1>1, <1>2 DEF NotBelow
  <1>6. Cardinality(NotBelow(s, i)) < Cardinality(NotBelow(s, j)) => s[i].rating >= s[j].rating
    <2>1. CASE j \notin NotBelow(s, i)
      BY <1>4, <2>1
    <2>2. CASE i = j
      BY <1>2, <2>2
    <2>3. CASE i \notin NotBelow(s, j)
      BY <1>3, <1>4, <2>3
    <2> QED BY <1>5, <2>1, <2>2, <2>3
  <1> QED BY <1>3, <1>4, <1>5, <1>6

LEMMA RatedIsFalling ==
    ASSUME NEW s \in Seq(Films)
    PROVE  ByRating(s) \in Seq(Films) /\ Falling(ByRating(s))
  <1> DEFINE n == Len(s)
             place == [i \in 1..n |-> Cardinality(NotBelow(s, i))]
             at_(p) == CHOOSE i \in 1..n : place[i] = p
  <1>1. n \in Nat /\ \A i \in 1..n : s[i] \in Films
    BY LenProperties, ElementOfSeq
  <1>2. place \in [1..n -> 1..n]
    BY PlacesGrow
  <1>3. \A i, j \in 1..n : /\ i # j => place[i] < place[j] \/ place[j] < place[i]
                           /\ place[i] < place[j] => s[i].rating >= s[j].rating
    BY PlacesGrow
  <1>4. ByRating(s) = [p \in 1..n |-> s[at_(p)]]
    <2>1. \A p : at_(p) = CHOOSE i \in 1..n : Cardinality(NotBelow(s, i)) = p
      OBVIOUS
    <2>2. ByRating(s) = [p \in 1..n |-> s[CHOOSE i \in 1..n : Cardinality(NotBelow(s, i)) = p]]
      BY DEF ByRating
    <2> HIDE DEF at_, n, place
    <2> QED BY <2>1, <2>2
  <1> HIDE DEF n, place
  <1>5. ASSUME NEW i \in 1..n, NEW j \in 1..n, i # j PROVE place[i] # place[j]
    <2>1. place[i] \in Int /\ place[j] \in Int
      BY <1>1, <1>2
    <2> QED BY <1>3, <1>5, <2>1
  <1>6. place \in Injection(1..n, 1..n)
    BY <1>2, <1>5 DEF Injection, IsInjective
  <1>7. IsFiniteSet(1..n)
    BY <1>1, FS_Interval
  <1>8. place \in Surjection(1..n, 1..n)
    BY <1>6, <1>7, FS_Injection
  <1>9. \A p \in 1..n : \E i \in 1..n : place[i] = p
    BY <1>8 DEF Surjection
  <1>10. \A p \in 1..n : at_(p) \in 1..n /\ place[at_(p)] = p
    BY <1>9
  <1> HIDE DEF at_
  <1>11. ByRating(s) \in [1..n -> Films]
    BY <1>1, <1>4, <1>10
  <1>12. ByRating(s) \in Seq(Films) /\ Len(ByRating(s)) = n
    BY <1>1, <1>11, SeqDef, LenProperties
  <1>13. ASSUME NEW p \in 1..n, NEW q \in 1..n, p < q
         PROVE  ByRating(s)[p].rating >= ByRating(s)[q].rating
    <2>1. s[at_(p)].rating >= s[at_(q)].rating
      BY <1>3, <1>10, <1>13
    <2> QED BY <1>4, <2>1
  <1> QED BY <1>12, <1>13 DEF Falling

LEMMA ItemsOfARow ==
    ASSUME cache \in [Kinds -> Seq(Films)], NEW n \in 1..Len(HomeRows)
    PROVE  /\ HomeRows[n] \in Rows
           /\ RowItems(HomeRows[n]) \in Seq(Films)
           /\ HomeRows[n].how = "rated" => Falling(RowItems(HomeRows[n]))
  <1> DEFINE line == HomeRows[n]
             lists == [i \in 1..Len(line.tags) |-> Tagged(cache[line.src], line.tags[i])]
  <1>1. line \in Rows
    BY HomeAssumption, ElementOfSeq
  <1>2. line.tags \in Seq(STRING) /\ line.src \in Kinds
    BY <1>1 DEF Rows
  <1>3. Len(line.tags) \in Nat /\ cache[line.src] \in Seq(Films)
    BY <1>2, LenProperties
  <1>4. \A tag : Tagged(cache[line.src], tag) \in Seq(Films)
    BY <1>3, TaggedIsASeq
  <1>5. lists \in [1..Len(line.tags) -> Seq(Films)]
    BY <1>4
  <1>6. lists \in Seq(Seq(Films))
    BY <1>3, <1>5, SeqDef
  <1>7. FlattenSeq(lists) \in Seq(Films)
    BY <1>6, FlatIsASeq
  <1>8. /\ ByRating(FlattenSeq(lists)) \in Seq(Films)
        /\ Falling(ByRating(FlattenSeq(lists)))
    BY <1>7, RatedIsFalling
  <1>9. line.how = "interleaved" => InterleaveMovies(lists[1], lists[2]) \in Seq(Films)
    <2> SUFFICES ASSUME line.how = "interleaved"
                 PROVE  InterleaveMovies(lists[1], lists[2]) \in Seq(Films)
      OBVIOUS
    <2>1. Len(line.tags) = 2
      BY HomeAssumption
    <2>2. lists[1] \in Seq(Films) /\ lists[2] \in Seq(Films)
      BY <1>5, <2>1
    <2> QED BY <2>2, InterleavedIsASeq
  <1>10. RowItems(line) = IF line.how = "interleaved" THEN InterleaveMovies(lists[1], lists[2])
                         ELSE IF line.how = "rated" THEN ByRating(FlattenSeq(lists))
                         ELSE FlattenSeq(lists)
    BY DEF RowItems
  <1> HIDE DEF lists
  <1>11. line.how = "rated" => line.how # "interleaved"
    OBVIOUS
  <1> QED BY <1>1, <1>7, <1>8, <1>9, <1>10, <1>11

\* What the loop has taken for a row after its first n items.
Picked(got, items, n, seen, line) ==
    /\ got \in Seq(Films) /\ Len(got) <= RowCap
    /\ \A j \in 1..Len(got) :
         /\ got[j].cat = line.cat /\ Title(got[j]) \notin seen
         /\ \E h \in 1..n : got[j].rating = items[h].rating
    /\ \A i, j \in 1..Len(got) : Title(got[i]) = Title(got[j]) => i = j
    /\ \/ Len(got) = RowCap
       \/ \A h \in 1..n : Title(items[h]) \in seen \cup Titles(got)
    /\ Falling(items) => Falling(got)

LEMMA ShownKeeps ==
    ASSUME NEW items \in Seq(Films), NEW seen, NEW line \in Rows, NEW n \in Nat,
           n + 1 <= Len(items), NEW got, Picked(got, items, n, seen, line)
    PROVE  Picked(Shown(got, items[n + 1], seen, line), items, n + 1, seen, line)
  <1> DEFINE m == items[n + 1]
             new == [type |-> m.type, id |-> m.id, cat |-> line.cat, rating |-> m.rating]
             more == Append(got, new)
  <1>1. Len(items) \in Nat /\ RowCap \in Nat /\ n + 1 \in 1..Len(items)
    BY LenProperties, CatalogAssumption
  <1>2. m \in Films /\ \A h \in 1..Len(items) : items[h].rating \in Nat
    <2>1. \A h \in 1..Len(items) : items[h] \in Films
      BY ElementOfSeq
    <2> QED BY <1>1, <2>1 DEF Films
  <1>3. /\ got \in Seq(Films) /\ Len(got) <= RowCap /\ Len(got) \in Nat
        /\ \A j \in 1..Len(got) :
             /\ got[j].cat = line.cat /\ Title(got[j]) \notin seen
             /\ \E h \in 1..n : got[j].rating = items[h].rating
        /\ \A i, j \in 1..Len(got) : Title(got[i]) = Title(got[j]) => i = j
        /\ \/ Len(got) = RowCap
           \/ \A h \in 1..n : Title(items[h]) \in seen \cup Titles(got)
        /\ Falling(items) => Falling(got)
    BY LenProperties DEF Picked
  <1>4. CASE Len(got) >= RowCap \/ Title(m) \in seen \cup Titles(got)
    <2>1. Shown(got, m, seen, line) = got
      BY <1>4 DEF Shown
    <2>2. \A j \in 1..Len(got) : \E h \in 1..n + 1 : got[j].rating = items[h].rating
      <3>1. \A h \in 1..n : h \in 1..n + 1
        OBVIOUS
      <3>2. \A j \in 1..Len(got) : \E h \in 1..n : got[j].rating = items[h].rating
        BY <1>3
      <3> HIDE DEF m
      <3> QED BY <3>1, <3>2
    <2>3. \/ Len(got) = RowCap
          \/ \A h \in 1..n + 1 : Title(items[h]) \in seen \cup Titles(got)
      <3>1. CASE Len(got) >= RowCap
        BY <1>1, <1>3, <3>1
      <3>2. CASE Title(m) \in seen \cup Titles(got)
        <4>1. \A h \in 1..n + 1 : h \in 1..n \/ h = n + 1
          OBVIOUS
        <4> QED BY <1>3, <3>2, <4>1
      <3> QED BY <1>4, <3>1, <3>2
    <2> HIDE DEF m
    <2>4. Picked(got, items, n + 1, seen, line)
      BY <1>3, <2>2, <2>3 DEF Picked
    <2> QED BY <2>1, <2>4 DEF m
  <1>5. CASE ~(Len(got) >= RowCap \/ Title(m) \in seen \cup Titles(got))
    <2>1. Shown(got, m, seen, line) = more
      BY <1>5 DEF Shown
    <2>2. new \in Films /\ Title(new) = Title(m) /\ new.cat = line.cat /\ new.rating = m.rating
      BY <1>2 DEF Films, Rows, Title
    <2> HIDE DEF new, m
    <2>3. /\ more \in Seq(Films) /\ Len(more) = Len(got) + 1
          /\ \A j \in 1..Len(got) : more[j] = got[j]
          /\ more[Len(got) + 1] = new
      BY <1>3, <2>2, AppendProperties
    <2> HIDE DEF more
    <2>4. \A j \in 1..Len(more) : j \in 1..Len(got) \/ (j = Len(got) + 1 /\ more[j] = new)
      BY <1>3, <2>3
    <2>5. Len(more) <= RowCap
      BY <1>1, <1>3, <1>5, <2>3
    <2>6. m.rating = items[n + 1].rating /\ Title(m) = Title(items[n + 1])
      BY DEF m
    <2>7. ASSUME NEW j \in 1..Len(more)
          PROVE  /\ more[j].cat = line.cat /\ Title(more[j]) \notin seen
                 /\ \E h \in 1..n + 1 : more[j].rating = items[h].rating
      <3>1. CASE j \in 1..Len(got)
        <4>1. more[j] = got[j]
          BY <2>3, <3>1
        <4>2. got[j].cat = line.cat /\ Title(got[j]) \notin seen
          BY <1>3, <3>1
        <4>3. PICK h \in 1..n : got[j].rating = items[h].rating
          BY <1>3, <3>1
        <4>4. h \in 1..n + 1
          OBVIOUS
        <4> QED BY <4>1, <4>2, <4>3, <4>4, Zenon
      <3>2. CASE j = Len(got) + 1 /\ more[j] = new
        BY <1>5, <2>2, <2>6, <3>2
      <3> QED BY <2>4, <3>1, <3>2
    <2>8. ASSUME NEW i \in 1..Len(more), NEW j \in 1..Len(more), Title(more[i]) = Title(more[j])
          PROVE  i = j
      <3>1. \A h \in 1..Len(got) : Title(more[h]) \in Titles(got)
        BY <2>3 DEF Titles
      <3>2. Title(new) \notin Titles(got)
        BY <1>5, <2>2
      <3> QED BY <1>3, <2>3, <2>4, <2>8, <3>1, <3>2
    <2>9. Titles(got) \cup {Title(m)} \subseteq Titles(more)
      <3>1. \A h \in 1..Len(got) : h \in 1..Len(more) /\ more[h] = got[h]
        BY <1>3, <2>3
      <3>2. Len(got) + 1 \in 1..Len(more)
        BY <1>3, <2>3
      <3> QED BY <2>2, <2>3, <3>1, <3>2 DEF Titles
    <2>10. \A h \in 1..n + 1 : Title(items[h]) \in seen \cup Titles(more)
      <3>1. Len(got) # RowCap
        BY <1>1, <1>3, <1>5
      <3>2. \A h \in 1..n : Title(items[h]) \in seen \cup Titles(got)
        BY <1>3, <3>1
      <3>3. \A h \in 1..n + 1 : h \in 1..n \/ h = n + 1
        OBVIOUS
      <3> QED BY <2>6, <2>9, <3>2, <3>3
    <2>11. Falling(items) => Falling(more)
      <3> SUFFICES ASSUME Falling(items), NEW i \in 1..Len(more), NEW j \in 1..Len(more), i < j
                   PROVE  more[i].rating >= more[j].rating
        BY DEF Falling
      <3>1. i \in 1..Len(got) /\ more[i] = got[i]
        BY <1>3, <2>3
      <3>2. CASE j \in 1..Len(got)
        BY <1>3, <2>3, <3>1, <3>2 DEF Falling
      <3>3. CASE j = Len(got) + 1 /\ more[j] = new
        <4>1. PICK h \in 1..n : got[i].rating = items[h].rating
          BY <1>3, <3>1
        <4>2. items[h].rating >= items[n + 1].rating
          <5>1. h \in 1..Len(items) /\ n + 1 \in 1..Len(items) /\ h < n + 1
            BY <1>1
          <5> QED BY <5>1 DEF Falling
        <4> QED BY <2>2, <2>6, <3>1, <3>3, <4>1, <4>2
      <3> QED BY <2>4, <3>2, <3>3
    <2>12. Picked(more, items, n + 1, seen, line)
      BY <2>3, <2>5, <2>7, <2>8, <2>10, <2>11 DEF Picked
    <2> QED BY <2>1, <2>12 DEF m
  <1> QED BY <1>4, <1>5

Loops(items, seen, line, n, got) ==
    got = [i \in 0..n |-> IF i = 0 THEN << >> ELSE Shown(got[i - 1], items[i], seen, line)]

LEMMA ChosenArePicked ==
    ASSUME NEW items \in Seq(Films), NEW seen, NEW line \in Rows
    PROVE  Picked(Chosen(items, seen, line), items, Len(items), seen, line)
  <1> DEFINE n == Len(items)
             S == {m \in Nat : \E g : Loops(items, seen, line, m, g)}
  <1>0. n \in Nat
    BY LenProperties
  <1>1. 0 \in S
    <2> DEFINE g == [i \in 0..0 |-> << >>]
    <2>1. Loops(items, seen, line, 0, g)
      BY DEF Loops
    <2> QED BY <2>1
  <1>2. ASSUME NEW m \in Nat, m \in S PROVE m + 1 \in S
    <2>1. PICK g : Loops(items, seen, line, m, g)
      BY <1>2
    <2> DEFINE h == [i \in 0..m + 1 |-> IF i <= m THEN g[i] ELSE Shown(g[m], items[i], seen, line)]
    <2>2. \A i \in 0..m : g[i] = IF i = 0 THEN << >> ELSE Shown(g[i - 1], items[i], seen, line)
      <3> HIDE DEF h, S
      <3> QED BY <2>1 DEF Loops
    <2>3. \A i \in 0..m + 1 :
            h[i] = IF i = 0 THEN << >> ELSE Shown(h[i - 1], items[i], seen, line)
      BY <2>2
    <2>4. Loops(items, seen, line, m + 1, h)
      BY <2>3 DEF Loops
    <2> QED BY <2>4
  <1>3. n \in S
    <2> HIDE DEF S
    <2> QED BY <1>0, <1>1, <1>2, Counting
  <1> DEFINE got == CHOOSE g : Loops(items, seen, line, n, g)
  <1>4. Loops(items, seen, line, n, got)
    BY <1>3
  <1>5. Chosen(items, seen, line) = got[n]
    BY DEF Chosen, Loops
  <1> HIDE DEF S, got
  <1>6. \A i \in 0..n : got[i] = IF i = 0 THEN << >> ELSE Shown(got[i - 1], items[i], seen, line)
    BY <1>4 DEF Loops
  <1> DEFINE T == {m \in Nat : m <= n => Picked(got[m], items, m, seen, line)}
  <1>7. 0 \in T
    <2>1. got[0] = << >>
      BY <1>0, <1>6
    <2>2. << >> \in Seq(Films) /\ Len(<< >>) = 0 /\ 0 <= RowCap
      BY EmptySeq, CatalogAssumption
    <2>3. Picked(<< >>, items, 0, seen, line)
      BY <2>2 DEF Picked, Falling
    <2> QED BY <2>1, <2>3
  <1>8. ASSUME NEW m \in Nat, m \in T PROVE m + 1 \in T
    <2> SUFFICES ASSUME m + 1 <= n PROVE Picked(got[m + 1], items, m + 1, seen, line)
      OBVIOUS
    <2>1. Picked(got[m], items, m, seen, line)
      BY <1>0, <1>8
    <2>2. got[m + 1] = Shown(got[m], items[m + 1], seen, line)
      BY <1>0, <1>6
    <2> QED BY <2>1, <2>2, ShownKeeps
  <1>9. n \in T
    <2> HIDE DEF T
    <2> QED BY <1>0, <1>7, <1>8, Counting
  <1> QED BY <1>0, <1>5, <1>9

\* The page once the first n rows are there.
UpTo(page, n) ==
    /\ page \in Seq(Films)
    /\ \A i, j \in 1..Len(page) : Title(page[i]) = Title(page[j]) => i = j
    /\ \A i \in 1..Len(page) : \E h \in 1..n : page[i].cat = HomeRows[h].cat
    /\ \A h \in 1..n : RowIsSound(page, h)

ShownBy(page, n) ==
    {Title(page[i]) : i \in UNION {InRow(page, HomeRows[h]) : h \in 1..n}}

LEMMA ShownByRows ==
    ASSUME NEW page, NEW n, NEW t
    PROVE  t \in ShownBy(page, n) <=>
             \E h \in 1..n : \E i \in 1..Len(page) :
                 page[i].cat = HomeRows[h].cat /\ Title(page[i]) = t
  BY DEF ShownBy, InRow

\* A row stays as it was when others follow.
LEMMA OldRowsStay ==
    ASSUME NEW page \in Seq(Films), NEW got \in Seq(Films), NEW n \in Nat,
           n + 1 <= Len(HomeRows),
           \A j \in 1..Len(got) : got[j].cat = HomeRows[n + 1].cat,
           NEW h \in 1..n, RowIsSound(page, h)
    PROVE  RowIsSound(page \o got, h)
  <1> DEFINE longer == page \o got
  <1>1. Len(HomeRows) \in Nat /\ Len(page) \in Nat /\ Len(got) \in Nat
    BY HomeAssumption, LenProperties
  <1>2. /\ Len(longer) = Len(page) + Len(got)
        /\ \A i \in 1..(Len(page) + Len(got)) :
             longer[i] = IF i <= Len(page) THEN page[i] ELSE got[i - Len(page)]
    BY ConcatProperties
  <1> HIDE DEF longer
  <1>3. \A i \in 1..Len(page) : i \in 1..Len(longer) /\ longer[i] = page[i]
    BY <1>1, <1>2
  <1>4. \A i \in 1..Len(longer) : i \in 1..Len(page) \/ longer[i].cat = HomeRows[n + 1].cat
    <2> SUFFICES ASSUME NEW i \in 1..Len(longer), i \notin 1..Len(page)
                 PROVE  longer[i].cat = HomeRows[n + 1].cat
      OBVIOUS
    <2>1. i - Len(page) \in 1..Len(got) /\ longer[i] = got[i - Len(page)]
      BY <1>1, <1>2
    <2> QED BY <2>1
  <1>5. \A g \in 1..n : HomeRows[g].cat # HomeRows[n + 1].cat
    <2>1. \A g \in 1..n : g \in 1..Len(HomeRows) /\ n + 1 \in 1..Len(HomeRows) /\ g # n + 1
      BY <1>1
    <2> QED BY <2>1, HomeAssumption
  <1>6. \A g \in 1..n : InRow(longer, HomeRows[g]) = InRow(page, HomeRows[g])
    BY <1>3, <1>4, <1>5 DEF InRow
  <1>7. \A g \in 1..h : g \in 1..n
    OBVIOUS
  <1>8. ShownBy(longer, h) = ShownBy(page, h)
    <2>1. ASSUME NEW t \in ShownBy(page, h) PROVE t \in ShownBy(longer, h)
      <3>1. PICK g \in 1..h : \E i \in 1..Len(page) :
                page[i].cat = HomeRows[g].cat /\ Title(page[i]) = t
        BY ShownByRows
      <3>2. \E i \in 1..Len(longer) : longer[i].cat = HomeRows[g].cat /\ Title(longer[i]) = t
        BY <1>3, <3>1
      <3> QED BY <3>2, ShownByRows
    <2>2. ASSUME NEW t \in ShownBy(longer, h) PROVE t \in ShownBy(page, h)
      <3>1. PICK g \in 1..h : \E i \in 1..Len(longer) :
                longer[i].cat = HomeRows[g].cat /\ Title(longer[i]) = t
        BY ShownByRows
      <3>2. HomeRows[g].cat # HomeRows[n + 1].cat
        BY <1>5, <1>7
      <3>3. \E i \in 1..Len(page) : page[i].cat = HomeRows[g].cat /\ Title(page[i]) = t
        BY <1>3, <1>4, <3>1, <3>2
      <3> QED BY <3>3, ShownByRows
    <2> QED BY <2>1, <2>2
  <1>9. \A i \in InRow(page, HomeRows[h]) : longer[i] = page[i]
    BY <1>3 DEF InRow
  <1> QED BY <1>6, <1>8, <1>9 DEF RowIsSound, ShownBy, longer

\* The row that is added is under its cap, draws from what it should, and falls if rated.
LEMMA NewRowIsSound ==
    ASSUME cache \in [Kinds -> Seq(Films)], NEW page, NEW n \in Nat, UpTo(page, n),
           n + 1 <= Len(HomeRows), NEW got,
           Picked(got, RowItems(HomeRows[n + 1]), Len(RowItems(HomeRows[n + 1])), Titles(page),
                  HomeRows[n + 1])
    PROVE  RowIsSound(page \o got, n + 1)
  <1> DEFINE line == HomeRows[n + 1]
             items == RowItems(line)
             longer == page \o got
             p == Len(page)
             g == Len(got)
  <1>1. Len(HomeRows) \in Nat /\ n + 1 \in 1..Len(HomeRows)
    BY HomeAssumption, LenProperties
  <1>2. items \in Seq(Films) /\ (line.how = "rated" => Falling(items)) /\ Len(items) \in Nat
    BY <1>1, ItemsOfARow, LenProperties
  <1>3. /\ page \in Seq(Films) /\ got \in Seq(Films) /\ p \in Nat /\ g \in Nat
        /\ \A i \in 1..p : \E h \in 1..n : page[i].cat = HomeRows[h].cat
    BY LenProperties DEF UpTo, Picked
  <1>4. /\ Len(longer) = p + g
        /\ \A i \in 1..(p + g) : longer[i] = IF i <= p THEN page[i] ELSE got[i - p]
    BY <1>3, ConcatProperties
  <1>5. /\ g <= RowCap
        /\ \A j \in 1..g : got[j].cat = line.cat
        /\ g = RowCap \/ \A h \in 1..Len(items) : Title(items[h]) \in Titles(page) \cup Titles(got)
        /\ Falling(items) => Falling(got)
    BY DEF Picked
  <1> HIDE DEF longer, p, g
  <1>6. \A h \in 1..n : HomeRows[h].cat # line.cat
    <2>1. \A h \in 1..n : h \in 1..Len(HomeRows) /\ h # n + 1
      BY <1>1
    <2> QED BY <1>1, <2>1, HomeAssumption
  <1>7. \A i \in 1..p : i \in 1..Len(longer) /\ longer[i] = page[i]
    BY <1>3, <1>4
  <1>8. \A j \in 1..g : p + j \in 1..Len(longer) /\ longer[p + j] = got[j]
    <2> SUFFICES ASSUME NEW j \in 1..g
                 PROVE  p + j \in 1..Len(longer) /\ longer[p + j] = got[j]
      OBVIOUS
    <2>1. PICK i \in 1..(p + g) : i = p + j /\ ~(i <= p) /\ i - p = j
      BY <1>3
    <2>2. i \in 1..Len(longer) /\ longer[i] = got[i - p]
      BY <1>4, <2>1
    <2> QED BY <2>1, <2>2
  <1>9. \A i \in (p + 1)..(p + g) : i - p \in 1..g /\ i = p + (i - p)
    BY <1>3
  <1>10. \A i \in 1..Len(longer) : i \in 1..p \/ i \in (p + 1)..(p + g)
    BY <1>3, <1>4
  <1>11. (p + 1)..(p + g) \subseteq 1..Len(longer) /\ (p + 1)..(p + g) \cap 1..p = {}
    BY <1>3, <1>4
  <1> HIDE DEF line, items
  <1>12. InRow(longer, line) = (p + 1)..(p + g)
    <2>1. ASSUME NEW i \in 1..p PROVE longer[i].cat # line.cat
      BY <1>3, <1>6, <1>7
    <2>2. ASSUME NEW i \in (p + 1)..(p + g) PROVE longer[i].cat = line.cat
      BY <1>5, <1>8, <1>9
    <2> QED BY <1>10, <1>11, <2>1, <2>2 DEF InRow
  <1>13. Cardinality(InRow(longer, line)) = g
    <2>1. \A a, b \in Int : Cardinality(a..b) = IF a > b THEN 0 ELSE b - a + 1
      BY FS_Interval
    <2>2. PICK a, b \in Int : a = p + 1 /\ b = p + g
      BY <1>3
    <2>3. Cardinality(a..b) = g
      <3>1. g = IF a > b THEN 0 ELSE b - a + 1
        BY <1>3, <2>2
      <3> QED BY <2>1, <3>1
    <2> QED BY <1>12, <2>2, <2>3
  <1>14. Titles(page) \cup Titles(got) \subseteq ShownBy(longer, n + 1)
    <2>1. ASSUME NEW i \in 1..p PROVE Title(page[i]) \in ShownBy(longer, n + 1)
      <3>1. PICK h \in 1..n : page[i].cat = HomeRows[h].cat
        BY <1>3
      <3>2. h \in 1..n + 1
        OBVIOUS
      <3> QED BY <1>7, <3>1, <3>2, ShownByRows
    <2>2. ASSUME NEW j \in 1..g PROVE Title(got[j]) \in ShownBy(longer, n + 1)
      <3>1. n + 1 \in 1..n + 1 /\ got[j].cat = HomeRows[n + 1].cat
        BY <1>5 DEF line
      <3>2. \E i \in 1..Len(longer) :
               longer[i].cat = HomeRows[n + 1].cat /\ Title(longer[i]) = Title(got[j])
        BY <1>8, <3>1
      <3> QED BY <3>1, <3>2, ShownByRows
    <2> QED BY <2>1, <2>2 DEF Titles, p, g
  <1>15. Titles(items) \subseteq ShownBy(longer, n + 1) \/ Cardinality(InRow(longer, line)) = RowCap
    BY <1>5, <1>13, <1>14 DEF Titles
  <1>16. ASSUME line.how = "rated", NEW i \in InRow(longer, line), NEW j \in InRow(longer, line),
                i < j
         PROVE  longer[i].rating >= longer[j].rating
    <2>1. i - p \in 1..g /\ j - p \in 1..g /\ i = p + (i - p) /\ j = p + (j - p)
      BY <1>9, <1>12
    <2>2. i - p < j - p
      BY <1>3, <1>12, <1>16
    <2>3. got[i - p].rating >= got[j - p].rating
      BY <1>2, <1>5, <1>16, <2>1, <2>2 DEF Falling, g
    <2>4. longer[i] = got[i - p] /\ longer[j] = got[j - p]
      BY <1>8, <2>1
    <2> QED BY <2>3, <2>4
  <1> QED BY <1>5, <1>13, <1>15, <1>16 DEF RowIsSound, ShownBy, line, items, longer

LEMMA AddRowKeeps ==
    ASSUME cache \in [Kinds -> Seq(Films)], NEW page, NEW n \in Nat, UpTo(page, n),
           n + 1 <= Len(HomeRows)
    PROVE  UpTo(AddRow(page, HomeRows[n + 1]), n + 1)
  <1> DEFINE line == HomeRows[n + 1]
             items == RowItems(line)
             got == Chosen(items, Titles(page), line)
             longer == page \o got
  <1>1. Len(HomeRows) \in Nat /\ n + 1 \in 1..Len(HomeRows)
    BY HomeAssumption, LenProperties
  <1>2. line \in Rows /\ items \in Seq(Films)
    BY <1>1, ItemsOfARow
  <1>3. Picked(got, items, Len(items), Titles(page), line)
    BY <1>2, ChosenArePicked
  <1> HIDE DEF got
  <1>4. AddRow(page, line) = longer
    BY DEF AddRow, got
  <1>5. RowIsSound(longer, n + 1)
    BY <1>3, NewRowIsSound
  <1>6. /\ page \in Seq(Films) /\ got \in Seq(Films)
        /\ \A j \in 1..Len(got) : got[j].cat = line.cat /\ Title(got[j]) \notin Titles(page)
        /\ \A i, j \in 1..Len(got) : Title(got[i]) = Title(got[j]) => i = j
        /\ Len(page) \in Nat /\ Len(got) \in Nat
    BY <1>3, LenProperties DEF UpTo, Picked
  <1>7. \A h \in 1..n : RowIsSound(longer, h)
    BY <1>6, OldRowsStay DEF UpTo
  <1>8. \A h \in 1..n + 1 : h \in 1..n \/ h = n + 1
    OBVIOUS
  <1>9. /\ longer \in Seq(Films) /\ Len(longer) = Len(page) + Len(got)
        /\ \A i \in 1..(Len(page) + Len(got)) :
             longer[i] = IF i <= Len(page) THEN page[i] ELSE got[i - Len(page)]
    BY <1>6, ConcatProperties
  <1> HIDE DEF longer, items, line
  <1>10. ASSUME NEW i \in 1..Len(longer)
         PROVE  \/ i \in 1..Len(page) /\ longer[i] = page[i]
                \/ ~(i <= Len(page)) /\ i - Len(page) \in 1..Len(got) /\ longer[i] = got[i - Len(page)]
    BY <1>6, <1>9
  <1>11. ASSUME NEW i \in 1..Len(longer)
         PROVE  \E h \in 1..n + 1 : longer[i].cat = HomeRows[h].cat
    <2>1. CASE i \in 1..Len(page) /\ longer[i] = page[i]
      <3>1. PICK h \in 1..n : page[i].cat = HomeRows[h].cat
        BY <2>1 DEF UpTo
      <3>2. h \in 1..n + 1
        OBVIOUS
      <3> QED BY <2>1, <3>1, <3>2
    <2>2. CASE i - Len(page) \in 1..Len(got) /\ longer[i] = got[i - Len(page)]
      <3>1. longer[i].cat = HomeRows[n + 1].cat /\ n + 1 \in 1..n + 1
        BY <1>6, <2>2 DEF line
      <3> QED BY <3>1
    <2> QED BY <1>10, <2>1, <2>2
  <1>12. ASSUME NEW i \in 1..Len(longer), NEW j \in 1..Len(longer),
                Title(longer[i]) = Title(longer[j])
         PROVE  i = j
    <2>1. \A h \in 1..Len(page) : Title(page[h]) \in Titles(page)
      BY DEF Titles
    <2>2. \A h, l \in 1..Len(page) : Title(page[h]) = Title(page[l]) => h = l
      BY DEF UpTo
    <2>3. CASE i <= Len(page) /\ j <= Len(page)
      BY <1>10, <1>12, <2>2, <2>3
    <2>4. CASE ~(i <= Len(page)) /\ ~(j <= Len(page))
      <3>1. /\ i - Len(page) \in 1..Len(got) /\ longer[i] = got[i - Len(page)]
            /\ j - Len(page) \in 1..Len(got) /\ longer[j] = got[j - Len(page)]
        BY <1>6, <1>10, <2>4
      <3>2. i - Len(page) = j - Len(page)
        BY <1>6, <1>12, <3>1
      <3> QED BY <1>6, <3>2
    <2>5. CASE i <= Len(page) /\ ~(j <= Len(page))
      BY <1>6, <1>10, <1>12, <2>1, <2>5
    <2>6. CASE ~(i <= Len(page)) /\ j <= Len(page)
      BY <1>6, <1>10, <1>12, <2>1, <2>6
    <2> QED BY <2>3, <2>4, <2>5, <2>6
  <1>13. \A h \in 1..n + 1 : RowIsSound(longer, h)
    BY <1>5, <1>7, <1>8
  <1>14. UpTo(longer, n + 1)
    BY <1>9, <1>11, <1>12, <1>13 DEF UpTo
  <1> QED BY <1>4, <1>14 DEF line

Pages(n, upto) ==
    upto = [i \in 0..n |-> IF i = 0 THEN << >> ELSE AddRow(upto[i - 1], HomeRows[i])]

LEMMA HomeIsBuilt ==
    ASSUME cache \in [Kinds -> Seq(Films)]
    PROVE  HomeIsSound
  <1> DEFINE n == Len(HomeRows)
             S == {m \in Nat : \E g : Pages(m, g)}
  <1>0. n \in Nat
    BY HomeAssumption, LenProperties
  <1>1. 0 \in S
    <2> DEFINE g == [i \in 0..0 |-> << >>]
    <2>1. Pages(0, g)
      BY DEF Pages
    <2> QED BY <2>1
  <1>2. ASSUME NEW m \in Nat, m \in S PROVE m + 1 \in S
    <2>1. PICK g : Pages(m, g)
      BY <1>2
    <2> DEFINE h == [i \in 0..m + 1 |-> IF i <= m THEN g[i] ELSE AddRow(g[m], HomeRows[i])]
    <2>2. \A i \in 0..m : g[i] = IF i = 0 THEN << >> ELSE AddRow(g[i - 1], HomeRows[i])
      <3> HIDE DEF h, S
      <3> QED BY <2>1 DEF Pages
    <2>3. \A i \in 0..m + 1 : h[i] = IF i = 0 THEN << >> ELSE AddRow(h[i - 1], HomeRows[i])
      BY <2>2
    <2>4. Pages(m + 1, h)
      BY <2>3 DEF Pages
    <2> QED BY <2>4
  <1>3. n \in S
    <2> HIDE DEF S
    <2> QED BY <1>0, <1>1, <1>2, Counting
  <1> DEFINE upto == CHOOSE g : Pages(n, g)
  <1>4. Pages(n, upto)
    BY <1>3
  <1>5. HomeView = upto[n]
    BY DEF HomeView, Pages
  <1> HIDE DEF S, upto
  <1>6. \A i \in 0..n : upto[i] = IF i = 0 THEN << >> ELSE AddRow(upto[i - 1], HomeRows[i])
    BY <1>4 DEF Pages
  <1> DEFINE T == {m \in Nat : m <= n => UpTo(upto[m], m)}
  <1>7. 0 \in T
    <2>1. upto[0] = << >>
      BY <1>0, <1>6
    <2>2. << >> \in Seq(Films) /\ Len(<< >>) = 0
      BY EmptySeq
    <2>3. UpTo(<< >>, 0)
      BY <2>2 DEF UpTo
    <2> QED BY <2>1, <2>3
  <1>8. ASSUME NEW m \in Nat, m \in T PROVE m + 1 \in T
    <2> SUFFICES ASSUME m + 1 <= n PROVE UpTo(upto[m + 1], m + 1)
      OBVIOUS
    <2>1. UpTo(upto[m], m)
      BY <1>0, <1>8
    <2>2. upto[m + 1] = AddRow(upto[m], HomeRows[m + 1])
      BY <1>0, <1>6
    <2> QED BY <2>1, <2>2, AddRowKeeps
  <1>9. n \in T
    <2> HIDE DEF T
    <2> QED BY <1>0, <1>7, <1>8, Counting
  <1>10. UpTo(HomeView, n)
    BY <1>0, <1>5, <1>9
  <1> QED BY <1>10 DEF UpTo, HomeIsSound, PageIsSound

LEMMA CachesAreLists ==
    ASSUME DiskIInv
    PROVE  cache \in [Kinds -> Seq(Films)]
  <1>1. TitleLists \subseteq Seq(Films)
    <2>1. \A k \in Kinds : Answers[k] \subseteq Seq(Films)
      BY CatalogAssumption
    <2>2. \A f \in LegacyFiles, k \in Kinds : f[k] \in Seq(Films)
      BY CatalogAssumption
    <2>3. << >> \in Seq(Films)
      BY EmptySeq
    <2> SUFFICES ASSUME NEW list \in TitleLists PROVE list \in Seq(Films)
      OBVIOUS
    <2>4. \/ \E k \in Kinds : list \in Answers[k]
          \/ \E f \in LegacyFiles : \E k \in Kinds : list = f[k]
          \/ list = << >>
      BY DEF TitleLists
    <2> QED BY <2>1, <2>2, <2>3, <2>4
  <1> QED BY <1>1 DEF DiskIInv, CatalogIInv, CatalogTyped, Books

(* HomeView: whatever the caches hold while they are refreshed, loaded and *)
(* lost, the home page shows no title twice and no row above its cap, and  *)
(* leaves out what a row draws from only when the row is full.             *)
THEOREM HomeSafe == DiskSpec => []HomeIsSound
  <1>1. DiskIInv => HomeIsSound
    BY CachesAreLists, HomeIsBuilt
  <1> QED BY DiskInvariance, <1>1, PTL
=============================================================================
