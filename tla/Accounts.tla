------------------------------ MODULE Accounts ------------------------------
(***************************************************************************)
(* Accounts, sign-in sessions and the rows of synced data that hang on     *)
(* them (internal/server/auth.go, handlers_userdata.go), over the tables   *)
(* and the one-time imports of internal/db/db.go.                          *)
(*                                                                         *)
(* authStore.mu and userDataStore.mu make each method one critical section,*)
(* and a handler is several: between them other requests run, and the      *)
(* process may die.                                                        *)
(***************************************************************************)
EXTENDS Integers, FiniteSets

CONSTANTS
    Ids,           \* account ids; they are random, so none is given out twice
    LegacyAdmins,  \* accounts of users.json, by what they are
    LegacyPlain,
    Tokens,        \* session tokens, random too
    Reqs,          \* bound: requests under way at once
    SessionTTL,
    MaxServed,     \* bound: requests taken in all
    MaxCrashes,    \* bound
    CountMayFail,  \* whether counting a table's rows may fail, and answers 0
    Household,     \* the key of the data of before there were accounts
    Nobody,
    Ended

LegacyUsers == LegacyAdmins \cup LegacyPlain

\* Accounts managed the instance before the import too: somebody is an admin.
ASSUME AccountsAssumption ==
    /\ IsFiniteSet(Ids)
    /\ LegacyAdmins # {} /\ LegacyUsers \subseteq Ids
    /\ LegacyAdmins \cap LegacyPlain = {}
    /\ SessionTTL \in Nat \ {0} /\ MaxServed \in Nat /\ MaxCrashes \in Nat
    /\ CountMayFail \in BOOLEAN
    /\ {Nobody, Ended} \cap (Ids \cup Tokens) = {} /\ Nobody # Ended /\ Household \notin Ids

VARIABLES
    account,   \* [Ids -> status]            users table; "gone" rows were deleted
    admins,    \* ids whose row says is_admin
    session,   \* [Tokens -> Session or NoSession]  sessions table
    minted,    \* tokens given to a browser
    row,       \* [Ids or Household -> Row]  userdata table
    req,       \* [Reqs -> Request]
    boot,      \* how far the start of the process has got
    files,     \* legacy files not yet renamed to *.migrated
    served,
    crashes

vars == <<account, admins, session, minted, row, req, boot, files, served, crashes>>

\* left: how long the session has, -1 when it has expired.
NoSession == [user |-> Nobody, left |-> -1]
Session == [user : Ids, left : -1..SessionTTL]

\* "own": what the account's devices sent.  "household": adopted on top of it.
Row == {"none", "own", "household"}

\* "adopt": a sync that found the household's data.
Ops == {"login", "register", "remove", "close", "signout", "sync", "adopt", "get", "clear"}

\* stage: the critical section that comes next.
Request == [op : Ops, stage : {"name", "guard", "act", "mint", "drop", "save"},
            user : Ids, target : Ids]
Idle == [op |-> "idle", stage |-> "idle", user |-> Nobody, target |-> Nobody]

Live == {u \in Ids : account[u] = "live"}
Admins == Live \cap admins

\* v1: one household's data.  v2: data by account.
DataFile == {"v1", "v2"}

Init ==
    /\ account = [u \in Ids |-> "unused"]
    /\ admins = {}
    /\ session = [k \in Tokens |-> NoSession]
    /\ minted = {}
    /\ row = [k \in Ids \cup {Household} |-> "none"]
    /\ req = [r \in Reqs |-> Idle]
    /\ boot = "users"
    /\ files \in {{}} \cup {{"users"} \cup {f} : f \in DataFile} \cup {{"v1"}}
    /\ served = 0
    /\ crashes = 0

-----------------------------------------------------------------------------
(* Starting: Migrate *)

\* The accounts and the sessions of users.json, in one transaction: an account that
\* is in the table already makes it fail.
UsersInserted ==
    /\ Live \cap LegacyUsers = {}
    /\ \E k \in (Tokens \ minted) \cup {Nobody} :
          /\ minted' = minted \cup ({k} \ {Nobody})
          /\ session' = [t \in Tokens |->
                IF t = k THEN [user |-> CHOOSE u \in LegacyUsers : TRUE, left |-> SessionTTL]
                         ELSE session[t]]
    /\ account' = [u \in Ids |-> IF u \in LegacyUsers THEN "live" ELSE account[u]]
    /\ admins' = admins \cup LegacyAdmins
    /\ boot' = "retire users"

NoUsers == boot' = "data" /\ UNCHANGED <<account, admins, session, minted>>

\* Fault: the import does not look whether the table is in use.
ImportUsersAlways ==
    /\ boot = "users"
    /\ \/ "users" \in files /\ UsersInserted
       \/ NoUsers
    /\ UNCHANGED <<row, req, files, served, crashes>>

\* migrateUsers, into an empty table, or one whose rows could not be counted.
\* The file may not be readable, and the transaction may fail and be rolled back.
ImportUsers ==
    /\ boot = "users"
    /\ \/ "users" \in files /\ (Live = {} \/ CountMayFail) /\ UsersInserted
       \/ NoUsers
    /\ UNCHANGED <<row, req, files, served, crashes>>

\* migrateUserdata, with the same failures.
ImportData ==
    /\ boot = "data"
    /\ \/ /\ files \cap DataFile # {}
          /\ CountMayFail \/ \A k \in DOMAIN row : row[k] = "none"
          /\ LET keys == IF "v2" \in files THEN LegacyUsers ELSE {Household}
             IN  /\ \A k \in keys : row[k] = "none"
                 /\ row' = [k \in DOMAIN row |-> IF k \notin keys THEN row[k]
                              ELSE IF k = Household THEN "household" ELSE "own"]
          /\ boot' = "retire data"
       \/ boot' = "up" /\ UNCHANGED row
    /\ UNCHANGED <<account, admins, session, minted, req, files, served, crashes>>

\* renameMigrated, which may fail; that is only logged.
Retire ==
    /\ \/ boot = "retire users" /\ boot' = "data" /\ files' \in {files, files \ {"users"}}
       \/ boot = "retire data" /\ boot' = "up" /\ files' \in {files, files \ DataFile}
    /\ UNCHANGED <<account, admins, session, minted, row, req, served, crashes>>

\* The process dies, and is started again.
Crash ==
    /\ crashes < MaxCrashes
    /\ crashes' = crashes + 1
    /\ boot' = "users"
    /\ req' = [r \in Reqs |-> Idle]
    /\ UNCHANGED <<account, admins, session, minted, row, files, served>>

-----------------------------------------------------------------------------
(* The tables *)

Expired(s) == s.left < 0

\* pruneSessionsLocked
Pruned(s) == [k \in Tokens |-> IF Expired(s[k]) THEN NoSession ELSE s[k]]

\* The sessions of an account, all deleted.
SignedOut(u) == [k \in Tokens |-> IF session[k].user = u THEN NoSession ELSE session[k]]

Answer(r) == req' = [req EXCEPT ![r] = Idle]
To(r, stage) == req' = [req EXCEPT ![r].stage = stage]

\* Time passes.
Tick ==
    /\ session' = [k \in Tokens |-> [session[k] EXCEPT !.left = IF @ < 0 THEN @ ELSE @ - 1]]
    /\ UNCHANGED <<account, admins, minted, row, req, boot, files, served, crashes>>

Accept(r) ==
    /\ boot = "up"
    /\ req[r] = Idle
    /\ served < MaxServed
    /\ served' = served + 1

-----------------------------------------------------------------------------
(* Signing in and out *)

\* register: the first account manages the instance.
Register(r) ==
    /\ Accept(r)
    /\ \E u \in Ids \ LegacyUsers :
          /\ account[u] = "unused"
          /\ account' = [account EXCEPT ![u] = "live"]
          /\ admins' = IF Live = {} THEN admins \cup {u} ELSE admins
          /\ session' = Pruned(session)
          /\ req' = [req EXCEPT ![r] = [op |-> "register", stage |-> "mint",
                                        user |-> u, target |-> u]]
    /\ UNCHANGED <<minted, row, boot, files, crashes>>

\* login, with the right password; a wrong one changes nothing.
Login(r) ==
    /\ Accept(r)
    /\ \E u \in Live :
          req' = [req EXCEPT ![r] = [op |-> "login", stage |-> "mint", user |-> u, target |-> u]]
    /\ session' = Pruned(session)
    /\ UNCHANGED <<account, admins, minted, row, boot, files, crashes>>

\* Fault: foreign_keys is off, and the row goes in whoever it is for.
MintUnchecked(r) ==
    /\ req[r].stage = "mint"
    /\ \E k \in Tokens \ minted :
          /\ minted' = minted \cup {k}
          /\ session' = [session EXCEPT ![k] = [user |-> req[r].user, left |-> SessionTTL]]
    /\ Answer(r)
    /\ UNCHANGED <<account, admins, row, boot, files, served, crashes>>

\* The INSERT of authLoginHandler and authRegisterHandler, in a critical section
\* of its own: the foreign key refuses a deleted account, and nobody looks.
Mint(r) ==
    /\ req[r].stage = "mint"
    /\ \E k \in Tokens \ minted :
          /\ minted' = minted \cup {k}
          /\ session' = IF req[r].user \in Live
                        THEN [session EXCEPT ![k] = [user |-> req[r].user, left |-> SessionTTL]]
                        ELSE session
    /\ Answer(r)
    /\ UNCHANGED <<account, admins, row, boot, files, served, crashes>>

\* authLogoutHandler; what the middleware does to the session before is undone.
Logout(k) ==
    /\ boot = "up"
    /\ k \in minted
    /\ session' = [session EXCEPT ![k] = NoSession]
    /\ UNCHANGED <<account, admins, minted, row, req, boot, files, served, crashes>>

-----------------------------------------------------------------------------
(* Requests with a session *)

\* middleware, first half: authorize.  sessionFor slides a live session and
\* deletes an expired one.
Authorize(r, k) ==
    /\ Accept(r)
    /\ k \in minted
    /\ IF Expired(session[k])
       THEN session' = [session EXCEPT ![k] = NoSession] /\ UNCHANGED req
       ELSE /\ session' = [session EXCEPT ![k].left = SessionTTL]
            /\ \E op \in Ops \ {"login", "register", "adopt"}, t \in Ids :
                  /\ op \notin {"remove", "signout"} => t = session[k].user
                  /\ req' = [req EXCEPT ![r] = [op |-> op, stage |-> "name",
                                                user |-> session[k].user, target |-> t]]
    /\ UNCHANGED <<account, admins, minted, row, boot, files, crashes>>

\* middleware, second half: "A session pointing at a deleted account is treated
\* as anonymous", which all these handlers refuse.
Identify(r) ==
    /\ req[r].stage = "name"
    /\ IF req[r].user \notin Live THEN Answer(r)
       ELSE To(r, IF req[r].op \in {"remove", "signout"} THEN "guard" ELSE "act")
    /\ UNCHANGED <<account, admins, session, minted, row, boot, files, served, crashes>>

\* adminGuard: userIsAdmin.
AdminGuard(r) ==
    /\ req[r].stage = "guard"
    /\ IF req[r].user \in Admins THEN To(r, "act") ELSE Answer(r)
    /\ UNCHANGED <<account, admins, session, minted, row, boot, files, served, crashes>>

\* adminUserLogout
SignOutEverywhere(r) ==
    /\ req[r].stage = "act" /\ req[r].op = "signout"
    /\ session' = SignedOut(req[r].target)
    /\ Answer(r)
    /\ UNCHANGED <<account, admins, minted, row, boot, files, served, crashes>>

\* Fault: the last administrator may go.
MayGoAlways(r) == req[r].op = "remove" => req[r].user # req[r].target

\* The rules of deleteAccountSelf and deleteAccount.
MayGo(r) ==
    LET u == req[r].target
    IN  /\ req[r].op = "remove" => req[r].user # u
        /\ u \in Live
        /\ u \in Admins => Cardinality(Admins) > 1

\* deleteAccountSelf (the password is right) and deleteAccount: deleteUserLocked
\* deletes the sessions and then the account.  The second statement may fail.
Delete(r) ==
    LET u == req[r].target
    IN  /\ req[r].stage = "act" /\ req[r].op \in {"close", "remove"}
        /\ IF MayGo(r)
           THEN /\ session' = SignedOut(u)
                /\ \/ account' = [account EXCEPT ![u] = "gone"] /\ To(r, "drop")
                   \/ Answer(r) /\ UNCHANGED account
           ELSE Answer(r) /\ UNCHANGED <<account, session>>
        /\ UNCHANGED <<admins, minted, row, boot, files, served, crashes>>

-----------------------------------------------------------------------------
(* The rows of synced data.  userDataStore.mu is held from "save" on. *)

Locked == \E r \in Reqs : req[r].stage = "save"

\* DeleteUserState, called by the handler that deleted the account.
DropState(r) ==
    /\ req[r].stage = "drop" /\ ~Locked
    /\ row' = [row EXCEPT ![req[r].target] = "none"]
    /\ Answer(r)
    /\ UNCHANGED <<account, admins, session, minted, boot, files, served, crashes>>

\* stateFor: an account without a row adopts the household's data, whose row is
\* deleted at once.
StateFor(u) ==
    IF row[u] = "none" THEN row' = [row EXCEPT ![Household] = "none"] ELSE UNCHANGED row

\* userdataSyncHandler: stateFor, merge ...
SyncLoad(r) ==
    LET u == req[r].user
    IN  /\ req[r].stage = "act" /\ req[r].op = "sync" /\ ~Locked
        /\ StateFor(u)
        /\ req' = [req EXCEPT ![r].stage = "save",
                   ![r].op = IF row[u] = "none" /\ row[Household] # "none" THEN "adopt" ELSE @]
        /\ UNCHANGED <<account, admins, session, minted, boot, files, served, crashes>>

\* ... and saveState, which adds the row where there is none.
SyncSave(r) ==
    LET u == req[r].user
    IN  /\ req[r].stage = "save"
        /\ row' = [row EXCEPT ![u] = IF req[r].op = "adopt" \/ @ = "household"
                                     THEN "household" ELSE "own"]
        /\ Answer(r)
        /\ UNCHANGED <<account, admins, session, minted, boot, files, served, crashes>>

\* userdataGetHandler answers with stateFor, and saves nothing.
Get(r) ==
    /\ req[r].stage = "act" /\ req[r].op = "get" /\ ~Locked
    /\ StateFor(req[r].user)
    /\ Answer(r)
    /\ UNCHANGED <<account, admins, session, minted, boot, files, served, crashes>>

\* userdataClearHandler saves an empty state: the row stays.
Clear(r) ==
    /\ req[r].stage = "act" /\ req[r].op = "clear" /\ ~Locked
    /\ row' = [row EXCEPT ![req[r].user] = "own"]
    /\ Answer(r)
    /\ UNCHANGED <<account, admins, session, minted, boot, files, served, crashes>>

Next ==
    \/ ImportUsers \/ ImportData \/ Retire \/ Crash \/ Tick
    \/ \E k \in Tokens : Logout(k)
    \/ \E r \in Reqs :
          \/ Register(r) \/ Login(r) \/ Mint(r)
          \/ Identify(r) \/ AdminGuard(r) \/ SignOutEverywhere(r) \/ Delete(r)
          \/ DropState(r) \/ SyncLoad(r) \/ SyncSave(r) \/ Get(r) \/ Clear(r)
          \/ \E k \in Tokens : Authorize(r, k)

Spec == Init /\ [][Next]_vars

-----------------------------------------------------------------------------
(* Properties *)

TypeOK ==
    /\ account \in [Ids -> {"unused", "live", "gone"}]
    /\ admins \subseteq Ids
    /\ session \in [Tokens -> Session \cup {NoSession}]
    /\ minted \subseteq Tokens
    /\ row \in [Ids \cup {Household} -> Row]
    /\ req \in [Reqs -> Request \cup {Idle}]
    /\ boot \in {"users", "retire users", "data", "retire data", "up"}
    /\ files \subseteq {"users"} \cup DataFile
    /\ served \in 0..MaxServed /\ crashes \in 0..MaxCrashes

\* No session survives its account, although sign-in checks the password and
\* inserts the session in two critical sections, between which the account may be
\* deleted ("a deleted account ... its sessions", deleteUserLocked).
SessionsHaveAccounts == \A k \in Tokens : session[k] # NoSession => session[k].user \in Live

\* "You cannot delete the last remaining admin": whoever deletes whom, and after a
\* restart too, accounts are never left without one.
AdminRemains == Live # {} => Admins # {}

\* Whose session a token opens, of the sessions that still count.
Holder == [k \in Tokens |-> IF k \notin minted THEN Nobody
                            ELSE IF Expired(session[k]) THEN Ended ELSE session[k].user]

\* The tables as AccountBook sees them.
Book == INSTANCE AccountBook WITH status <- account, admins <- admins, holder <- Holder

\* Through interleavings, crashes, restarts and repeated imports the tables change
\* as AccountBook says, where tables can be counted.  So an account that was deleted never returns, not by an
\* import that runs again because the file could not be renamed; a session that
\* ended is never open again; and all administrators never leave.
KeepsTheBook == Book!Spec

\* "imports the legacy JSON stores into the SQLite database when they exist and the
\* corresponding tables are empty" (db.go, Migrate): accounts come in only where there
\* are none.
ImportsIntoEmpty == [][boot = "users" /\ boot' = "retire users" => Live = {}]_vars
=============================================================================
