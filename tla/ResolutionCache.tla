-------------------------- MODULE ResolutionCache --------------------------
(***************************************************************************)
(* The resolution cache: r.resolutions, the background work that changes   *)
(* it (fresh resolves, prewarms, validateAndHeal, player invalidation) and *)
(* its copy in the resolution_records table.  Each worker is a goroutine   *)
(* running one of these; a step ends where the code releases r.mu, waits   *)
(* for an upstream or takes a lock.                                        *)
(*                                                                         *)
(* A record is an object with an identity: validateAndHeal stamps the one  *)
(* it was started with, wherever r.resolutions has gone since.             *)
(***************************************************************************)
EXTENDS Integers, FiniteSets

CONSTANTS
    Workers,        \* goroutines that may be at work at once
    Keys,           \* resolution keys
    CinesrcKeys,    \* the keys whose provider is cinesrc
    MaxRecords,     \* maxResolutionRecords
    TTL,            \* resolutionTTL, in ticks
    MaxTime,        \* bound: ticks of the clock
    MaxResolves,    \* bound: successful upstream resolves
    WritesMayFail,  \* whether db.SaveResolutions may return an error
    NoWorker

ASSUME CacheAssumption ==
    /\ IsFiniteSet(Keys) /\ Keys # {} /\ CinesrcKeys \subseteq Keys
    /\ MaxRecords \in Nat \ {0}
    /\ TTL \in Nat /\ MaxTime \in Nat /\ MaxResolves \in Nat
    /\ WritesMayFail \in BOOLEAN
    /\ NoWorker \notin Workers

VARIABLES
    mem,        \* [Keys -> Id or None]  r.resolutions
    createdAt,  \* [Ids -> time]         rec.createdAt
    resolves,   \* records created so far
    task,       \* [Workers -> Task]     what each goroutine is doing
    snapshot,   \* [Workers -> rows]     recs of its persistResolutions call
    healMu,     \* holder of r.healMu
    playing,    \* keys with a live proxy session
    table,      \* [Keys -> row]         resolution_records
    now,        \* time.Now()
    lastSnap,   \* history: ids in the newest snapshot taken
    dropped     \* history: ids taken out of mem as stale or invalidated since the start

vars == <<mem, createdAt, resolves, task, snapshot, healMu, playing,
          table, now, lastSnap, dropped>>
recordVars == <<createdAt, resolves>>

None == 0
Ids == 1..MaxResolves

\* A stored row keeps the timestamp it was written with.
Row == [id : Ids \cup {None}, at : 0..MaxTime]
NoRow == [id |-> None, at |-> 0]

\* op: which function the goroutine runs; rec: the record it holds; after: where
\* it goes once persistResolutions returns.
Task == [op    : {"none", "resolve", "prewarm", "heal", "invalidate"},
         stage : {"idle", "fetch", "remember", "store", "lock", "validate", "extend",
                  "forget", "snap", "write"},
         key   : Keys,
         rec   : Ids \cup {None},
         after : {"fetch", "idle"}]

SomeKey == CHOOSE k \in Keys : TRUE
Idle == [op |-> "none", stage |-> "idle", key |-> SomeKey, rec |-> None, after |-> "idle"]

Init ==
    /\ mem = [k \in Keys |-> None]
    /\ createdAt = [i \in Ids |-> 0]
    /\ resolves = 0
    /\ task = [w \in Workers |-> Idle]
    /\ snapshot = [w \in Workers |-> [k \in Keys |-> NoRow]]
    /\ healMu = NoWorker
    /\ playing = {}
    /\ table = [k \in Keys |-> NoRow]
    /\ now = 0
    /\ lastSnap = [k \in Keys |-> None]
    /\ dropped = {}

-----------------------------------------------------------------------------
(* Helpers *)

Remembered == {k \in Keys : mem[k] # None}

\* now.After(rec.createdAt.Add(resolutionTTL))
Expired(at) == now > at + TTL

\* lookupResolution finds a record it may replay.
Replayable(k) == mem[k] # None /\ ~Expired(createdAt[mem[k]])

\* lookupResolution deletes an expired record on the way, without persisting.
LookupDeletes(k) ==
    mem' = [mem EXCEPT ![k] = IF Replayable(k) THEN @ ELSE None]

Start(w, op, stage, k, rec) ==
    task' = [task EXCEPT ![w] =
                [op |-> op, stage |-> stage, key |-> k, rec |-> rec, after |-> "idle"]]

Goto(w, stage) == task' = [task EXCEPT ![w].stage = stage]

\* Into persistResolutions, to continue at `after` when it returns.
Persist(w, after) == task' = [task EXCEPT ![w].stage = "snap", ![w].after = after]

\* Fault: a return that leaves healMu locked.
EndLocked(w) ==
    /\ task' = [task EXCEPT ![w] = Idle]
    /\ UNCHANGED healMu

\* The goroutine ends; a healer's deferred unlock runs.
End(w) ==
    /\ task' = [task EXCEPT ![w] = Idle]
    /\ healMu' = IF healMu = w THEN NoWorker ELSE healMu

\* Fault: the cache is measured before the record is stored.
EvictLate(m, at, m2) ==
    LET kept == {k \in Keys : m[k] # None}
    IN  IF Cardinality(Remembered) <= MaxRecords THEN m2 = m
        ELSE \E k \in kept :
                /\ \A j \in kept : at[m[k]] <= at[m[j]]
                /\ m2 = [m EXCEPT ![k] = None]

\* rememberResolution's eviction: over the cap, the oldest record goes (any of
\* them on a tie, the map has no order).
Evict(m, at, m2) ==
    LET kept == {k \in Keys : m[k] # None}
    IN  IF Cardinality(kept) <= MaxRecords THEN m2 = m
        ELSE \E k \in kept :
                /\ \A j \in kept : at[m[k]] <= at[m[j]]
                /\ m2 = [m EXCEPT ![k] = None]

-----------------------------------------------------------------------------
(* Resolving and remembering *)

\* A resolve chain of the title starts (single-flighted per key by Resolve).
StartResolve(w, k) ==
    /\ task[w].op = "none"
    /\ ~\E v \in Workers : task[v].op = "resolve" /\ task[v].key = k
    /\ Start(w, "resolve", "fetch", k, None)
    /\ UNCHANGED <<mem, recordVars, snapshot, healMu, playing, table, now, lastSnap, dropped>>

\* prewarmNextEpisode: nothing to do when the record exists or another prewarm
\* of the key is busy.
StartPrewarm(w, k) ==
    /\ task[w].op = "none"
    /\ ~Replayable(k)
    /\ ~\E v \in Workers : task[v].op = "prewarm" /\ task[v].key = k
    /\ LookupDeletes(k)
    /\ Start(w, "prewarm", "fetch", k, None)
    /\ UNCHANGED <<recordVars, snapshot, healMu, playing, table, now, lastSnap, dropped>>

\* The provider answers with a link: a new record.
FetchSucceeds(w) ==
    /\ task[w].stage = "fetch"
    /\ resolves < MaxResolves
    /\ resolves' = resolves + 1
    /\ task' = [task EXCEPT ![w].stage = "remember", ![w].rec = resolves + 1]
    /\ UNCHANGED <<mem, createdAt, snapshot, healMu, playing, table, now, lastSnap, dropped>>

FetchFails(w) ==
    /\ task[w].stage = "fetch"
    /\ End(w)
    /\ UNCHANGED <<mem, recordVars, snapshot, playing, table, now, lastSnap, dropped>>

\* rememberResolution stamps the record before it takes r.mu: others may stamp and
\* store theirs in between.  A resolve has minted its session.
Stamp(w) ==
    /\ task[w].stage = "remember"
    /\ createdAt' = [createdAt EXCEPT ![task[w].rec] = now]
    /\ playing' = IF task[w].op = "resolve" THEN playing \cup {task[w].key} ELSE playing
    /\ Goto(w, "store")
    /\ UNCHANGED <<mem, resolves, snapshot, healMu, table, now, lastSnap, dropped>>

\* Under r.mu: store and evict, which may hit the record stored if its stamp is old.
Remember(w) ==
    /\ task[w].stage = "store"
    /\ Evict([mem EXCEPT ![task[w].key] = task[w].rec], createdAt, mem')
    /\ Persist(w, "idle")
    /\ UNCHANGED <<recordVars, snapshot, healMu, playing, table, now, lastSnap, dropped>>

-----------------------------------------------------------------------------
(* Replaying and healing *)

\* tryCachedResolution: a session is minted from the record at once, and the
\* goroutine that validates it is started with that record.
Hit(w, k) ==
    /\ task[w].op = "none"
    /\ Replayable(k)
    /\ playing' = playing \cup {k}
    /\ Start(w, "heal", "lock", k, mem[k])
    /\ UNCHANGED <<mem, recordVars, snapshot, healMu, table, now, lastSnap, dropped>>

\* A lookup that finds the record too old.
LookupExpired(k) ==
    /\ mem[k] # None
    /\ ~Replayable(k)
    /\ LookupDeletes(k)
    /\ UNCHANGED <<recordVars, task, snapshot, healMu, playing, table, now, lastSnap, dropped>>

LockHeal(w) ==
    /\ task[w].stage = "lock"
    /\ healMu = NoWorker
    /\ healMu' = w
    /\ Goto(w, "validate")
    /\ UNCHANGED <<mem, recordVars, snapshot, playing, table, now, lastSnap, dropped>>

\* validateRecord: the link answers as it should, or it rotated, or the fetch
\* failed.
Validate(w) ==
    /\ task[w].stage = "validate"
    /\ Goto(w, "extend") \/ Goto(w, "forget")
    /\ UNCHANGED <<mem, recordVars, snapshot, healMu, playing, table, now, lastSnap, dropped>>

\* Fault: the healer stores its record again instead of stamping it.
ExtendByStoring(w) ==
    /\ task[w].stage = "extend"
    /\ createdAt' = [createdAt EXCEPT ![task[w].rec] = now]
    /\ mem' = [mem EXCEPT ![task[w].key] = task[w].rec]
    /\ Persist(w, "idle")
    /\ UNCHANGED <<resolves, snapshot, healMu, playing, table, now, lastSnap, dropped>>

\* rec.createdAt = time.Now() on the healer's own record.
Extend(w) ==
    /\ task[w].stage = "extend"
    /\ createdAt' = [createdAt EXCEPT ![task[w].rec] = now]
    /\ End(w)
    /\ UNCHANGED <<mem, resolves, snapshot, playing, table, now, lastSnap, dropped>>

\* Fault: the stale record dropped from memory only.
ForgetInMemory(w) ==
    /\ task[w].stage = "forget"
    /\ mem' = [mem EXCEPT ![task[w].key] = None]
    /\ dropped' = dropped \cup ({mem[task[w].key]} \ {None})
    /\ Goto(w, "fetch")
    /\ UNCHANGED <<createdAt, resolves, snapshot, healMu, playing, table, now, lastSnap>>

\* forgetResolution deletes whatever the key holds by now, then a re-resolve.
ForgetStale(w) ==
    /\ task[w].stage = "forget"
    /\ mem' = [mem EXCEPT ![task[w].key] = None]
    /\ dropped' = dropped \cup ({mem[task[w].key]} \ {None})
    /\ Persist(w, "fetch")
    /\ UNCHANGED <<recordVars, snapshot, healMu, playing, table, now, lastSnap>>

\* InvalidateResolution, from the player behind a live session of the title.
Invalidate(w, k) ==
    /\ task[w].op = "none"
    /\ k \in playing
    /\ mem' = [mem EXCEPT ![k] = None]
    /\ dropped' = dropped \cup ({mem[k]} \ {None})
    /\ Start(w, "invalidate", "snap", k, None)
    /\ UNCHANGED <<recordVars, snapshot, healMu, playing, table, now, lastSnap>>

-----------------------------------------------------------------------------
(* persistResolutions, restart and the world *)

\* Under r.mu: copy the map.
Snap(w) ==
    /\ task[w].stage = "snap"
    /\ snapshot' = [snapshot EXCEPT ![w] =
                      [k \in Keys |-> IF mem[k] = None THEN NoRow
                                      ELSE [id |-> mem[k], at |-> createdAt[mem[k]]]]]
    /\ lastSnap' = mem
    /\ Goto(w, "write")
    /\ UNCHANGED <<mem, recordVars, healMu, playing, table, now, dropped>>

\* Under persistMu: replace the table in one transaction; an error is logged.
Write(w) ==
    /\ task[w].stage = "write"
    /\ \/ table' = snapshot[w]
       \/ WritesMayFail /\ UNCHANGED table
    /\ snapshot' = [snapshot EXCEPT ![w] = [k \in Keys |-> NoRow]]
    /\ \/ task[w].after = "idle" /\ End(w)
       \/ task[w].after = "fetch" /\ Goto(w, "fetch") /\ UNCHANGED healMu
    /\ UNCHANGED <<mem, recordVars, playing, now, lastSnap, dropped>>

\* The process dies at any point; New loads the rows within their TTL.
Restart ==
    /\ mem' = [k \in Keys |-> IF Expired(table[k].at) THEN None ELSE table[k].id]
    /\ createdAt' = [i \in Ids |->
                       IF \E k \in Keys : table[k].id = i
                       THEN table[CHOOSE k \in Keys : table[k].id = i].at
                       ELSE createdAt[i]]
    /\ task' = [w \in Workers |-> Idle]
    /\ snapshot' = [w \in Workers |-> [k \in Keys |-> NoRow]]
    /\ healMu' = NoWorker
    /\ playing' = {}
    /\ lastSnap' = mem'
    /\ dropped' = {}
    /\ UNCHANGED <<resolves, table, now>>

Tick ==
    /\ now < MaxTime
    /\ now' = now + 1
    /\ UNCHANGED <<mem, recordVars, task, snapshot, healMu, playing, table, lastSnap, dropped>>

\* What a running goroutine does next.
Work(w) ==
    \/ FetchSucceeds(w) \/ FetchFails(w) \/ Stamp(w) \/ Remember(w)
    \/ LockHeal(w) \/ Validate(w) \/ Extend(w) \/ ForgetStale(w)
    \/ Snap(w) \/ Write(w)

Next ==
    \/ \E w \in Workers :
          \/ Work(w)
          \/ \E k \in Keys :
                StartResolve(w, k) \/ StartPrewarm(w, k) \/ Hit(w, k) \/ Invalidate(w, k)
    \/ \E k \in Keys : LookupExpired(k)
    \/ Tick
    \/ Restart

Spec == Init /\ [][Next]_vars

\* A resolve of cinesrc may end up on the page of the warm worker, behind its lock:
\* neither has a deadline.
MayHang(w) == task[w].stage = "fetch" /\ task[w].key \in CinesrcKeys

\* Goroutines run, all other upstream calls carry timeouts (15s, 30s), and a sync.Mutex
\* hands itself to a waiter that starves.
Fairness == \A w \in Workers : WF_vars(~MayHang(w) /\ Work(w)) /\ SF_vars(LockHeal(w))

FairSpec == Spec /\ Fairness

-----------------------------------------------------------------------------
(* Properties *)

TypeOK ==
    /\ mem \in [Keys -> Ids \cup {None}]
    /\ createdAt \in [Ids -> 0..MaxTime]
    /\ resolves \in 0..MaxResolves
    /\ task \in [Workers -> Task]
    /\ snapshot \in [Workers -> [Keys -> Row]]
    /\ healMu \in Workers \cup {NoWorker}
    /\ playing \in SUBSET Keys
    /\ table \in [Keys -> Row]
    /\ now \in 0..MaxTime
    /\ lastSnap \in [Keys -> Ids \cup {None}]
    /\ dropped \in SUBSET Ids

Rows(t) == {k \in Keys : t[k].id # None}

\* The cache and its table stay within maxResolutionRecords, whatever resolves,
\* prewarms and heals store concurrently and whatever a restart loads
\* (rememberResolution's cap).
WithinCap ==
    /\ Cardinality(Remembered) <= MaxRecords
    /\ Cardinality(Rows(table)) <= MaxRecords
    /\ \A w \in Workers : Cardinality(Rows(snapshot[w])) <= MaxRecords

\* Every deliberate change of the map reaches a snapshot: with no snapshot due,
\* the newest one taken holds what memory holds, except for a record a lookup
\* found too old, and never a record thrown out on purpose
\* (rememberResolution, forgetResolution and InvalidateResolution all persist;
\* lookupResolution does not).
SnapshotsKeepUp ==
    (\A w \in Workers : task[w].stage # "snap") =>
        \A k \in Keys : lastSnap[k] # mem[k] =>
            mem[k] = None /\ lastSnap[k] \notin dropped

\* Heals are serialized: the work after the lock belongs to the mutex's holder,
\* and no path out of validateAndHeal keeps it.
HealMuHeld ==
    \A w \in Workers :
        healMu = w <=> task[w].op = "heal" /\ task[w].stage # "lock"

\* While the server runs, a record that validation or the player threw out is
\* never replayed again, not even by a healer that was validating it when it
\* went: what comes back under its key is a new resolve.
DroppedStayOut == \A k \in Keys : mem[k] \notin dropped

\* Every healer comes to an end, if no resolve of cinesrc hangs for ever, so one title
\* that is slow to validate cannot stop the others from being revalidated.
HealersFinish ==
    (\A w \in Workers : []<>~MayHang(w))
        => \A w \in Workers : task[w].op = "heal" ~> task[w].op # "heal"

\* "a synchronous write keeps the code simple and the table always consistent
\* with memory" (persistResolutions): with no write under way, every row a
\* restart would load is the record in memory.
TableMatchesMemory ==
    (\A w \in Workers : task[w].stage \notin {"snap", "write"}) =>
        \A k \in Keys :
            table[k].id # None /\ ~Expired(table[k].at) => table[k].id = mem[k]

=============================================================================
