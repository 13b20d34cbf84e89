--------------------------- MODULE ProxySessions ---------------------------
(***************************************************************************)
(* The proxy sessions: r.sessions, the read-ahead pipeline (streamWarmer)  *)
(* each session carries, and everyone who touches them: resolves that mint *)
(* a session, player requests, the healer that swaps a source, the admin   *)
(* dashboard, the sweeper and Close.  A goroutine holds its session by     *)
(* pointer once it has looked it up, whatever r.sessions does meanwhile.   *)
(***************************************************************************)
EXTENDS Integers, FiniteSets

CONSTANTS
    Workers,      \* goroutines of requests, heals and admin calls
    Sweeper,      \* the ticker goroutine of New
    Tokens,       \* session tokens
    Viewers,      \* client addresses
    MaxSessions,  \* r.maxSessions()
    TTL,          \* r.sessionTTL(), in ticks
    MaxSwaps,     \* bound: hot swaps of one session
    NoViewer

ASSUME SessionAssumption ==
    /\ IsFiniteSet(Tokens)
    /\ MaxSessions \in Nat \ {0}
    /\ TTL \in Nat \ {0}
    /\ MaxSwaps \in Nat
    /\ Sweeper \notin Workers
    /\ NoViewer \notin Viewers

VARIABLES
    sessions,  \* SUBSET Tokens           r.sessions
    minted,    \* SUBSET Tokens           tokens handed out so far
    left,      \* [Tokens -> 0..TTL]      ticks before s.expiresAt; 0: expired
    warmer,    \* [Tokens -> generation]  s.warmer, 0 for nil
    started,   \* [Tokens -> generation]  pipelines started for the session
    swaps,     \* [Tokens -> 0..MaxSwaps] hot swaps of the session
    live,      \* pipelines whose context is not cancelled
    viewer,    \* [Tokens -> viewer]      s.clientIP
    paused,    \* SUBSET Tokens           s.paused
    blocked,   \* SUBSET Viewers          r.blockedIPs
    closed,    \* r.closed
    task,      \* [Procs -> Task]         what each goroutine is doing
    stopped    \* history: tokens whose StopStream returned

sessionVars == <<sessions, minted, left>>
warmerVars == <<warmer, started, swaps, live>>
adminVars == <<paused, blocked>>
vars == <<sessions, minted, left, warmer, started, swaps, live,
          viewer, paused, blocked, closed, task, stopped>>

Procs == Workers \cup {Sweeper}

\* A session starts one pipeline, and one more after each swap.
Generations == 1..(MaxSwaps + 1)
Pipelines == Tokens \X Generations
None == 0

Holds == {"blocked", "paused"}

\* toks: the sessions held by pointer.  kill: pipelines whose CancelFunc was
\* collected.  from, holds: the client of a player request, and the
\* administrative holds in force over it ever since it arrived.
Task == [op    : {"none", "mint", "proxy", "stop", "block", "swap", "sweep", "close"},
         stage : {"idle", "find", "touch", "check", "ensure", "cancel", "kill"},
         toks  : SUBSET Tokens,
         kill  : SUBSET Pipelines,
         from  : Viewers \cup {NoViewer},
         holds : SUBSET Holds]

Idle == [op |-> "none", stage |-> "idle", toks |-> {}, kill |-> {},
         from |-> NoViewer, holds |-> {}]

Init ==
    /\ sessions = {}
    /\ minted = {}
    /\ left = [t \in Tokens |-> 0]
    /\ warmer = [t \in Tokens |-> None]
    /\ started = [t \in Tokens |-> 0]
    /\ swaps = [t \in Tokens |-> 0]
    /\ live = {}
    /\ viewer = [t \in Tokens |-> NoViewer]
    /\ paused = {}
    /\ blocked = {}
    /\ closed = FALSE
    /\ task = [p \in Procs |-> Idle]
    /\ stopped = {}

-----------------------------------------------------------------------------
(* Helpers *)

Free(p) == task[p].op = "none"

Expired == {t \in sessions : left[t] = 0}

\* The pipelines the sessions in T carry right now.
Carried(T) == {pl \in Pipelines : pl[1] \in T /\ pl[2] = warmer[pl[1]]}

\* The reading of r.sessions[token] every findSession caller does.
Usable(t) == t \in sessions /\ left[t] > 0

Start(p, op, stage, toks) ==
    task' = [task EXCEPT ![p] = [Idle EXCEPT !.op = op, !.stage = stage, !.toks = toks]]

\* Unlock r.mu and call the collected CancelFuncs next.
StartKill(p, op, toks, pls) ==
    task' = [task EXCEPT ![p] =
               [Idle EXCEPT !.op = op, !.stage = "kill", !.toks = toks, !.kill = pls]]

Goto(p, stage) == task' = [task EXCEPT ![p].stage = stage]

Finish(p) == task' = [task EXCEPT ![p] = Idle]

\* A hold that is lifted no longer binds the requests it caught.
Lift(hold, caught) ==
    task' = [p \in Procs |->
               IF p \in caught THEN [task[p] EXCEPT !.holds = @ \ {hold}] ELSE task[p]]

-----------------------------------------------------------------------------
(* Resolves *)

\* Fault: the cap compared with > instead of >=.
MintOverCap(p, t) ==
    LET kept == sessions \ Expired
    IN  /\ Free(p)
        /\ ~closed
        /\ t \notin minted
        /\ Cardinality(kept) <= MaxSessions
        /\ sessions' = kept \cup {t}
        /\ minted' = minted \cup {t}
        /\ left' = [left EXCEPT ![t] = TTL]
        /\ live' = live \ Carried(Expired)
        /\ Start(p, "mint", "find", {t})
        /\ UNCHANGED <<warmer, started, swaps, viewer, adminVars, closed, stopped>>

\* newSession: expired sessions go, their pipelines are cancelled under the
\* lock, and the cap decides.  At the cap the CancelFuncs are not called.
Mint(p, t) ==
    LET kept == sessions \ Expired
    IN  /\ Free(p)
        /\ ~closed
        /\ t \notin minted
        /\ \/ /\ Cardinality(kept) < MaxSessions
              /\ sessions' = kept \cup {t}
              /\ minted' = minted \cup {t}
              /\ left' = [left EXCEPT ![t] = TTL]
              /\ live' = live \ Carried(Expired)
              /\ Start(p, "mint", "find", {t})
           \/ /\ Cardinality(kept) >= MaxSessions
              /\ sessions' = kept
              /\ UNCHANGED <<minted, left, live, task>>
        /\ UNCHANGED <<warmer, started, swaps, viewer, adminVars, closed, stopped>>

\* startWarmup looks the token up again.
FindMinted(p) ==
    /\ task[p].stage = "find"
    /\ IF task[p].toks \subseteq sessions THEN Goto(p, "ensure") ELSE Finish(p)
    /\ UNCHANGED <<sessionVars, warmerVars, viewer, adminVars, closed, stopped>>

\* Fault: ensureWarmer tests neither s.warmer nor r.closed.
EnsureWarmerAlways(p) ==
    /\ task[p].stage = "ensure"
    /\ \E t \in task[p].toks :
          /\ started[t] < MaxSwaps + 1
          /\ started' = [started EXCEPT ![t] = @ + 1]
          /\ warmer' = [warmer EXCEPT ![t] = started[t] + 1]
          /\ live' = live \cup {<<t, started[t] + 1>>}
    /\ Finish(p)
    /\ UNCHANGED <<sessionVars, swaps, viewer, adminVars, closed, stopped>>

\* ensureWarmer, on the session the goroutine holds.
EnsureWarmer(p) ==
    /\ task[p].stage = "ensure"
    /\ \E t \in task[p].toks :
          \/ /\ warmer[t] = None
             /\ ~closed
             /\ started' = [started EXCEPT ![t] = @ + 1]
             /\ warmer' = [warmer EXCEPT ![t] = started[t] + 1]
             /\ live' = live \cup {<<t, started[t] + 1>>}
          \/ /\ warmer[t] # None \/ closed
             /\ UNCHANGED <<started, warmer, live>>
    /\ Finish(p)
    /\ UNCHANGED <<sessionVars, swaps, viewer, adminVars, closed, stopped>>

-----------------------------------------------------------------------------
(* Player requests *)

\* Proxy, under r.mu: an expired session is deleted and the request refused;
\* otherwise the expiry slides.
Lookup(p, t, v) ==
    /\ Free(p)
    /\ t \in sessions
    /\ \/ /\ left[t] = 0
          /\ sessions' = sessions \ {t}
          /\ UNCHANGED <<left, task>>
       \/ /\ left[t] > 0
          /\ left' = [left EXCEPT ![t] = TTL]
          /\ task' = [task EXCEPT ![p] =
                        [op |-> "proxy", stage |-> "touch", toks |-> {t}, kill |-> {},
                         from |-> v,
                         holds |-> {h \in Holds : \/ h = "blocked" /\ v \in blocked
                                                  \/ h = "paused" /\ t \in paused}]]
          /\ UNCHANGED sessions
    /\ UNCHANGED <<minted, warmerVars, viewer, adminVars, closed, stopped>>

\* streamTouch
Touch(p) ==
    /\ task[p].stage = "touch"
    /\ viewer' = [t \in Tokens |-> IF t \in task[p].toks THEN task[p].from ELSE viewer[t]]
    /\ Goto(p, "check")
    /\ UNCHANGED <<sessionVars, warmerVars, adminVars, closed, stopped>>

\* Fault: the block tested on the session's recorded address, which another
\* viewer of the session overwrites.
CheckRecordedViewer(p) ==
    /\ task[p].stage = "check"
    /\ IF \E t \in task[p].toks : viewer[t] \in blocked \/ t \in paused
       THEN Finish(p)
       ELSE Goto(p, "ensure")
    /\ UNCHANGED <<sessionVars, warmerVars, viewer, adminVars, closed, stopped>>

\* ErrStreamBlocked, ErrStreamPaused, or on to ensureWarmer and the upstream.
Check(p) ==
    /\ task[p].stage = "check"
    /\ IF task[p].from \in blocked \/ task[p].toks \cap paused # {}
       THEN Finish(p)
       ELSE Goto(p, "ensure")
    /\ UNCHANGED <<sessionVars, warmerVars, viewer, adminVars, closed, stopped>>

-----------------------------------------------------------------------------
(* The healer, the dashboard, the sweeper and Close *)

\* hotSwapSession, under r.mu: the new source, and the old pipeline detached.
Swap(p, t) ==
    /\ Free(p)
    /\ t \in sessions
    /\ swaps[t] < MaxSwaps
    /\ swaps' = [swaps EXCEPT ![t] = @ + 1]
    /\ warmer' = [warmer EXCEPT ![t] = None]
    /\ StartKill(p, "swap", {t}, Carried({t}))
    /\ UNCHANGED <<sessionVars, started, live, viewer, adminVars, closed, stopped>>

\* Call the collected CancelFuncs; the healer then re-warms its session.
Kill(p) ==
    /\ task[p].stage = "kill"
    /\ live' = live \ task[p].kill
    /\ IF task[p].op = "swap"
       THEN task' = [task EXCEPT ![p].stage = "ensure", ![p].kill = {}]
       ELSE Finish(p)
    /\ UNCHANGED <<sessionVars, warmer, started, swaps, viewer, adminVars, closed, stopped>>

\* StopStream, also behind RetireStream: delete under r.mu ...
Stop(p, t) ==
    /\ Free(p)
    /\ t \in sessions
    /\ sessions' = sessions \ {t}
    /\ Start(p, "stop", "cancel", {t})
    /\ UNCHANGED <<minted, left, warmerVars, viewer, adminVars, closed, stopped>>

\* BlockIP, BlockStream: record the block and delete the address's sessions
\* under r.mu ...
Block(p, v) ==
    LET stops == {t \in sessions : viewer[t] = v}
    IN  /\ Free(p)
        /\ blocked' = blocked \cup {v}
        /\ sessions' = sessions \ stops
        /\ Start(p, "block", "cancel", stops)
        /\ UNCHANGED <<minted, left, warmerVars, viewer, paused, closed, stopped>>

\* ... then cancel the pipeline each of them carries by now.
CancelCurrent(p) ==
    /\ task[p].stage = "cancel"
    /\ live' = live \ Carried(task[p].toks)
    /\ stopped' = IF task[p].op = "stop" THEN stopped \cup task[p].toks ELSE stopped
    /\ Finish(p)
    /\ UNCHANGED <<sessionVars, warmer, started, swaps, viewer, adminVars, closed>>

Unblock(v) ==
    /\ v \in blocked
    /\ blocked' = blocked \ {v}
    /\ Lift("blocked", {p \in Procs : task[p].from = v})
    /\ UNCHANGED <<sessionVars, warmerVars, viewer, paused, closed, stopped>>

PauseStream(t) ==
    /\ Usable(t)
    /\ t \notin paused
    /\ paused' = paused \cup {t}
    /\ UNCHANGED <<sessionVars, warmerVars, viewer, blocked, closed, task, stopped>>

ResumeStream(t) ==
    /\ Usable(t)
    /\ t \in paused
    /\ paused' = paused \ {t}
    /\ Lift("paused", {p \in Procs : t \in task[p].toks})
    /\ UNCHANGED <<sessionVars, warmerVars, viewer, blocked, closed, stopped>>

\* Fault: the sweep cancels the pipelines and keeps the sessions.
SweepKeeping ==
    /\ Free(Sweeper)
    /\ ~closed
    /\ Expired # {}
    /\ StartKill(Sweeper, "sweep", {}, Carried(Expired))
    /\ UNCHANGED <<sessionVars, warmerVars, viewer, adminVars, closed, stopped>>

\* The five-minute tick.
Sweep ==
    /\ Free(Sweeper)
    /\ ~closed
    /\ Expired # {}
    /\ sessions' = sessions \ Expired
    /\ StartKill(Sweeper, "sweep", {}, Carried(Expired))
    /\ UNCHANGED <<minted, left, warmerVars, viewer, adminVars, closed, stopped>>

Close(p) ==
    /\ Free(p)
    /\ ~closed
    /\ closed' = TRUE
    /\ sessions' = {}
    /\ StartKill(p, "close", {}, Carried(sessions))
    /\ UNCHANGED <<minted, left, warmerVars, viewer, adminVars, stopped>>

Tick ==
    /\ \E t \in sessions : left[t] > 0
    /\ left' = [t \in Tokens |-> IF t \in sessions /\ left[t] > 0 THEN left[t] - 1 ELSE left[t]]
    /\ UNCHANGED <<sessions, minted, warmerVars, viewer, adminVars, closed, task, stopped>>

\* What a running goroutine does next.
Work(p) ==
    FindMinted(p) \/ EnsureWarmer(p) \/ Touch(p) \/ Check(p) \/ Kill(p) \/ CancelCurrent(p)

Next ==
    \/ \E p \in Workers :
          \/ Close(p)
          \/ \E t \in Tokens : Mint(p, t) \/ Swap(p, t) \/ Stop(p, t)
          \/ \E t \in Tokens, v \in Viewers : Lookup(p, t, v)
          \/ \E v \in Viewers : Block(p, v)
    \/ \E p \in Procs : Work(p)
    \/ \E v \in Viewers : Unblock(v)
    \/ \E t \in Tokens : PauseStream(t) \/ ResumeStream(t)
    \/ Sweep \/ Tick

Spec == Init /\ [][Next]_vars

\* Go runs every goroutine that is not blocked, and the ticker keeps firing.
\* Nobody is obliged to play, pause, block or close anything.
Fairness == WF_vars(Sweep) /\ \A p \in Procs : WF_vars(Work(p))

FairSpec == Spec /\ Fairness

-----------------------------------------------------------------------------
(* Properties *)

TypeOK ==
    /\ sessions \in SUBSET Tokens
    /\ minted \in SUBSET Tokens
    /\ left \in [Tokens -> 0..TTL]
    /\ warmer \in [Tokens -> Generations \cup {None}]
    /\ started \in [Tokens -> 0..(MaxSwaps + 1)]
    /\ swaps \in [Tokens -> 0..MaxSwaps]
    /\ live \in SUBSET Pipelines
    /\ viewer \in [Tokens -> Viewers \cup {NoViewer}]
    /\ paused \in SUBSET Tokens
    /\ blocked \in SUBSET Viewers
    /\ closed \in BOOLEAN
    /\ task \in [Procs -> Task]
    /\ stopped \in SUBSET Tokens

\* The session cap holds however resolves, stops and expiries race (newSession:
\* "enforce the session cap after evicting expired sessions").
WithinCap == Cardinality(sessions) <= MaxSessions

\* A session never runs two read-ahead pipelines: one that is not the session's
\* current pipeline is cancelled, or its CancelFunc is about to be called
\* (hotSwapSession against ensureWarmer, StopStream and Close).
OnePipeline ==
    \A pl \in live :
        \/ warmer[pl[1]] = pl[2]
        \/ \E p \in Procs : pl \in task[p].kill

\* A player request that arrives under a pause or a block which is not lifted
\* before it is decided gets no further than the check (PauseStream: "every
\* player request is refused until ResumeStream"; BlockIP: "every present and
\* future stream"), even when viewers share the session.
HeldRequestsRefused ==
    \A p \in Procs :
        task[p].op = "proxy" /\ task[p].stage = "ensure" => task[p].holds = {}

\* A resolve, heal or request in flight when Close ran brings back neither a
\* session nor a read-ahead (the comment in newSession, the guard in
\* ensureWarmer).
ClosedAddsNothing ==
    [][closed => sessions' = {} /\ live' \subseteq live]_vars

\* An abandoned session leaves the table, so that it stops counting against the
\* cap: the sweeper's purpose.
ExpiredSessionsGo ==
    \A t \in Tokens : t \in Expired ~> t \notin sessions

\* "StopStream kills the session behind token: the read-ahead pipeline is
\* cancelled": once it has returned, no pipeline of the session runs.
StoppedIsCancelled ==
    \A pl \in live : pl[1] \notin stopped

=============================================================================
