------------------------ MODULE ProxySessionsProofs ------------------------
(***************************************************************************)
(* Safety of the proxy sessions for every set of goroutines, tokens and    *)
(* viewers and every cap.  What makes the checked invariants inductive: a  *)
(* collected CancelFunc belongs to a goroutine that is about to call it, a *)
(* hold recorded for a request is still in force, and a session starts one *)
(* pipeline more than it was swapped.  Then the same for the external      *)
(* subtitles of one session, which Renditions models.                      *)
(***************************************************************************)
EXTENDS ProxySessions, Renditions, FiniteSetTheorems, SequenceTheorems,
        WellFoundedInduction, TLAPS

\* Only a goroutine about to call them has CancelFuncs to call.
KillIsPending == \A p \in Procs : task[p].kill # {} => task[p].stage = "kill"

\* A goroutine without an operation is at rest, and only a resolve looks its
\* minted session up again.
StageFits ==
    \A p \in Procs :
        /\ task[p].op = "none" => task[p].stage = "idle"
        /\ task[p].stage = "find" => task[p].op = "mint"

\* A hold recorded for a request binds it still.
HoldsInForce ==
    \A p \in Procs :
        /\ "blocked" \in task[p].holds => task[p].from \in blocked
        /\ "paused" \in task[p].holds => task[p].toks \cap paused # {}

\* A session has started at most one pipeline more than it was swapped, and
\* none more while it carries none.
StartedBound ==
    \A t \in Tokens :
        /\ started[t] <= swaps[t] + 1
        /\ warmer[t] = None => started[t] <= swaps[t]

ClosedIsEmpty == closed => sessions = {}

IInv ==
    /\ TypeOK
    /\ KillIsPending
    /\ StageFits
    /\ HoldsInForce
    /\ StartedBound
    /\ ClosedIsEmpty
    /\ WithinCap
    /\ OnePipeline
    /\ HeldRequestsRefused

-----------------------------------------------------------------------------
(* Sets of sessions are finite, and shrinking them keeps the cap. *)

LEMMA SessionsFinite ==
    ASSUME NEW S \in SUBSET Tokens
    PROVE  IsFiniteSet(S) /\ Cardinality(S) \in Nat
BY SessionAssumption, FS_Subset, FS_CardinalityType

LEMMA CapShrinks ==
    ASSUME TypeOK, WithinCap, sessions' \subseteq sessions
    PROVE  WithinCap'
<1>1. Cardinality(sessions') <= Cardinality(sessions)
  BY SessionsFinite, FS_Subset DEF TypeOK
<1>2. Cardinality(sessions') \in Nat /\ Cardinality(sessions) \in Nat
  BY SessionsFinite DEF TypeOK
<1>3. QED
  BY <1>1, <1>2, SessionAssumption DEF WithinCap

-----------------------------------------------------------------------------
(* What one goroutine does to the task table *)

\* The task of goroutine p is replaced; the new one is well formed and takes
\* over every CancelFunc the old one had not called.
TaskStep(p, new) ==
    /\ p \in Procs
    /\ task' = [task EXCEPT ![p] = new]
    /\ new \in Task
    /\ new.kill # {} => new.stage = "kill"
    /\ new.op = "none" => new.stage = "idle"
    /\ new.stage = "find" => new.op = "mint"

\* The invariants that only speak of tasks and holds survive a step that
\* leaves pauses and blocks in force.
LEMMA TaskInv ==
    ASSUME IInv, NEW p, NEW new, TaskStep(p, new),
           blocked \subseteq blocked', UNCHANGED paused,
           "blocked" \in new.holds => new.from \in blocked,
           "paused" \in new.holds => new.toks \cap paused # {},
           new.op = "proxy" /\ new.stage = "ensure" => new.holds = {}
    PROVE  /\ task' \in [Procs -> Task]
           /\ KillIsPending'
           /\ StageFits'
           /\ HoldsInForce'
           /\ HeldRequestsRefused'
<1> USE DEF IInv, TypeOK, TaskStep
<1>1. task' \in [Procs -> Task]
  OBVIOUS
<1>2. \A q \in Procs : task'[q] = IF q = p THEN new ELSE task[q]
  OBVIOUS
<1>3. KillIsPending' /\ StageFits'
  BY <1>2 DEF KillIsPending, StageFits
<1>4. HoldsInForce'
  BY <1>2 DEF HoldsInForce
<1>5. HeldRequestsRefused'
  BY <1>2 DEF HeldRequestsRefused
<1>6. QED
  BY <1>1, <1>3, <1>4, <1>5

\* A session never runs two pipelines after a step that starts none and loses
\* no CancelFunc.
LEMMA PipelinesKept ==
    ASSUME OnePipeline, live' \subseteq live, UNCHANGED warmer,
           \A p \in Procs : \A pl \in task[p].kill :
              pl \notin live' \/ \E q \in Procs : pl \in task'[q].kill
    PROVE  OnePipeline'
BY DEF OnePipeline

-----------------------------------------------------------------------------
(* Steps that start nothing *)

\* A step of goroutine p that mints no session, starts no pipeline and lifts no
\* hold: most of them are of this kind.
QuietStep(p, new) ==
    /\ TaskStep(p, new)
    /\ blocked' \in SUBSET Viewers /\ blocked \subseteq blocked'
    /\ "blocked" \in new.holds => new.from \in blocked
    /\ "paused" \in new.holds => new.toks \cap paused # {}
    /\ new.op = "proxy" /\ new.stage = "ensure" => new.holds = {}
    /\ sessions' \subseteq sessions
    /\ closed' \in BOOLEAN /\ (closed' => sessions' = {})
    /\ live' \subseteq live /\ task[p].kill \cap live' \subseteq new.kill
    /\ left' \in [Tokens -> 0..TTL]
    /\ viewer' \in [Tokens -> Viewers \cup {NoViewer}]
    /\ stopped' \in SUBSET Tokens
    /\ UNCHANGED <<minted, paused, warmer, started, swaps>>

LEMMA QuietInv == ASSUME IInv, NEW p, NEW new, QuietStep(p, new) PROVE IInv'
<1> USE DEF QuietStep
<1>1. task' \in [Procs -> Task] /\ KillIsPending' /\ StageFits' /\ HoldsInForce'
      /\ HeldRequestsRefused'
  BY TaskInv
<1>2. TypeOK'
  BY <1>1 DEF IInv, TypeOK
<1>3. WithinCap'
  BY CapShrinks DEF IInv
<1>4. OnePipeline'
  <2>1. \A q \in Procs : \A pl \in task[q].kill :
           pl \notin live' \/ \E o \in Procs : pl \in task'[o].kill
    BY DEF TaskStep, IInv, TypeOK
  <2>2. QED
    BY <2>1, PipelinesKept DEF IInv
<1>5. StartedBound' /\ ClosedIsEmpty'
  BY DEF IInv, StartedBound, ClosedIsEmpty
<1>6. QED
  BY <1>1, <1>2, <1>3, <1>4, <1>5 DEF IInv

\* The shapes a goroutine's task can take next.
LEMMA IdleTask == Idle \in Task /\ Idle.kill = {} /\ Idle.holds = {} /\ Idle.op = "none"
                  /\ Idle.stage = "idle"
BY DEF Idle, Task

LEMMA FreeTask ==
    ASSUME IInv, NEW p \in Procs, Free(p)
    PROVE  task[p].kill = {} /\ task[p] \in Task
BY DEF IInv, TypeOK, Free, StageFits, KillIsPending

LEMMA FinishQuiet ==
    ASSUME IInv, NEW p \in Procs, Finish(p), task[p].kill \cap live' = {},
           sessions' \subseteq sessions, live' \subseteq live, stopped' \in SUBSET Tokens,
           UNCHANGED <<minted, left, warmer, started, swaps, viewer, paused, blocked, closed>>
    PROVE  IInv'
<1>1. TaskStep(p, Idle)
  BY IdleTask DEF TaskStep, Finish
<1>2. QuietStep(p, Idle)
  BY <1>1, IdleTask DEF QuietStep, IInv, TypeOK, ClosedIsEmpty
<1>3. QED
  BY <1>2, QuietInv

LEMMA GotoQuiet ==
    ASSUME IInv, NEW p \in Procs, NEW stage, Goto(p, stage),
           task[p].op # "none", task[p].kill = {},
           stage \in {"check", "ensure"},
           task[p].op = "proxy" /\ stage = "ensure" => task[p].holds = {},
           viewer' \in [Tokens -> Viewers \cup {NoViewer}],
           UNCHANGED <<sessions, minted, left, warmer, started, swaps, live,
                       paused, blocked, closed, stopped>>
    PROVE  IInv'
<1> DEFINE new == [task[p] EXCEPT !.stage = stage]
<1>1. new \in Task /\ new.kill = {} /\ new.op = task[p].op /\ new.stage = stage
      /\ new.holds = task[p].holds /\ new.from = task[p].from /\ new.toks = task[p].toks
  BY DEF IInv, TypeOK, Task
<1>2. TaskStep(p, new)
  BY <1>1 DEF TaskStep, Goto
<1>3. QuietStep(p, new)
  BY <1>1, <1>2 DEF QuietStep, IInv, TypeOK, HoldsInForce, ClosedIsEmpty
<1> HIDE DEF new
<1>4. QED
  BY <1>3, QuietInv

\* A free goroutine takes up stop, block, sweep or close.
LEMMA StartQuiet ==
    ASSUME IInv, NEW p \in Procs, Free(p), NEW new \in Task,
           task' = [task EXCEPT ![p] = new],
           new.op \notin {"none", "proxy"}, new.holds = {}, new.stage # "find",
           new.kill # {} => new.stage = "kill",
           blocked' \in SUBSET Viewers, blocked \subseteq blocked',
           sessions' \subseteq sessions, closed' \in BOOLEAN, closed' => sessions' = {},
           UNCHANGED <<minted, left, warmer, started, swaps, live, viewer, paused, stopped>>
    PROVE  IInv'
<1>1. TaskStep(p, new)
  BY DEF TaskStep
<1>2. QuietStep(p, new)
  BY <1>1, FreeTask DEF QuietStep, IInv, TypeOK
<1>3. QED
  BY <1>2, QuietInv

-----------------------------------------------------------------------------
(* The invariant holds initially *)

LEMMA InitIInv == Init => IInv
<1> SUFFICES ASSUME Init PROVE IInv
  OBVIOUS
<1> USE DEF Init
<1>1. TypeOK
  <2>1. 0 \in 0..TTL /\ 0 \in 0..(MaxSwaps + 1) /\ 0 \in 0..MaxSwaps
    BY SessionAssumption
  <2>2. task \in [Procs -> Task]
    BY IdleTask
  <2>3. QED
    BY <2>1, <2>2 DEF TypeOK
<1>2. KillIsPending /\ StageFits /\ HoldsInForce /\ HeldRequestsRefused
  BY IdleTask DEF KillIsPending, StageFits, HoldsInForce, HeldRequestsRefused
<1>3. StartedBound /\ ClosedIsEmpty /\ OnePipeline
  BY DEF StartedBound, ClosedIsEmpty, OnePipeline
<1>4. WithinCap
  BY FS_EmptySet, SessionAssumption DEF WithinCap
<1>5. QED
  BY <1>1, <1>2, <1>3, <1>4 DEF IInv

-----------------------------------------------------------------------------
(* Steps of one goroutine that start nothing *)

LEMMA FindMintedInv == ASSUME IInv, NEW p \in Procs, FindMinted(p) PROVE IInv'
<1> USE DEF FindMinted, sessionVars, warmerVars, adminVars
<1>1. task[p].op = "mint" /\ task[p].kill = {}
  BY DEF IInv, StageFits, KillIsPending
<1>2. stopped' \in SUBSET Tokens /\ viewer' \in [Tokens -> Viewers \cup {NoViewer}]
  BY DEF IInv, TypeOK
<1>3. CASE task[p].toks \subseteq sessions
  BY <1>1, <1>2, <1>3, GotoQuiet
<1>4. CASE ~(task[p].toks \subseteq sessions)
  BY <1>1, <1>2, <1>4, FinishQuiet
<1>5. QED
  BY <1>3, <1>4

LEMMA TouchInv == ASSUME IInv, NEW p \in Procs, Touch(p) PROVE IInv'
<1> USE DEF Touch, sessionVars, warmerVars, adminVars
<1>1. task[p].op # "none" /\ task[p].kill = {}
  BY DEF IInv, StageFits, KillIsPending
<1>2. viewer' \in [Tokens -> Viewers \cup {NoViewer}]
  BY DEF IInv, TypeOK, Task
<1>3. QED
  BY <1>1, <1>2, GotoQuiet

LEMMA CheckInv == ASSUME IInv, NEW p \in Procs, Check(p) PROVE IInv'
<1> USE DEF Check, sessionVars, warmerVars, adminVars
<1>1. task[p].op # "none" /\ task[p].kill = {}
  BY DEF IInv, StageFits, KillIsPending
<1>2. stopped' \in SUBSET Tokens /\ viewer' \in [Tokens -> Viewers \cup {NoViewer}]
  BY DEF IInv, TypeOK
<1>3. CASE task[p].from \in blocked \/ task[p].toks \cap paused # {}
  BY <1>1, <1>2, <1>3, FinishQuiet
<1>4. CASE ~(task[p].from \in blocked \/ task[p].toks \cap paused # {})
  <2>1. task[p].holds = {}
    BY <1>4 DEF IInv, HoldsInForce, TypeOK, Task, Holds
  <2>2. QED
    BY <1>1, <1>2, <1>4, <2>1, GotoQuiet
<1>5. QED
  BY <1>3, <1>4

LEMMA CancelCurrentInv == ASSUME IInv, NEW p \in Procs, CancelCurrent(p) PROVE IInv'
<1> USE DEF CancelCurrent, sessionVars, adminVars
<1>1. task[p].kill = {}
  BY DEF IInv, KillIsPending
<1>2. stopped' \in SUBSET Tokens
  BY DEF IInv, TypeOK, Task
<1>3. QED
  BY <1>1, <1>2, FinishQuiet

\* The CancelFuncs are called; a healer goes on to re-warm its session.
LEMMA KillInv == ASSUME IInv, NEW p \in Procs, Kill(p) PROVE IInv'
<1> USE DEF Kill, sessionVars, adminVars
<1> DEFINE new == [task[p] EXCEPT !.stage = "ensure", !.kill = {}]
<1>1. CASE task[p].op = "swap"
  <2>1. /\ new \in Task /\ new.kill = {} /\ new.op = "swap" /\ new.stage = "ensure"
        /\ new.holds = task[p].holds /\ new.from = task[p].from /\ new.toks = task[p].toks
    BY <1>1 DEF IInv, TypeOK, Task
  <2>2. task' = [task EXCEPT ![p] = new]
    BY <1>1 DEF IInv, TypeOK
  <2> HIDE DEF new
  <2>3. TaskStep(p, new)
    BY <2>1, <2>2 DEF TaskStep
  <2>4. QuietStep(p, new)
    BY <2>1, <2>3 DEF QuietStep, IInv, TypeOK, HoldsInForce, ClosedIsEmpty
  <2>5. QED
    BY <2>4, QuietInv
<1>2. CASE task[p].op # "swap"
  <2>1. task[p].kill \cap live' = {} /\ stopped' \in SUBSET Tokens
    BY DEF IInv, TypeOK
  <2>2. QED
    BY <1>2, <2>1, FinishQuiet
<1>3. QED
  BY <1>1, <1>2

LEMMA LookupInv ==
    ASSUME IInv, NEW p \in Procs, NEW t \in Tokens, NEW v \in Viewers, Lookup(p, t, v)
    PROVE  IInv'
<1> USE DEF Lookup, warmerVars, adminVars
<1> DEFINE holds == {h \in Holds : \/ h = "blocked" /\ v \in blocked
                                   \/ h = "paused" /\ t \in paused}
           new == [op |-> "proxy", stage |-> "touch", toks |-> {t}, kill |-> {},
                   from |-> v, holds |-> holds]
<1>0. task[p].kill = {} /\ task[p] \in Task /\ task[p].op = "none" /\ task[p].stage = "idle"
  BY FreeTask DEF Free, IInv, StageFits
<1>1. CASE left[t] = 0
  <2>1. TaskStep(p, task[p])
    BY <1>0, <1>1 DEF TaskStep, IInv, TypeOK
  <2>2. QuietStep(p, task[p])
    BY <1>0, <1>1, <2>1 DEF QuietStep, IInv, TypeOK, HoldsInForce, ClosedIsEmpty
  <2>3. QED
    BY <2>2, QuietInv
<1>2. CASE left[t] > 0
  <2>1. /\ new \in Task /\ new.kill = {} /\ new.op = "proxy" /\ new.stage = "touch"
        /\ new.from = v /\ new.toks = {t}
        /\ "blocked" \in new.holds => v \in blocked
        /\ "paused" \in new.holds => t \in paused
    BY DEF Task, Holds
  <2>2. task' = [task EXCEPT ![p] = new]
    BY <1>2
  <2> HIDE DEF new
  <2>3. TaskStep(p, new)
    BY <2>1, <2>2 DEF TaskStep
  <2>4. left' \in [Tokens -> 0..TTL]
    BY <1>2, SessionAssumption DEF IInv, TypeOK
  <2>5. QuietStep(p, new)
    BY <1>0, <1>2, <2>1, <2>3, <2>4 DEF QuietStep, IInv, TypeOK, ClosedIsEmpty
  <2>6. QED
    BY <2>5, QuietInv
<1>3. QED
  BY <1>1, <1>2 DEF IInv, TypeOK

\* Carried gives pipelines.
LEMMA CarriedType == ASSUME NEW T PROVE Carried(T) \in SUBSET Pipelines
BY DEF Carried

LEMMA StartCancelInv ==
    ASSUME IInv, NEW p \in Procs, Free(p), NEW op \in {"stop", "block"},
           NEW toks \in SUBSET Tokens, Start(p, op, "cancel", toks),
           blocked' \in SUBSET Viewers, blocked \subseteq blocked',
           sessions' \subseteq sessions,
           UNCHANGED <<minted, left, warmerVars, viewer, paused, closed, stopped>>
    PROVE  IInv'
<1> DEFINE new == [Idle EXCEPT !.op = op, !.stage = "cancel", !.toks = toks]
<1>1. /\ new \in Task /\ new.op = op /\ new.stage = "cancel" /\ new.kill = {}
      /\ new.holds = {}
  BY DEF Task, Idle
<1>2. task' = [task EXCEPT ![p] = new]
  BY DEF Start
<1>3. closed' \in BOOLEAN /\ (closed' => sessions' = {})
  BY DEF IInv, TypeOK, ClosedIsEmpty
<1> HIDE DEF new
<1>4. QED
  BY <1>1, <1>2, <1>3, StartQuiet DEF warmerVars

LEMMA StartKillInv ==
    ASSUME IInv, NEW p \in Procs, Free(p), NEW op \in {"sweep", "close"},
           NEW kill \in SUBSET Pipelines, StartKill(p, op, {}, kill),
           sessions' \subseteq sessions, closed' \in BOOLEAN, closed' => sessions' = {},
           UNCHANGED <<minted, left, warmerVars, viewer, adminVars, stopped>>
    PROVE  IInv'
<1> DEFINE new == [Idle EXCEPT !.op = op, !.stage = "kill", !.toks = {}, !.kill = kill]
<1>1. /\ new \in Task /\ new.op = op /\ new.stage = "kill" /\ new.holds = {}
  BY DEF Task, Idle
<1>2. task' = [task EXCEPT ![p] = new]
  BY DEF StartKill
<1>3. blocked' \in SUBSET Viewers /\ blocked \subseteq blocked'
  BY DEF IInv, TypeOK, adminVars
<1> HIDE DEF new
<1>4. QED
  BY <1>1, <1>2, <1>3, StartQuiet DEF warmerVars, adminVars

LEMMA StopInv == ASSUME IInv, NEW p \in Procs, NEW t \in Tokens, Stop(p, t) PROVE IInv'
<1>1. blocked' \in SUBSET Viewers /\ blocked \subseteq blocked'
  BY DEF Stop, adminVars, IInv, TypeOK
<1>2. QED
  BY <1>1, StartCancelInv DEF Stop, adminVars

LEMMA BlockInv == ASSUME IInv, NEW p \in Procs, NEW v \in Viewers, Block(p, v) PROVE IInv'
<1> DEFINE stops == {t \in sessions : viewer[t] = v}
<1>1. blocked' \in SUBSET Viewers /\ blocked \subseteq blocked' /\ stops \in SUBSET Tokens
  BY DEF Block, IInv, TypeOK
<1> HIDE DEF stops
<1>2. Start(p, "block", "cancel", stops)
  BY DEF Block, stops
<1>3. QED
  BY <1>1, <1>2, StartCancelInv DEF Block

LEMMA SweepInv == ASSUME IInv, Sweep PROVE IInv'
<1>1. closed' \in BOOLEAN /\ (closed' => sessions' = {})
  BY DEF Sweep, IInv, TypeOK
<1>2. QED
  BY <1>1, StartKillInv, CarriedType DEF Sweep, Procs

LEMMA CloseInv == ASSUME IInv, NEW p \in Procs, Close(p) PROVE IInv'
BY StartKillInv, CarriedType DEF Close

-----------------------------------------------------------------------------
(* Steps that mint a session, start a pipeline or detach one *)

\* A resolve mints a session below the cap; the expired ones leave.
LEMMA MintInv == ASSUME IInv, NEW p \in Procs, NEW t \in Tokens, Mint(p, t) PROVE IInv'
<1> DEFINE kept == sessions \ Expired
           new == [Idle EXCEPT !.op = "mint", !.stage = "find", !.toks = {t}]
<1> USE DEF Mint, adminVars
<1>0. task[p].kill = {} /\ task[p] \in Task /\ task[p].op = "none" /\ task[p].stage = "idle"
  BY FreeTask DEF Free, IInv, StageFits
<1>1. CASE Cardinality(kept) < MaxSessions /\ sessions' = kept \cup {t}
           /\ minted' = minted \cup {t} /\ left' = [left EXCEPT ![t] = TTL]
           /\ live' = live \ Carried(Expired) /\ Start(p, "mint", "find", {t})
  <2>1. new \in Task /\ new.op = "mint" /\ new.stage = "find" /\ new.kill = {}
        /\ new.holds = {}
    BY DEF Task, Idle
  <2>2. task' = [task EXCEPT ![p] = new]
    BY <1>1 DEF Start
  <2> HIDE DEF new
  <2>3. /\ task' \in [Procs -> Task] /\ KillIsPending' /\ StageFits' /\ HoldsInForce'
        /\ HeldRequestsRefused'
    <3>1. TaskStep(p, new)
      BY <2>1, <2>2 DEF TaskStep
    <3>2. QED
      BY <2>1, <3>1, TaskInv
  <2>4. TypeOK'
    <3>1. left' \in [Tokens -> 0..TTL]
      BY <1>1, SessionAssumption DEF IInv, TypeOK
    <3>2. QED
      BY <1>1, <2>3, <3>1 DEF IInv, TypeOK
  <2>5. WithinCap'
    <3>1. kept \in SUBSET Tokens /\ IsFiniteSet(kept) /\ Cardinality(kept) \in Nat
      BY SessionsFinite DEF IInv, TypeOK
    <3>2. Cardinality(kept \cup {t}) \in {Cardinality(kept), Cardinality(kept) + 1}
      BY <3>1, FS_AddElement
    <3>3. QED
      BY <1>1, <3>1, <3>2, SessionAssumption DEF WithinCap
  <2>6. OnePipeline'
    <3>1. \A q \in Procs : \A pl \in task[q].kill : pl \in task'[q].kill
      BY <1>0, <2>1, <2>2 DEF IInv, TypeOK
    <3>2. QED
      BY <1>1, <3>1, PipelinesKept DEF IInv
  <2>7. StartedBound' /\ ClosedIsEmpty'
    BY DEF IInv, StartedBound, ClosedIsEmpty
  <2>8. QED
    BY <2>3, <2>4, <2>5, <2>6, <2>7 DEF IInv
<1>2. CASE sessions' = kept /\ UNCHANGED <<minted, left, live, task>>
  <2>1. TaskStep(p, task[p])
    BY <1>0, <1>2 DEF TaskStep, IInv, TypeOK
  <2>2. QuietStep(p, task[p])
    BY <1>0, <1>2, <2>1 DEF QuietStep, IInv, TypeOK, HoldsInForce, ClosedIsEmpty
  <2>3. QED
    BY <2>2, QuietInv
<1>3. QED
  BY <1>1, <1>2

\* A session that carries no pipeline starts its next one: the old ones are
\* cancelled or wait in some goroutine's kill.
LEMMA EnsureWarmerInv == ASSUME IInv, NEW p \in Procs, EnsureWarmer(p) PROVE IInv'
<1> USE DEF EnsureWarmer, sessionVars, adminVars
<1>0. task[p].kill = {} /\ stopped' \in SUBSET Tokens
  BY DEF IInv, KillIsPending, TypeOK
<1>1. PICK t \in task[p].toks :
         \/ /\ warmer[t] = None
            /\ ~closed
            /\ started' = [started EXCEPT ![t] = @ + 1]
            /\ warmer' = [warmer EXCEPT ![t] = started[t] + 1]
            /\ live' = live \cup {<<t, started[t] + 1>>}
         \/ /\ warmer[t] # None \/ closed
            /\ UNCHANGED <<started, warmer, live>>
  OBVIOUS
<1>2. t \in Tokens
  BY <1>1 DEF IInv, TypeOK, Task
<1>3. CASE UNCHANGED <<started, warmer, live>>
  BY <1>0, <1>3, FinishQuiet
<1>4. CASE /\ warmer[t] = None
           /\ ~closed
           /\ started' = [started EXCEPT ![t] = @ + 1]
           /\ warmer' = [warmer EXCEPT ![t] = started[t] + 1]
           /\ live' = live \cup {<<t, started[t] + 1>>}
  <2>1. started[t] \in Nat /\ swaps[t] \in 0..MaxSwaps /\ started[t] <= swaps[t]
    BY <1>2, <1>4, SessionAssumption DEF IInv, TypeOK, StartedBound
  <2>2. started[t] + 1 \in Generations /\ started[t] + 1 \in 0..(MaxSwaps + 1)
        /\ started[t] + 1 # None
    BY <2>1, SessionAssumption DEF Generations, None
  <2>3. /\ task' \in [Procs -> Task] /\ KillIsPending' /\ StageFits' /\ HoldsInForce'
        /\ HeldRequestsRefused'
    <3>1. TaskStep(p, Idle)
      BY IdleTask DEF TaskStep, Finish
    <3>2. QED
      BY <3>1, IdleTask, TaskInv
  <2>4. TypeOK'
    BY <1>2, <1>4, <2>2, <2>3 DEF IInv, TypeOK, Pipelines
  <2>5. OnePipeline'
    <3>1. \A pl \in live : pl[1] = t => \E q \in Procs : pl \in task[q].kill
      <4>1. \A pl \in live : pl[2] # None
        BY SessionAssumption DEF IInv, TypeOK, Pipelines, Generations, None
      <4>2. QED
        BY <1>4, <4>1 DEF IInv, OnePipeline
    <3>2. \A q \in Procs : task[q].kill \subseteq task'[q].kill
      BY <1>0 DEF Finish, IInv, TypeOK
    <3>3. \A u \in Tokens : warmer'[u] = IF u = t THEN started[t] + 1 ELSE warmer[u]
      BY <1>2, <1>4 DEF IInv, TypeOK
    <3>4. \A pl \in live : pl[1] \in Tokens
      BY DEF IInv, TypeOK, Pipelines
    <3>5. ASSUME NEW pl \in live'
          PROVE  warmer'[pl[1]] = pl[2] \/ \E q \in Procs : pl \in task'[q].kill
      <4>1. CASE pl = <<t, started[t] + 1>>
        BY <1>2, <3>3, <4>1
      <4>2. CASE pl \in live /\ pl[1] = t
        BY <3>1, <3>2, <4>2
      <4>3. CASE pl \in live /\ pl[1] # t
        BY <3>2, <3>3, <3>4, <4>3 DEF IInv, OnePipeline
      <4>4. QED
        BY <1>4, <3>5, <4>1, <4>2, <4>3
    <3>6. QED
      BY <3>5 DEF OnePipeline
  <2>6. StartedBound'
    <3>1. \A u \in Tokens : u # t => started'[u] = started[u] /\ warmer'[u] = warmer[u]
      BY <1>2, <1>4 DEF IInv, TypeOK
    <3>2. started'[t] = started[t] + 1 /\ warmer'[t] = started[t] + 1
      BY <1>2, <1>4 DEF IInv, TypeOK
    <3>3. started'[t] <= swaps'[t] + 1 /\ warmer'[t] # None
      BY <2>1, <2>2, <3>2
    <3>4. QED
      BY <3>1, <3>3 DEF IInv, StartedBound
  <2>7. WithinCap' /\ ClosedIsEmpty'
    BY DEF IInv, WithinCap, ClosedIsEmpty
  <2>8. QED
    BY <2>3, <2>4, <2>5, <2>6, <2>7 DEF IInv
<1>5. QED
  BY <1>1, <1>3, <1>4

\* A hot swap detaches the pipeline and takes its CancelFunc along.
LEMMA SwapInv == ASSUME IInv, NEW p \in Procs, NEW t \in Tokens, Swap(p, t) PROVE IInv'
<1> USE DEF Swap, sessionVars, adminVars
<1> DEFINE new == [Idle EXCEPT !.op = "swap", !.stage = "kill", !.toks = {t},
                               !.kill = Carried({t})]
<1>0. task[p].kill = {}
  BY FreeTask
<1>1. new \in Task /\ new.op = "swap" /\ new.stage = "kill" /\ new.holds = {}
      /\ new.kill = Carried({t})
  BY CarriedType DEF Task, Idle
<1>2. task' = [task EXCEPT ![p] = new]
  BY DEF StartKill
<1> HIDE DEF new
<1>3. /\ task' \in [Procs -> Task] /\ KillIsPending' /\ StageFits' /\ HoldsInForce'
      /\ HeldRequestsRefused'
  <2>1. TaskStep(p, new)
    BY <1>1, <1>2 DEF TaskStep
  <2>2. QED
    BY <1>1, <2>1, TaskInv
<1>4. TypeOK'
  <2>1. swaps' \in [Tokens -> 0..MaxSwaps]
    BY SessionAssumption DEF IInv, TypeOK
  <2>2. QED
    BY <1>3, <2>1 DEF IInv, TypeOK
<1>5. OnePipeline'
  <2>1. \A q \in Procs : task'[q].kill = IF q = p THEN Carried({t}) ELSE task[q].kill
    BY <1>1, <1>2 DEF IInv, TypeOK
  <2>2. \A u \in Tokens : u # t => warmer'[u] = warmer[u]
    BY DEF IInv, TypeOK
  <2>3. \A pl \in live : pl \in Pipelines /\ pl[1] \in Tokens
    BY DEF IInv, TypeOK, Pipelines
  <2>4. ASSUME NEW pl \in live
        PROVE  warmer'[pl[1]] = pl[2] \/ \E q \in Procs : pl \in task'[q].kill
    <3>1. CASE \E q \in Procs : pl \in task[q].kill
      BY <1>0, <2>1, <3>1
    <3>2. CASE warmer[pl[1]] = pl[2] /\ pl[1] = t
      BY <2>1, <2>3, <3>2 DEF Carried
    <3>3. CASE warmer[pl[1]] = pl[2] /\ pl[1] # t
      BY <2>2, <2>3, <3>3
    <3>4. QED
      BY <3>1, <3>2, <3>3 DEF IInv, OnePipeline
  <2>5. QED
    BY <2>4 DEF OnePipeline
<1>6. StartedBound'
  <2>1. \A u \in Tokens : u # t => swaps'[u] = swaps[u] /\ warmer'[u] = warmer[u]
    BY DEF IInv, TypeOK
  <2>2. swaps'[t] = swaps[t] + 1 /\ started'[t] <= swaps[t] + 1 /\ swaps[t] \in Nat
        /\ started'[t] \in Nat
    BY SessionAssumption DEF IInv, TypeOK, StartedBound
  <2>3. started'[t] <= swaps'[t] + 1 /\ started'[t] <= swaps'[t]
    BY <2>2
  <2>4. QED
    BY <2>1, <2>3 DEF IInv, StartedBound
<1>7. WithinCap' /\ ClosedIsEmpty'
  BY DEF IInv, WithinCap, ClosedIsEmpty
<1>8. QED
  BY <1>3, <1>4, <1>5, <1>6, <1>7 DEF IInv

-----------------------------------------------------------------------------
(* Steps of the dashboard and of time *)

\* Lifting a hold changes the recorded holds and nothing else of a task.
LEMMA LiftKeeps ==
    ASSUME task \in [Procs -> Task], NEW hold \in Holds, NEW caught, Lift(hold, caught)
    PROVE  /\ task' \in [Procs -> Task]
           /\ \A p \in Procs :
                 /\ task'[p].op = task[p].op /\ task'[p].stage = task[p].stage
                 /\ task'[p].kill = task[p].kill /\ task'[p].from = task[p].from
                 /\ task'[p].toks = task[p].toks
                 /\ task'[p].holds = IF p \in caught THEN task[p].holds \ {hold}
                                     ELSE task[p].holds
<1>1. \A p \in Procs : task[p] \in Task
  OBVIOUS
<1>2. ASSUME NEW p \in Procs
      PROVE  /\ task'[p] \in Task
             /\ task'[p].op = task[p].op /\ task'[p].stage = task[p].stage
             /\ task'[p].kill = task[p].kill /\ task'[p].from = task[p].from
             /\ task'[p].toks = task[p].toks
             /\ task'[p].holds = IF p \in caught THEN task[p].holds \ {hold}
                                 ELSE task[p].holds
  <2>1. task'[p] = IF p \in caught THEN [task[p] EXCEPT !.holds = @ \ {hold}] ELSE task[p]
    BY DEF Lift
  <2>2. QED
    BY <1>1, <2>1 DEF Task
<1>3. task' = [p \in Procs |-> task'[p]]
  BY DEF Lift
<1>4. QED
  BY <1>2, <1>3

LEMMA UnblockInv == ASSUME IInv, NEW v \in Viewers, Unblock(v) PROVE IInv'
<1> USE DEF Unblock, sessionVars, warmerVars
<1> DEFINE caught == {p \in Procs : task[p].from = v}
<1>1. /\ task' \in [Procs -> Task]
      /\ \A p \in Procs :
            /\ task'[p].op = task[p].op /\ task'[p].stage = task[p].stage
            /\ task'[p].kill = task[p].kill /\ task'[p].from = task[p].from
            /\ task'[p].toks = task[p].toks
            /\ task'[p].holds = IF p \in caught THEN task[p].holds \ {"blocked"}
                                ELSE task[p].holds
  BY LiftKeeps DEF IInv, TypeOK, Holds
<1>2. TypeOK'
  BY <1>1 DEF IInv, TypeOK
<1>3. KillIsPending' /\ StageFits'
  BY <1>1 DEF IInv, KillIsPending, StageFits
<1>4. HoldsInForce'
  BY <1>1 DEF IInv, HoldsInForce
<1>5. HeldRequestsRefused'
  BY <1>1 DEF IInv, HeldRequestsRefused
<1>6. OnePipeline'
  BY <1>1 DEF IInv, OnePipeline
<1>7. StartedBound' /\ ClosedIsEmpty' /\ WithinCap'
  BY DEF IInv, StartedBound, ClosedIsEmpty, WithinCap
<1>8. QED
  BY <1>2, <1>3, <1>4, <1>5, <1>6, <1>7 DEF IInv

LEMMA PauseInv == ASSUME IInv, NEW t \in Tokens, PauseStream(t) PROVE IInv'
<1> USE DEF PauseStream, sessionVars, warmerVars
<1>1. TypeOK'
  BY DEF IInv, TypeOK
<1>2. HoldsInForce'
  BY DEF IInv, HoldsInForce
<1>3. KillIsPending' /\ StageFits' /\ HeldRequestsRefused' /\ OnePipeline'
  BY DEF IInv, KillIsPending, StageFits, HeldRequestsRefused, OnePipeline
<1>4. StartedBound' /\ ClosedIsEmpty' /\ WithinCap'
  BY DEF IInv, StartedBound, ClosedIsEmpty, WithinCap
<1>5. QED
  BY <1>1, <1>2, <1>3, <1>4 DEF IInv

LEMMA ResumeInv == ASSUME IInv, NEW t \in Tokens, ResumeStream(t) PROVE IInv'
<1> USE DEF ResumeStream, sessionVars, warmerVars
<1> DEFINE caught == {p \in Procs : t \in task[p].toks}
<1>1. /\ task' \in [Procs -> Task]
      /\ \A p \in Procs :
            /\ task'[p].op = task[p].op /\ task'[p].stage = task[p].stage
            /\ task'[p].kill = task[p].kill /\ task'[p].from = task[p].from
            /\ task'[p].toks = task[p].toks
            /\ task'[p].holds = IF p \in caught THEN task[p].holds \ {"paused"}
                                ELSE task[p].holds
  BY LiftKeeps DEF IInv, TypeOK, Holds
<1>2. TypeOK'
  BY <1>1 DEF IInv, TypeOK
<1>3. KillIsPending' /\ StageFits'
  BY <1>1 DEF IInv, KillIsPending, StageFits
<1>4. HoldsInForce'
  BY <1>1 DEF IInv, HoldsInForce
<1>5. HeldRequestsRefused'
  BY <1>1 DEF IInv, HeldRequestsRefused
<1>6. OnePipeline'
  BY <1>1 DEF IInv, OnePipeline
<1>7. StartedBound' /\ ClosedIsEmpty' /\ WithinCap'
  BY DEF IInv, StartedBound, ClosedIsEmpty, WithinCap
<1>8. QED
  BY <1>2, <1>3, <1>4, <1>5, <1>6, <1>7 DEF IInv

LEMMA TickInv == ASSUME IInv, Tick PROVE IInv'
<1> USE DEF Tick, warmerVars, adminVars
<1>1. \A t \in Tokens : (IF t \in sessions /\ left[t] > 0 THEN left[t] - 1 ELSE left[t]) \in 0..TTL
  BY SessionAssumption DEF IInv, TypeOK
<1>2. TypeOK'
  BY <1>1 DEF IInv, TypeOK
<1>3. KillIsPending' /\ StageFits' /\ HoldsInForce' /\ HeldRequestsRefused' /\ OnePipeline'
  BY DEF IInv, KillIsPending, StageFits, HoldsInForce, HeldRequestsRefused, OnePipeline
<1>4. StartedBound' /\ ClosedIsEmpty' /\ WithinCap'
  BY DEF IInv, StartedBound, ClosedIsEmpty, WithinCap
<1>5. QED
  BY <1>2, <1>3, <1>4 DEF IInv

-----------------------------------------------------------------------------
(* The theorems *)

LEMMA WorkInv == ASSUME IInv, NEW p \in Procs, Work(p) PROVE IInv'
BY FindMintedInv, EnsureWarmerInv, TouchInv, CheckInv, KillInv, CancelCurrentInv DEF Work

LEMMA NextIInv == IInv /\ [Next]_vars => IInv'
<1> SUFFICES ASSUME IInv, [Next]_vars PROVE IInv'
  OBVIOUS
<1>1. ASSUME NEW p \in Workers,
             \/ Close(p)
             \/ \E t \in Tokens : Mint(p, t) \/ Swap(p, t) \/ Stop(p, t)
             \/ \E t \in Tokens, v \in Viewers : Lookup(p, t, v)
             \/ \E v \in Viewers : Block(p, v)
      PROVE  IInv'
  <2>1. p \in Procs
    BY DEF Procs
  <2>2. QED
    BY <1>1, <2>1, CloseInv, MintInv, SwapInv, StopInv, LookupInv, BlockInv
<1>2. CASE \E p \in Procs : Work(p)
  BY <1>2, WorkInv
<1>3. CASE \E v \in Viewers : Unblock(v)
  BY <1>3, UnblockInv
<1>4. CASE \E t \in Tokens : PauseStream(t) \/ ResumeStream(t)
  BY <1>4, PauseInv, ResumeInv
<1>5. CASE Sweep \/ Tick
  BY <1>5, SweepInv, TickInv
<1>6. CASE UNCHANGED vars
  BY <1>6 DEF vars, IInv, TypeOK, KillIsPending, StageFits, HoldsInForce, StartedBound,
              ClosedIsEmpty, WithinCap, OnePipeline, HeldRequestsRefused
<1>7. QED
  BY <1>1, <1>2, <1>3, <1>4, <1>5, <1>6 DEF Next

\* The strengthened invariant holds in every reachable state.
THEOREM Inductive == Spec => []IInv
BY InitIInv, NextIInv, PTL DEF Spec

\* Every variable of the session table has its type in every reachable state.
THEOREM TypeCorrect == Spec => []TypeOK
<1>1. IInv => TypeOK
  BY DEF IInv
<1>2. QED
  BY <1>1, Inductive, PTL

\* newSession: the session cap holds for every cap and however many goroutines
\* resolve at once.
THEOREM CapHolds == Spec => []WithinCap
<1>1. IInv => WithinCap
  BY DEF IInv
<1>2. QED
  BY <1>1, Inductive, PTL

\* ensureWarmer and hotSwapSession: a session never runs two read-ahead
\* pipelines for longer than a CancelFunc is about to be called.
THEOREM PipelineIsUnique == Spec => []OnePipeline
<1>1. IInv => OnePipeline
  BY DEF IInv
<1>2. QED
  BY <1>1, Inductive, PTL

\* streamTouch and its callers: no request passes a pause or a block that caught
\* it, whatever other viewers of the session do meanwhile.
THEOREM HoldsRefuse == Spec => []HeldRequestsRefused
<1>1. IInv => HeldRequestsRefused
  BY DEF IInv
<1>2. QED
  BY <1>1, Inductive, PTL

\* newSession and ensureWarmer test r.closed: nothing comes back after Close.
THEOREM CloseIsFinal == Spec => ClosedAddsNothing
<1>1. IInv /\ [Next]_vars => [closed => sessions' = {} /\ live' \subseteq live]_vars
  <2> SUFFICES ASSUME IInv, Next, closed PROVE sessions' = {} /\ live' \subseteq live
    OBVIOUS
  <2>1. sessions = {} /\ closed
    BY DEF IInv, ClosedIsEmpty
  <2>2. ASSUME NEW p \in Procs, Work(p) PROVE sessions' = {} /\ live' \subseteq live
    BY <2>1, <2>2 DEF Work, FindMinted, EnsureWarmer, Touch, Check, Kill, CancelCurrent,
                      sessionVars, warmerVars
  <2>3. ASSUME NEW p \in Workers,
               \/ Close(p)
               \/ \E t \in Tokens : Mint(p, t) \/ Swap(p, t) \/ Stop(p, t)
               \/ \E t \in Tokens, v \in Viewers : Lookup(p, t, v)
               \/ \E v \in Viewers : Block(p, v)
        PROVE  sessions' = {} /\ live' \subseteq live
    BY <2>1, <2>3 DEF Close, Mint, Swap, Stop, Lookup, Block, sessionVars, warmerVars
  <2>4. CASE \E v \in Viewers : Unblock(v)
    BY <2>1, <2>4 DEF Unblock, sessionVars, warmerVars
  <2>5. CASE \E t \in Tokens : PauseStream(t) \/ ResumeStream(t)
    BY <2>1, <2>5 DEF PauseStream, ResumeStream, sessionVars, warmerVars
  <2>6. CASE Sweep \/ Tick
    BY <2>1, <2>6 DEF Sweep, Tick, warmerVars
  <2>7. QED
    BY <2>2, <2>3, <2>4, <2>5, <2>6 DEF Next
<1>2. QED
  BY <1>1, Inductive, PTL DEF Spec, ClosedAddsNothing

(***************************************************************************)
(* External subtitles (Renditions), the part of a session its ladder, its  *)
(* player and its requests share.  Two things are needed beside what is    *)
(* claimed: who holds the lock is in the middle of its pair of stores, and *)
(* Done means a list, except within the ladder's pair.                     *)
(***************************************************************************)
SubLists == Lists \cup {<< >>}

SubPages ==
    {RewriteManifest(t, l, b, source) :
        t \in Texts, l \in SubLists, b \in BOOLEAN, source \in {Source, NoUri}}
        \cup {<< >>}

SubRequest ==
    [at : {"new", "refused", "looked up", "held", "rewriting", "listed", "rewritten",
           "served"},
     heard : BOOLEAN, list : SubLists,
     from : {"none", "ladder", "player", "gone"}, page : SubPages]

SubsTypeOK ==
    /\ text \in Texts
    /\ open \in BOOLEAN /\ subsDone \in BOOLEAN
    /\ state \in {"none", "pending", "done"}
    /\ subs \in SubLists
    /\ by \in {"none", "ladder", "player"}
    /\ mu \in {"free", "ladder", "player"}
    /\ ladder \in [at : {"before", "fetching", "returned", "won", "over"},
                   list : SubLists]
    /\ post \in [at : {"idle", "set"}, list : SubLists]
    /\ request \in [Requests -> SubRequest]

\* The lock is held exactly between the two stores of a pair.
LockedPairs ==
    /\ mu = "ladder" <=> ladder.at = "won"
    /\ mu = "player" <=> post.at = "set"
    /\ ladder.at = "won" => state = "done" /\ by # "player"
    /\ post.at = "set" => by = "player"

\* Whoever is told Done finds a list, once the lock is free.
DoneHasList ==
    /\ by = "player" => state = "done" \/ post.at = "set"
    /\ state = "done" => by # "none" \/ ladder.at = "won"
    /\ subsDone => state = "done"

HeardIsDone == \A q \in Requests : request[q].heard => state = "done"

SubsIInv ==
    SubsTypeOK /\ LockedPairs /\ DoneHasList /\ HeardIsDone /\ HeldRootsCarry

LEMMA NoPage == << >> \in SubPages
  BY DEF SubPages

LEMMA SubsBegin == SubsInit => SubsIInv
  <1> SUFFICES ASSUME SubsInit PROVE SubsIInv
    OBVIOUS
  <1> USE DEF SubsInit, NoRequest
  <1>1. SubsTypeOK
    BY NoPage DEF SubsTypeOK, SubLists, SubRequest
  <1>2. \A q \in Requests : ~request[q].heard
    OBVIOUS
  <1> QED
    BY <1>1, <1>2
       DEF SubsIInv, LockedPairs, DoneHasList, HeardIsDone, HeldRootsCarry

\* The ladder's steps and the session's end.
LEMMA LadderKeeps ==
    ASSUME SubsIInv,
           \/ MaybeAttach \/ LadderReturns \/ LadderFlips
           \/ LadderAttaches \/ SessionEnds
    PROVE  SubsIInv'
  <1> USE DEF SubsIInv
  <1>1. \A l \in LadderLists : Capped(l) \in SubLists
    BY DEF Lists, SubLists
  <1>2. /\ UNCHANGED request
        /\ state = "done" => state' = "done"
    BY DEF MaybeAttach, LadderReturns, LadderFlips,
           LadderAttaches, SessionEnds
  <1>3. HeardIsDone' /\ (HeldRootsCarry)'
    BY <1>2 DEF HeardIsDone, HeldRootsCarry
  <1>4. SubsTypeOK' /\ LockedPairs' /\ DoneHasList'
    <2> USE DEF SubsTypeOK, LockedPairs, DoneHasList
    <2>1. CASE MaybeAttach
      BY <2>1 DEF MaybeAttach
    <2>2. CASE LadderReturns
      BY <2>2, <1>1 DEF LadderReturns
    <2>3. CASE LadderFlips
      BY <2>3 DEF LadderFlips
    <2>4. CASE LadderAttaches
      BY <2>4 DEF LadderAttaches
    <2>5. CASE SessionEnds
      BY <2>5 DEF SessionEnds
    <2> QED BY <2>1, <2>2, <2>3, <2>4, <2>5
  <1> QED BY <1>3, <1>4

\* The player's registration.
LEMMA PlayerKeeps ==
    ASSUME SubsIInv, SetSubRenditions \/ PostSignals
    PROVE  SubsIInv'
  <1> USE DEF SubsIInv
  <1>1. \A l \in PlayerLists : Capped(l) \in SubLists
    BY DEF Lists, SubLists
  <1>2. /\ UNCHANGED request
        /\ state = "done" => state' = "done"
    BY DEF SetSubRenditions, PostSignals
  <1>3. HeardIsDone' /\ (HeldRootsCarry)'
    BY <1>2 DEF HeardIsDone, HeldRootsCarry
  <1>4. SubsTypeOK' /\ LockedPairs' /\ DoneHasList'
    <2> USE DEF SubsTypeOK, LockedPairs, DoneHasList
    <2>1. CASE SetSubRenditions
      BY <2>1, <1>1 DEF SetSubRenditions
    <2>2. CASE PostSignals
      BY <2>2 DEF PostSignals, SubLists
    <2> QED BY <2>1, <2>2
  <1> QED BY <1>3, <1>4

\* A request's step touches its own record only.
LEMMA RequestKeeps ==
    ASSUME SubsIInv, NEW q \in Requests,
           \/ Serve(q) \/ HoldRoot(q) \/ WaitForSubs(q)
           \/ ReadList(q) \/ Rewrite(q) \/ Admit(q)
    PROVE  SubsIInv'
  <1> USE DEF SubsIInv, At, To
  <1>1. UNCHANGED <<text, open, state, subs, by, subsDone, mu, ladder, post>>
    BY DEF Serve, HoldRoot, WaitForSubs, ReadList, Rewrite, Admit
  <1>2. LockedPairs' /\ DoneHasList'
    BY <1>1 DEF LockedPairs, DoneHasList
  <1>3. /\ request[q] \in SubRequest
        /\ request[q].heard => state = "done"
    BY DEF SubsTypeOK, HeardIsDone
  <1>4. ASSUME NEW r \in SubRequest, request' = [request EXCEPT ![q] = r],
               r.heard => state = "done",
               r.heard /\ r.at \in {"listed", "rewritten", "served"} => r.from # "none"
        PROVE  /\ request' \in [Requests -> SubRequest]
               /\ HeardIsDone' /\ (HeldRootsCarry)'
    BY <1>1, <1>4, Zenon DEF SubsTypeOK, HeardIsDone, HeldRootsCarry
  <1>5. /\ request' \in [Requests -> SubRequest]
        /\ HeardIsDone' /\ (HeldRootsCarry)'
    <2>1. CASE Serve(q)
      <3> DEFINE r == [request[q] EXCEPT !.at = IF open THEN "looked up" ELSE "refused"]
      <3>1. r \in SubRequest /\ r.heard = request[q].heard
              /\ r.at \notin {"listed", "rewritten", "served"}
        BY <1>3 DEF SubRequest
      <3>2. request' = [request EXCEPT ![q] = r]
        BY <2>1 DEF Serve
      <3> HIDE DEF r
      <3> QED BY <1>3, <1>4, <3>1, <3>2
    <2>2. CASE HoldRoot(q)
      <3> DEFINE r == [request[q] EXCEPT
                         !.at = IF q \in Roots /\ state = "pending" THEN "held"
                                ELSE "rewriting",
                         !.heard = q \in Roots /\ state = "done"]
      <3>1. r \in SubRequest /\ (r.heard => state = "done")
              /\ r.at \notin {"listed", "rewritten", "served"}
        BY <1>3 DEF SubRequest
      <3>2. request' = [request EXCEPT ![q] = r]
        BY <2>2 DEF HoldRoot
      <3> HIDE DEF r
      <3> QED BY <1>4, <3>1, <3>2
    <2>3. CASE WaitForSubs(q)
      <3>1. PICK r \in SubRequest :
              /\ request' = [request EXCEPT ![q] = r]
              /\ r.heard => state = "done"
              /\ r.at = "rewriting"
        <4> DEFINE heard == [request[q] EXCEPT !.at = "rewriting", !.heard = TRUE]
                   late == [request[q] EXCEPT !.at = "rewriting"]
        <4>1. CASE subsDone /\ request' = [request EXCEPT ![q] = heard]
          <5>1. heard \in SubRequest /\ heard.at = "rewriting"
            BY <1>3 DEF SubRequest
          <5>2. state = "done"
            BY <4>1 DEF DoneHasList
          <5> HIDE DEF heard
          <5> QED BY <4>1, <5>1, <5>2
        <4>2. CASE request' = [request EXCEPT ![q] = late]
          <5>1. late \in SubRequest /\ late.at = "rewriting"
                  /\ late.heard = request[q].heard
            BY <1>3 DEF SubRequest
          <5> HIDE DEF late
          <5> QED BY <1>3, <4>2, <5>1
        <4> QED BY <2>3, <4>1, <4>2 DEF WaitForSubs
      <3> QED BY <1>4, <3>1
    <2>4. CASE ReadList(q)
      <3> DEFINE list == IF open THEN subs ELSE << >>
                 from == IF open THEN by ELSE "gone"
                 r == [request[q] EXCEPT !.at = "listed", !.list = list, !.from = from]
      <3>1. list \in SubLists /\ from \in {"none", "ladder", "player", "gone"}
        BY DEF SubsTypeOK, SubLists
      <3>2. request' = [request EXCEPT ![q] = r]
        BY <2>4 DEF ReadList
      <3>3. state = "done" => from # "none"
        BY <2>4 DEF ReadList, DoneHasList, LockedPairs
      <3>4. r \in SubRequest /\ r.heard = request[q].heard /\ r.from = from
        <4> HIDE DEF list, from
        <4> QED BY <1>3, <3>1 DEF SubRequest
      <3> HIDE DEF r, from
      <3> QED BY <1>3, <1>4, <3>2, <3>3, <3>4
    <2>5. CASE Rewrite(q)
      <3> DEFINE list == request[q].list
                 source == IF open THEN Source ELSE NoUri
                 page == RewriteManifest(text, list, q \in Roots, source)
                 r == [request[q] EXCEPT !.at = "rewritten", !.page = page]
      <3>1. list \in SubLists /\ source \in {Source, NoUri}
        BY <1>3 DEF SubRequest
      <3>2. page \in SubPages
        <4> HIDE DEF list, source
        <4>1. text \in Texts /\ (q \in Roots) \in BOOLEAN
          BY DEF SubsTypeOK
        <4>2. \A t \in Texts, l \in SubLists, b \in BOOLEAN, u \in {Source, NoUri} :
                RewriteManifest(t, l, b, u) \in SubPages
          BY DEF SubPages
        <4> QED BY <3>1, <4>1, <4>2, Zenon
      <3>3. request' = [request EXCEPT ![q] = r] /\ request[q].at = "listed"
        BY <2>5 DEF Rewrite
      <3>4. request[q].heard => request[q].from # "none"
        BY <3>3 DEF HeldRootsCarry
      <3>5. r \in SubRequest /\ r.heard = request[q].heard /\ r.from = request[q].from
        <4> HIDE DEF page
        <4> QED BY <1>3, <3>2 DEF SubRequest
      <3> HIDE DEF r
      <3> QED BY <1>3, <1>4, <3>3, <3>4, <3>5
    <2>6. CASE Admit(q)
      <3> DEFINE r == [request[q] EXCEPT !.at = "served"]
      <3>1. r \in SubRequest /\ r.heard = request[q].heard
              /\ r.from = request[q].from
        BY <1>3 DEF SubRequest
      <3>2. request' = [request EXCEPT ![q] = r] /\ request[q].at = "rewritten"
        BY <2>6 DEF Admit
      <3>3. request[q].heard => request[q].from # "none"
        BY <3>2 DEF HeldRootsCarry
      <3> HIDE DEF r
      <3> QED BY <1>3, <1>4, <3>1, <3>2, <3>3
    <2> QED BY <2>1, <2>2, <2>3, <2>4, <2>5, <2>6
  <1> QED BY <1>1, <1>2, <1>5 DEF SubsTypeOK

LEMMA SubsKeep == SubsIInv /\ [SubsNext]_subsVars => SubsIInv'
  <1> SUFFICES ASSUME SubsIInv, [SubsNext]_subsVars
               PROVE  SubsIInv'
    OBVIOUS
  <1>1. CASE SubsNext
    BY <1>1, LadderKeeps, PlayerKeeps, RequestKeeps DEF SubsNext
  <1>2. CASE UNCHANGED subsVars
    BY <1>2 DEF subsVars, SubsIInv, SubsTypeOK, LockedPairs, DoneHasList,
                HeardIsDone, HeldRootsCarry
  <1> QED BY <1>1, <1>2

LEMMA SubsInvariance == SubsSpec => []SubsIInv
  BY SubsBegin, SubsKeep, PTL DEF SubsSpec

(* A root that maybeHoldRoot let go because the subtitles are there is     *)
(* rewritten with a list, whoever it is of, unless its session has ended.  *)
THEOREM RootsCarry == SubsSpec => []HeldRootsCarry
  <1>1. SubsIInv => HeldRootsCarry
    BY DEF SubsIInv
  <1> QED BY SubsInvariance, <1>1, PTL

(* Once a player has registered a list, no late ladder replaces it.        *)
THEOREM PlayerWins == SubsSpec => PlayersListStays
  <1>1. SubsIInv /\ [SubsNext]_subsVars
          => [by = "player" => by' = "player"]_by
    <2> SUFFICES ASSUME SubsIInv, [SubsNext]_subsVars, by' # by, by = "player"
                 PROVE  by' = "player"
      OBVIOUS
    <2>1. ~LadderAttaches
      BY DEF SubsIInv, LockedPairs, LadderAttaches
    <2> QED
      BY <2>1 DEF SubsNext, subsVars, MaybeAttach, LadderReturns,
           LadderFlips, SetSubRenditions, PostSignals,
           SessionEnds, Serve, HoldRoot, WaitForSubs,
           ReadList, Rewrite, Admit
  <1> QED BY SubsInvariance, <1>1, PTL DEF SubsSpec, PlayersListStays

(***************************************************************************)
(* The playlists themselves.  What is served is what RewriteManifest makes *)
(* of the upstream's playlist and the list at hand, and the hosts it leads *)
(* to are allowed before it is written; the rest is about RewriteManifest  *)
(* and ForceHighestQuality alone, for every playlist and every list.       *)
(***************************************************************************)
LEMMA Least ==
    ASSUME NEW S \in SUBSET Nat, S # {}
    PROVE  Min(S) \in S /\ \A n \in S : Min(S) <= n
  <1>1. PICK m \in S : \A k \in S : ~(<<k, m>> \in OpToRel(<, Nat))
    BY NatLessThanWellFounded, WFMin
  <1>2. \A k \in S : ~(k < m)
    BY <1>1 DEF OpToRel
  <1>3. \A k \in S : m <= k
    BY <1>2
  <1> QED BY <1>3 DEF Min

LEMMA Greatest ==
    ASSUME NEW n \in Nat, NEW S \in SUBSET (0..n), S # {}
    PROVE  Max(S) \in S /\ \A k \in S : k <= Max(S)
  <1> DEFINE T == {i \in 0..n : n - i \in S}
  <1>1. PICK s \in S : TRUE
    OBVIOUS
  <1>2. n - s \in T /\ T \in SUBSET Nat
    BY <1>1
  <1>3. Min(T) \in T /\ \A k \in T : Min(T) <= k
    <2> HIDE DEF T
    <2> QED BY <1>2, Least
  <1> DEFINE m == n - Min(T)
  <1>4. m \in S /\ m \in 0..n
    BY <1>3
  <1>5. \A k \in S : k \in 0..n /\ n - k \in T
    OBVIOUS
  <1>6. \A k \in S : k <= m
    BY <1>3, <1>5
  <1> HIDE DEF m
  <1> QED BY <1>4, <1>6 DEF Max

LEMMA FirstHeaderIs ==
    ASSUME NEW t, Len(t) \in Nat
    PROVE  /\ FirstHeader(t) \in 0..Len(t)
           /\ FirstHeader(t) = 0 <=> ~Has(t, "header")
  <1> DEFINE I == {i \in 1..Len(t) : t[i].tag = "header"}
  <1>1. FirstHeader(t) = IF I # {} THEN Min(I) ELSE 0
    BY DEF FirstHeader, SelectInSeq
  <1>2. I \in SUBSET Nat
    OBVIOUS
  <1>3. I # {} => Min(I) \in I
    BY <1>2, Least
  <1> QED BY <1>1, <1>3 DEF Has

LEMMA NextUriIs ==
    ASSUME NEW t, Len(t) \in Nat, NEW i \in 1..Len(t)
    PROVE  LET j == NextUri(t, i) IN
           /\ j \in Nat
           /\ j # 0 => j \in i + 1..Len(t) /\ t[j].tag = "uri"
  <1> DEFINE I == {k \in i + 1..Len(t) : t[k].tag = "uri"}
  <1>1. NextUri(t, i) = IF I # {} THEN Min(I) ELSE 0
    BY DEF NextUri, SelectInSubSeq
  <1>2. I \in SUBSET Nat
    OBVIOUS
  <1>3. I # {} => Min(I) \in I
    BY <1>2, Least
  <1> QED BY <1>1, <1>3

LEMMA MadeOf ==
    ASSUME NEW S, NEW n \in Nat, NEW f, DOMAIN f = 1..n, \A i \in 1..n : f[i] \in S,
           f = [i \in 1..n |-> f[i]]
    PROVE  f \in Seq(S) /\ Len(f) = n
  OBVIOUS

(* A line led through the proxy, and a playlist of such lines. *)
\* The strings the rewriting adds are named: the provers take a literal for
\* no member of STRING.
Words == STRING \cup {"", "subs", "header", "variant", "uri", Ext}
PageLine == [tag : Words, group : Words, size : Nat \X Nat,
             uri : [name : Words, host : Words],
             via : {"", "proxy", "spaced", "odd", "here"}]
Proxied(t) == [i \in 1..Len(t) |-> Rewritten(t[i])]

\* What becomes of a line.
Led(m, l) ==
    /\ m.tag = l.tag /\ m.group = l.group /\ m.uri = l.uri
    /\ m \in PageLine /\ m.via # "here"
    /\ m.via = "proxy" => Rewritten(l).via = "proxy"

LEMMA ProxiedLines ==
    ASSUME NEW t \in Seq(UpstreamLine)
    PROVE  /\ Proxied(t) \in Seq(PageLine) /\ Len(Proxied(t)) = Len(t)
           /\ \A i \in 1..Len(t) : Led(Proxied(t)[i], t[i])
           /\ \A tag : Has(Proxied(t), tag) <=> Has(t, tag)
  <1> DEFINE p == Proxied(t)
  <1>1. Len(t) \in Nat /\ \A i \in 1..Len(t) : t[i] \in UpstreamLine
    OBVIOUS
  <1>2. /\ p = [i \in 1..Len(t) |-> p[i]] /\ DOMAIN p = 1..Len(t)
        /\ \A i \in 1..Len(t) : p[i] = Rewritten(t[i])
    BY DEF Proxied
  <1>3. ASSUME NEW l \in UpstreamLine PROVE Led(Rewritten(l), l)
    BY DEF Led, UpstreamLine, Rewritten, ProxyURL, PageLine, Words, URI
  <1> HIDE DEF p
  <1>4. \A i \in 1..Len(t) : Led(p[i], t[i])
    BY <1>1, <1>2, <1>3
  <1>5. \A i \in 1..Len(t) : p[i] \in PageLine /\ p[i].tag = t[i].tag
    BY <1>4 DEF Led
  <1>6. p \in Seq(PageLine) /\ Len(p) = Len(t)
    BY <1>1, <1>2, <1>5, MadeOf, Zenon
  <1>7. \A tag : Has(p, tag) <=> Has(t, tag)
    BY <1>5, <1>6 DEF Has
  <1> QED BY <1>4, <1>6, <1>7 DEF p

LEMMA DeclaredLines ==
    ASSUME NEW list \in Seq(STRING)
    PROVE  /\ Declared(list) \in Seq(PageLine)
           /\ Len(Declared(list)) = Len(list)
           /\ \A k \in 1..Len(list) : Declared(list)[k] = SubRenditionLine(list[k])
  <1> DEFINE lines == Declared(list)
  <1>1. \A k \in 1..Len(list) : list[k] \in STRING
    OBVIOUS
  <1>2. ASSUME NEW sub \in STRING PROVE SubRenditionLine(sub) \in PageLine
    <2>1. /\ sub \in Words /\ "" \in Words /\ "subs" \in Words /\ Ext \in Words
          /\ <<0, 0>> \in Nat \X Nat
      BY DEF Words
    <2>2. \A a, b \in Words : [name |-> a, host |-> b] \in [name : Words, host : Words]
      OBVIOUS
    <2>3. ASSUME NEW a \in Words, NEW b \in Words, NEW c \in Nat \X Nat,
                 NEW d \in [name : Words, host : Words]
          PROVE  Line(a, b, c, d, "here") \in PageLine
      BY DEF Line, PageLine
    <2> QED BY <2>1, <2>2, <2>3, Zenon DEF SubRenditionLine
  <1>3. /\ lines = [k \in 1..Len(list) |-> lines[k]] /\ DOMAIN lines = 1..Len(list)
        /\ \A k \in 1..Len(list) : lines[k] = SubRenditionLine(list[k])
    BY DEF Declared
  <1> HIDE DEF lines
  <1>4. \A k \in 1..Len(list) : lines[k] \in PageLine
    BY <1>1, <1>2, <1>3
  <1>5. lines \in Seq(PageLine) /\ Len(lines) = Len(list)
    <2>1. Len(list) \in Nat
      OBVIOUS
    <2> QED BY <2>1, <1>3, <1>4, MadeOf, Zenon
  <1> QED BY <1>3, <1>5 DEF lines

(* Where lines are put in. *)
IsInsertion(S, page, t, first, lines) ==
    LET n == Len(lines) IN
    /\ page \in Seq(S) /\ Len(page) = Len(t) + n
    /\ \A i \in 1..first : page[i] = t[i]
    /\ \A k \in 1..n : page[first + k] = lines[k]
    /\ \A i \in first + n + 1..Len(page) : page[i] = t[i - n]

LEMMA Inserted ==
    ASSUME NEW S, NEW t \in Seq(S), NEW lines \in Seq(S), NEW first \in 0..Len(t)
    PROVE  IsInsertion(S, Insert(t, first, lines), t, first, lines)
  <1> DEFINE a == SubSeq(t, 1, first)
             c == SubSeq(t, first + 1, Len(t))
             b == a \o lines
             page == b \o c
  <1>1. a \in Seq(S) /\ Len(a) = first /\ \A i \in 1..first : a[i] = t[i]
    <2>1. \A i \in 1..first : t[i] \in S
      OBVIOUS
    <2> QED BY <2>1, SubSeqProperties
  <1>2. c \in Seq(S) /\ Len(c) = Len(t) - first
          /\ \A i \in 1..Len(t) - first : c[i] = t[first + i]
    <2>1. \A i \in first + 1..Len(t) : t[i] \in S
      OBVIOUS
    <2>2. /\ c \in Seq(S)
          /\ Len(c) = IF first + 1 <= Len(t) THEN Len(t) - (first + 1) + 1 ELSE 0
          /\ \A i \in 1..Len(t) - (first + 1) + 1 : c[i] = t[(first + 1) + i - 1]
      BY <2>1, SubSeqProperties
    <2> QED BY <2>2
  <1> HIDE DEF a, c
  <1>3. /\ b \in Seq(S) /\ Len(b) = first + Len(lines)
        /\ \A i \in 1..first : b[i] = t[i]
        /\ \A k \in 1..Len(lines) : b[first + k] = lines[k]
    <2>1. /\ b \in Seq(S) /\ Len(b) = Len(a) + Len(lines)
          /\ \A i \in 1..Len(a) + Len(lines) :
               b[i] = IF i <= Len(a) THEN a[i] ELSE lines[i - Len(a)]
      BY <1>1, ConcatProperties
    <2> HIDE DEF b
    <2>2. \A k \in 1..Len(lines) : first + k \in 1..Len(a) + Len(lines)
                                    /\ ~(first + k <= Len(a)) /\ first + k - Len(a) = k
      BY <1>1
    <2> QED BY <1>1, <2>1, <2>2
  <1> HIDE DEF b
  <1>4. /\ page \in Seq(S) /\ Len(page) = Len(t) + Len(lines)
        /\ \A i \in 1..Len(b) : page[i] = b[i]
        /\ \A i \in Len(b) + 1..Len(page) : page[i] = c[i - Len(b)]
    <2>1. /\ page \in Seq(S) /\ Len(page) = Len(b) + Len(c)
          /\ \A i \in 1..Len(b) + Len(c) :
               page[i] = IF i <= Len(b) THEN b[i] ELSE c[i - Len(b)]
      BY <1>2, <1>3, ConcatProperties
    <2> HIDE DEF page
    <2>2. Len(b) \in Nat /\ Len(c) \in Nat
      BY <1>2, <1>3
    <2>3. Len(page) = Len(t) + Len(lines)
      BY <1>2, <1>3, <2>1
    <2>4. \A i \in 1..Len(b) : page[i] = b[i]
      BY <2>1, <2>2
    <2>5. \A i \in Len(b) + 1..Len(page) : page[i] = c[i - Len(b)]
      BY <2>1, <2>2
    <2> QED BY <2>1, <2>3, <2>4, <2>5
  <1>5. page = Insert(t, first, lines)
    BY DEF Insert, a, b, c
  <1> HIDE DEF page
  <1>6. \A i \in first + Len(lines) + 1..Len(page) : page[i] = t[i - Len(lines)]
    <2> TAKE i \in first + Len(lines) + 1..Len(page)
    <2>1. page[i] = c[i - Len(b)] /\ i - Len(b) \in 1..Len(t) - first
      BY <1>3, <1>4
    <2>2. first + (i - Len(b)) = i - Len(lines)
      BY <1>3
    <2> QED BY <1>2, <2>1, <2>2
  <1>7. /\ \A i \in 1..first : page[i] = t[i]
        /\ \A k \in 1..Len(lines) : page[first + k] = lines[k]
    BY <1>3, <1>4
  <1> QED BY <1>4, <1>5, <1>6, <1>7 DEF IsInsertion

\* A page that carries a list: its lines from first on, and otherwise lines of
\* the playlist it was made of, their variants linked.
FromText(line, t, source) ==
    /\ line.tag = "variant" => line.group = Ext
    /\ line.via # "here"
    /\ line.via = "proxy" =>
         line.uri = source
           \/ \E j \in 1..Len(t) : t[j].via = "proxy" /\ line.uri = t[j].uri

Carries(page, list, first, t, source) ==
    /\ Len(page) \in Nat /\ first + Len(list) <= Len(page)
    /\ \A k \in 1..Len(list) : page[first + k] = SubRenditionLine(list[k])
    /\ \A i \in 1..Len(page) :
         i \notin first + 1..first + Len(list) => FromText(page[i], t, source)

Proxies(t) == \A i \in 1..Len(t) : t[i].via # "here"

LEMMA LinkedLine ==
    ASSUME NEW l \in PageLine
    PROVE  LET m == [l EXCEPT !.group = Ext] IN
             /\ m \in PageLine /\ m.via = l.via /\ m.uri = l.uri /\ m.tag = l.tag
             /\ m.group = Ext
  <1>1. Ext \in Words
    BY DEF Words
  <1> QED BY <1>1 DEF PageLine

LEMMA InjectedCarries ==
    ASSUME NEW t \in Seq(PageLine), NEW list \in Seq(STRING), NEW source, TakesSubs(t, list), Proxies(t)
    PROVE  Carries(InjectSubRenditions(t, list), list, FirstHeader(t), t, source)
  <1> DEFINE Linked(line) == IF line.tag = "variant" THEN [line EXCEPT !.group = Ext]
                                                     ELSE line
             linked == [i \in 1..Len(t) |-> Linked(t[i])]
             first == FirstHeader(t)
             page == Insert(linked, first, Declared(list))
             n == Len(list)
  <1>1. page = InjectSubRenditions(t, list)
    BY DEF InjectSubRenditions
  <1>2. Len(t) \in Nat /\ n \in Nat /\ \A i \in 1..Len(t) : t[i] \in PageLine
    <2> HIDE DEF Linked, linked, first, page
    <2> QED OBVIOUS
  <1>3. ASSUME NEW l \in PageLine
        PROVE  LET m == Linked(l) IN
                 /\ m \in PageLine /\ m.via = l.via /\ m.uri = l.uri
                 /\ m.tag = "variant" => m.group = Ext
    <2> HIDE DEF linked, first, page, n
    <2>1. CASE l.tag = "variant"
      BY <2>1, LinkedLine
    <2>2. CASE l.tag # "variant"
      BY <2>2
    <2> QED BY <2>1, <2>2
  <1>4. /\ linked = [i \in 1..Len(t) |-> linked[i]] /\ DOMAIN linked = 1..Len(t)
        /\ \A i \in 1..Len(t) : linked[i] = Linked(t[i])
    OBVIOUS
  <1>5. \A i \in 1..Len(t) :
           /\ linked[i] \in PageLine
           /\ linked[i].via = t[i].via /\ linked[i].uri = t[i].uri
           /\ linked[i].tag = "variant" => linked[i].group = Ext
    <2> HIDE DEF Linked, linked
    <2> QED BY <1>2, <1>3, <1>4
  <1> HIDE DEF Linked, linked
  <1>6. linked \in Seq(PageLine) /\ Len(linked) = Len(t)
    BY <1>2, <1>4, <1>5, MadeOf, Zenon
  <1>7. first \in 0..Len(t)
    BY <1>2, FirstHeaderIs
  <1> HIDE DEF first
  <1>8. /\ Declared(list) \in Seq(PageLine) /\ Len(Declared(list)) = n
        /\ \A k \in 1..n : Declared(list)[k] = SubRenditionLine(list[k])
    BY DeclaredLines
  <1> HIDE DEF n
  <1>9. /\ page \in Seq(PageLine) /\ Len(page) = Len(t) + n
        /\ \A i \in 1..first : page[i] = linked[i]
        /\ \A k \in 1..n : page[first + k] = Declared(list)[k]
        /\ \A i \in first + n + 1..Len(page) : page[i] = linked[i - n]
    <2>1. first \in 0..Len(linked)
      BY <1>6, <1>7
    <2> DEFINE lines == Declared(list)  m == Len(lines)
    <2>2. lines \in Seq(PageLine) /\ m = n
      BY <1>8
    <2> HIDE DEF lines
    <2>3. /\ page \in Seq(PageLine) /\ Len(page) = Len(linked) + m
          /\ \A i \in 1..first : page[i] = linked[i]
          /\ \A k \in 1..m : page[first + k] = lines[k]
          /\ \A i \in first + m + 1..Len(page) : page[i] = linked[i - m]
      <3>1. page = Insert(linked, first, lines)
        BY DEF lines
      <3>2. IsInsertion(PageLine, Insert(linked, first, lines), linked, first, lines)
        <4> HIDE DEF page, m
        <4> QED BY <1>6, <2>1, <2>2, Inserted
      <3> QED BY <3>1, <3>2, Zenon DEF IsInsertion
    <2> HIDE DEF page, m
    <2> QED BY <1>6, <2>2, <2>3 DEF lines
  <1> HIDE DEF page
  <1>10. ASSUME NEW i \in 1..Len(page), i \notin first + 1..first + n
         PROVE  \E j \in 1..Len(t) : page[i] = linked[j]
    <2> SUFFICES \E j \in 1..Len(t) : page[i] = linked[j]
      OBVIOUS
    <2>0. i \in Int /\ first \in Int /\ n \in Int /\ Len(t) \in Int
            /\ Len(page) = Len(t) + n /\ 0 <= first /\ first <= Len(t) /\ 1 <= i /\ i <= Len(page)
            /\ ~(first + 1 <= i /\ i <= first + n)
      BY <1>2, <1>7, <1>9, <1>10
    <2>1. CASE i <= first
      <3>1. i \in 1..first /\ i \in 1..Len(t)
        BY <2>0, <2>1
      <3> QED BY <3>1, <1>9
    <2>2. CASE i > first
      <3>1. i \in first + n + 1..Len(page) /\ i - n \in 1..Len(t)
        BY <2>0, <2>2
      <3> QED BY <3>1, <1>9
    <2> QED BY <2>0, <2>1, <2>2
  <1>11. ASSUME NEW i \in 1..Len(page), i \notin first + 1..first + n
         PROVE  FromText(page[i], t, source)
    <2>1. PICK j \in 1..Len(t) : page[i] = linked[j]
      BY <1>10, <1>11
    <2> QED BY <2>1, <1>5 DEF Proxies, FromText
  <1>12. /\ first \in Nat /\ first + n <= Len(page)
         /\ \A k \in 1..n : page[first + k] = SubRenditionLine(list[k])
    <2>1. first \in Nat /\ first + n <= Len(page)
      BY <1>2, <1>7, <1>9
    <2>2. \A k \in 1..n : page[first + k] = SubRenditionLine(list[k])
      BY <1>8, <1>9
    <2> QED BY <2>1, <2>2
  <1>13. Carries(page, list, first, t, source)
    BY <1>9, <1>11, <1>12 DEF Carries, n
  <1> QED BY <1>1, <1>13 DEF first

LEMMA SynthCarries ==
    ASSUME NEW t, NEW list \in Seq(STRING), NEW source \in URI \cup {NoUri}
    PROVE  Carries(SynthMediaMaster(list, source), list, 1, t, source)
  <1> DEFINE a == <<Header>>  b == a \o Declared(list)
             c == <<Variant(Ext, <<0, 4>>), Bare(source, "proxy")>>
             page == b \o c
             n == Len(list)
  <1>1. /\ Declared(list) \in Seq(PageLine) /\ Len(Declared(list)) = n
        /\ \A k \in 1..n : Declared(list)[k] = SubRenditionLine(list[k])
    BY DeclaredLines
  <1>2. ASSUME NEW u \in Words, NEW g \in Words, NEW z \in Nat \X Nat,
               NEW d \in [name : Words, host : Words], NEW v \in {"", "proxy"}
        PROVE  Line(u, g, z, d, v) \in PageLine
    BY DEF Line, PageLine
  <1>3. /\ "" \in Words /\ "header" \in Words /\ "variant" \in Words
        /\ "uri" \in Words /\ Ext \in Words
        /\ <<0, 0>> \in Nat \X Nat /\ <<0, 4>> \in Nat \X Nat
    BY DEF Words
  <1>4. NoUri \in [name : Words, host : Words] /\ source \in [name : Words, host : Words]
    <2>1. "" \in Words /\ STRING \subseteq Words
      BY DEF Words
    <2>2. NoUri \in [name : Words, host : Words]
      BY <2>1 DEF NoUri
    <2>3. \A u \in URI : u \in [name : Words, host : Words]
      BY <2>1 DEF URI
    <2> QED BY <2>2, <2>3
  <1>5. Header \in PageLine /\ Variant(Ext, <<0, 4>>) \in PageLine
          /\ Bare(source, "proxy") \in PageLine
    BY <1>2, <1>3, <1>4 DEF Header, Variant, Bare
  <1>6. /\ Header.tag = "header" /\ Header.via = ""
        /\ Variant(Ext, <<0, 4>>).group = Ext /\ Variant(Ext, <<0, 4>>).via = ""
        /\ Bare(source, "proxy").tag = "uri" /\ Bare(source, "proxy").via = "proxy"
        /\ Bare(source, "proxy").uri = source
    BY DEF Header, Variant, Bare, Line
  <1>7. /\ a \in Seq(PageLine) /\ Len(a) = 1 /\ a[1] = Header
        /\ c \in Seq(PageLine) /\ Len(c) = 2 /\ c[1] = Variant(Ext, <<0, 4>>)
        /\ c[2] = Bare(source, "proxy")
    BY <1>5
  <1> HIDE DEF a, c
  <1>8. /\ b \in Seq(PageLine) /\ Len(b) = 1 + n
        /\ b[1] = Header /\ \A k \in 1..n : b[1 + k] = SubRenditionLine(list[k])
    <2>1. /\ b \in Seq(PageLine) /\ Len(b) = Len(a) + Len(Declared(list))
          /\ \A i \in 1..Len(a) + Len(Declared(list)) :
               b[i] = IF i <= Len(a) THEN a[i] ELSE Declared(list)[i - Len(a)]
      <3> HIDE DEF n
      <3>1. a \in Seq(PageLine) /\ Declared(list) \in Seq(PageLine)
        BY <1>1, <1>7
      <3> QED BY <3>1, ConcatProperties
    <2> HIDE DEF b
    <2>2. n \in Nat
      OBVIOUS
    <2> HIDE DEF n
    <2>3. \A k \in 1..n : 1 + k \in 1..1 + n /\ ~(1 + k <= 1) /\ 1 + k - 1 = k
      BY <2>2
    <2> QED BY <1>1, <1>7, <2>1, <2>2, <2>3
  <1> HIDE DEF b
  <1>9. /\ page \in Seq(PageLine) /\ Len(page) = n + 3
        /\ \A i \in 1..n + 1 : page[i] = b[i]
        /\ page[n + 2] = Variant(Ext, <<0, 4>>) /\ page[n + 3] = Bare(source, "proxy")
    <2>1. /\ page \in Seq(PageLine) /\ Len(page) = Len(b) + Len(c)
          /\ \A i \in 1..Len(b) + Len(c) :
               page[i] = IF i <= Len(b) THEN b[i] ELSE c[i - Len(b)]
      BY <1>7, <1>8, ConcatProperties
    <2> HIDE DEF page
    <2>2. n \in Nat
      OBVIOUS
    <2> HIDE DEF n
    <2> QED BY <1>7, <1>8, <2>1, <2>2
  <1>10. page = SynthMediaMaster(list, source)
    BY DEF SynthMediaMaster, a, b, c
  <1> HIDE DEF page
  <1>11. n \in Nat
    OBVIOUS
  <1>12. \A k \in 1..n : page[1 + k] = SubRenditionLine(list[k])
    BY <1>8, <1>9, <1>11
  <1>13. ASSUME NEW i \in 1..Len(page), i \notin 1 + 1..1 + n
         PROVE  FromText(page[i], t, source)
    <2>1. i = 1 \/ i = n + 2 \/ i = n + 3
      BY <1>9, <1>11, <1>13
    <2>2. page[1] = Header
      BY <1>8, <1>9, <1>11
    <2> QED BY <2>1, <2>2, <1>6, <1>9 DEF FromText
  <1>14. Carries(page, list, 1, t, source)
    <2>1. 1 \in Nat /\ 1 + n <= Len(page)
      BY <1>9, <1>11
    <2> QED BY <1>9, <1>12, <1>13, <2>1 DEF Carries
  <1> QED BY <1>10, <1>14

\* What a rewritten playlist carries, and where it leads.
LEMMA Rewriting ==
    ASSUME NEW t \in Seq(UpstreamLine), NEW list \in Seq(STRING), NEW b \in BOOLEAN,
           NEW source \in URI \cup {NoUri}
    PROVE  LET page == RewriteManifest(t, list, b, source) IN
           /\ Len(page) \in Nat
           /\ \A i \in 1..Len(page) : page[i].via = "proxy" =>
                page[i].uri.host \in Discovered(t) \cup {source.host}
           /\ list # << >> /\ Has(page, "variant") =>
                IF Has(t, "subs") \/ (Has(t, "variant") /\ ~Has(t, "header"))
                THEN \A i \in 1..Len(page) : page[i].via # "here"
                ELSE \E first \in Nat : Carries(page, list, first, Proxied(t), source)
  <1> DEFINE page == RewriteManifest(t, list, b, source)
             out == Proxied(t)
             f == FirstHeader(out)
             alone == Has(t, "subs") \/ (Has(t, "variant") /\ ~Has(t, "header"))
  <1>1. /\ out \in Seq(PageLine) /\ Len(out) = Len(t)
        /\ \A i \in 1..Len(t) : Led(out[i], t[i])
        /\ \A tag : Has(out, tag) <=> Has(t, tag)
    BY ProxiedLines
  <1>2. Len(out) \in Nat /\ Len(t) \in Nat
    BY <1>1
  <1>3. page = CASE list # << >> /\ Has(out, "variant") -> InjectSubRenditions(out, list)
                 [] list # << >> /\ ~Has(out, "variant") /\ b /\ ~Has(out, "subs")
                      -> SynthMediaMaster(list, source)
                 [] OTHER -> out
    BY DEF RewriteManifest, Proxied, IsWrapped
  <1> HIDE DEF out, page
  <1>4. Proxies(out)
    BY <1>1 DEF Proxies, Led
  <1>5. \A i \in 1..Len(out) : out[i].via = "proxy" =>
          out[i].uri.host \in Discovered(t)
    <2> TAKE i \in 1..Len(out)
    <2> HAVE out[i].via = "proxy"
    <2>1. Led(out[i], t[i]) /\ i \in 1..Len(t)
      BY <1>1
    <2>2. Rewritten(t[i]).via = "proxy" /\ out[i].uri = t[i].uri
      BY <2>1 DEF Led
    <2> QED BY <2>1, <2>2 DEF Discovered
  <1>6. f \in 0..Len(out) /\ (f = 0 <=> ~Has(out, "header"))
    BY <1>2, FirstHeaderIs
  <1> HIDE DEF f
  <1>7. CASE page = out
              /\ (list = << >> \/ ~Has(out, "variant") \/ ~TakesSubs(out, list))
    <2>1. \A i \in 1..Len(page) : page[i].via # "here"
      BY <1>4, <1>7 DEF Proxies
    <2>2. list # << >> /\ Has(page, "variant") => alone
      BY <1>1, <1>6, <1>7 DEF TakesSubs, f
    <2> QED BY <1>2, <1>5, <1>7, <2>1, <2>2 DEF page
  <1>8. ASSUME NEW first \in Nat, Carries(page, list, first, out, source), list # << >>,
               ~alone
        PROVE  /\ Len(page) \in Nat
               /\ \A i \in 1..Len(page) : page[i].via = "proxy" =>
                    page[i].uri.host \in Discovered(t) \cup {source.host}
    <2>1. Len(page) \in Nat
      BY <1>8 DEF Carries
    <2>2. ASSUME NEW i \in 1..Len(page)
          PROVE  page[i].via = "proxy" =>
                      page[i].uri.host \in Discovered(t) \cup {source.host}
      <3>1. CASE i \in first + 1..first + Len(list)
        <4>1. i - first \in 1..Len(list) /\ first + (i - first) = i
          <5>1. Len(list) \in Nat
            OBVIOUS
          <5> QED BY <3>1, <5>1
        <4>2. page[i] = SubRenditionLine(list[i - first])
          BY <4>1, <1>8 DEF Carries
        <4>3. SubRenditionLine(list[i - first]).via = "here"
          BY DEF SubRenditionLine, Line
        <4> QED BY <4>2, <4>3
      <3>2. CASE i \notin first + 1..first + Len(list)
        <4>1. page[i].via = "proxy" =>
                   page[i].uri = source \/ \E j \in 1..Len(out) :
                               out[j].via = "proxy" /\ page[i].uri = out[j].uri
          BY <3>2, <1>8 DEF Carries, FromText
        <4> QED BY <4>1, <1>5
      <3> QED BY <3>1, <3>2
    <2> QED BY <2>1, <2>2
  <1>9. CASE list # << >> /\ Has(out, "variant") /\ TakesSubs(out, list)
    <2>1. page = InjectSubRenditions(out, list)
      BY <1>3, <1>9
    <2>2. Carries(page, list, f, out, source)
      BY <2>1, <1>1, <1>4, <1>9, InjectedCarries DEF f
    <2>3. f \in Nat /\ ~alone
      BY <1>1, <1>2, <1>6, <1>9 DEF TakesSubs, f
    <2> QED BY <2>2, <2>3, <1>8, <1>9 DEF page, out
  <1>10. CASE list # << >> /\ ~Has(out, "variant") /\ b /\ ~Has(out, "subs")
    <2>1. Carries(page, list, 1, out, source)
      BY <1>3, <1>10, SynthCarries
    <2>2. ~alone /\ 1 \in Nat
      BY <1>1, <1>10
    <2> QED BY <2>1, <2>2, <1>8, <1>10 DEF page, out
  <1>11. \/ list # << >> /\ Has(out, "variant") /\ TakesSubs(out, list)
         \/ list # << >> /\ ~Has(out, "variant") /\ b /\ ~Has(out, "subs")
         \/ page = out /\ (list = << >> \/ ~Has(out, "variant") \/ ~TakesSubs(out, list))
    <2>1. ~TakesSubs(out, list) => InjectSubRenditions(out, list) = out
      BY DEF InjectSubRenditions
    <2> QED BY <2>1, <1>3
  <1> QED BY <1>7, <1>9, <1>10, <1>11

\* What it says of one name.
Counts(page, list, sub) ==
    Cardinality({i \in 1..Len(page) : page[i].via = "here" /\ page[i].uri.name = sub})
      = Cardinality({k \in 1..Len(list) : list[k] = sub})

(* A list's lines, as many of each name as the list has. *)
LEMMA Counted ==
    ASSUME NEW page, NEW list \in Seq(STRING), NEW first \in Nat, NEW t, NEW source,
           NEW sub,
           Carries(page, list, first, t, source)
    PROVE  Counts(page, list, sub)
  <1> DEFINE S == {k \in 1..Len(list) : list[k] = sub}
             T == {i \in 1..Len(page) : page[i].via = "here" /\ page[i].uri.name = sub}
             f == [k \in S |-> first + k]
  <1>0. /\ Len(page) \in Nat /\ Len(list) \in Nat /\ first + Len(list) <= Len(page)
        /\ \A k \in 1..Len(list) : page[first + k] = SubRenditionLine(list[k])
        /\ \A i \in 1..Len(page) :
             i \notin first + 1..first + Len(list) => page[i].via # "here"
    <2>1. \A line : FromText(line, t, source) => line.via # "here"
      BY DEF FromText
    <2> HIDE DEF S, T, f
    <2>2. Len(list) \in Nat
      OBVIOUS
    <2> QED BY <2>1, <2>2 DEF Carries
  <1>1. \A k \in 1..Len(list) :
          page[first + k].via = "here" /\ page[first + k].uri.name = list[k]
    <2>1. \A name : LET l == SubRenditionLine(name) IN
                     l.via = "here" /\ l.uri.name = name
      BY DEF SubRenditionLine, Line
    <2> HIDE DEF S, T, f
    <2> QED BY <2>1, <1>0
  <1>2. ASSUME NEW k \in S PROVE f[k] = first + k /\ f[k] \in T
    BY <1>0, <1>1
  <1>3. ASSUME NEW i \in T PROVE i - first \in S /\ f[i - first] = i
    <2>1. i \in first + 1..first + Len(list) /\ i \in Int
      BY <1>0
    <2>2. i - first \in 1..Len(list) /\ i = first + (i - first)
      BY <1>0, <2>1
    <2>3. list[i - first] = sub
      BY <1>1, <2>2
    <2> QED BY <2>2, <2>3
  <1>4. \A a, b \in S : f[a] = f[b] => a = b
    OBVIOUS
  <1>5. IsFiniteSet(S)
    <2>1. IsFiniteSet(1..Len(list))
      BY FS_Interval
    <2> QED BY <2>1, FS_Subset
  <1>6. f \in Bijection(S, T)
    <2>1. f \in [S -> T]
      BY <1>2
    <2> HIDE DEF S, T, f
    <2> QED BY <2>1, <1>2, <1>3, <1>4 DEF Bijection, Injection, Surjection, IsInjective
  <1> HIDE DEF S, T, f
  <1>7. ExistsBijection(S, T)
    BY <1>6 DEF ExistsBijection
  <1>8. Cardinality(T) = Cardinality(S)
    BY <1>5, <1>7, FS_Bijection
  <1> QED BY <1>8 DEF S, T, Counts


LEMMA CarriesSoundly ==
    ASSUME NEW page, NEW list \in Seq(STRING), NEW first \in Nat, NEW t, NEW source,
           Carries(page, list, first, t, source), list # << >>
    PROVE  /\ GroupsDeclared(page)
           /\ \A sub : Counts(page, list, sub)
  <1>1. /\ Len(page) \in Nat /\ first + Len(list) <= Len(page)
        /\ \A k \in 1..Len(list) : page[first + k] = SubRenditionLine(list[k])
    BY DEF Carries
  <1>2. \A i \in 1..Len(page) : i \notin first + 1..first + Len(list) =>
          /\ page[i].tag = "variant" => page[i].group = Ext
          /\ page[i].via # "here"
    <2>1. \A line : FromText(line, t, source) => line.via # "here"
                      /\ (line.tag = "variant" => line.group = Ext)
      BY DEF FromText
    <2> QED BY <2>1 DEF Carries
  <1>3. Len(list) \in Nat /\ Len(list) > 0
    BY EmptySeq
  <1>4. \A sub : SubRenditionLine(sub).tag = "subs" /\ SubRenditionLine(sub).group = Ext
    BY DEF SubRenditionLine, Line
  <1>5. first + 1 \in 1..Len(page) /\ page[first + 1].tag = "subs"
          /\ page[first + 1].group = Ext
    BY <1>1, <1>3, <1>4
  <1>6. ASSUME NEW i \in 1..Len(page), page[i].tag = "variant"
        PROVE  page[i].group = Ext
    <2>1. CASE i \in first + 1..first + Len(list)
      <3>1. i - first \in 1..Len(list) /\ first + (i - first) = i
        BY <2>1, <1>3
      <3>2. page[i].tag = "subs"
        BY <3>1, <1>1, <1>4
      <3> QED BY <3>2, <1>6
    <2> QED BY <2>1, <1>2, <1>6
  <1>7. GroupsDeclared(page)
    BY <1>5, <1>6 DEF GroupsDeclared
  <1>8. ASSUME NEW sub
        PROVE  Counts(page, list, sub)
    BY Counted
  <1> QED BY <1>7, <1>8

\* Induction over the naturals: a set that lacks one lacks a least one.
LEMMA Counting ==
    ASSUME NEW S, 0 \in S, \A n \in Nat : n \in S => n + 1 \in S
    PROVE  Nat \subseteq S
  <1> SUFFICES ASSUME Nat \ S # {} PROVE FALSE
    OBVIOUS
  <1>1. PICK m \in Nat \ S : \A k \in Nat \ S : ~(<<k, m>> \in OpToRel(<, Nat))
    BY NatLessThanWellFounded, WFMin
  <1>2. \A k \in Nat \ S : ~(k < m)
    BY <1>1 DEF OpToRel
  <1>3. m # 0
    OBVIOUS
  <1>4. m - 1 \in Nat /\ m - 1 \in S
    BY <1>2, <1>3
  <1> QED BY <1>4

Scans(t, n, g) ==
    g = [i \in 0..n |-> IF i = 0 THEN NoneYet ELSE Scan(t, g[i - 1], i)]

LEMMA ScannedIs ==
    ASSUME NEW t, Len(t) \in Nat PROVE Scans(t, Len(t), Scanned(t))
  <1> DEFINE S == {n \in Nat : \E g : Scans(t, n, g)}
  <1>1. 0 \in S
    <2> DEFINE g == [i \in 0..0 |-> NoneYet]
    <2>1. Scans(t, 0, g)
      BY DEF Scans
    <2> QED BY <2>1
  <1>2. ASSUME NEW n \in Nat, n \in S PROVE n + 1 \in S
    <2>1. PICK g : Scans(t, n, g)
      BY <1>2
    <2> DEFINE h == [i \in 0..n + 1 |-> IF i <= n THEN g[i] ELSE Scan(t, g[n], i)]
    <2>2. \A i \in 1..n : g[i] = Scan(t, g[i - 1], i)
      <3>1. \A i \in 0..n : g[i] = IF i = 0 THEN NoneYet ELSE Scan(t, g[i - 1], i)
        <4> HIDE DEF h, S
        <4> QED BY <2>1 DEF Scans
      <3> QED BY <3>1
    <2>3. g[0] = NoneYet
      BY <2>1 DEF Scans
    <2>4. \A i \in 0..n + 1 : h[i] = IF i = 0 THEN NoneYet ELSE Scan(t, h[i - 1], i)
      BY <2>2, <2>3
    <2>5. Scans(t, n + 1, h)
      BY <2>4 DEF Scans
    <2> QED BY <2>5
  <1>3. Len(t) \in S
    <2> HIDE DEF S
    <2> QED BY <1>1, <1>2, Counting
  <1>4. \E g : Scans(t, Len(t), g)
    BY <1>3
  <1>5. Scanned(t) = CHOOSE g : Scans(t, Len(t), g)
    BY DEF Scanned, Scans
  <1> QED BY <1>4, <1>5

Variants(t) == {i \in 1..Len(t) : t[i].tag = "variant"}
Owned(t, i) == /\ NextUri(t, i) # 0
               /\ \A j \in Variants(t) : j > i => j > NextUri(t, i)

LEMMA BetterIsAnOrder ==
    ASSUME NEW a \in Nat \X Nat, NEW b \in Nat \X Nat, NEW c \in Nat \X Nat
    PROVE  /\ ~Better(a, a) /\ Better(a, <<-1, -1>>)
           /\ Better(a, b) => ~Better(b, a)
           /\ Better(b, a) /\ ~Better(c, a) => ~Better(c, b)
           /\ ~Better(b, a) /\ ~Better(c, b) => ~Better(c, a)
  BY DEF Better


TextLines(t) == {t[k] : k \in 1..Len(t)}

\* What the scan has found when it has read i lines.
Found(t, i, acc) ==
    /\ acc.upto = 0 \/ \E u \in Variants(t) : u <= i /\ acc.upto = NextUri(t, u)
    /\ acc.out \in Seq(TextLines(t))
    /\ \/ acc.best = NoneYet.best /\ \A k \in Variants(t) : k > i
       \/ \E v \in Variants(t) :
            /\ acc.best = <<t[v], t[NextUri(t, v)]>>
            /\ \A k \in Variants(t) : k <= i => ~Better(t[k].size, t[v].size)

LEMMA NoneIs == \E x : NoneYet.best = <<x>> /\ x.size = <<-1, -1>>
  <1>1. NoneYet.best = <<Variant("", <<-1, -1>>)>>
    BY DEF NoneYet
  <1>2. Variant("", <<-1, -1>>).size = <<-1, -1>>
    BY DEF Variant, Line
  <1> QED BY <1>1, <1>2, Zenon

LEMMA ScanFinds ==
    ASSUME NEW t, Len(t) \in Nat, \A i \in 1..Len(t) : t[i].size \in Nat \X Nat,
           \A i \in Variants(t) : Owned(t, i),
           NEW i \in 1..Len(t), NEW acc, Found(t, i - 1, acc)
    PROVE  Found(t, i, Scan(t, acc, i))
  <1> DEFINE j == NextUri(t, i)
             new == Scan(t, acc, i)
  <1>1. i \in Nat /\ i - 1 \in Nat /\ Variants(t) \subseteq Nat
    BY DEF Variants
  <1>2. \A u \in Variants(t) : /\ u \in Nat /\ NextUri(t, u) \in Nat \ {0}
                               /\ NextUri(t, u) \in 1..Len(t)
                               /\ t[u].size \in Nat \X Nat
    <2> TAKE u \in Variants(t)
    <2>1. u \in 1..Len(t) /\ NextUri(t, u) # 0
      BY DEF Variants, Owned
    <2> QED BY <2>1, NextUriIs
  <1>3. acc.upto \in Nat
    BY <1>2 DEF Found
  <1>4. CASE i <= acc.upto
    <2>1. new = acc
      BY <1>4 DEF Scan
    <2>2. PICK u \in Variants(t) : u <= i - 1 /\ acc.upto = NextUri(t, u)
      BY <1>4, <1>1, <1>3 DEF Found
    <2>3. i \notin Variants(t)
      BY <2>2, <1>1, <1>2, <1>4 DEF Owned
    <2>4. \A k \in Variants(t) : (k <= i <=> k <= i - 1) /\ (k > i <=> k > i - 1)
      BY <1>1, <2>3
    <2>5. acc.upto = 0 \/ \E w \in Variants(t) : w <= i /\ acc.upto = NextUri(t, w)
      BY <2>2, <1>1
    <2> HIDE DEF new
    <2> QED BY <2>1, <2>4, <2>5 DEF Found, new
  <1>5. CASE i > acc.upto /\ t[i].tag # "variant"
    <2>1. /\ new.upto = acc.upto /\ new.best = acc.best
          /\ new.out = Append(acc.out, t[i])
      <3>1. ~(i <= acc.upto)
        BY <1>1, <1>3, <1>5
      <3> QED BY <3>1, <1>5 DEF Scan
    <2>2. i \notin Variants(t)
      BY <1>5 DEF Variants
    <2>3. \A k \in Variants(t) : (k <= i <=> k <= i - 1) /\ (k > i <=> k > i - 1)
      BY <1>1, <2>2
    <2>4. new.out \in Seq(TextLines(t))
      <3>1. t[i] \in TextLines(t) /\ acc.out \in Seq(TextLines(t))
        BY DEF TextLines, Found
      <3> QED BY <2>1, <3>1
    <2>5. acc.upto = 0 \/ \E w \in Variants(t) : w <= i /\ acc.upto = NextUri(t, w)
      BY <1>1 DEF Found
    <2> HIDE DEF new
    <2> QED BY <2>1, <2>3, <2>4, <2>5 DEF Found, new
  <1>6. CASE i > acc.upto /\ t[i].tag = "variant"
    <2>1. i \in Variants(t) /\ j # 0
      BY <1>6, <1>2 DEF Variants
    <2>2. /\ new.upto = j /\ new.out = acc.out
          /\ new.best = IF Better(t[i].size, acc.best[1].size)
                        THEN <<t[i], t[j]>> ELSE acc.best
      <3>1. ~(i <= acc.upto)
        BY <1>1, <1>3, <1>6
      <3> QED BY <3>1, <2>1, <1>6 DEF Scan
    <2>3. new.upto = 0 \/ \E u \in Variants(t) : u <= i /\ new.upto = NextUri(t, u)
      BY <2>1, <2>2, <1>1
    <2> DEFINE Best(v) == /\ new.best = <<t[v], t[NextUri(t, v)]>>
                          /\ \A k \in Variants(t) : k <= i => ~Better(t[k].size, t[v].size)
    <2>4. \A k \in Variants(t) : k <= i => k = i \/ k <= i - 1
      BY <1>1
    <2> HIDE DEF new
    <2>5. ASSUME acc.best = NoneYet.best, \A k \in Variants(t) : k > i - 1
          PROVE  \E w \in Variants(t) : Best(w)
      <3>1. acc.best[1].size = <<-1, -1>>
        <4>1. PICK x : NoneYet.best = <<x>> /\ x.size = <<-1, -1>>
          BY NoneIs
        <4> QED BY <2>5, <4>1
      <3>2. new.best = <<t[i], t[j]>>
        BY <3>1, <2>1, <2>2, <1>2, BetterIsAnOrder
      <3>3. \A k \in Variants(t) : k <= i => k = i
        BY <2>4, <2>5, <1>1
      <3>4. Best(i)
        BY <3>2, <3>3, <2>1, <1>2, BetterIsAnOrder
      <3> QED BY <3>4, <2>1
    <2>6. ASSUME NEW v \in Variants(t), acc.best = <<t[v], t[NextUri(t, v)]>>,
                 \A k \in Variants(t) : k <= i - 1 => ~Better(t[k].size, t[v].size)
          PROVE  \E w \in Variants(t) : Best(w)
      <3>1. acc.best[1] = t[v]
        BY <2>6
      <3>2. CASE Better(t[i].size, t[v].size)
        <4>1. new.best = <<t[i], t[j]>>
          BY <3>1, <3>2, <2>2
        <4>2. ASSUME NEW k \in Variants(t), k <= i
              PROVE  ~Better(t[k].size, t[i].size)
          <5>1. CASE k = i
            BY <5>1, <2>1, <1>2, BetterIsAnOrder
          <5>2. CASE k <= i - 1
            <6>1. ~Better(t[k].size, t[v].size)
              BY <2>6, <5>2
            <6> QED BY <6>1, <3>2, <2>1, <1>2, BetterIsAnOrder
          <5> QED BY <5>1, <5>2, <4>2, <2>4
        <4> QED BY <4>1, <4>2, <2>1
      <3>3. CASE ~Better(t[i].size, t[v].size)
        <4>1. new.best = <<t[v], t[NextUri(t, v)]>>
          BY <3>1, <3>3, <2>2, <2>6
        <4>2. \A k \in Variants(t) : k <= i => ~Better(t[k].size, t[v].size)
          BY <3>3, <2>4, <2>6
        <4> QED BY <4>1, <4>2
      <3> QED BY <3>2, <3>3
    <2>7. \E v \in Variants(t) : Best(v)
      <3>1. \/ acc.best = NoneYet.best /\ \A k \in Variants(t) : k > i - 1
            \/ \E v \in Variants(t) :
                 /\ acc.best = <<t[v], t[NextUri(t, v)]>>
                 /\ \A k \in Variants(t) : k <= i - 1 => ~Better(t[k].size, t[v].size)
        BY DEF Found
      <3> HIDE DEF Best
      <3> QED BY <3>1, <2>5, <2>6
    <2>8. new.out \in Seq(TextLines(t))
      BY <2>2 DEF Found
    <2> QED BY <2>3, <2>7, <2>8 DEF Found, new
  <1>7. i > acc.upto \/ i <= acc.upto
    BY <1>1, <1>3
  <1> QED BY <1>4, <1>5, <1>6, <1>7

LEMMA LastLineIs ==
    ASSUME NEW t, Len(t) \in Nat \ {0}, t[Len(t)].tag = "uri"
    PROVE  LastPlaylistLine(t) = t[Len(t)].uri
  <1> DEFINE I == {i \in 1..Len(t) : t[i].tag = "uri"}
             last == IF I # {} THEN Max(I) ELSE 0
  <1>1. LastPlaylistLine(t) = IF last = 0 THEN NoUri ELSE t[last].uri
    BY DEF LastPlaylistLine, SelectLastInSeq
  <1>2. Len(t) \in I /\ I \in SUBSET (0..Len(t)) /\ Len(t) \in Nat
    OBVIOUS
  <1>3. Max(I) \in I /\ \A k \in I : k <= Max(I)
    <2> HIDE DEF I
    <2> QED BY <1>2, Greatest
  <1>4. Max(I) = Len(t)
    BY <1>2, <1>3
  <1>5. last = Len(t) /\ last # 0
    BY <1>2, <1>4
  <1> HIDE DEF last
  <1> QED BY <1>1, <1>5

LEMMA ScanEnds ==
    ASSUME NEW t, Len(t) \in Nat, \A i \in 1..Len(t) : t[i].size \in Nat \X Nat,
           \A i \in Variants(t) : Owned(t, i)
    PROVE  Found(t, Len(t), Scanned(t)[Len(t)])
  <1> DEFINE n == Len(t)  g == Scanned(t)
             S == {i \in Nat : i <= n => Found(t, i, g[i])}
  <1>1. \A i \in 0..n : g[i] = IF i = 0 THEN NoneYet ELSE Scan(t, g[i - 1], i)
    <2>1. Scans(t, n, g)
      BY ScannedIs
    <2> HIDE DEF n, g
    <2> QED BY <2>1 DEF Scans
  <1> HIDE DEF g
  <1>2. 0 \in S
    <2>1. g[0] = NoneYet
      BY <1>1
    <2>2. NoneYet.upto = 0 /\ NoneYet.out = << >>
      BY DEF NoneYet
    <2>3. \A k \in Variants(t) : k > 0
      BY DEF Variants
    <2>4. Found(t, 0, NoneYet)
      BY <2>2, <2>3 DEF Found
    <2> QED BY <2>1, <2>4
  <1>3. ASSUME NEW i \in Nat, i \in S PROVE i + 1 \in S
    <2> SUFFICES ASSUME i + 1 <= n PROVE Found(t, i + 1, g[i + 1])
      OBVIOUS
    <2>1. i + 1 \in 1..n /\ i <= n /\ i + 1 - 1 = i /\ i + 1 # 0 /\ i + 1 \in 0..n
      OBVIOUS
    <2>2. g[i + 1] = Scan(t, g[i], i + 1)
      BY <1>1, <2>1
    <2>3. Found(t, i + 1 - 1, g[i])
      BY <1>3, <2>1
    <2> QED BY <2>1, <2>2, <2>3, ScanFinds
  <1>4. n \in S
    <2> HIDE DEF S
    <2> QED BY <1>2, <1>3, Counting
  <1> QED BY <1>4 DEF g

\* The variant the read-ahead warms, where every variant has its own line.
LEMMA BestWarmed ==
    ASSUME NEW t \in Seq(UpstreamLine) PROVE BestIsWarmed(t)
  <1>1. Len(t) \in Nat /\ \A i \in 1..Len(t) : t[i] \in UpstreamLine
    OBVIOUS
  <1>2. \A i \in 1..Len(t) : t[i].size \in Nat \X Nat
    BY <1>1 DEF UpstreamLine
  <1>3. ASSUME Variants(t) # {}, \A i \in Variants(t) : Owned(t, i)
        PROVE  \E i \in Variants(t) :
                 /\ WarmedVariant(t) = t[NextUri(t, i)].uri
                 /\ \A j \in Variants(t) : ~Better(t[j].size, t[i].size)
    <2> DEFINE end == Scanned(t)[Len(t)]
    <2>1. Found(t, Len(t), end)
      BY <1>1, <1>2, <1>3, ScanEnds
    <2> HIDE DEF end
    <2>2. \A k \in Variants(t) : k <= Len(t) /\ ~(k > Len(t))
      BY <1>1 DEF Variants
    <2>3. PICK v \in Variants(t) :
            /\ end.best = <<t[v], t[NextUri(t, v)]>>
            /\ \A k \in Variants(t) : ~Better(t[k].size, t[v].size)
      BY <2>1, <2>2, <1>3 DEF Found
    <2>4. end.out \in Seq(TextLines(t))
      BY <2>1 DEF Found
    <2>5. NextUri(t, v) \in 1..Len(t) /\ t[NextUri(t, v)].tag = "uri" /\ v \in 1..Len(t)
      <3>1. v \in 1..Len(t) /\ NextUri(t, v) # 0
        BY <1>3 DEF Variants, Owned
      <3> QED BY <3>1, <1>1, NextUriIs
    <2>6. end.best \in Seq(TextLines(t)) /\ Len(end.best) = 2
            /\ end.best[2] = t[NextUri(t, v)]
      <3>1. t[v] \in TextLines(t) /\ t[NextUri(t, v)] \in TextLines(t)
        BY <2>5 DEF TextLines
      <3> QED BY <3>1, <2>3
    <2>7. end.best # NoneYet.best
      <3>1. PICK x : NoneYet.best = <<x>>
        BY NoneIs
      <3>2. Len(NoneYet.best) = 1
        BY <3>1
      <3> QED BY <3>2, <2>6
    <2> DEFINE forced == end.out \o end.best
    <2>8. ForceHighestQuality(t) = forced
      BY <2>7 DEF ForceHighestQuality, end
    <2>9. /\ Len(forced) = Len(end.out) + Len(end.best)
          /\ \A i \in 1..Len(end.out) + Len(end.best) :
               forced[i] = IF i <= Len(end.out) THEN end.out[i]
                           ELSE end.best[i - Len(end.out)]
      BY <2>4, <2>6, ConcatProperties
    <2>10. Len(end.out) \in Nat
      BY <2>4
    <2> HIDE DEF forced
    <2>11. Len(forced) \in Nat \ {0} /\ forced[Len(forced)] = t[NextUri(t, v)]
      BY <2>6, <2>9, <2>10
    <2>12. WarmedVariant(t) = t[NextUri(t, v)].uri
      BY <2>5, <2>8, <2>11, LastLineIs DEF WarmedVariant
    <2> QED BY <2>3, <2>12
  <1>4. ASSUME NEW i \in 1..Len(t), NEW j \in 1..Len(t), ~Better(t[j].size, t[i].size)
        PROVE  LET other == t[j].size  best == t[i].size IN
               other[1] < best[1] \/ (other[1] = best[1] /\ other[2] <= best[2])
    <2>1. t[i].size \in Nat \X Nat /\ t[j].size \in Nat \X Nat
      BY <1>2
    <2>2. ASSUME NEW a \in Nat \X Nat, NEW b \in Nat \X Nat, ~Better(b, a)
          PROVE  b[1] < a[1] \/ (b[1] = a[1] /\ b[2] <= a[2])
      BY <2>2 DEF Better
    <2> QED BY <1>4, <2>1, <2>2
  <1> QED BY <1>3, <1>4 DEF BestIsWarmed, Variants, Owned

\* A page is the rewriting of the upstream's with the request's own list.
IsRewriting(page, t, list, root, isOpen) ==
    \E source \in {Source, NoUri} :
      /\ page = RewriteManifest(t, list, root, source)
      /\ isOpen => source = Source

PagesAreRewritten ==
    \A q \in Requests : request[q].at \in {"rewritten", "served"} =>
      IsRewriting(request[q].page, text, request[q].list, q \in Roots, open)

\* What a page leads to was allowed before the page was written.
HostsAreAllowed ==
    /\ Source.host \in allowed
    /\ \A q \in Requests : request[q].at = "served" /\ open =>
         Discovered(text) \subseteq allowed

LEMMA PagesKeep ==
    ASSUME SubsIInv, PagesAreRewritten, HostsAreAllowed, [SubsNext]_subsVars
    PROVE  PagesAreRewritten' /\ HostsAreAllowed'
  <1>1. text' = text /\ (open' => open)
    <2>1. CASE \/ MaybeAttach \/ LadderReturns \/ LadderFlips \/ LadderAttaches
               \/ SetSubRenditions \/ PostSignals \/ SessionEnds
      BY <2>1 DEF MaybeAttach, LadderReturns, LadderFlips, LadderAttaches,
                  SetSubRenditions, PostSignals, SessionEnds
    <2>2. CASE \E q \in Requests :
                 \/ Serve(q) \/ HoldRoot(q) \/ WaitForSubs(q) \/ ReadList(q)
                 \/ Rewrite(q) \/ Admit(q)
      <3>1. PICK q \in Requests :
              \/ Serve(q) \/ HoldRoot(q) \/ WaitForSubs(q) \/ ReadList(q)
              \/ Rewrite(q) \/ Admit(q)
        BY <2>2
      <3>2. UNCHANGED <<text, open>>
        BY <3>1 DEF Serve, HoldRoot, WaitForSubs, ReadList, Rewrite, Admit
      <3> QED BY <3>2
    <2>3. CASE UNCHANGED subsVars
      BY <2>3 DEF subsVars
    <2> QED BY <2>1, <2>2, <2>3 DEF SubsNext
  <1>2. CASE UNCHANGED <<request, allowed>>
    BY <1>1, <1>2 DEF PagesAreRewritten, HostsAreAllowed, IsRewriting
  <1>3. request \in [Requests -> SubRequest]
    BY DEF SubsIInv, SubsTypeOK
  <1>4. ASSUME NEW q \in Requests,
               Serve(q) \/ HoldRoot(q) \/ WaitForSubs(q) \/ ReadList(q)
        PROVE  PagesAreRewritten' /\ HostsAreAllowed'
    <2>1. allowed' = allowed
      BY <1>4 DEF Serve, HoldRoot, WaitForSubs, ReadList
    <2>2. \A p \in Requests \ {q} : request'[p] = request[p]
      BY <1>3, <1>4 DEF Serve, HoldRoot, WaitForSubs, ReadList, To
    <2>3. request'[q].at \notin {"rewritten", "served"}
      <3>1. ASSUME NEW where \in {"looked up", "refused", "rewriting"}, To(q, where)
            PROVE  request'[q].at = where
        <4>1. request[q] \in SubRequest
          BY <1>3
        <4> QED BY <1>3, <3>1, <4>1 DEF To, SubRequest
      <3>2. CASE Serve(q)
        BY <3>1, <3>2 DEF Serve
      <3>3. CASE HoldRoot(q)
        <4>1. request[q] \in SubRequest
          BY <1>3
        <4> QED BY <1>3, <3>3, <4>1 DEF HoldRoot, SubRequest
      <3>4. CASE WaitForSubs(q)
        <4>1. request[q] \in SubRequest
          BY <1>3
        <4>2. request' = [request EXCEPT ![q].at = "rewriting", ![q].heard = TRUE]
                => request'[q].at = "rewriting"
          BY <1>3, <4>1 DEF SubRequest
        <4> QED BY <3>1, <3>4, <4>2 DEF WaitForSubs
      <3>5. CASE ReadList(q)
        <4>1. request[q] \in SubRequest
          BY <1>3
        <4> QED BY <1>3, <3>5, <4>1 DEF ReadList, SubRequest
      <3> QED BY <1>4, <3>2, <3>3, <3>4, <3>5
    <2> QED BY <1>1, <2>1, <2>2, <2>3 DEF PagesAreRewritten, HostsAreAllowed, IsRewriting
  <1>5. ASSUME NEW q \in Requests, Rewrite(q)
        PROVE  PagesAreRewritten' /\ HostsAreAllowed'
    <2> DEFINE source == IF open THEN Source ELSE NoUri
    <2>1. UNCHANGED <<allowed, open>>
      BY <1>5 DEF Rewrite
    <2>2. \A p \in Requests \ {q} : request'[p] = request[p]
      BY <1>3, <1>5 DEF Rewrite
    <2>3. /\ request'[q].at = "rewritten" /\ request'[q].list = request[q].list
          /\ request'[q].page = RewriteManifest(text, request[q].list, q \in Roots, source)
      <3>1. request[q] \in SubRequest
        BY <1>3
      <3> QED BY <1>3, <1>5, <3>1 DEF Rewrite, SubRequest
    <2>4. PagesAreRewritten'
      <3>1. ASSUME NEW p \in Requests, request'[p].at \in {"rewritten", "served"}
            PROVE  IsRewriting(request'[p].page, text, request'[p].list, p \in Roots, open')
        <4>1. CASE p = q
          <5>1. source \in {Source, NoUri} /\ (open' => source = Source)
            BY <2>1
          <5> HIDE DEF source
          <5> QED BY <4>1, <2>3, <5>1 DEF IsRewriting
        <4>2. CASE p # q
          BY <4>2, <2>1, <2>2, <3>1 DEF PagesAreRewritten
        <4> QED BY <4>1, <4>2
      <3> QED BY <1>1, <3>1 DEF PagesAreRewritten
    <2>5. HostsAreAllowed'
      BY <1>1, <2>1, <2>2, <2>3 DEF HostsAreAllowed
    <2> QED BY <2>4, <2>5
  <1>6. ASSUME NEW q \in Requests, Admit(q)
        PROVE  PagesAreRewritten' /\ HostsAreAllowed'
    <2>1. /\ allowed \subseteq allowed' /\ open' = open
          /\ open => Discovered(text) \subseteq allowed'
      BY <1>6 DEF Admit
    <2>2. \A p \in Requests \ {q} : request'[p] = request[p]
      BY <1>3, <1>6 DEF Admit, To
    <2>3. /\ request[q].at = "rewritten" /\ request'[q].list = request[q].list
          /\ request'[q].page = request[q].page
      <3>1. request[q] \in SubRequest
        BY <1>3
      <3> QED BY <1>3, <1>6, <3>1 DEF Admit, At, To, SubRequest
    <2>4. PagesAreRewritten'
      <3>1. ASSUME NEW p \in Requests, request'[p].at \in {"rewritten", "served"}
            PROVE  IsRewriting(request'[p].page, text, request'[p].list, p \in Roots, open')
        <4>1. CASE p = q
          BY <4>1, <2>1, <2>3 DEF PagesAreRewritten
        <4>2. CASE p # q
          BY <4>2, <2>1, <2>2, <3>1 DEF PagesAreRewritten
        <4> QED BY <4>1, <4>2
      <3> QED BY <1>1, <3>1 DEF PagesAreRewritten
    <2>5. HostsAreAllowed'
      BY <1>1, <2>1, <2>2 DEF HostsAreAllowed
    <2> QED BY <2>4, <2>5
  <1>7. CASE SubsNext
    <2>1. UNCHANGED <<request, allowed>> \/ \E q \in Requests :
            \/ Serve(q) \/ HoldRoot(q) \/ WaitForSubs(q) \/ ReadList(q)
            \/ Rewrite(q) \/ Admit(q)
      BY <1>7 DEF SubsNext, MaybeAttach, LadderReturns, LadderFlips, LadderAttaches,
           SetSubRenditions, PostSignals, SessionEnds
    <2> QED BY <2>1, <1>2, <1>4, <1>5, <1>6
  <1>8. CASE UNCHANGED subsVars
    BY <1>2, <1>8 DEF subsVars
  <1> QED BY <1>7, <1>8

LEMMA ListsAreSequences ==
    ASSUME RenditionsAssumption PROVE SubLists \subseteq Seq(STRING)
  <1>1. ASSUME NEW l \in LadderLists \cup PlayerLists PROVE Capped(l) \in Seq(STRING)
    <2>1. l \in Seq(STRING) /\ Len(l) \in Nat /\ MaxSubs \in Nat
      BY DEF RenditionsAssumption
    <2> DEFINE n == IF Len(l) > MaxSubs THEN MaxSubs ELSE Len(l)
    <2>2. n \in Int /\ \A i \in 1..n : l[i] \in STRING
      BY <2>1
    <2>3. SubSeq(l, 1, n) \in Seq(STRING)
      BY <2>2, SubSeqProperties
    <2> QED BY <2>3 DEF Capped
  <1>2. \A s \in Lists : s \in Seq(STRING)
    BY <1>1 DEF Lists
  <1>3. << >> \in Seq(STRING)
    BY EmptySeq
  <1> QED BY <1>2, <1>3 DEF SubLists

\* What a served page is.
LEMMA ServedPage ==
    ASSUME RenditionsAssumption, SubsIInv, PagesAreRewritten,
           NEW q \in Requests, Served(q)
    PROVE  LET page == request[q].page  list == request[q].list IN
           /\ list \in Seq(STRING)
           /\ open => \A i \in 1..Len(page) : page[i].via = "proxy" =>
                page[i].uri.host \in Discovered(text) \cup {Source.host}
           /\ list # << >> /\ Has(page, "variant") =>
                IF LeftAlone
                THEN \A i \in 1..Len(page) : page[i].via # "here"
                ELSE \E source : \E first \in Nat :
                        Carries(page, list, first, Proxied(text), source)
  <1> DEFINE page == request[q].page
             list == request[q].list
  <1>1. text \in Seq(UpstreamLine)
    BY DEF SubsIInv, SubsTypeOK, RenditionsAssumption
  <1>2. list \in Seq(STRING)
    <2>1. request[q] \in SubRequest
      BY DEF SubsIInv, SubsTypeOK
    <2>2. list \in SubLists
      BY <2>1 DEF SubRequest
    <2> QED BY <2>2, ListsAreSequences
  <1>3. IsRewriting(page, text, list, q \in Roots, open) /\ (q \in Roots) \in BOOLEAN
    BY DEF PagesAreRewritten, Served
  <1> HIDE DEF page, list
  <1>4. PICK source \in {Source, NoUri} :
          /\ page = RewriteManifest(text, list, q \in Roots, source)
          /\ open => source = Source
    BY <1>3 DEF IsRewriting
  <1>5. source \in URI \cup {NoUri}
    BY <1>4 DEF RenditionsAssumption
  <1>6. /\ \A i \in 1..Len(page) : page[i].via = "proxy" =>
             page[i].uri.host \in Discovered(text) \cup {source.host}
        /\ list # << >> /\ Has(page, "variant") =>
             IF LeftAlone
             THEN \A i \in 1..Len(page) : page[i].via # "here"
             ELSE \E first \in Nat : Carries(page, list, first, Proxied(text), source)
    <2> DEFINE root == q \in Roots
    <2>1. root \in BOOLEAN /\ page = RewriteManifest(text, list, root, source)
      BY <1>3, <1>4
    <2> HIDE DEF root
    <2>2. LET p == RewriteManifest(text, list, root, source) IN
          /\ \A i \in 1..Len(p) : p[i].via = "proxy" =>
               p[i].uri.host \in Discovered(text) \cup {source.host}
          /\ list # << >> /\ Has(p, "variant") =>
               IF Has(text, "subs") \/ (Has(text, "variant") /\ ~Has(text, "header"))
               THEN \A i \in 1..Len(p) : p[i].via # "here"
               ELSE \E first \in Nat : Carries(p, list, first, Proxied(text), source)
      BY <1>1, <1>2, <1>5, <2>1, Rewriting
    <2> QED BY <2>1, <2>2, Zenon DEF LeftAlone
  <1>7. open => source.host = Source.host
    BY <1>4
  <1>8. list # << >> /\ Has(page, "variant") =>
          IF LeftAlone
          THEN \A i \in 1..Len(page) : page[i].via # "here"
          ELSE \E u : \E first \in Nat : Carries(page, list, first, Proxied(text), u)
    BY <1>6, Zenon
  <1>9. open => \A i \in 1..Len(page) : page[i].via = "proxy" =>
          page[i].uri.host \in Discovered(text) \cup {Source.host}
    BY <1>6, <1>7
  <1> QED BY <1>2, <1>8, <1>9, Zenon DEF page, list

LEMMA CarriedSoundly ==
    ASSUME RenditionsAssumption, SubsIInv, PagesAreRewritten PROVE ListsCarried
  <1>1. ASSUME NEW q \in Requests, Served(q), request[q].list # << >>,
               Has(request[q].page, "variant")
        PROVE  LET page == request[q].page  list == request[q].list IN
               IF LeftAlone
               THEN \A i \in 1..Len(page) : page[i].via # "here"
               ELSE /\ GroupsDeclared(page)
                    /\ \A sub \in ToSet(list) :
                         Cardinality({i \in 1..Len(page) :
                           page[i].via = "here" /\ page[i].uri.name = sub})
                         = Cardinality({k \in 1..Len(list) : list[k] = sub})
    <2> DEFINE page == request[q].page
               list == request[q].list
    <2>1. /\ list \in Seq(STRING)
          /\ IF LeftAlone
             THEN \A i \in 1..Len(page) : page[i].via # "here"
             ELSE \E source : \E first \in Nat :
                     Carries(page, list, first, Proxied(text), source)
      BY <1>1, ServedPage
    <2>2. list # << >>
      BY <1>1
    <2> HIDE DEF page, list
    <2>3. ~LeftAlone => GroupsDeclared(page) /\ \A sub : Counts(page, list, sub)
      BY <2>1, <2>2, CarriesSoundly
    <2> QED BY <2>1, <2>3, Zenon DEF page, list, Counts
  <1> QED BY <1>1, Zenon DEF ListsCarried

LEMMA PagesInvariance == SubsSpec => [](PagesAreRewritten /\ HostsAreAllowed)
  <1>1. SubsInit => PagesAreRewritten /\ HostsAreAllowed
    <2> SUFFICES ASSUME SubsInit PROVE PagesAreRewritten /\ HostsAreAllowed
      OBVIOUS
    <2>1. \A q \in Requests : request[q].at = "new"
      BY DEF SubsInit, NoRequest
    <2>2. Source.host \in allowed
      BY DEF SubsInit
    <2> QED BY <2>1, <2>2 DEF PagesAreRewritten, HostsAreAllowed
  <1>2. SubsIInv /\ PagesAreRewritten /\ HostsAreAllowed /\ [SubsNext]_subsVars
          => PagesAreRewritten' /\ HostsAreAllowed'
    BY PagesKeep
  <1> QED BY SubsInvariance, <1>1, <1>2, PTL DEF SubsSpec

(* A playlist served with a list carries it line for line and links every  *)
(* variant to it, or leaves the upstream's own subtitles alone: for every  *)
(* upstream playlist, whatever is attached while it is rewritten.          *)
THEOREM CarriesTheList == SubsSpec => []ListsCarried
  <1>1. SubsIInv /\ PagesAreRewritten /\ HostsAreAllowed => ListsCarried
    BY CarriedSoundly, RenditionsAssumption
  <1> QED BY SubsInvariance, PagesInvariance, <1>1, PTL

(* All a served page leads to through the proxy may be fetched, as long as *)
(* its session is there: for every playlist and every list.                *)
THEOREM HostsMayBeFetched == SubsSpec => []HostsAllowed
  <1>1. SubsIInv /\ PagesAreRewritten /\ HostsAreAllowed => HostsAllowed
    <2> SUFFICES ASSUME SubsIInv, PagesAreRewritten, HostsAreAllowed,
                        NEW q \in Requests, Served(q), open,
                        NEW i \in 1..Len(request[q].page),
                        request[q].page[i].via = "proxy"
                 PROVE  request[q].page[i].uri.host \in allowed
      BY Zenon DEF HostsAllowed
    <2>1. request[q].page[i].uri.host \in Discovered(text) \cup {Source.host}
      BY ServedPage, RenditionsAssumption
    <2>2. Discovered(text) \cup {Source.host} \subseteq allowed
      BY DEF HostsAreAllowed, Served
    <2> QED BY <2>1, <2>2
  <1> QED BY SubsInvariance, PagesInvariance, <1>1, PTL

(* What the read-ahead warms is the best variant, of every playlist whose  *)
(* variants have lines of their own.                                       *)
THEOREM WarmsBest == SubsSpec => []WarmsTheBest
  <1>1. SubsIInv => WarmsTheBest
    BY BestWarmed, RenditionsAssumption
       DEF WarmsTheBest, SubsIInv, SubsTypeOK, RenditionsAssumption
  <1> QED BY SubsInvariance, <1>1, PTL

=============================================================================
