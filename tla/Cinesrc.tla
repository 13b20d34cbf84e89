------------------------------ MODULE Cinesrc ------------------------------
(***************************************************************************)
(* The cinesrc provider (cinesrcjs_bridge.go, cinesrc.go): a resolve first *)
(* asks the embedded engine, two at a time, and falls back to the one warm *)
(* browser page, for which it takes a browser slot of the resolver.        *)
(***************************************************************************)
EXTENDS CinesrcEngine

CONSTANTS
    JsSlots,       \* cap(cinesrcJSSem)
    BrowserSlots,  \* cap(r.sem)
    Workers,       \* bound: browser workers told apart at any one time
    NoWorker

ASSUME CinesrcAssumption ==
    {JsSlots, BrowserSlots} \subseteq Nat \ {0} /\ NoWorker \notin Workers

VARIABLES
    jsSlots,   \* tokens in cinesrcJSSem
    slots,     \* tokens in r.sem
    worker,    \* globalCineWorker, or NoWorker
    running,   \* the workers whose Chrome runs
    mine,      \* [Lookups -> Workers or NoWorker]  the worker a resolve was handed
    prewarm    \* the goroutine in which New asks for a worker has yet to do so

workerVars == <<worker, running, mine, prewarm>>
cinesrcVars == <<engineVars, jsSlots, slots, workerVars>>

WorkerSteps == {"worker", "lock", "page"}
CinesrcSteps == EngineSteps \cup {"bridge", "fallback", "cinesrc won"} \cup WorkerSteps

InitCinesrc ==
    /\ InitEngine
    /\ jsSlots = 0 /\ slots = 0
    /\ worker = NoWorker /\ running = {}
    /\ mine = [r \in Lookups |-> NoWorker] /\ prewarm = TRUE

\* tryCinesrcDirect, called by the provider chain that ResolveFlight models.
BeginCinesrc(r) == Begin(r, "bridge") /\ UNCHANGED cinesrcVars

\* cinesrcJSResolve waits for one of the two slots or for its time to run out.
EnterEngine(r) ==
    /\ at[r] = "bridge"
    /\ \/ jsSlots < JsSlots /\ jsSlots' = jsSlots + 1 /\ Go(r, "ensure")
       \/ ~alive[r] /\ Go(r, "fallback") /\ UNCHANGED jsSlots
    /\ UNCHANGED <<engineVars, slots, workerVars>>

\* The engine's stream is taken if its host is allowed and its manifest can be fetched;
\* the slot goes back on every way out.
LeaveEngine(r) ==
    /\ at[r] \in {"found", "failed"}
    /\ jsSlots' = jsSlots - 1
    /\ \/ at[r] = "found" /\ alive[r] /\ Go(r, "cinesrc won")
       \/ Go(r, "fallback")
    /\ UNCHANGED <<engineVars, slots, workerVars>>

\* resolveCinesrcDirect: the browser slot, or the end of its time.
EnterBrowser(r) ==
    /\ at[r] = "fallback"
    /\ \/ slots < BrowserSlots /\ slots' = slots + 1 /\ Go(r, "worker")
       \/ ~alive[r] /\ Finish(r) /\ UNCHANGED slots
    /\ UNCHANGED <<engineVars, jsSlots, workerVars>>

\* resolveCinesrcProgrammatic returns, and with it resolveCinesrcDirect.
LeaveBrowser(r) == slots' = slots - 1 /\ mine' = [mine EXCEPT ![r] = NoWorker]

\* getOrInitCineWorker: a worker that is dead or two hours old is closed, in use or not,
\* and a new one started, which may fail; the global lock is held throughout.  As two
\* hours may pass between any two steps, any worker may be found too old.
Unused == Workers \ (running \cup {worker} \cup {mine[q] : q \in Lookups})

KeepWorker == worker \in running /\ UNCHANGED <<worker, running>>

StartWorker ==
    /\ Unused # {}
    /\ worker' = CHOOSE w \in Unused : TRUE
    /\ running' = (running \ {worker}) \cup {worker'}

DropWorker == worker' = NoWorker /\ running' = running \ {worker}

GetWorker(r) ==
    /\ at[r] = "worker"
    /\ \/ /\ KeepWorker \/ StartWorker
          /\ mine' = [mine EXCEPT ![r] = worker'] /\ Go(r, "lock") /\ UNCHANGED slots
       \/ DropWorker /\ LeaveBrowser(r) /\ Finish(r)
    /\ UNCHANGED <<engineVars, jsSlots, prewarm>>

\* New: so that the first resolve finds a warm browser; it may come after Close.
PrewarmWorker ==
    /\ prewarm /\ prewarm' = FALSE
    /\ KeepWorker \/ StartWorker \/ DropWorker
    /\ UNCHANGED <<common, engineVars, jsSlots, slots, mine>>

OnPage(w) == \E q \in Lookups : at[q] = "page" /\ mine[q] = w

\* The page is one resolve's at a time; waiting for it does not watch the time.
LockPage(r) ==
    /\ at[r] = "lock" /\ ~OnPage(mine[r])
    /\ IF mine[r] \in running THEN Go(r, "page") /\ UNCHANGED <<slots, mine>>
                              ELSE LeaveBrowser(r) /\ Finish(r)
    /\ UNCHANGED <<engineVars, jsSlots, worker, running, prewarm>>

\* The page's script has run (three tokens, five servers each) and its stream is
\* checked like the engine's.  The script runs in the worker's context, so neither the
\* resolve's deadline nor its caller stops it.
PageEnds(r) ==
    /\ at[r] = "page"
    /\ LeaveBrowser(r)
    /\ \/ mine[r] \in running /\ alive[r] /\ Go(r, "cinesrc won")
       \/ Finish(r)
    /\ UNCHANGED <<engineVars, jsSlots, worker, running, prewarm>>

\* The session is minted, or cannot be.
CinesrcAccept(r) == at[r] = "cinesrc won" /\ Finish(r) /\ UNCHANGED cinesrcVars

\* Chrome dies.
WorkerDies ==
    /\ worker \in running
    /\ running' = running \ {worker}
    /\ UNCHANGED <<common, engineVars, jsSlots, slots, worker, mine, prewarm>>

\* Resolver.Close, as often as it is called; a fallback that is still under way starts
\* a browser of its own.
CloseWorker ==
    /\ worker # NoWorker
    /\ DropWorker
    /\ UNCHANGED <<common, engineVars, jsSlots, slots, mine, prewarm>>

CinesrcStep(r) ==
    \/ EnterEngine(r) \/ LeaveEngine(r) \/ EnterBrowser(r) \/ GetWorker(r) \/ LockPage(r)
    \/ PageEnds(r) \/ CinesrcAccept(r)
    \/ EngineStep(r) /\ UNCHANGED <<jsSlots, slots, workerVars>>

CinesrcOutside ==
    \/ (AssetsAge \/ ListAges) /\ UNCHANGED <<jsSlots, slots, workerVars>>
    \/ PrewarmWorker \/ WorkerDies \/ CloseWorker

-----------------------------------------------------------------------------
CinesrcTypeOK ==
    /\ EngineTypeOK
    /\ worker \in Workers \cup {NoWorker} /\ running \subseteq Workers
    /\ mine \in [Lookups -> Workers \cup {NoWorker}] /\ prewarm \in BOOLEAN

\* Both semaphores count the resolves that are inside: no way out of the engine, the
\* fallback or the page keeps a slot, or gives one back twice.
SlotsAreUsed ==
    /\ jsSlots = Cardinality({r \in Lookups : at[r] \in EngineSteps}) /\ jsSlots <= JsSlots
    /\ slots = Cardinality({r \in Lookups : at[r] \in WorkerSteps}) /\ slots <= BrowserSlots

\* A browser that runs is the one the next fallback would use: none is left behind when
\* a worker expires, dies or is closed with the resolver.
OneBrowser == running \subseteq {worker}

\* What the resolves share is never left behind: slots, modules and browsers.
NothingLeaks == SlotsAreUsed /\ OneModuleOpen /\ OneBrowser
=============================================================================
