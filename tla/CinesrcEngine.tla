--------------------------- MODULE CinesrcEngine ---------------------------
(***************************************************************************)
(* The embedded cinesrc engine (internal/mediaresolver/cinesrcjs): one     *)
(* Resolver shared by all resolves.  Its assets (the site's scripts and    *)
(* action ids) and the proof-of-work module made from them are scanned by  *)
(* one resolve while the others join; every resolve then works through the *)
(* ranked servers in parallel batches, each attempt in a VM of its own.    *)
(***************************************************************************)
EXTENDS Lookup, FiniteSetsExt

CONSTANTS
    None,
    ListLengths,        \* bound: lengths of the server list the site may answer
    ServerParallelism,
    MaxScans            \* bound: scans that come back

ASSUME EngineAssumption ==
    /\ ListLengths \subseteq Nat \ {0}
    /\ \E longest \in ListLengths : \A n \in ListLengths : n <= longest
    /\ ServerParallelism \in Nat \ {0} /\ MaxScans \in Nat
    /\ None \notin Lookups /\ None \notin Nat /\ None \notin [scan : Nat, fresh : BOOLEAN]

VARIABLES
    assets,      \* r.assets: [scan, fresh] or None
    powOf,       \* r.pow: the scan it was compiled from, or None
    powsOpen,    \* the scans whose module has been made and not closed
    refreshing,  \* r.refreshing: the resolve whose scan is under way, or None
    scans,       \* scans committed so far; stands for assets.fetched
    providers,   \* length of r.providers while it is under ten minutes old, or 0
    run          \* [Lookups -> EngineRun]

engineVars == <<assets, powOf, powsOpen, refreshing, scans, providers, run>>

MaxServers == Max(ListLengths)
Scans == 1..MaxScans

\* joined: whose scan it waits for.   pass, start: Resolve's loops.
\* servers: length of its list.       lastErr: what the last failed batch said.
\* try: the attempts of the batch.    firstPass: the scan its first pass ran last.
Errors == {"none", "no cipher", "other"}
Attempt == [st : {"off", "begun", "vm", "proof", "found", "no cipher", "other"},
            scan : {0} \cup Scans]
NoAttempt == [st |-> "off", scan |-> 0]
EngineRun == [joined : Lookups \cup {None}, pass : 0..2,
              start : 1..(MaxServers + ServerParallelism),
              servers : {0} \cup ListLengths, lastErr : Errors,
              try : [1..MaxServers -> Attempt], firstPass : {0} \cup Scans]
NoEngineRun == [joined |-> None, pass |-> 0, start |-> 1, servers |-> 0, lastErr |-> "none",
                try |-> [i \in 1..MaxServers |-> NoAttempt], firstPass |-> 0]

EngineSteps == {"ensure", "joined", "woken", "scan", "leave", "leave failed", "close",
                "close failed", "list", "batch", "attempts", "pass over", "found", "failed"}

InitEngine ==
    /\ assets = None /\ powOf = None /\ powsOpen = {} /\ refreshing = None
    /\ scans = 0 /\ providers = 0
    /\ run = [r \in Lookups |-> NoEngineRun]

\* Resolve returns.
Ends(r, how) == Go(r, how) /\ run' = [run EXCEPT ![r] = NoEngineRun]

Fresh == assets # None /\ assets.fresh

\* ensureAssets: fresh assets do; a scan under way is joined; else this one scans.
EnsureAssets(r) ==
    /\ at[r] = "ensure"
    /\ IF Fresh THEN Go(r, "list") /\ UNCHANGED <<refreshing, run>>
       ELSE IF refreshing # None
       THEN /\ run' = [run EXCEPT ![r].joined = refreshing]
            /\ Go(r, "joined") /\ UNCHANGED refreshing
       ELSE /\ refreshing' = r
            /\ Go(r, "scan") /\ UNCHANGED run
    /\ UNCHANGED <<assets, powOf, powsOpen, scans, providers>>

\* A joiner leaves with its context; the closing of the channel is CloseScan's.
LeaveJoin(r) ==
    /\ at[r] = "joined" /\ ~alive[r]
    /\ Ends(r, "failed")
    /\ UNCHANGED <<assets, powOf, powsOpen, refreshing, scans, providers>>

\* It uses whatever is committed by now, and does not scan in its turn.
Woken(r) ==
    /\ at[r] = "woken"
    /\ IF Fresh THEN Go(r, "list") /\ UNCHANGED run ELSE Ends(r, "failed")
    /\ UNCHANGED <<assets, powOf, powsOpen, refreshing, scans, providers>>

\* A scan that came back: r.assets and r.pow are replaced in one go.
Replace(r) ==
    /\ alive[r] /\ scans < MaxScans
    /\ scans' = scans + 1
    /\ assets' = [scan |-> scans + 1, fresh |-> TRUE] /\ powOf' = scans + 1
    /\ Go(r, "leave")

ScanFails(r) == Go(r, "leave failed") /\ UNCHANGED <<assets, powOf, powsOpen, scans>>

\* Fault: the module that is replaced is not closed.
ScanLeaks(r) ==
    /\ at[r] = "scan"
    /\ \/ Replace(r) /\ powsOpen' = powsOpen \cup {scans + 1}
       \/ ScanFails(r)
    /\ UNCHANGED <<refreshing, providers, run>>

\* fetchAssets, without the lock: the embed page, its chunks, the three assets, and a
\* module that has solved the dummy challenge; one that does not is closed again.
\* Then ensureAssets closes the module it replaces.
Scan(r) ==
    /\ at[r] = "scan"
    /\ \/ Replace(r) /\ powsOpen' = (powsOpen \ {powOf}) \cup {scans + 1}
       \/ ScanFails(r)
    /\ UNCHANGED <<refreshing, providers, run>>

\* Fault: a failed scan returns without clearing the field.
LeaveScanOnSuccess(r) ==
    /\ at[r] \in {"leave", "leave failed"}
    /\ refreshing' = IF at[r] = "leave" THEN None ELSE refreshing
    /\ Go(r, IF at[r] = "leave" THEN "close" ELSE "close failed")
    /\ UNCHANGED <<assets, powOf, powsOpen, scans, providers, run>>

\* The deferred end, in two steps: a new scan may begin before the joiners are woken.
LeaveScan(r) ==
    /\ at[r] \in {"leave", "leave failed"}
    /\ refreshing' = None
    /\ Go(r, IF at[r] = "leave" THEN "close" ELSE "close failed")
    /\ UNCHANGED <<assets, powOf, powsOpen, scans, providers, run>>

CloseScan(r) ==
    /\ at[r] \in {"close", "close failed"}
    /\ LET Waits(q) == at[q] = "joined" /\ run[q].joined = r
       IN /\ at' = [q \in Lookups |-> IF Waits(q) THEN "woken"
                                       ELSE IF q # r THEN at[q]
                                       ELSE IF at[r] = "close" THEN "list" ELSE "failed"]
          /\ run' = [q \in Lookups |-> IF Waits(q) THEN [run[q] EXCEPT !.joined = None]
                                       ELSE IF q = r /\ at[r] = "close failed" THEN NoEngineRun
                                       ELSE run[q]]
    /\ UNCHANGED <<alive, begun, assets, powOf, powsOpen, refreshing, scans, providers>>

\* providerList: the list kept for ten minutes, the site's answer, or the built-in one,
\* taken to be the longest.  After the second pass nothing is left to try.
List(r) ==
    /\ at[r] = "list"
    /\ \E n \in ListLengths :
         /\ \/ n = providers /\ UNCHANGED providers
            \/ providers = 0 /\ alive[r] /\ providers' = n
            \/ providers = 0 /\ n = MaxServers /\ UNCHANGED providers
         /\ IF run[r].pass = 2 THEN Ends(r, "failed")
            ELSE Go(r, "batch") /\ run' = [run EXCEPT ![r].servers = n]
    /\ UNCHANGED <<assets, powOf, powsOpen, refreshing, scans>>

Batch(r) == {i \in 1..run[r].servers : i \in run[r].start..(run[r].start + ServerParallelism - 1)}

\* The next batch's attempts start together; a context that is done ends the resolve.
NextBatch(r) ==
    /\ at[r] = "batch"
    /\ IF Batch(r) = {} THEN Go(r, "pass over") /\ UNCHANGED run
       ELSE IF ~alive[r] THEN Ends(r, "failed")
       ELSE /\ run' = [run EXCEPT ![r].try = [i \in 1..MaxServers |->
                         IF i \in Batch(r) THEN [st |-> "begun", scan |-> 0] ELSE NoAttempt]]
            /\ Go(r, "attempts")
    /\ UNCHANGED <<assets, powOf, powsOpen, refreshing, scans, providers>>

\* The attempt's next state, and the module it has been handed.
Tries(r, i, st, scan) == run' = [run EXCEPT ![r].try[i] = [st |-> st, scan |-> scan]]

Fails(r, i) == Tries(r, i, "other", 0)

\* attemptServer, its two VMs ready: the assets of this moment are what it runs.
LoadScripts(r, i) ==
    /\ run[r].try[i].st = "begun"
    /\ IF assets = None THEN Fails(r, i)
       ELSE run' = [run EXCEPT ![r].try[i].st = "vm",
                               ![r].firstPass = IF run[r].pass = 0 THEN assets.scan ELSE @]

\* sharedPow: the module of the moment, which may not be that of the scripts; it is
\* compiled here if the assets have none yet.
GetPow(r, i) ==
    LET pow == IF powOf = None THEN assets.scan ELSE powOf
    IN  /\ run[r].try[i].st = "vm"
        /\ IF assets = None THEN Fails(r, i) /\ UNCHANGED <<powOf, powsOpen>>
           ELSE /\ Tries(r, i, "proof", pow)
                /\ powOf' = pow
                /\ powsOpen' = IF powOf = None THEN powsOpen \cup {pow} ELSE powsOpen

\* solve on the module it was handed, which fails if that was closed meanwhile; then
\* the stream action, under the id of the moment or the built-in one: an answer
\* without a cipher may be due to it.
SolveAndAsk(r, i) ==
    /\ run[r].try[i].st = "proof"
    /\ alive[r] /\ run[r].try[i].scan \in powsOpen
    /\ Tries(r, i, "found", 0) \/ Tries(r, i, "no cipher", 0)

\* A script, a request, the module or the challenge fails, on its own or because a sibling has
\* found a stream or the resolve's time is up.
AttemptFails(r, i) ==
    /\ run[r].try[i].st \in {"begun", "vm", "proof"}
    /\ Fails(r, i)

TryStep(r, i) ==
    /\ at[r] = "attempts"
    /\ \/ GetPow(r, i)
       \/ /\ LoadScripts(r, i) \/ SolveAndAsk(r, i) \/ AttemptFails(r, i)
          /\ UNCHANGED <<powOf, powsOpen>>
    /\ UNCHANGED <<common, assets, refreshing, scans, providers>>

\* All attempts have come back: a stream from any, or the first one's failure.
BatchOver(r) ==
    /\ at[r] = "attempts"
    /\ \A i \in Batch(r) : run[r].try[i].st \in {"found", "no cipher", "other"}
    /\ IF \E i \in Batch(r) : run[r].try[i].st = "found"
       THEN Ends(r, "found")
       ELSE /\ run' = [run EXCEPT ![r].lastErr = run[r].try[run[r].start].st,
                                  ![r].start = @ + ServerParallelism,
                                  ![r].try = NoEngineRun.try]
            /\ Go(r, "batch")
    /\ UNCHANGED <<assets, powOf, powsOpen, refreshing, scans, providers>>

\* Every pass tries its list from the start; only what the history keeps is left.
NextPass(r) ==
    /\ run' = [run EXCEPT ![r] = [NoEngineRun EXCEPT !.pass = run[r].pass + 1,
                                              !.firstPass = run[r].firstPass]]
    /\ Go(r, "ensure")

\* Fault: the assets a pass has failed with are kept.
PassOverKeeps(r) ==
    /\ at[r] = "pass over"
    /\ IF run[r].lastErr # "no cipher" \/ assets = None
       THEN Ends(r, "failed") ELSE NextPass(r)
    /\ UNCHANGED <<assets, powOf, powsOpen, refreshing, scans, providers>>

\* resetAssets, when the last batch was answered without a cipher: assets and module
\* go, and are scanned anew, after the second pass as after the first.
PassOver(r) ==
    /\ at[r] = "pass over"
    /\ IF run[r].lastErr # "no cipher" \/ assets = None
       THEN Ends(r, "failed") /\ UNCHANGED <<assets, powOf, powsOpen>>
       ELSE /\ assets' = None /\ powOf' = None /\ powsOpen' = powsOpen \ {powOf}
            /\ NextPass(r)
    /\ UNCHANGED <<refreshing, scans, providers>>

EngineStep(r) ==
    \/ EnsureAssets(r) \/ LeaveJoin(r) \/ Woken(r) \/ Scan(r) \/ LeaveScan(r)
    \/ CloseScan(r) \/ List(r) \/ NextBatch(r) \/ BatchOver(r) \/ PassOver(r)
    \/ \E i \in 1..MaxServers : TryStep(r, i)

\* An hour has passed since the scan; ten minutes since the server list came.
AssetsAge ==
    /\ Fresh
    /\ assets' = [assets EXCEPT !.fresh = FALSE]
    /\ UNCHANGED <<common, powOf, powsOpen, refreshing, scans, providers, run>>

ListAges ==
    /\ providers # 0
    /\ providers' = 0
    /\ UNCHANGED <<common, assets, powOf, powsOpen, refreshing, scans, run>>

-----------------------------------------------------------------------------
EngineTypeOK ==
    /\ assets \in {None} \cup [scan : Scans, fresh : BOOLEAN]
    /\ powOf \in {None} \cup Scans /\ powsOpen \subseteq Scans
    /\ refreshing \in Lookups \cup {None}
    /\ scans \in 0..MaxScans /\ providers \in {0} \cup ListLengths
    /\ run \in [Lookups -> EngineRun]

\* The module in use belongs to the assets in use, and no other is open: whatever the
\* order of scans and resets, each module that is made is closed once it is replaced.
OneModuleOpen ==
    /\ powsOpen = {powOf} \ {None}
    /\ powOf = IF assets = None THEN None ELSE assets.scan

\* A resolve that starts its list over runs scripts scanned after those it failed with.
RetryIsRescanned ==
    [][\A r \in Lookups, i \in 1..MaxServers :
        (run[r].pass > 0 /\ run[r].try[i].st = "begun" /\ run'[r].try[i].st = "vm")
            => assets.scan > run[r].firstPass]_<<at, engineVars>>

\* Who has joined a scan waits for one that is still going to end: a failed scan and a
\* new one begun before its joiners are woken included.
JoinersAreHeard ==
    \A r \in Lookups : at[r] = "joined" =>
        at[run[r].joined] \in {"scan", "leave", "leave failed", "close", "close failed"}
=============================================================================
