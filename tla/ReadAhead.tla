----------------------------- MODULE ReadAhead -----------------------------
(***************************************************************************)
(* The segment read-ahead: the body cache, the table of downloads in       *)
(* flight (r.inflight), the pump that keeps a window of segments ahead of  *)
(* the player, and the player requests that race it for the same segments. *)
(* The cache and the table are keyed by URL and shared by every session.   *)
(***************************************************************************)
EXTENDS Integers, FiniteSets

CONSTANTS
    Sessions,     \* proxy sessions, each with its read-ahead pipeline
    Players,      \* goroutines of player requests
    Last,         \* segments are 1..Last, in playlist order
    Lookahead,    \* prefetchLookahead
    InitialMax,   \* prefetchInitialInflight
    SteadyMax,    \* prefetchMaxInflight
    LiveMax,      \* prefetchLiveMaxInflight
    Backoff,      \* prefetchFailureBackoff, in ticks
    Capacity,     \* bodies the cache's byte budget holds
    Nobody

ASSUME ReadAheadAssumption ==
    /\ {Last, Lookahead, InitialMax, SteadyMax, LiveMax, Backoff, Capacity} \subseteq Nat \ {0}
    /\ IsFiniteSet(Players)
    /\ Nobody \notin Sessions \X (1..Last)

VARIABLES
    cache,      \* [Segs -> {"none", "fresh", "stale"}]  r.cache; stale: past expiresAt
    inflight,   \* [Segs -> download or Nobody]          r.inflight
    task,       \* [Downloads -> Task]      the goroutine prefetching a segment
    marked,     \* [Sessions -> SUBSET Segs]             w.inflight
    failed,     \* [Downloads -> 0..Backoff]  ticks left of w.failedAt's back-off
    served,     \* [Sessions -> 0..Last]                 w.served
    playlist,   \* sessions whose media playlist is registered (w.segments)
    stopped,    \* sessions whose pipeline is cancelled
    live,       \* [Sessions -> Nat]                     s.liveFetches
    request     \* [Players -> Request]

vars == <<cache, inflight, task, marked, failed, served, playlist, stopped,
          live, request>>

Segs == 1..Last

\* The read-ahead of a session downloads a segment once at a time.
Downloads == Sessions \X Segs

\* What a download ends with.  "status": an upstream error status, which
\* doFetchForCache returns like a body.
Results == {"ok", "status", "error"}

\* owner: the download this one waits for.  result: what it heard or fetched.
\* fetching: it is the goroutine's own download.
Task == [stage  : {"idle", "enter", "join", "fetch", "close", "delete", "finish"},
         owner  : Downloads \cup {Nobody},
         result : Results \cup {"none"}]

Resting == [stage |-> "idle", owner |-> Nobody, result |-> "none"]

\* had: the request found a copy of the segment, fresh or expired.
Request == [stage  : {"idle", "join", "fetch", "forward"},
            sess   : Sessions \cup {Nobody},
            seg    : Segs \cup {0},
            owner  : Downloads \cup {Nobody},
            result : Results \cup {"none"},
            had    : BOOLEAN]

NoRequest == [stage |-> "idle", sess |-> Nobody, seg |-> 0, owner |-> Nobody,
              result |-> "none", had |-> FALSE]

Init ==
    /\ cache = [x \in Segs |-> "none"]
    /\ inflight = [x \in Segs |-> Nobody]
    /\ task = [d \in Downloads |-> Resting]
    /\ marked = [s \in Sessions |-> {}]
    /\ failed = [d \in Downloads |-> 0]
    /\ served = [s \in Sessions |-> 0]
    /\ playlist = {}
    /\ stopped = {}
    /\ live = [s \in Sessions |-> 0]
    /\ request = [p \in Players |-> NoRequest]

-----------------------------------------------------------------------------
(* Helpers *)

\* The cache after bodyCache.put of x: the least recently used bodies are
\* evicted, here any, and never the one it stores.
AfterPut(x) ==
    LET present == {y \in Segs : cache[y] # "none"} \cup {x}
        excess == Cardinality(present) - Capacity
    IN  {[y \in Segs |-> IF y = x THEN "fresh" ELSE IF y \in out THEN "none" ELSE cache[y]] :
            out \in {o \in SUBSET (present \ {x}) :
                        Cardinality(o) = IF excess > 0 THEN excess ELSE 0}}

\* bodyCache.get removes the expired copies of X that it finds.
AfterGet(c, X) == [y \in Segs |-> IF y \in X /\ c[y] = "stale" THEN "none" ELSE c[y]]

\* close(done) wakes every goroutine that waits for download d.
Heard(d, result) ==
    /\ task' = [e \in Downloads |->
                  IF e = d THEN [task[d] EXCEPT !.stage = "delete"]
                  ELSE IF task[e].stage = "join" /\ task[e].owner = d
                       THEN [task[e] EXCEPT !.result = result] ELSE task[e]]
    /\ request' = [p \in Players |->
                     IF request[p].stage = "join" /\ request[p].owner = d
                     THEN [request[p] EXCEPT !.result = result] ELSE request[p]]

\* What a goroutine that joins segment x knows at once: the result, if done is
\* closed already.
Known(x) == LET t == task[inflight[x]] IN IF t.stage = "delete" THEN t.result ELSE "none"

\* noteSegmentServed moves the cursor, and pumps.
NoteServed(s, x) ==
    served' = [served EXCEPT ![s] = IF s \in playlist /\ x > @ THEN x ELSE @]

-----------------------------------------------------------------------------
(* The pump *)

\* pumpPrefetch, called at the end of a step that has already moved the cursor,
\* the counters and the back-off; c, mk and tk are the cache, the session's
\* marks and the goroutines that step leaves.
Pump(s, c, mk, tk) ==
    LET window == IF s \in playlist'
                  THEN {x \in Segs : served'[s] < x /\ x <= served'[s] + Lookahead} ELSE {}
        base == IF served'[s] = 0 THEN InitialMax ELSE SteadyMax
        limit == IF live'[s] > 0 /\ base > LiveMax THEN LiveMax ELSE base
        wanted == {x \in window \ mk :
                      c[x] # "fresh" /\ inflight[x] = Nobody /\ failed'[<<s, x>>] = 0}
        scanned == {x \in window :
                       Cardinality({y \in window : y < x /\ y \in mk \cup wanted}) < limit}
        targets == scanned \cap wanted
    IN  /\ marked' = [marked EXCEPT ![s] = mk \cup targets]
        /\ cache' = AfterGet(c, scanned \ mk)
        /\ task' = [d \in Downloads |->
                      IF d[1] = s /\ d[2] \in targets
                      THEN [Resting EXCEPT !.stage = "enter"] ELSE tk[d]]

\* serveFromCache hands a segment over, whatever status it came with.
ServeCached(s, x) ==
    /\ NoteServed(s, x)
    /\ Pump(s, cache, marked[s], task)

\* registerSegments: the warm-up, or the player reading the playlist again.
Register(s) ==
    /\ playlist' = playlist \cup {s}
    /\ UNCHANGED <<inflight, failed, served, stopped, live, request>>
    /\ Pump(s, cache, marked[s], task)

-----------------------------------------------------------------------------
(* A prefetch goroutine: fetchForCache and the end of the pump's closure *)

\* LoadOrStore
Enter(d) ==
    LET x == d[2]
    IN  /\ task[d].stage = "enter"
        /\ \/ /\ inflight[x] = Nobody
              /\ inflight' = [inflight EXCEPT ![x] = d]
              /\ task' = [task EXCEPT ![d].stage = "fetch"]
           \/ /\ inflight[x] # Nobody
              /\ task' = [task EXCEPT ![d] = [stage |-> "join", owner |-> inflight[x],
                                              result |-> Known(x)]]
              /\ UNCHANGED inflight
        /\ UNCHANGED <<cache, marked, failed, served, playlist, stopped, live, request>>

\* The shared download's result is this one's result.
Hear(d) ==
    /\ task[d].stage = "join"
    /\ task[d].result # "none"
    /\ task' = [task EXCEPT ![d].stage = "finish", ![d].owner = Nobody]
    /\ UNCHANGED <<cache, inflight, marked, failed, served, playlist, stopped, live, request>>

\* Fault: only cancellation ends the wait.
LeaveJoinCancelled(d) ==
    /\ task[d].stage = "join"
    /\ d[1] \in stopped
    /\ task' = [task EXCEPT ![d] = [Resting EXCEPT !.stage = "finish", !.result = "error"]]
    /\ UNCHANGED <<cache, inflight, marked, failed, served, playlist, stopped, live, request>>

\* The pipeline is cancelled, or inflightJoinWait is over and the goroutine
\* downloads on its own, without registering.
LeaveJoin(d) ==
    /\ task[d].stage = "join"
    /\ \/ /\ d[1] \in stopped
          /\ task' = [task EXCEPT ![d] = [Resting EXCEPT !.stage = "finish", !.result = "error"]]
       \/ task' = [task EXCEPT ![d] = [Resting EXCEPT !.stage = "fetch"]]
    /\ UNCHANGED <<cache, inflight, marked, failed, served, playlist, stopped, live, request>>

\* doFetchForCache
Fetch(d) ==
    LET x == d[2]
        End(result) == task' = [task EXCEPT ![d].stage = "close", ![d].result = result]
    IN  /\ task[d].stage = "fetch"
        /\ \/ cache[x] = "fresh" /\ End("ok") /\ UNCHANGED cache
           \/ cache[x] # "fresh" /\ d[1] \notin stopped /\ End("ok") /\ cache' \in AfterPut(x)
           \/ cache[x] # "fresh" /\ d[1] \notin stopped /\ End("status")
              /\ cache' = AfterGet(cache, {x})
           \/ cache[x] # "fresh" /\ End("error") /\ cache' = AfterGet(cache, {x})
        /\ UNCHANGED <<inflight, marked, failed, served, playlist, stopped, live, request>>

\* Fault: a failed download returns before close(c.done).
CloseDoneSuccess(d) ==
    /\ task[d].stage = "close"
    /\ \/ task[d].result # "error" /\ Heard(d, task[d].result)
       \/ task[d].result = "error" /\ task' = [task EXCEPT ![d].stage = "delete"]
          /\ UNCHANGED request
    /\ UNCHANGED <<cache, inflight, marked, failed, served, playlist, stopped, live>>

CloseDone(d) ==
    /\ task[d].stage = "close"
    /\ Heard(d, task[d].result)
    /\ UNCHANGED <<cache, inflight, marked, failed, served, playlist, stopped, live>>

\* Fault: a failed download returns before r.inflight.Delete.
DeregisterSuccess(d) ==
    /\ task[d].stage = "delete"
    /\ inflight' = IF task[d].result = "error" THEN inflight
                   ELSE [inflight EXCEPT ![d[2]] = Nobody]
    /\ task' = [task EXCEPT ![d].stage = "finish"]
    /\ UNCHANGED <<cache, marked, failed, served, playlist, stopped, live, request>>

\* r.inflight.Delete(rawURL), whoever registered the URL.
Deregister(d) ==
    /\ task[d].stage = "delete"
    /\ inflight' = [inflight EXCEPT ![d[2]] = Nobody]
    /\ task' = [task EXCEPT ![d].stage = "finish"]
    /\ UNCHANGED <<cache, marked, failed, served, playlist, stopped, live, request>>

\* Fault: a failed download keeps its mark.
FinishMarked(d) ==
    /\ task[d].stage = "finish"
    /\ failed' = IF task[d].result = "error" THEN [failed EXCEPT ![d] = Backoff] ELSE failed
    /\ UNCHANGED <<inflight, served, playlist, stopped, live, request>>
    /\ Pump(d[1], cache, IF task[d].result = "error" THEN marked[d[1]]
                         ELSE marked[d[1]] \ {d[2]}, [task EXCEPT ![d] = Resting])

\* Only an error starts the back-off; the pump runs again at once.
Finish(d) ==
    /\ task[d].stage = "finish"
    /\ failed' = IF task[d].result = "error" THEN [failed EXCEPT ![d] = Backoff] ELSE failed
    /\ UNCHANGED <<inflight, served, playlist, stopped, live, request>>
    /\ Pump(d[1], cache, marked[d[1]] \ {d[2]}, [task EXCEPT ![d] = Resting])

-----------------------------------------------------------------------------
(* A player request for one segment: Proxy, after its session checks *)

\* The segment is served from the cache; or the request joins its download in
\* flight; or (with a Range header, or when none is in flight) goes upstream.
Arrive(p, s, x) ==
    LET miss == [NoRequest EXCEPT !.sess = s, !.seg = x, !.had = cache[x] # "none"]
    IN  /\ request[p].stage = "idle"
        /\ UNCHANGED <<inflight, failed, playlist, stopped, live>>
        /\ \/ /\ cache[x] = "fresh"
              /\ UNCHANGED request
              /\ ServeCached(s, x)
           \/ /\ cache[x] # "fresh"
              /\ cache' = AfterGet(cache, {x})
              /\ \/ request' = [request EXCEPT ![p] = [miss EXCEPT !.stage = "fetch"]]
                 \/ /\ inflight[x] # Nobody
                    /\ request' = [request EXCEPT ![p] = [miss EXCEPT !.stage = "join",
                                     !.owner = inflight[x], !.result = Known(x)]]
              /\ UNCHANGED <<task, marked, served>>

\* A joined body is served whatever its status; a joined error is not final.
PlayerHears(p) ==
    LET s == request[p].sess
    IN  /\ request[p].stage = "join"
        /\ UNCHANGED <<inflight, failed, playlist, stopped, live>>
        /\ \/ /\ request[p].result \in {"ok", "status"}
              /\ request' = [request EXCEPT ![p] = NoRequest]
              /\ ServeCached(s, request[p].seg)
           \/ /\ request[p].result = "error"
              /\ request' = [request EXCEPT ![p].stage = "fetch", ![p].owner = Nobody,
                                            ![p].result = "none"]
              /\ UNCHANGED <<cache, task, marked, served>>

\* The join timer: a stalled prefetch must not hold the player.
PlayerGivesUp(p) ==
    /\ request[p].stage = "join"
    /\ request' = [request EXCEPT ![p].stage = "fetch", ![p].owner = Nobody,
                                  ![p].result = "none"]
    /\ UNCHANGED <<cache, inflight, task, marked, failed, served, playlist, stopped, live>>

\* The upstream fails, or the player disconnects.
PlayerFails(p) ==
    /\ request[p].stage \in {"join", "fetch"}
    /\ request' = [request EXCEPT ![p] = NoRequest]
    /\ UNCHANGED <<cache, inflight, task, marked, failed, served, playlist, stopped, live>>

\* The upstream answers: an error status is replaced by a cached copy when
\* getStale has one, and forwarded otherwise.
PlayerAnswered(p) ==
    LET s == request[p].sess
        x == request[p].seg
    IN  /\ request[p].stage = "fetch"
        /\ live' = [live EXCEPT ![s] = @ + 1]
        /\ \E status \in {"ok", "status"} :
              request' = [request EXCEPT ![p].stage = "forward",
                            ![p].result = IF cache[x] # "none" THEN "ok" ELSE status]
        /\ NoteServed(s, x)
        /\ UNCHANGED <<inflight, failed, playlist, stopped>>
        /\ Pump(s, cache, marked[s], task)

\* The body is forwarded; a complete one is cached.  The last live fetch of the
\* session re-kicks the pump.
PlayerDone(p) ==
    LET s == request[p].sess
    IN  /\ request[p].stage = "forward"
        /\ live' = [live EXCEPT ![s] = @ - 1]
        /\ request' = [request EXCEPT ![p] = NoRequest]
        /\ UNCHANGED <<inflight, failed, served, playlist, stopped>>
        /\ \E c \in {cache} \cup (IF request[p].result = "ok" THEN AfterPut(request[p].seg)
                                  ELSE {}) :
              IF live[s] = 1 THEN Pump(s, c, marked[s], task)
              ELSE cache' = c /\ UNCHANGED <<marked, task>>

-----------------------------------------------------------------------------
(* The rest of the world *)

\* StopStream, a hot swap or Close cancels the pipeline.
Stop(s) ==
    /\ s \notin stopped
    /\ stopped' = stopped \cup {s}
    /\ UNCHANGED <<cache, inflight, task, marked, failed, served, playlist, live, request>>

Expire(x) ==
    /\ cache[x] = "fresh"
    /\ cache' = [cache EXCEPT ![x] = "stale"]
    /\ UNCHANGED <<inflight, task, marked, failed, served, playlist, stopped, live, request>>

Tick ==
    /\ \E d \in Downloads : failed[d] > 0
    /\ failed' = [d \in Downloads |-> IF failed[d] > 0 THEN failed[d] - 1 ELSE 0]
    /\ UNCHANGED <<cache, inflight, task, marked, served, playlist, stopped, live, request>>

\* The steps of a prefetch that wait for nobody outside this program.
Work(d) == Enter(d) \/ Hear(d) \/ LeaveJoin(d) \/ CloseDone(d) \/ Deregister(d) \/ Finish(d)

Next ==
    \/ \E d \in Downloads : Work(d) \/ Fetch(d)
    \/ \E s \in Sessions : Register(s) \/ Stop(s)
    \/ \E p \in Players :
          \/ \E s \in Sessions, x \in Segs : Arrive(p, s, x)
          \/ PlayerHears(p) \/ PlayerGivesUp(p)
          \/ PlayerFails(p) \/ PlayerAnswered(p) \/ PlayerDone(p)
    \/ \E x \in Segs : Expire(x)
    \/ Tick

Spec == Init /\ [][Next]_vars

\* Go runs a goroutine that is not blocked, and its timers fire.  An upstream
\* owes no answer: no fairness of Fetch, PlayerAnswered or PlayerFails.
Fairness ==
    /\ \A d \in Downloads : WF_vars(Work(d))
    /\ \A p \in Players : WF_vars(PlayerHears(p) \/ PlayerGivesUp(p))

FairSpec == Spec /\ Fairness

-----------------------------------------------------------------------------
(* Properties *)

TypeOK ==
    /\ cache \in [Segs -> {"none", "fresh", "stale"}]
    /\ inflight \in [Segs -> Downloads \cup {Nobody}]
    /\ task \in [Downloads -> Task]
    /\ marked \in [Sessions -> SUBSET Segs]
    /\ failed \in [Downloads -> 0..Backoff]
    /\ served \in [Sessions -> 0..Last]
    /\ playlist \in SUBSET Sessions
    /\ stopped \in SUBSET Sessions
    /\ live \in [Sessions -> 0..Cardinality(Players)]
    /\ request \in [Players -> Request]

\* A URL is in the table of downloads only while its owner runs and will still
\* close its channel or take it out: nobody waits for a download that is over.
InflightRuns ==
    \A x \in Segs : inflight[x] # Nobody =>
        /\ inflight[x][2] = x
        /\ task[inflight[x]].stage \in {"fetch", "close", "delete"}

\* Whoever waits without an answer waits for a download that still has to close
\* its channel.
WaitersAreHeard ==
    /\ \A d \in Downloads :
          task[d].stage = "join" /\ task[d].result = "none" =>
              task[task[d].owner].stage \in {"fetch", "close"}
    /\ \A p \in Players :
          request[p].stage = "join" /\ request[p].result = "none" =>
              task[request[p].owner].stage \in {"fetch", "close"}

\* A segment is marked in w.inflight exactly while its prefetch runs: a mark
\* left behind would keep the segment from ever being prefetched again.
MarksAreDownloads ==
    \A s \in Sessions : marked[s] = {x \in Segs : task[<<s, x>>].stage # "idle"}

\* The pump's player-priority throttle counts the fetches being forwarded, on
\* every way out of Proxy: a lost decrement throttles the session for good.
LiveIsForwarding ==
    \A s \in Sessions :
        live[s] = Cardinality({p \in Players : request[p].stage = "forward"
                                               /\ request[p].sess = s})

\* Both ledgers the pump reads before it starts a download are true.
LedgersAreTrue == MarksAreDownloads /\ LiveIsForwarding

\* The read-ahead stays within prefetchLookahead of the furthest segment handed
\* to the player.
WithinWindow ==
    \A s \in Sessions : \A x \in marked[s] : x <= served[s] + Lookahead

\* A stalled download holds neither a player request nor another session's
\* read-ahead (inflightJoinWait: "must not hold live playback hostage").
JoinsEnd ==
    /\ \A p \in Players : request[p].stage = "join" ~> request[p].stage # "join"
    /\ \A d \in Downloads : task[d].stage = "join" ~> task[d].stage # "join"

\* prefetchFailureBackoff: "waits before re-attempting a segment that failed,
\* so one bad segment cannot spin the prefetcher into a retry storm".
NoRetryStorm ==
    [][\A d \in Downloads :
          task[d].stage = "finish" /\ task[d].result # "ok" => task'[d].stage # "enter"]_vars

\* "An upstream error status for a URL we've served before: replay the stale
\* cached copy ... instead of forwarding the failure" (proxy.go), when the
\* request found a copy.
StaleBeatsFailure ==
    \A p \in Players :
        request[p].stage = "forward" /\ request[p].result = "status" => ~request[p].had
=============================================================================
