--------------------------- MODULE ReadAheadProofs ---------------------------
(***************************************************************************)
(* Safety of the segment read-ahead for any number of sessions, player     *)
(* requests and segments, and any window, back-off and cache budget.       *)
(***************************************************************************)
EXTENDS ReadAhead, FiniteSetTheorems, TLAPS

Copies == {"none", "fresh", "stale"}

\* Goroutine or request t has its answer, or waits for a download that owes it one.
Waiting(t, tk) ==
    t.stage = "join" =>
        /\ t.owner \in Downloads
        /\ t.result = "none" => tk[t.owner].stage \in {"fetch", "close"}

\* The table of downloads i, the goroutines tk and the requests r fit together.  A
\* download that is over has a result, or what it closes would tell nobody anything.
Sane(i, tk, r) ==
    /\ \A x \in Segs : i[x] # Nobody =>
          i[x] \in Downloads /\ i[x][2] = x /\ tk[i[x]].stage \in {"fetch", "close", "delete"}
    /\ \A d \in Downloads : Waiting(tk[d], tk)
    /\ \A p \in Players : Waiting(r[p], tk)
    /\ \A d \in Downloads : tk[d].stage \in {"close", "delete", "finish"} => tk[d].result \in Results

\* A request is somebody's, for something.
Asked == \A p \in Players : request[p].stage # "idle" =>
             request[p].sess \in Sessions /\ request[p].seg \in Segs

\* The pump starts only what is not marked: that this is no goroutine under way is
\* what keeps it from cutting one off, so the marks are part of the invariant.
IInv ==
    /\ TypeOK
    /\ Sane(inflight, task, request)
    /\ Asked
    /\ MarksAreDownloads
    /\ LiveIsForwarding
    /\ WithinWindow

-----------------------------------------------------------------------------
(* Downloads and records *)

LEMMA Pairs ==
    /\ \A s \in Sessions, x \in Segs : <<s, x>> \in Downloads
    /\ \A d \in Downloads : d[1] \in Sessions /\ d[2] \in Segs /\ d = <<d[1], d[2]>>
    /\ Nobody \notin Downloads
BY ReadAheadAssumption DEF Downloads, Segs

Stages == {"idle", "enter", "join", "fetch", "close", "delete", "finish"}

LEMMA TaskFields ==
    ASSUME NEW e \in Task
    PROVE  e.stage \in Stages /\ e.owner \in Downloads \cup {Nobody} /\ e.result \in Results \cup {"none"}
BY DEF Task, Stages

LEMMA RestingTask == Resting \in Task /\ Resting.stage = "idle"
BY DEF Task, Resting

\* The goroutine as the pump starts it, and as one that gave up a join goes on.
LEMMA RestartedTask ==
    ASSUME NEW s \in {"enter", "fetch"}
    PROVE  [Resting EXCEPT !.stage = s] \in Task /\ [Resting EXCEPT !.stage = s].stage = s
BY DEF Task, Resting

LEMMA CancelledTask ==
    /\ [Resting EXCEPT !.stage = "finish", !.result = "error"] \in Task
    /\ [Resting EXCEPT !.stage = "finish", !.result = "error"].stage = "finish"
    /\ [Resting EXCEPT !.stage = "finish", !.result = "error"].result = "error"
BY DEF Task, Resting, Results

LEMMA MovedTask ==
    ASSUME NEW e \in Task, NEW s \in Stages
    PROVE  /\ [e EXCEPT !.stage = s] \in Task /\ [e EXCEPT !.stage = s].stage = s
           /\ [e EXCEPT !.stage = s].owner = e.owner /\ [e EXCEPT !.stage = s].result = e.result
BY DEF Task, Stages

LEMMA JoinedTask ==
    ASSUME NEW o \in Downloads, NEW r \in Results \cup {"none"}
    PROVE  [stage |-> "join", owner |-> o, result |-> r] \in Task
BY DEF Task

LEMMA ToldTask ==
    ASSUME NEW e \in Task, NEW r \in Results
    PROVE  /\ [e EXCEPT !.result = r] \in Task /\ [e EXCEPT !.result = r].result = r
           /\ [e EXCEPT !.result = r].stage = e.stage /\ [e EXCEPT !.result = r].owner = e.owner
BY DEF Task

LEMMA HeardTask ==
    ASSUME NEW e \in Task
    PROVE  /\ [e EXCEPT !.stage = "finish", !.owner = Nobody] \in Task
           /\ [e EXCEPT !.stage = "finish", !.owner = Nobody].stage = "finish"
           /\ [e EXCEPT !.stage = "finish", !.owner = Nobody].result = e.result
BY DEF Task

LEMMA EndedTask ==
    ASSUME NEW e \in Task, NEW r \in Results
    PROVE  /\ [e EXCEPT !.stage = "close", !.result = r] \in Task
           /\ [e EXCEPT !.stage = "close", !.result = r].stage = "close"
           /\ [e EXCEPT !.stage = "close", !.result = r].result = r
BY DEF Task

LEMMA NoRequestFields == NoRequest \in Request /\ NoRequest.stage = "idle"
BY DEF Request, NoRequest

LEMMA ToldRequest ==
    ASSUME NEW q \in Request, NEW r \in Results
    PROVE  /\ [q EXCEPT !.result = r] \in Request /\ [q EXCEPT !.result = r].result = r
           /\ [q EXCEPT !.result = r].stage = q.stage /\ [q EXCEPT !.result = r].owner = q.owner
           /\ [q EXCEPT !.result = r].sess = q.sess /\ [q EXCEPT !.result = r].seg = q.seg
BY DEF Request

LEMMA AloneRequest ==
    ASSUME NEW q \in Request
    PROVE  /\ [q EXCEPT !.stage = "fetch", !.owner = Nobody, !.result = "none"] \in Request
           /\ [q EXCEPT !.stage = "fetch", !.owner = Nobody, !.result = "none"].stage = "fetch"
           /\ [q EXCEPT !.stage = "fetch", !.owner = Nobody, !.result = "none"].sess = q.sess
           /\ [q EXCEPT !.stage = "fetch", !.owner = Nobody, !.result = "none"].seg = q.seg
BY DEF Request

LEMMA ForwardedRequest ==
    ASSUME NEW q \in Request, NEW r \in Results
    PROVE  /\ [q EXCEPT !.stage = "forward", !.result = r] \in Request
           /\ [q EXCEPT !.stage = "forward", !.result = r].stage = "forward"
           /\ [q EXCEPT !.stage = "forward", !.result = r].sess = q.sess
           /\ [q EXCEPT !.stage = "forward", !.result = r].seg = q.seg
BY DEF Request

\* A request that missed the cache.
LEMMA MissedRequest ==
    ASSUME NEW s \in Sessions, NEW x \in Segs, NEW b \in BOOLEAN
    PROVE  /\ [NoRequest EXCEPT !.sess = s, !.seg = x, !.had = b] \in Request
           /\ [NoRequest EXCEPT !.sess = s, !.seg = x, !.had = b].sess = s
           /\ [NoRequest EXCEPT !.sess = s, !.seg = x, !.had = b].seg = x
BY DEF Request, NoRequest

LEMMA AskingRequest ==
    ASSUME NEW q \in Request
    PROVE  /\ [q EXCEPT !.stage = "fetch"] \in Request
           /\ [q EXCEPT !.stage = "fetch"].stage = "fetch"
           /\ [q EXCEPT !.stage = "fetch"].sess = q.sess
           /\ [q EXCEPT !.stage = "fetch"].seg = q.seg
BY DEF Request

-----------------------------------------------------------------------------
(* What a step may do *)

\* Download d goes on as t.
SetsTask(tk, d, t) ==
    /\ tk \in [Downloads -> Task]
    /\ tk[d] = t
    /\ \A e \in Downloads \ {d} : tk[e] = task[e]

LEMMA OneTask ==
    ASSUME TypeOK, NEW d \in Downloads, NEW t \in Task
    PROVE  SetsTask([task EXCEPT ![d] = t], d, t)
BY DEF TypeOK, SetsTask

\* It may go on as it likes while it owes nobody an answer, and after it gave it.
LEMMA TaskSane ==
    ASSUME IInv, NEW d \in Downloads, NEW t \in Task, NEW tk, SetsTask(tk, d, t),
           Waiting(t, task),
           task[d].stage \in {"fetch", "close"} => t.stage \in {"fetch", "close"},
           task[d].stage # "delete",
           t.stage \in {"close", "delete", "finish"} => t.result \in Results
    PROVE  Sane(inflight, tk, request)
<1>1. /\ \A x \in Segs : inflight[x] # Nobody =>
            /\ inflight[x] \in Downloads /\ inflight[x][2] = x
            /\ task[inflight[x]].stage \in {"fetch", "close", "delete"}
      /\ \A e \in Downloads : Waiting(task[e], task)
      /\ \A p \in Players : Waiting(request[p], task)
      /\ \A e \in Downloads : task[e].stage \in {"close", "delete", "finish"} => task[e].result \in Results
  BY DEF IInv, Sane
<1>2. \A e \in Downloads : /\ tk[e] = IF e = d THEN t ELSE task[e]
                           /\ task[e].stage \in {"fetch", "close"} => tk[e].stage \in {"fetch", "close"}
  BY DEF SetsTask
<1>3. \A u : Waiting(u, task) => Waiting(u, tk)
  BY <1>2 DEF Waiting
<1>4. \A x \in Segs : inflight[x] # Nobody =>
         /\ inflight[x] \in Downloads /\ inflight[x][2] = x
         /\ tk[inflight[x]].stage \in {"fetch", "close", "delete"}
  BY <1>1, <1>2
<1>5. \A e \in Downloads : Waiting(tk[e], tk)
  BY <1>1, <1>2, <1>3
<1>6. \A p \in Players : Waiting(request[p], tk)
  BY <1>1, <1>3
<1>7. \A e \in Downloads : tk[e].stage \in {"close", "delete", "finish"} => tk[e].result \in Results
  BY <1>1, <1>2
<1>8. QED
  BY <1>4, <1>5, <1>6, <1>7 DEF Sane

\* Request p goes on as q.
LEMMA OneRequest ==
    ASSUME IInv, NEW p \in Players, NEW q \in Request, request' = [request EXCEPT ![p] = q],
           Waiting(q, task), q.stage # "idle" => q.sess \in Sessions /\ q.seg \in Segs
    PROVE  /\ request' \in [Players -> Request] /\ Asked' /\ Sane(inflight, task, request')
           /\ request'[p] = q /\ \A o \in Players \ {p} : request'[o] = request[o]
<1>1. request' \in [Players -> Request]
  BY DEF IInv, TypeOK
<1>2. request'[p] = q /\ \A o \in Players \ {p} : request'[o] = request[o]
  BY DEF IInv, TypeOK
<1>3. Asked'
  BY <1>2 DEF IInv, Asked
<1>4. \A o \in Players : Waiting(request'[o], task)
  <2>1. \A o \in Players : Waiting(request[o], task)
    BY DEF IInv, Sane
  <2>2. QED
    BY <1>2, <2>1
<1>5. Sane(inflight, task, request')
  BY <1>4 DEF IInv, Sane
<1>6. QED
  BY <1>1, <1>2, <1>3, <1>5

\* The two invariants over the table and its waiters are what Sane says of the state.
LEMMA SaneMeans ==
    ASSUME TypeOK, Sane(inflight, task, request) PROVE InflightRuns /\ WaitersAreHeard
BY DEF Sane, Waiting, InflightRuns, WaitersAreHeard

LEMMA MarksKept ==
    ASSUME IInv, marked' = marked,
           \A d \in Downloads : task'[d].stage = "idle" <=> task[d].stage = "idle"
    PROVE  MarksAreDownloads'
<1>1. ASSUME NEW s \in Sessions PROVE marked'[s] = {x \in Segs : task'[<<s, x>>].stage # "idle"}
  <2>1. \A x \in Segs : task'[<<s, x>>].stage = "idle" <=> task[<<s, x>>].stage = "idle"
    BY Pairs
  <2>2. QED
    BY <2>1 DEF IInv, MarksAreDownloads
<1>2. QED
  BY <1>1 DEF MarksAreDownloads

Forwarding(r, s) == {p \in Players : r[p].stage = "forward" /\ r[p].sess = s}

LEMMA Forwarders ==
    ASSUME NEW r, NEW s
    PROVE  /\ IsFiniteSet(Forwarding(r, s))
           /\ Cardinality(Forwarding(r, s)) \in 0..Cardinality(Players)
<1>1. Forwarding(r, s) \subseteq Players /\ IsFiniteSet(Players)
  BY ReadAheadAssumption DEF Forwarding
<1>2. QED
  BY <1>1, FS_Subset, FS_CardinalityType

\* The fetches being forwarded are what they were.
LEMMA LiveKept ==
    ASSUME IInv, live' = live,
           \A p \in Players :
              /\ request'[p].stage = "forward" <=> request[p].stage = "forward"
              /\ request'[p].stage = "forward" => request'[p].sess = request[p].sess
    PROVE  LiveIsForwarding'
<1>1. \A s : Forwarding(request', s) = Forwarding(request, s)
  BY DEF Forwarding
<1>2. QED
  BY <1>1 DEF IInv, LiveIsForwarding, Forwarding

\* One fetch more is forwarded, or one less.
LEMMA LiveMore ==
    ASSUME IInv, NEW p \in Players, NEW s \in Sessions, live' = [live EXCEPT ![s] = @ + 1],
           request[p].stage # "forward", request'[p].stage = "forward", request'[p].sess = s,
           \A o \in Players \ {p} : request'[o] = request[o]
    PROVE  LiveIsForwarding' /\ live' \in [Sessions -> 0..Cardinality(Players)]
<1>1. Forwarding(request', s) = Forwarding(request, s) \cup {p} /\ p \notin Forwarding(request, s)
  BY DEF Forwarding
<1>2. \A r \in Sessions \ {s} : Forwarding(request', r) = Forwarding(request, r)
  BY DEF Forwarding
<1>3. Cardinality(Forwarding(request', s)) = Cardinality(Forwarding(request, s)) + 1
  BY <1>1, Forwarders, FS_AddElement
<1>4. \A r \in Sessions : live[r] = Cardinality(Forwarding(request, r))
  BY DEF IInv, LiveIsForwarding, Forwarding
<1>5. /\ live' = [r \in Sessions |-> IF r = s THEN live[r] + 1 ELSE live[r]]
  BY DEF IInv, TypeOK
<1>6. \A r \in Sessions : live'[r] = Cardinality(Forwarding(request', r))
  BY <1>2, <1>3, <1>4, <1>5
<1>7. LiveIsForwarding'
  BY <1>6 DEF LiveIsForwarding, Forwarding
<1>8. \A r \in Sessions : live'[r] \in 0..Cardinality(Players)
  BY <1>6, Forwarders
<1>9. QED
  BY <1>5, <1>7, <1>8

LEMMA LiveLess ==
    ASSUME IInv, NEW p \in Players, NEW s \in Sessions, live' = [live EXCEPT ![s] = @ - 1],
           request[p].stage = "forward", request[p].sess = s, request'[p].stage # "forward",
           \A o \in Players \ {p} : request'[o] = request[o]
    PROVE  LiveIsForwarding' /\ live' \in [Sessions -> 0..Cardinality(Players)]
<1>1. Forwarding(request', s) = Forwarding(request, s) \ {p} /\ p \in Forwarding(request, s)
  BY DEF Forwarding
<1>2. \A r \in Sessions \ {s} : Forwarding(request', r) = Forwarding(request, r)
  BY DEF Forwarding
<1>3. Cardinality(Forwarding(request', s)) = Cardinality(Forwarding(request, s)) - 1
  BY <1>1, Forwarders, FS_RemoveElement
<1>4. \A r \in Sessions : live[r] = Cardinality(Forwarding(request, r))
  BY DEF IInv, LiveIsForwarding, Forwarding
<1>5. /\ live' = [r \in Sessions |-> IF r = s THEN live[r] - 1 ELSE live[r]]
  BY DEF IInv, TypeOK
<1>6. \A r \in Sessions : live'[r] = Cardinality(Forwarding(request', r))
  BY <1>2, <1>3, <1>4, <1>5
<1>7. LiveIsForwarding'
  BY <1>6 DEF LiveIsForwarding, Forwarding
<1>8. \A r \in Sessions : live'[r] \in 0..Cardinality(Players)
  BY <1>6, Forwarders
<1>9. QED
  BY <1>5, <1>7, <1>8

-----------------------------------------------------------------------------
(* The pump *)

\* What the pump starts: segments of the window that are not marked.
Starts(s, mk, tk) ==
    \E targets \in SUBSET (Segs \ mk) :
        /\ \A x \in targets : x <= served'[s] + Lookahead
        /\ marked' = [marked EXCEPT ![s] = mk \cup targets]
        /\ task' = [d \in Downloads |->
                      IF d[1] = s /\ d[2] \in targets
                      THEN [Resting EXCEPT !.stage = "enter"] ELSE tk[d]]

LEMMA PumpStarts ==
    ASSUME NEW s, NEW c \in [Segs -> Copies], NEW mk, NEW tk, Pump(s, c, mk, tk)
    PROVE  cache' \in [Segs -> Copies] /\ Starts(s, mk, tk)
<1> DEFINE window == IF s \in playlist'
                     THEN {x \in Segs : served'[s] < x /\ x <= served'[s] + Lookahead} ELSE {}
           base == IF served'[s] = 0 THEN InitialMax ELSE SteadyMax
           limit == IF live'[s] > 0 /\ base > LiveMax THEN LiveMax ELSE base
           wanted == {x \in window \ mk :
                        c[x] # "fresh" /\ inflight[x] = Nobody /\ failed'[<<s, x>>] = 0}
           scanned == {x \in window :
                         Cardinality({y \in window : y < x /\ y \in mk \cup wanted}) < limit}
           targets == scanned \cap wanted
<1>1. /\ marked' = [marked EXCEPT ![s] = mk \cup targets]
      /\ cache' = AfterGet(c, scanned \ mk)
      /\ task' = [d \in Downloads |->
                    IF d[1] = s /\ d[2] \in targets
                    THEN [Resting EXCEPT !.stage = "enter"] ELSE tk[d]]
  BY DEF Pump
<1>2. targets \in SUBSET (Segs \ mk) /\ \A x \in targets : x <= served'[s] + Lookahead
  <2>1. window \subseteq Segs /\ \A x \in window : x <= served'[s] + Lookahead
    OBVIOUS
  <2> HIDE DEF window, scanned
  <2>2. QED
    BY <2>1
<1> HIDE DEF targets, scanned
<1>3. cache' \in [Segs -> Copies]
  BY <1>1 DEF AfterGet, Copies
<1>4. Starts(s, mk, tk)
  BY <1>1, <1>2 DEF Starts
<1>5. QED
  BY <1>3, <1>4

\* A step that ends with the pump.  tk and mk, the goroutines and the session's marks it
\* leaves before, fit together; the pump only wakes goroutines that rest.
LEMMA PumpKeeps ==
    ASSUME IInv, NEW s \in Sessions, NEW c \in [Segs -> Copies], NEW tk \in [Downloads -> Task],
           NEW mk, Pump(s, c, mk, tk),
           mk \subseteq marked[s], mk = {x \in Segs : tk[<<s, x>>].stage # "idle"},
           \A d \in Downloads : d[1] # s => tk[d] = task[d],
           Sane(inflight, tk, request'), inflight' = inflight,
           served' \in [Sessions -> 0..Last], \A r \in Sessions : served'[r] >= served[r]
    PROVE  /\ task' \in [Downloads -> Task] /\ cache' \in [Segs -> Copies]
           /\ marked' \in [Sessions -> SUBSET Segs]
           /\ Sane(inflight', task', request') /\ MarksAreDownloads' /\ WithinWindow'
<1>1. PICK targets \in SUBSET (Segs \ mk) :
         /\ \A x \in targets : x <= served'[s] + Lookahead
         /\ marked' = [marked EXCEPT ![s] = mk \cup targets]
         /\ task' = [d \in Downloads |->
                       IF d[1] = s /\ d[2] \in targets
                       THEN [Resting EXCEPT !.stage = "enter"] ELSE tk[d]]
  <2>1. Starts(s, mk, tk)
    BY PumpStarts
  <2>2. QED
    BY <2>1 DEF Starts
<1> DEFINE woken == [Resting EXCEPT !.stage = "enter"]
<1>2. woken \in Task /\ woken.stage = "enter"
  BY RestartedTask
<1> HIDE DEF woken
<1>3. /\ task' \in [Downloads -> Task]
      /\ \A d \in Downloads : task'[d] = IF d[1] = s /\ d[2] \in targets THEN woken ELSE tk[d]
  BY <1>1, <1>2 DEF woken
<1>4. \A d \in Downloads : task'[d] = tk[d] \/ (tk[d].stage = "idle" /\ task'[d] = woken)
  <2> TAKE d \in Downloads
  <2>1. CASE d[1] = s /\ d[2] \in targets
    <3>1. d[2] \in Segs /\ d[2] \notin mk /\ d = <<s, d[2]>>
      BY <2>1, Pairs
    <3>2. QED
      BY <1>3, <2>1, <3>1
  <2>2. QED
    BY <1>3, <2>1
<1>5. Sane(inflight', task', request')
  <2>1. \A d \in Downloads :
           tk[d].stage \in {"fetch", "close", "delete"} => task'[d] = tk[d]
    BY <1>4
  <2>2. \A u : Waiting(u, tk) => Waiting(u, task')
    BY <2>1 DEF Waiting
  <2>3. \A x \in Segs : inflight'[x] # Nobody =>
           /\ inflight'[x] \in Downloads /\ inflight'[x][2] = x
           /\ task'[inflight'[x]].stage \in {"fetch", "close", "delete"}
    BY <2>1 DEF Sane
  <2>4. \A d \in Downloads : Waiting(task'[d], task')
    <3>1. Waiting(woken, task')
      BY <1>2 DEF Waiting
    <3>2. \A d \in Downloads : Waiting(tk[d], task')
      BY <2>2 DEF Sane
    <3>3. QED
      BY <1>4, <3>1, <3>2
  <2>5. \A p \in Players : Waiting(request'[p], task')
    BY <2>2 DEF Sane
  <2>6. \A d \in Downloads : task'[d].stage \in {"close", "delete", "finish"} => task'[d].result \in Results
    BY <1>2, <1>4 DEF Sane
  <2>7. QED
    BY <2>3, <2>4, <2>5, <2>6 DEF Sane
<1>6. /\ marked' \in [Sessions -> SUBSET Segs] /\ marked'[s] = mk \cup targets
      /\ \A r \in Sessions \ {s} : marked'[r] = marked[r]
  BY <1>1 DEF IInv, TypeOK
<1>7. MarksAreDownloads'
  <2> SUFFICES ASSUME NEW r \in Sessions
               PROVE  marked'[r] = {x \in Segs : task'[<<r, x>>].stage # "idle"}
    BY DEF MarksAreDownloads
  <2>1. CASE r = s
    <3>1. \A x \in Segs : task'[<<s, x>>] = IF x \in targets THEN woken ELSE tk[<<s, x>>]
      BY <1>3, Pairs
    <3>2. QED
      BY <1>2, <1>6, <2>1, <3>1
  <2>2. CASE r # s
    <3>1. \A x \in Segs : task'[<<r, x>>] = task[<<r, x>>]
      BY <1>3, <2>2, Pairs
    <3>2. QED
      BY <1>6, <2>2, <3>1 DEF IInv, MarksAreDownloads
  <2>3. QED
    BY <2>1, <2>2
<1>8. WithinWindow'
  <2> SUFFICES ASSUME NEW r \in Sessions, NEW x \in marked'[r]
               PROVE  x <= served'[r] + Lookahead
    BY DEF WithinWindow
  <2>1. CASE r = s /\ x \in targets
    BY <1>1, <2>1
  <2>2. CASE ~(r = s /\ x \in targets)
    <3>1. x \in marked[r] /\ x \in Nat
      <4>1. x \in marked[r]
        BY <1>6, <2>2
      <4>2. marked[r] \subseteq Segs /\ Segs \subseteq Nat
        BY ReadAheadAssumption DEF IInv, TypeOK, Segs
      <4>3. QED
        BY <4>1, <4>2
    <3>2. x <= served[r] + Lookahead
      BY <3>1 DEF IInv, WithinWindow
    <3>3. served[r] \in Nat /\ served'[r] \in Nat /\ served'[r] >= served[r] /\ Lookahead \in Nat
      BY ReadAheadAssumption DEF IInv, TypeOK
    <3>4. QED
      BY <3>1, <3>2, <3>3
  <2>3. QED
    BY <2>1, <2>2
<1>9. cache' \in [Segs -> Copies]
  BY PumpStarts
<1>10. QED
  BY <1>3, <1>5, <1>6, <1>7, <1>8, <1>9

-----------------------------------------------------------------------------
(* The cache and the cursor *)

LEMMA CacheTypes ==
    ASSUME IInv
    PROVE  /\ cache \in [Segs -> Copies]
           /\ \A x \in Segs : AfterPut(x) \subseteq [Segs -> Copies]
           /\ \A X : AfterGet(cache, X) \in [Segs -> Copies]
<1>1. cache \in [Segs -> Copies]
  BY DEF IInv, TypeOK, Copies
<1>2. ASSUME NEW x \in Segs, NEW c \in AfterPut(x) PROVE c \in [Segs -> Copies]
  <2>1. PICK out \in SUBSET Segs :
           c = [y \in Segs |-> IF y = x THEN "fresh" ELSE IF y \in out THEN "none" ELSE cache[y]]
    BY DEF AfterPut
  <2>2. QED
    BY <1>1, <2>1 DEF Copies
<1>3. ASSUME NEW X PROVE AfterGet(cache, X) \in [Segs -> Copies]
  BY <1>1 DEF AfterGet, Copies
<1>4. QED
  BY <1>1, <1>2, <1>3

LEMMA ServedGrows ==
    ASSUME IInv, NEW s \in Sessions, NEW x \in Segs, NoteServed(s, x)
    PROVE  served' \in [Sessions -> 0..Last] /\ \A r \in Sessions : served'[r] >= served[r]
<1>1. served \in [Sessions -> 0..Last] /\ x \in 0..Last /\ Last \in Nat
  BY ReadAheadAssumption DEF IInv, TypeOK, Segs
<1>2. \A r \in Sessions : served'[r] = IF r = s /\ s \in playlist /\ x > served[r] THEN x ELSE served[r]
  BY <1>1 DEF NoteServed
<1>3. \A r \in Sessions : served'[r] \in 0..Last /\ served'[r] >= served[r]
  BY <1>1, <1>2
<1>4. QED
  BY <1>1, <1>3 DEF NoteServed

LEMMA ServedStays ==
    ASSUME IInv, served' = served
    PROVE  served' \in [Sessions -> 0..Last] /\ \A r \in Sessions : served'[r] >= served[r]
<1>1. \A r \in Sessions : served[r] \in Int
  BY DEF IInv, TypeOK
<1>2. QED
  BY <1>1 DEF IInv, TypeOK

\* A step that pumps session s with the marks and the goroutines it found.
LEMMA PumpFromHere ==
    ASSUME IInv, NEW s \in Sessions, NEW c \in [Segs -> Copies],
           Pump(s, c, marked[s], task), inflight' = inflight, Sane(inflight, task, request'),
           served' \in [Sessions -> 0..Last], \A r \in Sessions : served'[r] >= served[r]
    PROVE  /\ task' \in [Downloads -> Task] /\ cache' \in [Segs -> Copies]
           /\ marked' \in [Sessions -> SUBSET Segs]
           /\ Sane(inflight', task', request') /\ MarksAreDownloads' /\ WithinWindow'
<1>1. task \in [Downloads -> Task] /\ marked[s] = {x \in Segs : task[<<s, x>>].stage # "idle"}
  BY DEF IInv, TypeOK, MarksAreDownloads
<1>2. QED
  BY <1>1, PumpKeeps

-----------------------------------------------------------------------------
(* The invariant, one lemma per kind of step *)

LEMMA InitInv == Init => IInv
<1> SUFFICES ASSUME Init PROVE IInv
  OBVIOUS
<1>1. TypeOK
  <2>1. \A s \in Sessions : live[s] = 0 /\ served[s] = 0
    BY DEF Init
  <2>2. Cardinality(Players) \in Nat
    BY ReadAheadAssumption, FS_CardinalityType
  <2>3. live \in [Sessions -> 0..Cardinality(Players)] /\ served \in [Sessions -> 0..Last]
    BY <2>2, ReadAheadAssumption DEF Init
  <2>4. failed \in [Downloads -> 0..Backoff]
    BY ReadAheadAssumption DEF Init
  <2>5. QED
    BY <2>3, <2>4, RestingTask, NoRequestFields DEF Init, TypeOK
<1>2. Sane(inflight, task, request)
  BY RestingTask, NoRequestFields DEF Init, Sane, Waiting
<1>3. Asked
  BY NoRequestFields DEF Init, Asked
<1>4. MarksAreDownloads
  <2>1. \A s \in Sessions, x \in Segs : task[<<s, x>>].stage = "idle"
    BY Pairs, RestingTask DEF Init
  <2>2. QED
    BY <2>1 DEF Init, MarksAreDownloads
<1>5. LiveIsForwarding
  <2>1. \A s \in Sessions : {p \in Players : request[p].stage = "forward" /\ request[p].sess = s} = {}
    BY NoRequestFields DEF Init
  <2>2. QED
    BY <2>1, FS_EmptySet DEF Init, LiveIsForwarding
<1>6. WithinWindow
  BY DEF Init, WithinWindow
<1>7. QED
  BY <1>1, <1>2, <1>3, <1>4, <1>5, <1>6 DEF IInv

\* A goroutine goes on; nobody but it sees that.
LEMMA TaskStep ==
    ASSUME IInv, NEW d \in Downloads, NEW t \in Task, task' = [task EXCEPT ![d] = t],
           Waiting(t, task),
           task[d].stage \in {"fetch", "close"} => t.stage \in {"fetch", "close"},
           task[d].stage \notin {"idle", "delete"}, t.stage # "idle",
           t.stage \in {"close", "delete", "finish"} => t.result \in Results,
           cache' \in [Segs -> Copies],
           UNCHANGED <<inflight, marked, failed, served, playlist, stopped, live, request>>
    PROVE  IInv'
<1>1. SetsTask(task', d, t)
  BY OneTask DEF IInv
<1>2. Sane(inflight', task', request')
  BY <1>1, TaskSane
<1>3. MarksAreDownloads'
  BY <1>1, MarksKept DEF SetsTask
<1>4. LiveIsForwarding' /\ WithinWindow' /\ Asked'
  BY DEF IInv, LiveIsForwarding, WithinWindow, Asked
<1>5. TypeOK'
  BY <1>1 DEF IInv, TypeOK, SetsTask, Copies
<1>6. QED
  BY <1>2, <1>3, <1>4, <1>5 DEF IInv

\* What a goroutine or a request that joins a download knows of it.
LEMMA KnownWaits ==
    ASSUME IInv, NEW x \in Segs, inflight[x] # Nobody
    PROVE  /\ inflight[x] \in Downloads /\ Known(x) \in Results \cup {"none"}
           /\ Known(x) = "none" => task[inflight[x]].stage \in {"fetch", "close"}
<1>1. inflight[x] \in Downloads /\ task[inflight[x]].stage \in {"fetch", "close", "delete"}
  BY DEF IInv, Sane
<1>2. task[inflight[x]].stage = "delete" => task[inflight[x]].result \in Results
  BY <1>1 DEF IInv, Sane
<1>3. "none" \notin Results
  BY DEF Results
<1>4. QED
  BY <1>1, <1>2, <1>3 DEF Known

LEMMA TaskTypes == ASSUME IInv, NEW d \in Downloads PROVE task[d] \in Task
BY DEF IInv, TypeOK

\* LoadOrStore: the table gets an owner that is downloading, or a waiter whose owner is.
LEMMA EnterInv == ASSUME IInv, NEW d \in Downloads, Enter(d) PROVE IInv'
<1>1. /\ d[2] \in Segs /\ task[d].stage = "enter"
      /\ UNCHANGED <<cache, marked, failed, served, playlist, stopped, live, request>>
  BY Pairs DEF Enter
<1>2. CASE inflight[d[2]] # Nobody
  <2> DEFINE t == [stage |-> "join", owner |-> inflight[d[2]], result |-> Known(d[2])]
  <2>1. task' = [task EXCEPT ![d] = t] /\ UNCHANGED inflight
    BY <1>2 DEF Enter
  <2>2. t \in Task /\ Waiting(t, task) /\ t.stage = "join"
    BY <1>1, <1>2, KnownWaits, JoinedTask DEF Waiting
  <2> HIDE DEF t
  <2>3. QED
    BY <1>1, <2>1, <2>2, CacheTypes, TaskStep
<1>3. CASE inflight[d[2]] = Nobody
  <2> DEFINE t == [task[d] EXCEPT !.stage = "fetch"]
  <2>1. task' = [task EXCEPT ![d] = t] /\ inflight' = [inflight EXCEPT ![d[2]] = d]
    BY <1>3 DEF Enter
  <2>2. t \in Task /\ t.stage = "fetch"
    BY TaskTypes, MovedTask DEF Stages
  <2> HIDE DEF t
  <2>3. SetsTask(task', d, t)
    BY <2>1, <2>2, OneTask DEF IInv
  <2>4. Sane(inflight, task', request)
    BY <1>1, <2>2, <2>3, TaskSane DEF Waiting
  <2>5. inflight' \in [Segs -> Downloads \cup {Nobody}]
        /\ \A x \in Segs : inflight'[x] = IF x = d[2] THEN d ELSE inflight[x]
    BY <2>1 DEF IInv, TypeOK
  <2>6. Sane(inflight', task', request')
    BY <1>1, <2>2, <2>3, <2>4, <2>5 DEF Sane, SetsTask
  <2>7. MarksAreDownloads'
    BY <1>1, <2>2, <2>3, MarksKept DEF SetsTask
  <2>8. LiveIsForwarding' /\ WithinWindow' /\ Asked'
    BY <1>1 DEF IInv, LiveIsForwarding, WithinWindow, Asked
  <2>9. TypeOK'
    BY <1>1, <2>3, <2>5 DEF IInv, TypeOK, SetsTask
  <2>10. QED
    BY <2>6, <2>7, <2>8, <2>9 DEF IInv
<1>4. QED
  BY <1>2, <1>3

LEMMA JoinEndInv == ASSUME IInv, NEW d \in Downloads, Hear(d) \/ LeaveJoin(d) PROVE IInv'
<1>1. /\ task[d].stage = "join" /\ task[d] \in Task
      /\ UNCHANGED <<cache, inflight, marked, failed, served, playlist, stopped, live, request>>
  BY TaskTypes DEF Hear, LeaveJoin
<1>2. CASE Hear(d)
  <2> DEFINE t == [task[d] EXCEPT !.stage = "finish", !.owner = Nobody]
  <2>1. task' = [task EXCEPT ![d] = t]
    BY <1>2 DEF Hear
  <2>2. t \in Task /\ t.stage = "finish" /\ t.result = task[d].result
    BY <1>1, HeardTask
  <2>3. t.result \in Results
    BY <1>1, <1>2, <2>2, TaskFields DEF Hear
  <2> HIDE DEF t
  <2>4. QED
    BY <1>1, <2>1, <2>2, <2>3, CacheTypes, TaskStep DEF Waiting
<1>3. CASE LeaveJoin(d)
  <2>1. PICK t : /\ task' = [task EXCEPT ![d] = t]
                 /\ \/ t = [Resting EXCEPT !.stage = "finish", !.result = "error"]
                    \/ t = [Resting EXCEPT !.stage = "fetch"]
    BY <1>3 DEF LeaveJoin
  <2>2. t \in Task /\ t.stage \in {"finish", "fetch"} /\ (t.stage = "finish" => t.result = "error")
    BY <2>1, CancelledTask, RestartedTask
  <2>3. Waiting(t, task) /\ (t.stage \in {"close", "delete", "finish"} => t.result \in Results)
    BY <2>2 DEF Waiting, Results
  <2>4. QED
    BY <1>1, <2>1, <2>2, <2>3, CacheTypes, TaskStep
<1>4. QED
  BY <1>2, <1>3

LEMMA FetchInv == ASSUME IInv, NEW d \in Downloads, Fetch(d) PROVE IInv'
<1>1. PICK r \in Results : task' = [task EXCEPT ![d].stage = "close", ![d].result = r]
  BY DEF Fetch, Results
<1>2. cache' \in [Segs -> Copies]
  BY CacheTypes, Pairs DEF Fetch
<1> DEFINE t == [task[d] EXCEPT !.stage = "close", !.result = r]
<1>3. task' = [task EXCEPT ![d] = t]
  BY <1>1
<1>4. t \in Task /\ t.stage = "close" /\ t.result = r
  BY <1>1, TaskTypes, EndedTask
<1> HIDE DEF t
<1>5. /\ task[d].stage = "fetch"
      /\ UNCHANGED <<inflight, marked, failed, served, playlist, stopped, live, request>>
  BY DEF Fetch
<1>6. QED
  BY <1>1, <1>2, <1>3, <1>4, <1>5, TaskStep DEF Waiting

\* Everyone who waits for the download hears its result, which is one.
LEMMA CloseDoneInv == ASSUME IInv, NEW d \in Downloads, CloseDone(d) PROVE IInv'
<1> DEFINE r == task[d].result
<1>1. /\ task[d].stage = "close" /\ r \in Results
      /\ UNCHANGED <<cache, inflight, marked, failed, served, playlist, stopped, live>>
  BY DEF CloseDone, IInv, Sane
<1>2. ASSUME NEW e \in Downloads
      PROVE  /\ task'[e] \in Task
             /\ e = d => task'[e].stage = "delete" /\ task'[e].result = r
             /\ e # d => /\ task'[e].stage = task[e].stage /\ task'[e].owner = task[e].owner
                         /\ task'[e].result \in {task[e].result, r}
                         /\ task[e].stage = "join" /\ task[e].owner = d => task'[e].result = r
  <2>1. task[e] \in Task /\ task[d] \in Task
    BY TaskTypes
  <2>2. task'[e] = IF e = d THEN [task[d] EXCEPT !.stage = "delete"]
                   ELSE IF task[e].stage = "join" /\ task[e].owner = d
                        THEN [task[e] EXCEPT !.result = r] ELSE task[e]
    BY DEF CloseDone, Heard
  <2>3. CASE e = d
    <3>1. task'[e] = [task[d] EXCEPT !.stage = "delete"]
      BY <2>2, <2>3
    <3>2. /\ [task[d] EXCEPT !.stage = "delete"] \in Task
          /\ [task[d] EXCEPT !.stage = "delete"].stage = "delete"
          /\ [task[d] EXCEPT !.stage = "delete"].result = r
      BY <2>1, MovedTask DEF Stages
    <3>3. QED
      BY <2>3, <3>1, <3>2
  <2>4. CASE e # d /\ task[e].stage = "join" /\ task[e].owner = d
    <3>1. task'[e] = [task[e] EXCEPT !.result = r]
      BY <2>2, <2>4
    <3>2. QED
      BY <1>1, <2>1, <2>4, <3>1, ToldTask
  <2>5. CASE e # d /\ ~(task[e].stage = "join" /\ task[e].owner = d)
    BY <2>1, <2>2, <2>5
  <2>6. QED
    BY <2>3, <2>4, <2>5
<1>3. ASSUME NEW p \in Players
      PROVE  /\ request'[p] \in Request
             /\ request'[p].stage = request[p].stage /\ request'[p].owner = request[p].owner
             /\ request'[p].sess = request[p].sess /\ request'[p].seg = request[p].seg
             /\ request'[p].result \in {request[p].result, r}
             /\ request[p].stage = "join" /\ request[p].owner = d => request'[p].result = r
  <2>1. request[p] \in Request
    BY DEF IInv, TypeOK
  <2>2. request'[p] = IF request[p].stage = "join" /\ request[p].owner = d
                      THEN [request[p] EXCEPT !.result = r] ELSE request[p]
    BY DEF CloseDone, Heard
  <2>3. CASE request[p].stage = "join" /\ request[p].owner = d
    <3>1. request'[p] = [request[p] EXCEPT !.result = r]
      BY <2>2, <2>3
    <3>2. QED
      BY <1>1, <2>1, <3>1, ToldRequest
  <2>4. CASE ~(request[p].stage = "join" /\ request[p].owner = d)
    BY <2>1, <2>2, <2>4
  <2>5. QED
    BY <2>3, <2>4
<1> HIDE DEF r
<1>4. r # "none"
  BY <1>1 DEF Results
<1>5. Sane(inflight', task', request')
  <2>1. ASSUME NEW u, NEW v, Waiting(u, task), v.stage = u.stage, v.owner = u.owner,
               v.result \in {u.result, r}, u.stage = "join" /\ u.owner = d => v.result = r
        PROVE  Waiting(v, task')
    BY <1>1, <1>2, <1>4, <2>1 DEF Waiting
  <2>2. \A x \in Segs : inflight'[x] # Nobody =>
           /\ inflight'[x] \in Downloads /\ inflight'[x][2] = x
           /\ task'[inflight'[x]].stage \in {"fetch", "close", "delete"}
    <3>1. \A e \in Downloads : task[e].stage \in {"fetch", "close", "delete"}
                                  => task'[e].stage \in {"fetch", "close", "delete"}
      BY <1>2
    <3>2. QED
      BY <1>1, <3>1 DEF IInv, Sane
  <2>3. ASSUME NEW e \in Downloads PROVE Waiting(task'[e], task')
    <3>1. CASE e = d
      BY <1>2, <3>1 DEF Waiting
    <3>2. CASE e # d
      <4>1. Waiting(task[e], task)
        BY DEF IInv, Sane
      <4>2. QED
        BY <1>2, <2>1, <3>2, <4>1
    <3>3. QED
      BY <3>1, <3>2
  <2>4. ASSUME NEW p \in Players PROVE Waiting(request'[p], task')
    <3>1. Waiting(request[p], task)
      BY DEF IInv, Sane
    <3>2. QED
      BY <1>3, <2>1, <3>1
  <2>5. \A e \in Downloads : task'[e].stage \in {"close", "delete", "finish"} => task'[e].result \in Results
    BY <1>1, <1>2 DEF IInv, Sane
  <2>6. QED
    BY <2>2, <2>3, <2>4, <2>5 DEF Sane
<1>6. MarksAreDownloads'
  <2>1. \A e \in Downloads : task'[e].stage = "idle" <=> task[e].stage = "idle"
    BY <1>1, <1>2
  <2>2. QED
    BY <1>1, <2>1, MarksKept
<1>7. LiveIsForwarding' /\ WithinWindow' /\ Asked'
  <2>1. LiveIsForwarding'
    BY <1>1, <1>3, LiveKept
  <2>2. Asked'
    BY <1>3 DEF IInv, Asked
  <2>3. QED
    BY <1>1, <2>1, <2>2 DEF IInv, WithinWindow
<1>8. TypeOK'
  <2>1. task' \in [Downloads -> Task]
    BY <1>2 DEF CloseDone, Heard
  <2>2. request' \in [Players -> Request]
    BY <1>3 DEF CloseDone, Heard
  <2>3. QED
    BY <1>1, <2>1, <2>2 DEF IInv, TypeOK
<1>9. QED
  BY <1>5, <1>6, <1>7, <1>8 DEF IInv

\* Whoever is in the table for the segment goes; nobody still waits for this download.
LEMMA DeregisterInv == ASSUME IInv, NEW d \in Downloads, Deregister(d) PROVE IInv'
<1> DEFINE t == [task[d] EXCEPT !.stage = "finish"]
<1>1. /\ task[d].stage = "delete" /\ task' = [task EXCEPT ![d] = t]
      /\ inflight' = [inflight EXCEPT ![d[2]] = Nobody]
      /\ UNCHANGED <<cache, marked, failed, served, playlist, stopped, live, request>>
  BY DEF Deregister
<1>2. t \in Task /\ t.stage = "finish" /\ t.result = task[d].result
  BY TaskTypes, MovedTask DEF Stages
<1> HIDE DEF t
<1>3. SetsTask(task', d, t)
  BY <1>1, <1>2, OneTask DEF IInv
<1>4. /\ inflight' \in [Segs -> Downloads \cup {Nobody}]
      /\ \A x \in Segs : inflight'[x] = IF x = d[2] THEN Nobody ELSE inflight[x]
  BY <1>1, Pairs DEF IInv, TypeOK
<1>5. Sane(inflight', task', request')
  <2>1. \A u : Waiting(u, task) => Waiting(u, task')
    BY <1>1, <1>3 DEF Waiting, SetsTask
  <2>2. \A x \in Segs : inflight'[x] # Nobody =>
           /\ inflight'[x] \in Downloads /\ inflight'[x][2] = x
           /\ task'[inflight'[x]].stage \in {"fetch", "close", "delete"}
    BY <1>3, <1>4 DEF IInv, Sane, SetsTask
  <2>3. \A e \in Downloads : Waiting(task'[e], task')
    <3>1. Waiting(t, task')
      BY <1>2 DEF Waiting
    <3>2. \A e \in Downloads : Waiting(task[e], task')
      BY <2>1 DEF IInv, Sane
    <3>3. QED
      BY <1>3, <3>1, <3>2 DEF SetsTask
  <2>4. \A p \in Players : Waiting(request'[p], task')
    BY <1>1, <2>1 DEF IInv, Sane
  <2>5. \A e \in Downloads : task'[e].stage \in {"close", "delete", "finish"} => task'[e].result \in Results
    BY <1>1, <1>2, <1>3 DEF IInv, Sane, SetsTask
  <2>6. QED
    BY <2>2, <2>3, <2>4, <2>5 DEF Sane
<1>6. MarksAreDownloads'
  BY <1>1, <1>2, <1>3, MarksKept DEF SetsTask
<1>7. LiveIsForwarding' /\ WithinWindow' /\ Asked'
  BY <1>1 DEF IInv, LiveIsForwarding, WithinWindow, Asked
<1>8. TypeOK'
  BY <1>1, <1>3, <1>4 DEF IInv, TypeOK, SetsTask
<1>9. QED
  BY <1>5, <1>6, <1>7, <1>8 DEF IInv

LEMMA FinishInv == ASSUME IInv, NEW d \in Downloads, Finish(d) PROVE IInv'
<1> DEFINE s == d[1]
           tk == [task EXCEPT ![d] = Resting]
           mk == marked[s] \ {d[2]}
<1>1. /\ task[d].stage = "finish" /\ Pump(s, cache, mk, tk)
      /\ UNCHANGED <<inflight, served, playlist, stopped, live, request>>
  BY DEF Finish
<1>2. s \in Sessions /\ d[2] \in Segs /\ d = <<s, d[2]>>
  BY Pairs
<1>3. SetsTask(tk, d, Resting)
  BY RestingTask, OneTask DEF IInv
<1>4. mk \subseteq marked[s] /\ mk = {x \in Segs : tk[<<s, x>>].stage # "idle"}
  <2>1. marked[s] = {x \in Segs : task[<<s, x>>].stage # "idle"}
    BY <1>2 DEF IInv, MarksAreDownloads
  <2>2. \A x \in Segs : tk[<<s, x>>] = IF x = d[2] THEN Resting ELSE task[<<s, x>>]
    BY <1>2, <1>3, Pairs DEF SetsTask
  <2> HIDE DEF tk
  <2>3. QED
    BY <1>2, <2>1, <2>2, RestingTask
<1>5. tk \in [Downloads -> Task] /\ \A e \in Downloads : e[1] # s => tk[e] = task[e]
  BY <1>3 DEF SetsTask
<1>6. Sane(inflight, tk, request')
  BY <1>1, <1>3, RestingTask, TaskSane DEF Waiting
<1> HIDE DEF tk, mk, s
<1>7. /\ task' \in [Downloads -> Task] /\ cache' \in [Segs -> Copies]
      /\ marked' \in [Sessions -> SUBSET Segs]
      /\ Sane(inflight', task', request') /\ MarksAreDownloads' /\ WithinWindow'
  <2>1. served' \in [Sessions -> 0..Last] /\ \A r \in Sessions : served'[r] >= served[r]
    BY <1>1, ServedStays
  <2>2. cache \in [Segs -> Copies]
    BY CacheTypes
  <2>3. QED
    BY <1>1, <1>2, <1>4, <1>5, <1>6, <2>1, <2>2, PumpKeeps
<1>8. failed' \in [Downloads -> 0..Backoff]
  BY ReadAheadAssumption DEF Finish, IInv, TypeOK
<1>9. LiveIsForwarding' /\ Asked'
  BY <1>1 DEF IInv, LiveIsForwarding, Asked
<1>10. TypeOK'
  BY <1>1, <1>7, <1>8 DEF IInv, TypeOK, Copies
<1>11. QED
  BY <1>7, <1>9, <1>10 DEF IInv

LEMMA RegisterInv == ASSUME IInv, NEW s \in Sessions, Register(s) PROVE IInv'
<1>1. /\ Pump(s, cache, marked[s], task) /\ playlist' = playlist \cup {s}
      /\ UNCHANGED <<inflight, failed, served, stopped, live, request>>
  BY DEF Register
<1>2. Sane(inflight, task, request')
  BY <1>1 DEF IInv
<1>3. /\ task' \in [Downloads -> Task] /\ cache' \in [Segs -> Copies]
      /\ marked' \in [Sessions -> SUBSET Segs]
      /\ Sane(inflight', task', request') /\ MarksAreDownloads' /\ WithinWindow'
  BY <1>1, <1>2, CacheTypes, ServedStays, PumpFromHere
<1>4. LiveIsForwarding' /\ Asked'
  BY <1>1 DEF IInv, LiveIsForwarding, Asked
<1>5. TypeOK'
  BY <1>1, <1>3 DEF IInv, TypeOK, Copies
<1>6. QED
  BY <1>3, <1>4, <1>5 DEF IInv

LEMMA WorldInv ==
    ASSUME IInv, (\E s \in Sessions : Stop(s)) \/ (\E x \in Segs : Expire(x)) \/ Tick \/ UNCHANGED vars
    PROVE  IInv'
<1>1. UNCHANGED <<inflight, task, marked, served, playlist, live, request>>
  BY DEF Stop, Expire, Tick, vars
<1>2. cache' \in [Segs -> Copies] /\ stopped' \in SUBSET Sessions
  BY CacheTypes DEF Stop, Expire, Tick, vars, IInv, TypeOK, Copies
<1>3. failed' \in [Downloads -> 0..Backoff]
  <2>1. failed \in [Downloads -> 0..Backoff] /\ Backoff \in Nat
    BY ReadAheadAssumption DEF IInv, TypeOK
  <2>2. CASE Tick
    BY <2>1, <2>2 DEF Tick
  <2>3. QED
    BY <2>1, <2>2 DEF Stop, Expire, vars
<1>4. TypeOK'
  BY <1>1, <1>2, <1>3 DEF IInv, TypeOK, Copies
<1>5. Sane(inflight', task', request')
  BY <1>1 DEF IInv
<1>6. Asked' /\ MarksAreDownloads' /\ LiveIsForwarding' /\ WithinWindow'
  BY <1>1 DEF IInv, Asked, MarksAreDownloads, LiveIsForwarding, WithinWindow
<1>7. QED
  BY <1>4, <1>5, <1>6 DEF IInv

-----------------------------------------------------------------------------
(* Steps of a player request *)

\* A request goes on without the pump, and not into or out of forwarding.
LEMMA RequestStep ==
    ASSUME IInv, NEW p \in Players, NEW q \in Request, request' = [request EXCEPT ![p] = q],
           Waiting(q, task), q.stage # "idle" => q.sess \in Sessions /\ q.seg \in Segs,
           q.stage # "forward", request[p].stage # "forward", cache' \in [Segs -> Copies],
           UNCHANGED <<inflight, task, marked, failed, served, playlist, stopped, live>>
    PROVE  IInv'
<1>1. /\ request' \in [Players -> Request] /\ Asked' /\ Sane(inflight, task, request')
      /\ request'[p] = q /\ \A o \in Players \ {p} : request'[o] = request[o]
  BY OneRequest
<1>2. LiveIsForwarding'
  BY <1>1, LiveKept
<1>3. MarksAreDownloads' /\ WithinWindow' /\ Sane(inflight', task', request')
  BY <1>1 DEF IInv, MarksAreDownloads, WithinWindow
<1>4. TypeOK'
  BY <1>1 DEF IInv, TypeOK, Copies
<1>5. QED
  BY <1>1, <1>2, <1>3, <1>4 DEF IInv

\* A segment is handed over from the cache, or from a download that was joined.
LEMMA ServeStep ==
    ASSUME IInv, NEW s \in Sessions, NEW x \in Segs, ServeCached(s, x),
           Sane(inflight, task, request'), Asked', request' \in [Players -> Request],
           LiveIsForwarding', UNCHANGED <<inflight, failed, playlist, stopped, live>>
    PROVE  IInv'
<1>1. Pump(s, cache, marked[s], task) /\ NoteServed(s, x)
  BY DEF ServeCached
<1>2. served' \in [Sessions -> 0..Last] /\ \A r \in Sessions : served'[r] >= served[r]
  BY <1>1, ServedGrows
<1>3. /\ task' \in [Downloads -> Task] /\ cache' \in [Segs -> Copies]
      /\ marked' \in [Sessions -> SUBSET Segs]
      /\ Sane(inflight', task', request') /\ MarksAreDownloads' /\ WithinWindow'
  BY <1>1, <1>2, CacheTypes, PumpFromHere
<1>4. TypeOK'
  BY <1>2, <1>3 DEF IInv, TypeOK, Copies
<1>5. QED
  BY <1>3, <1>4 DEF IInv

LEMMA ArriveInv ==
    ASSUME IInv, NEW p \in Players, NEW s \in Sessions, NEW x \in Segs, Arrive(p, s, x)
    PROVE  IInv'
<1>1. request[p].stage = "idle" /\ UNCHANGED <<inflight, failed, playlist, stopped, live>>
  BY DEF Arrive
<1>2. CASE cache[x] = "fresh"
  <2>1. request' = request /\ ServeCached(s, x)
    BY <1>2 DEF Arrive
  <2>2. Sane(inflight, task, request') /\ Asked' /\ request' \in [Players -> Request]
    BY <2>1 DEF IInv, Asked, TypeOK
  <2>3. LiveIsForwarding'
    BY <1>1, <2>1, LiveKept
  <2>4. QED
    BY <1>1, <2>1, <2>2, <2>3, ServeStep
<1>3. CASE cache[x] # "fresh"
  <2> DEFINE b == cache[x] # "none"
             miss == [NoRequest EXCEPT !.sess = s, !.seg = x, !.had = b]
  <2>1. miss \in Request /\ miss.sess = s /\ miss.seg = x
    <3>1. b \in BOOLEAN
      OBVIOUS
    <3> HIDE DEF b
    <3>2. QED
      BY <3>1, MissedRequest
  <2>2. /\ cache' = AfterGet(cache, {x}) /\ UNCHANGED <<task, marked, served>>
        /\ \/ request' = [request EXCEPT ![p] = [miss EXCEPT !.stage = "fetch"]]
           \/ /\ inflight[x] # Nobody
              /\ request' = [request EXCEPT ![p] = [miss EXCEPT !.stage = "join",
                               !.owner = inflight[x], !.result = Known(x)]]
    BY <1>3 DEF Arrive
  <2>3. cache' \in [Segs -> Copies]
    BY <2>2, CacheTypes
  <2> HIDE DEF miss, b
  <2>4. CASE request' = [request EXCEPT ![p] = [miss EXCEPT !.stage = "fetch"]]
    <3> DEFINE q == [miss EXCEPT !.stage = "fetch"]
    <3>1. q \in Request /\ q.stage = "fetch" /\ q.sess = s /\ q.seg = x
      BY <2>1, AskingRequest
    <3>2. request' = [request EXCEPT ![p] = q]
      BY <2>4
    <3> HIDE DEF q
    <3>3. QED
      BY <1>1, <2>2, <2>3, <3>1, <3>2, RequestStep DEF Waiting
  <2>5. CASE /\ inflight[x] # Nobody
             /\ request' = [request EXCEPT ![p] = [miss EXCEPT !.stage = "join",
                              !.owner = inflight[x], !.result = Known(x)]]
    <3> DEFINE o == inflight[x]
               k == Known(x)
               q == [miss EXCEPT !.stage = "join", !.owner = o, !.result = k]
    <3>1. /\ o \in Downloads /\ k \in Results \cup {"none"}
          /\ k = "none" => task[o].stage \in {"fetch", "close"}
      BY <2>5, KnownWaits
    <3>2. request' = [request EXCEPT ![p] = q]
      BY <2>5
    <3> HIDE DEF o, k
    <3>3. q \in Request /\ q.stage = "join" /\ q.owner = o /\ q.result = k /\ q.sess = s /\ q.seg = x
      <4>1. miss \in Request /\ o \in Downloads /\ k \in Results \cup {"none"}
        BY <2>1, <3>1
      <4>2. q \in Request
        BY <4>1 DEF Request
      <4>3. q.stage = "join" /\ q.owner = o /\ q.result = k
        BY <4>1 DEF Request
      <4>4. q.sess = miss.sess /\ q.seg = miss.seg
        BY <4>1 DEF Request
      <4>5. QED
        BY <2>1, <4>2, <4>3, <4>4
    <3> HIDE DEF q
    <3>4. Waiting(q, task)
      BY <3>1, <3>3 DEF Waiting
    <3>5. QED
      BY <1>1, <2>2, <2>3, <3>2, <3>3, <3>4, RequestStep
  <2>6. QED
    BY <2>2, <2>4, <2>5
<1>4. QED
  BY <1>2, <1>3

\* A request that stopped waiting, and goes upstream itself.
LEMMA GoesAlone ==
    ASSUME IInv, NEW p \in Players, request[p].stage = "join",
           request' = [request EXCEPT ![p].stage = "fetch", ![p].owner = Nobody,
                                      ![p].result = "none"],
           UNCHANGED <<cache, inflight, task, marked, failed, served, playlist, stopped, live>>
    PROVE  IInv'
<1> DEFINE q == [request[p] EXCEPT !.stage = "fetch", !.owner = Nobody, !.result = "none"]
<1>1. request[p] \in Request /\ request[p].sess \in Sessions /\ request[p].seg \in Segs
  BY DEF IInv, TypeOK, Asked
<1>2. q \in Request /\ q.stage = "fetch" /\ q.sess \in Sessions /\ q.seg \in Segs
  BY <1>1, AloneRequest
<1>3. request' = [request EXCEPT ![p] = q]
  OBVIOUS
<1> HIDE DEF q
<1>4. QED
  BY <1>2, <1>3, CacheTypes, RequestStep DEF Waiting

LEMMA PlayerHearsInv == ASSUME IInv, NEW p \in Players, PlayerHears(p) PROVE IInv'
<1>1. request[p].stage = "join" /\ UNCHANGED <<inflight, failed, playlist, stopped, live>>
  BY DEF PlayerHears
<1>2. request[p].sess \in Sessions /\ request[p].seg \in Segs
  BY <1>1 DEF IInv, Asked
<1>3. CASE request[p].result \in {"ok", "status"}
  <2>1. request' = [request EXCEPT ![p] = NoRequest]
        /\ ServeCached(request[p].sess, request[p].seg)
    BY <1>3 DEF PlayerHears
  <2>2. /\ request' \in [Players -> Request] /\ Asked' /\ Sane(inflight, task, request')
        /\ request'[p] = NoRequest /\ \A o \in Players \ {p} : request'[o] = request[o]
    BY <2>1, NoRequestFields, OneRequest DEF Waiting
  <2>3. LiveIsForwarding'
    BY <1>1, <2>2, NoRequestFields, LiveKept
  <2>4. QED
    BY <1>1, <1>2, <2>1, <2>2, <2>3, ServeStep
<1>4. CASE ~(request[p].result \in {"ok", "status"})
  BY <1>1, <1>4, GoesAlone DEF PlayerHears
<1>5. QED
  BY <1>3, <1>4

LEMMA PlayerLeavesInv ==
    ASSUME IInv, NEW p \in Players, PlayerGivesUp(p) \/ PlayerFails(p) PROVE IInv'
<1>1. CASE PlayerGivesUp(p)
  BY <1>1, GoesAlone DEF PlayerGivesUp
<1>2. CASE PlayerFails(p)
  BY <1>2, NoRequestFields, CacheTypes, RequestStep DEF PlayerFails, Waiting
<1>3. QED
  BY <1>1, <1>2

\* The answer is forwarded from here on: one live fetch more, counted as it begins.
LEMMA PlayerAnsweredInv == ASSUME IInv, NEW p \in Players, PlayerAnswered(p) PROVE IInv'
<1> DEFINE s == request[p].sess
<1>1. /\ request[p].stage = "fetch" /\ live' = [live EXCEPT ![s] = @ + 1]
      /\ NoteServed(s, request[p].seg) /\ Pump(s, cache, marked[s], task)
      /\ UNCHANGED <<inflight, failed, playlist, stopped>>
  BY DEF PlayerAnswered
<1>2. s \in Sessions /\ request[p].seg \in Segs /\ request[p] \in Request
  BY <1>1 DEF IInv, Asked, TypeOK
<1>3. PICK r \in Results :
         request' = [request EXCEPT ![p].stage = "forward", ![p].result = r]
  BY DEF PlayerAnswered, Results
<1> DEFINE q == [request[p] EXCEPT !.stage = "forward", !.result = r]
<1>4. q \in Request /\ q.stage = "forward" /\ q.sess = s /\ q.seg = request[p].seg
  BY <1>2, <1>3, ForwardedRequest
<1>5. request' = [request EXCEPT ![p] = q]
  BY <1>3
<1> HIDE DEF q, s
<1>6. /\ request' \in [Players -> Request] /\ Asked' /\ Sane(inflight, task, request')
      /\ request'[p] = q /\ \A o \in Players \ {p} : request'[o] = request[o]
  BY <1>2, <1>4, <1>5, OneRequest DEF Waiting
<1>7. LiveIsForwarding' /\ live' \in [Sessions -> 0..Cardinality(Players)]
  BY <1>1, <1>2, <1>4, <1>6, LiveMore
<1>8. served' \in [Sessions -> 0..Last] /\ \A o \in Sessions : served'[o] >= served[o]
  BY <1>1, <1>2, ServedGrows
<1>9. /\ task' \in [Downloads -> Task] /\ cache' \in [Segs -> Copies]
      /\ marked' \in [Sessions -> SUBSET Segs]
      /\ Sane(inflight', task', request') /\ MarksAreDownloads' /\ WithinWindow'
  BY <1>1, <1>2, <1>6, <1>8, CacheTypes, PumpFromHere
<1>10. TypeOK'
  BY <1>1, <1>6, <1>7, <1>8, <1>9 DEF IInv, TypeOK, Copies
<1>11. QED
  BY <1>6, <1>7, <1>9, <1>10 DEF IInv

\* The forwarding is over, whatever became of it: one live fetch less.
LEMMA PlayerDoneInv == ASSUME IInv, NEW p \in Players, PlayerDone(p) PROVE IInv'
<1> DEFINE s == request[p].sess
<1>1. /\ request[p].stage = "forward" /\ live' = [live EXCEPT ![s] = @ - 1]
      /\ request' = [request EXCEPT ![p] = NoRequest]
      /\ UNCHANGED <<inflight, failed, served, playlist, stopped>>
  BY DEF PlayerDone
<1>2. s \in Sessions /\ request[p].seg \in Segs
  BY <1>1 DEF IInv, Asked
<1>3. /\ request' \in [Players -> Request] /\ Asked' /\ Sane(inflight, task, request')
      /\ request'[p] = NoRequest /\ \A o \in Players \ {p} : request'[o] = request[o]
  BY <1>1, NoRequestFields, OneRequest DEF Waiting
<1>4. LiveIsForwarding' /\ live' \in [Sessions -> 0..Cardinality(Players)]
  BY <1>1, <1>2, <1>3, NoRequestFields, LiveLess
<1>5. PICK c \in {cache} \cup AfterPut(request[p].seg) :
         \/ Pump(s, c, marked[s], task)
         \/ cache' = c /\ UNCHANGED <<marked, task>>
  BY DEF PlayerDone
<1> HIDE DEF s
<1>6. c \in [Segs -> Copies]
  BY <1>2, <1>5, CacheTypes
<1>7. /\ task' \in [Downloads -> Task] /\ cache' \in [Segs -> Copies]
      /\ marked' \in [Sessions -> SUBSET Segs]
      /\ Sane(inflight', task', request') /\ MarksAreDownloads' /\ WithinWindow'
  <2>1. CASE Pump(s, c, marked[s], task)
    BY <1>1, <1>2, <1>3, <1>6, <2>1, ServedStays, PumpFromHere
  <2>2. CASE cache' = c /\ UNCHANGED <<marked, task>>
    BY <1>1, <1>3, <1>6, <2>2 DEF IInv, TypeOK, MarksAreDownloads, WithinWindow
  <2>3. QED
    BY <1>5, <2>1, <2>2
<1>8. TypeOK'
  BY <1>1, <1>3, <1>4, <1>7 DEF IInv, TypeOK, Copies
<1>9. QED
  BY <1>3, <1>4, <1>7, <1>8 DEF IInv

LEMMA StepInv == ASSUME IInv, [Next]_vars PROVE IInv'
<1>1. ASSUME NEW d \in Downloads, Work(d) \/ Fetch(d) PROVE IInv'
  BY <1>1, EnterInv, JoinEndInv, FetchInv, CloseDoneInv, DeregisterInv, FinishInv DEF Work
<1>2. ASSUME NEW p \in Players,
             \/ \E s \in Sessions, x \in Segs : Arrive(p, s, x)
             \/ PlayerHears(p) \/ PlayerGivesUp(p)
             \/ PlayerFails(p) \/ PlayerAnswered(p) \/ PlayerDone(p)
      PROVE  IInv'
  BY <1>2, ArriveInv, PlayerHearsInv, PlayerLeavesInv, PlayerAnsweredInv, PlayerDoneInv
<1>3. QED
  BY <1>1, <1>2, RegisterInv, WorldInv DEF Next

LEMMA Invariance == Spec => []IInv
BY InitInv, StepInv, PTL DEF Spec

-----------------------------------------------------------------------------
(* The theorems *)

\* Type correctness.
THEOREM TypeCorrect == Spec => []TypeOK
<1>1. IInv => TypeOK
  BY DEF IInv
<1>2. QED
  BY Invariance, <1>1, PTL

\* A URL is in r.inflight only while its owner runs and will still take it out.
THEOREM InflightSafe == Spec => []InflightRuns
<1>1. IInv => InflightRuns
  BY SaneMeans DEF IInv
<1>2. QED
  BY Invariance, <1>1, PTL

\* Whoever waits without an answer waits for a download that still has to close its
\* channel.
THEOREM WaitersSafe == Spec => []WaitersAreHeard
<1>1. IInv => WaitersAreHeard
  BY SaneMeans DEF IInv
<1>2. QED
  BY Invariance, <1>1, PTL

\* A segment is marked exactly while its prefetch runs, and the live fetches are counted
\* exactly while they are forwarded.
THEOREM LedgersSafe == Spec => []LedgersAreTrue
<1>1. IInv => LedgersAreTrue
  BY DEF IInv, LedgersAreTrue
<1>2. QED
  BY Invariance, <1>1, PTL

\* The read-ahead stays within prefetchLookahead of what the player was handed.
THEOREM WindowHolds == Spec => []WithinWindow
<1>1. IInv => WithinWindow
  BY DEF IInv
<1>2. QED
  BY Invariance, <1>1, PTL
=============================================================================
