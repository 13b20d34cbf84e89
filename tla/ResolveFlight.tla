--------------------------- MODULE ResolveFlight ---------------------------
(***************************************************************************)
(* Resolver.Resolve: the single-flight that lets concurrent requests for   *)
(* one title share a resolve chain, the chain itself (provider API, other  *)
(* providers, browser scrape) and the browser semaphore.  A caller is one  *)
(* HTTP request, so it calls once; a flight is named by the caller that    *)
(* registered it.                                                          *)
(***************************************************************************)
EXTENDS Integers, FiniteSets

CONSTANTS
    Callers,             \* requests for a playable source
    Keys,                \* resolution keys (provider, type, id, season, episode)
    LowQualityKeys,      \* keys whose provider may answer errLowQualityRelease
    CinesrcKeys,         \* keys whose provider is cinesrc
    Requests,            \* the ways the callers may pick their titles
    MaxBrowserSessions,  \* capacity of r.sem
    MaxDisconnects,      \* bound: clients that go away while they wait
    NoFlight             \* no flight registered, or none joined

ASSUME FlightAssumption ==
    /\ IsFiniteSet(Callers)
    /\ LowQualityKeys \subseteq Keys /\ CinesrcKeys \subseteq Keys
    /\ Requests \subseteq [Callers -> Keys]
    /\ MaxBrowserSessions \in Nat \ {0}
    /\ MaxDisconnects \in Nat
    /\ NoFlight \notin Callers

\* maxAttempts of the browser fallback.
MaxAttempts == 2

VARIABLES
    pc,        \* [Callers -> Stage]   where the request is in Resolve
    key,       \* [Callers -> Keys]    resolutionKey(req)
    alive,     \* [Callers -> BOOLEAN] parent.Err() == nil
    answer,    \* [Callers -> Answers] what Resolve returned
    joined,    \* [Callers -> flight]  the flight whose done channel it reads
    attempt,   \* [Callers -> Nat]     browser attempts started
    flights,   \* [Keys -> flight]     r.flights
    done,      \* [Callers -> Channel] fl.done of the flight the caller owns
    result,    \* [Callers -> Answers] the flightResult of that flight
    sem,       \* slots of r.sem in use
    cached,    \* keys with a remembered resolution
    closed     \* r.closed

callerVars == <<pc, key, alive, answer, joined, attempt>>
flightVars == <<flights, done, result>>
vars == <<pc, key, alive, answer, joined, attempt,
          flights, done, result, sem, cached, closed>>

Stage == {"idle", "flight", "join", "direct", "pagewait", "page", "reroute", "accept",
          "acquire", "scrape", "deliver", "retire", "returned"}

\* Between registering a flight and deleting it from r.flights.
ChainStage == {"direct", "pagewait", "page", "reroute", "accept", "acquire", "scrape",
               "deliver", "retire"}

\* "hit": replayed from the resolution cache.  "ctx": parent.Err().
Answers == {"none", "hit", "ok", "error", "ctx", "closed"}

\* fl.done holds at most one value and is never closed.
Channel == {"empty", "full", "taken"}

Init ==
    /\ pc = [c \in Callers |-> "idle"]
    /\ key \in Requests
    /\ alive = [c \in Callers |-> TRUE]
    /\ answer = [c \in Callers |-> "none"]
    /\ joined = [c \in Callers |-> NoFlight]
    /\ attempt = [c \in Callers |-> 0]
    /\ flights = [k \in Keys |-> NoFlight]
    /\ done = [c \in Callers |-> "empty"]
    /\ result = [c \in Callers |-> "none"]
    /\ sem = 0
    /\ cached = {}
    /\ closed = FALSE

-----------------------------------------------------------------------------
(* Helpers *)

Goto(c, stage) == pc' = [pc EXCEPT ![c] = stage]

Return(c, a) ==
    /\ Goto(c, "returned")
    /\ answer' = [answer EXCEPT ![c] = a]

\* resolveFresh returned (proxyURL, err): the chain is over.
EndChain(c, a) ==
    /\ Goto(c, "deliver")
    /\ result' = [result EXCEPT ![c] = a]

\* newSession succeeds unless the resolver is closed; the session cap, which
\* other viewers fill, may refuse it at any moment.
MayMint == ~closed

\* A chain that minted its session remembers the resolution before returning.
EndChainMinted(c) ==
    /\ MayMint
    /\ EndChain(c, "ok")
    /\ cached' = cached \cup {key[c]}

-----------------------------------------------------------------------------
(* The call, the cache and the flight table *)

\* A closed resolver refuses at once.  Otherwise tryCachedResolution replays a
\* remembered record.  The record may have expired or been invalidated by now,
\* and its session may be refused: then the full resolve follows.
Call(c) ==
    /\ pc[c] = "idle"
    /\ \/ closed /\ Return(c, "closed")
       \/ MayMint /\ key[c] \in cached /\ Return(c, "hit")
       \/ ~closed /\ Goto(c, "flight") /\ UNCHANGED answer
    /\ UNCHANGED <<key, alive, joined, attempt, flightVars, sem, cached, closed>>

\* Fault: the flight table read outside flightMu, so two callers both register.
EnterFlightUnlocked(c) ==
    /\ pc[c] = "flight"
    /\ flights' = [flights EXCEPT ![key[c]] = c]
    /\ Goto(c, "direct")
    /\ UNCHANGED <<key, alive, answer, joined, attempt, done, result, sem, cached, closed>>

\* Fault: a flight key that does not name the title.
EnterAnyFlight(c) ==
    /\ pc[c] = "flight"
    /\ \/ \E k \in Keys :
             /\ flights[k] # NoFlight
             /\ joined' = [joined EXCEPT ![c] = flights[k]]
             /\ Goto(c, "join")
             /\ UNCHANGED flights
       \/ /\ flights[key[c]] = NoFlight
          /\ flights' = [flights EXCEPT ![key[c]] = c]
          /\ Goto(c, "direct")
          /\ UNCHANGED joined
    /\ UNCHANGED <<key, alive, answer, attempt, done, result, sem, cached, closed>>

\* Under flightMu: join the open flight of the key, or register one.
EnterFlight(c) ==
    /\ pc[c] = "flight"
    /\ \/ /\ flights[key[c]] # NoFlight
          /\ joined' = [joined EXCEPT ![c] = flights[key[c]]]
          /\ Goto(c, "join")
          /\ UNCHANGED flights
       \/ /\ flights[key[c]] = NoFlight
          /\ flights' = [flights EXCEPT ![key[c]] = c]
          /\ Goto(c, "direct")
          /\ UNCHANGED joined
    /\ UNCHANGED <<key, alive, answer, attempt, done, result, sem, cached, closed>>

\* case res := <-fl.done
JoinerReceives(c) ==
    /\ pc[c] = "join"
    /\ done[joined[c]] = "full"
    /\ done' = [done EXCEPT ![joined[c]] = "taken"]
    /\ Return(c, result[joined[c]])
    /\ UNCHANGED <<key, alive, joined, attempt, flights, result, sem, cached, closed>>

\* case <-parent.Done()
JoinerGivesUp(c) ==
    /\ pc[c] = "join"
    /\ ~alive[c]
    /\ Return(c, "ctx")
    /\ UNCHANGED <<key, alive, joined, attempt, flightVars, sem, cached, closed>>

-----------------------------------------------------------------------------
(* resolveFresh *)

\* The provider's own endpoint.  A failed resolve and a refused session both
\* fall back to the scrape; a flagged release is tried elsewhere first, and cinesrc
\* has a page of its own once its engine failed.
Direct(c) ==
    /\ pc[c] = "direct"
    /\ \/ alive[c] /\ EndChainMinted(c)
       \/ Goto(c, "acquire") /\ UNCHANGED <<result, cached>>
       \/ key[c] \in CinesrcKeys /\ Goto(c, "pagewait") /\ UNCHANGED <<result, cached>>
       \/ /\ alive[c]
          /\ key[c] \in LowQualityKeys
          /\ Goto(c, "reroute")
          /\ UNCHANGED <<result, cached>>
    /\ UNCHANGED <<key, alive, answer, joined, attempt, flights, done, sem, closed>>

\* resolveCinesrcDirect takes a browser slot for the page of the warm worker,
TakePage(c) ==
    /\ pc[c] = "pagewait"
    /\ sem < MaxBrowserSessions
    /\ sem' = sem + 1
    /\ Goto(c, "page")
    /\ UNCHANGED <<key, alive, answer, joined, attempt, flightVars, cached, closed>>

\* or gives up, when the lookup's minute is over or the caller has gone.
PageWaitEnds(c) ==
    /\ pc[c] = "pagewait"
    /\ Goto(c, "acquire")
    /\ UNCHANGED <<key, alive, answer, joined, attempt, flightVars, sem, cached, closed>>

\* resolveCinesrcProgrammatic waits for the worker's lock and runs the page in the
\* worker's context, both without a deadline.  The slot is back before the session.
Page(c) ==
    /\ pc[c] = "page"
    /\ sem' = sem - 1
    /\ \/ alive[c] /\ EndChainMinted(c)
       \/ Goto(c, "acquire") /\ UNCHANGED <<result, cached>>
    /\ UNCHANGED <<key, alive, answer, joined, attempt, flights, done, closed>>

\* tryRerouteProviders: some other provider carries the title, or none does.
Reroute(c) ==
    /\ pc[c] = "reroute"
    /\ \/ alive[c] /\ EndChainMinted(c)
       \/ Goto(c, "accept") /\ UNCHANGED <<result, cached>>
    /\ UNCHANGED <<key, alive, answer, joined, attempt, flights, done, sem, closed>>

\* acceptVidsrcmeDirect with the flagged release: no request is made, so a
\* cancelled caller still gets its session.
Accept(c) ==
    /\ pc[c] = "accept"
    /\ \/ EndChainMinted(c)
       \/ Goto(c, "acquire") /\ UNCHANGED <<result, cached>>
    /\ UNCHANGED <<key, alive, answer, joined, attempt, flights, done, sem, closed>>

\* Fault: a semaphore without capacity.
AcquireBrowserUnbounded(c) ==
    /\ pc[c] = "acquire"
    /\ sem' = sem + 1
    /\ attempt' = [attempt EXCEPT ![c] = 1]
    /\ Goto(c, "scrape")
    /\ UNCHANGED <<key, alive, answer, joined, flightVars, cached, closed>>

\* case r.sem <- struct{}{}
AcquireBrowser(c) ==
    /\ pc[c] = "acquire"
    /\ sem < MaxBrowserSessions
    /\ sem' = sem + 1
    /\ attempt' = [attempt EXCEPT ![c] = 1]
    /\ Goto(c, "scrape")
    /\ UNCHANGED <<key, alive, answer, joined, flightVars, cached, closed>>

\* Fault: the release deferred before the slot is granted.
AcquireCancelledReleasing(c) ==
    /\ pc[c] = "acquire"
    /\ ~alive[c]
    /\ EndChain(c, "ctx")
    /\ sem' = sem - 1
    /\ UNCHANGED <<key, alive, answer, joined, attempt, flights, done, cached, closed>>

\* case <-parent.Done() while queueing for a slot
AcquireCancelled(c) ==
    /\ pc[c] = "acquire"
    /\ ~alive[c]
    /\ EndChain(c, "ctx")
    /\ UNCHANGED <<key, alive, answer, joined, attempt, flights, done, sem, cached, closed>>

\* One browser attempt.  The deferred release runs as resolveFresh returns.
Scrape(c) ==
    /\ pc[c] = "scrape"
    /\ \/ /\ alive[c]
          /\ EndChainMinted(c)
          /\ sem' = sem - 1
          /\ UNCHANGED attempt
       \/ /\ EndChain(c, IF alive[c] THEN "error" ELSE "ctx")
          /\ ~alive[c] \/ attempt[c] = MaxAttempts
          /\ sem' = sem - 1
          /\ UNCHANGED <<attempt, cached>>
       \/ /\ alive[c]               \* scraped, but newSession refused
          /\ EndChain(c, "error")
          /\ sem' = sem - 1
          /\ UNCHANGED <<attempt, cached>>
       \/ /\ alive[c]
          /\ attempt[c] < MaxAttempts
          /\ attempt' = [attempt EXCEPT ![c] = @ + 1]
          /\ UNCHANGED <<pc, result, sem, cached>>
    /\ UNCHANGED <<key, alive, answer, joined, flights, done, closed>>

\* fl.done <- flightResult{...}: the buffered slot takes it at once.
Deliver(c) ==
    /\ pc[c] = "deliver"
    /\ done' = [done EXCEPT ![c] = "full"]
    /\ Goto(c, "retire")
    /\ UNCHANGED <<key, alive, answer, joined, attempt, flights, result, sem, cached, closed>>

\* Fault: an early return that skips the delete.
RetireKeepsFlight(c) ==
    /\ pc[c] = "retire"
    /\ Return(c, result[c])
    /\ UNCHANGED <<key, alive, joined, attempt, flightVars, sem, cached, closed>>

\* The deferred delete from r.flights, then the return.
Retire(c) ==
    /\ pc[c] = "retire"
    /\ flights' = [flights EXCEPT ![key[c]] = NoFlight]
    /\ Return(c, result[c])
    /\ UNCHANGED <<key, alive, joined, attempt, done, result, sem, cached, closed>>

-----------------------------------------------------------------------------
(* The environment *)

\* The client disconnects: net/http cancels the request context.
Disconnect(c) ==
    /\ pc[c] \notin {"idle", "returned"}
    /\ alive[c]
    /\ Cardinality({d \in Callers : ~alive[d]}) < MaxDisconnects
    /\ alive' = [alive EXCEPT ![c] = FALSE]
    /\ UNCHANGED <<pc, key, answer, joined, attempt, flightVars, sem, cached, closed>>

Close ==
    /\ ~closed
    /\ closed' = TRUE
    /\ UNCHANGED <<callerVars, flightVars, sem, cached>>

Step(c) ==
    \/ EnterFlight(c)
    \/ JoinerReceives(c) \/ JoinerGivesUp(c)
    \/ Direct(c) \/ TakePage(c) \/ PageWaitEnds(c) \/ Page(c) \/ Reroute(c) \/ Accept(c)
    \/ AcquireBrowser(c) \/ AcquireCancelled(c) \/ Scrape(c)
    \/ Deliver(c) \/ Retire(c)

Next ==
    \/ \E c \in Callers : Call(c) \/ Step(c) \/ Disconnect(c)
    \/ Close

Spec == Init /\ [][Next]_vars

\* A running request makes progress: each upstream call and each scrape carries a
\* timeout, and Go wakes the senders blocked on r.sem in FIFO order, so none is passed
\* over for ever.  Nothing ends the page of the warm worker, and clients are not
\* obliged to disconnect: request contexts carry no deadline.
Fairness ==
    \A c \in Callers : WF_vars(pc[c] # "page" /\ Step(c)) /\ SF_vars(AcquireBrowser(c))

FairSpec == Spec /\ Fairness

-----------------------------------------------------------------------------
(* Properties *)

TypeOK ==
    /\ pc \in [Callers -> Stage]
    /\ key \in [Callers -> Keys]
    /\ alive \in [Callers -> BOOLEAN]
    /\ answer \in [Callers -> Answers]
    /\ joined \in [Callers -> Callers \cup {NoFlight}]
    /\ attempt \in [Callers -> 0..MaxAttempts]
    /\ flights \in [Keys -> Callers \cup {NoFlight}]
    /\ done \in [Callers -> Channel]
    /\ result \in [Callers -> Answers]
    /\ sem \in 0..MaxBrowserSessions
    /\ cached \in SUBSET Keys
    /\ closed \in BOOLEAN

InChain(c) == pc[c] \in ChainStage

\* Concurrent requests for one title never run two resolve chains, and the
\* flight table names exactly the chains that run: a flight is neither lost
\* while its chain works nor left behind after it (Resolve, "share one
\* resolve chain instead of racing through it twice").
FlightIsChain ==
    \A k \in Keys : \A c \in Callers :
        flights[k] = c <=> InChain(c) /\ key[c] = k

UsesBrowser(c) == pc[c] \in {"page", "scrape"}

\* The semaphore counts the browsers really at work: no path out of the scrape or of
\* cinesrc's page keeps its slot, a chain that goes through both holds one at a time,
\* and the fleet never exceeds MaxBrowserSessions.
SlotsAreBrowsers == sem = Cardinality({c \in Callers : UsesBrowser(c)})

\* A joiner that got an answer from a flight got the outcome of a chain run
\* for its own title by another request, and that chain is over: nothing it
\* was told is revised later.
JoinerAnswer ==
    \A c \in Callers : joined[c] # NoFlight =>
        /\ joined[c] # c
        /\ key[joined[c]] = key[c]
        /\ pc[c] = "returned" /\ answer[c] # "ctx" =>
              /\ answer[c] = result[joined[c]]
              /\ pc[joined[c]] \in {"retire", "returned"}

\* Every flight lands, if no page of the warm worker hangs for ever: whatever the
\* upstreams, the other requests and the browser queue do, the request that runs the
\* chain returns and clears the way for the next resolve of the title.
FlightLands ==
    (\A c \in Callers : []<>(pc[c] # "page"))
        => \A k \in Keys : flights[k] # NoFlight ~> flights[k] = NoFlight

\* What the comment on resolveFlight says: the fresh resolve is shared by
\* all concurrent callers of the key, so each of them is answered.
AllCallersAnswered ==
    \A c \in Callers : pc[c] = "join" ~> pc[c] = "returned"

=============================================================================
