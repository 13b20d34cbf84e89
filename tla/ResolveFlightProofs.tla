------------------------ MODULE ResolveFlightProofs ------------------------
(***************************************************************************)
(* Safety of the single-flight for every set of callers and titles.  The   *)
(* inductive invariant adds to the checked ones what a flight's channel    *)
(* says about its owner: it is written in Deliver and nowhere earlier.     *)
(***************************************************************************)
EXTENDS ResolveFlight, FiniteSetTheorems, TLAPS

Scraping == {c \in Callers : UsesBrowser(c)}

\* A channel holds nothing before its owner delivers.
ChannelOfOwner ==
    \A c \in Callers : done[c] # "empty" => pc[c] \in {"retire", "returned"}

\* Only a request that joined waits or returns with a flight to its name, and
\* it never joined itself.
JoinedStage ==
    \A c \in Callers : joined[c] # NoFlight =>
        /\ pc[c] \in {"join", "returned"}
        /\ pc[joined[c]] \in ChainStage \cup {"returned"}

\* A request in the join branch knows its flight.
JoinKnowsFlight == \A c \in Callers : pc[c] = "join" => joined[c] # NoFlight

IInv ==
    /\ TypeOK
    /\ FlightIsChain
    /\ SlotsAreBrowsers
    /\ ChannelOfOwner
    /\ JoinedStage
    /\ JoinKnowsFlight
    /\ JoinerAnswer

-----------------------------------------------------------------------------

\* The browsers form a finite set, so their number is a natural.
LEMMA ScrapingFinite == IsFiniteSet(Scraping) /\ Cardinality(Scraping) \in Nat
<1>1. Scraping \in SUBSET Callers
  BY DEF Scraping
<1>2. QED
  BY <1>1, FlightAssumption, FS_Subset, FS_CardinalityType

\* A step that moves no request into or out of the scrape keeps the count.
LEMMA SlotsKept ==
    ASSUME SlotsAreBrowsers, sem' = sem, Scraping' = Scraping
    PROVE  SlotsAreBrowsers'
BY DEF SlotsAreBrowsers, Scraping

\* Entering the scrape or the page takes one slot.
LEMMA SlotTaken ==
    ASSUME SlotsAreBrowsers, NEW c \in Callers, ~UsesBrowser(c),
           sem' = sem + 1, Scraping' = Scraping \cup {c}
    PROVE  SlotsAreBrowsers'
BY ScrapingFinite, FS_AddElement DEF SlotsAreBrowsers, Scraping

\* Leaving either gives one back, and there was one to give.
LEMMA SlotReleased ==
    ASSUME SlotsAreBrowsers, NEW c \in Callers, UsesBrowser(c),
           sem' = sem - 1, Scraping' = Scraping \ {c}
    PROVE  SlotsAreBrowsers' /\ sem > 0
<1>1. c \in Scraping
  BY DEF Scraping
<1>2. Cardinality(Scraping) # 0
  BY <1>1, ScrapingFinite, FS_EmptySet
<1>3. QED
  BY <1>1, <1>2, ScrapingFinite, FS_RemoveElement DEF SlotsAreBrowsers, Scraping

LEMMA InitIInv == Init => IInv
<1> SUFFICES ASSUME Init PROVE IInv
  OBVIOUS
<1>1. TypeOK
  <2>1. key \in [Callers -> Keys]
    BY FlightAssumption DEF Init
  <2>2. sem \in 0..MaxBrowserSessions /\ attempt \in [Callers -> 0..MaxAttempts]
    BY FlightAssumption DEF Init, MaxAttempts
  <2>3. QED
    BY <2>1, <2>2 DEF Init, TypeOK, Stage, Answers, Channel
<1>2. SlotsAreBrowsers
  <2>1. {c \in Callers : UsesBrowser(c)} = {}
    BY DEF Init, UsesBrowser
  <2>2. QED
    BY <2>1, FS_EmptySet DEF SlotsAreBrowsers, Init
<1>3. FlightIsChain
  BY FlightAssumption DEF Init, FlightIsChain, InChain, ChainStage
<1>4. ChannelOfOwner /\ JoinedStage /\ JoinKnowsFlight /\ JoinerAnswer
  BY DEF Init, ChannelOfOwner, JoinedStage, JoinKnowsFlight, JoinerAnswer
<1>5. QED
  BY <1>1, <1>2, <1>3, <1>4 DEF IInv

-----------------------------------------------------------------------------
(* One lemma per kind of step *)

LEMMA CallInv == ASSUME IInv, NEW c \in Callers, Call(c) PROVE IInv'
<1> USE DEF IInv, Call, Return, Goto, flightVars
<1>1. TypeOK'
  BY DEF TypeOK, Stage, Answers
<1>2. SlotsAreBrowsers'
  BY SlotsKept DEF TypeOK, Scraping, UsesBrowser
<1>3. FlightIsChain'
  BY DEF TypeOK, FlightIsChain, InChain, ChainStage
<1>4. ChannelOfOwner' /\ JoinedStage' /\ JoinKnowsFlight' /\ JoinerAnswer'
  BY DEF TypeOK, ChannelOfOwner, JoinedStage, JoinKnowsFlight, JoinerAnswer, ChainStage
<1>5. QED
  BY <1>1, <1>2, <1>3, <1>4

LEMMA EnterFlightInv == ASSUME IInv, NEW c \in Callers, EnterFlight(c) PROVE IInv'
<1> USE DEF IInv, EnterFlight, Goto
<1>1. TypeOK'
  BY DEF TypeOK, Stage
<1>2. SlotsAreBrowsers'
  BY SlotsKept DEF TypeOK, Scraping, UsesBrowser
<1>3. FlightIsChain'
  BY FlightAssumption DEF TypeOK, FlightIsChain, InChain, ChainStage
<1>4. ChannelOfOwner' /\ JoinedStage' /\ JoinKnowsFlight'
  <2>1. ChannelOfOwner'
    BY FlightAssumption DEF TypeOK, ChannelOfOwner, FlightIsChain, InChain, ChainStage
  <2>2. JoinedStage'
    BY FlightAssumption DEF TypeOK, JoinedStage, FlightIsChain, InChain, ChainStage
  <2>3. JoinKnowsFlight'
    BY FlightAssumption DEF TypeOK, JoinedStage, JoinKnowsFlight, FlightIsChain, InChain, ChainStage
  <2> QED BY <2>1, <2>2, <2>3
<1>5. JoinerAnswer'
  BY FlightAssumption DEF TypeOK, JoinerAnswer, JoinedStage, FlightIsChain, InChain, ChainStage
<1>6. QED
  BY <1>1, <1>2, <1>3, <1>4, <1>5

LEMMA JoinerReceivesInv == ASSUME IInv, NEW c \in Callers, JoinerReceives(c) PROVE IInv'
<1> USE DEF IInv, JoinerReceives, Return, Goto
<1>1. TypeOK'
  BY DEF TypeOK, Stage, Channel, JoinKnowsFlight
<1>2. SlotsAreBrowsers'
  BY SlotsKept DEF TypeOK, Scraping, UsesBrowser
<1>3. FlightIsChain'
  BY DEF TypeOK, FlightIsChain, InChain, ChainStage
<1>4. ChannelOfOwner' /\ JoinedStage' /\ JoinKnowsFlight'
  BY DEF TypeOK, ChannelOfOwner, JoinedStage, JoinKnowsFlight, ChainStage
<1>5. JoinerAnswer'
  BY DEF TypeOK, JoinerAnswer, JoinKnowsFlight, ChannelOfOwner
<1>6. QED
  BY <1>1, <1>2, <1>3, <1>4, <1>5

LEMMA JoinerGivesUpInv == ASSUME IInv, NEW c \in Callers, JoinerGivesUp(c) PROVE IInv'
<1> USE DEF IInv, JoinerGivesUp, Return, Goto, flightVars
<1>1. TypeOK'
  BY DEF TypeOK, Stage, Answers
<1>2. SlotsAreBrowsers'
  BY SlotsKept DEF TypeOK, Scraping, UsesBrowser
<1>3. FlightIsChain'
  BY DEF TypeOK, FlightIsChain, InChain, ChainStage
<1>4. ChannelOfOwner' /\ JoinedStage' /\ JoinKnowsFlight' /\ JoinerAnswer'
  BY DEF TypeOK, ChannelOfOwner, JoinedStage, JoinKnowsFlight, JoinerAnswer, ChainStage
<1>5. QED
  BY <1>1, <1>2, <1>3, <1>4

\* What the steps of the chain away from the browser have in common: the owner
\* moves on inside its chain, before delivering, without a browser slot.
ChainMoves(c) ==
    /\ pc[c] \in {"direct", "pagewait", "reroute", "accept", "acquire"}
    /\ \E stage \in {"pagewait", "reroute", "accept", "acquire", "deliver"} :
          pc' = [pc EXCEPT ![c] = stage]
    /\ result' \in [Callers -> Answers]
    /\ \A d \in Callers \ {c} : result'[d] = result[d]
    /\ cached' \in SUBSET Keys
    /\ UNCHANGED <<key, alive, answer, joined, attempt, flights, done, sem, closed>>

LEMMA StepsAreChainMoves ==
    ASSUME TypeOK, NEW c \in Callers,
           Direct(c) \/ PageWaitEnds(c) \/ Reroute(c) \/ Accept(c) \/ AcquireCancelled(c)
    PROVE  ChainMoves(c)
<1> USE DEF TypeOK, ChainMoves, Goto, EndChain, EndChainMinted, Answers, MayMint
<1>1. CASE Direct(c)
  BY <1>1 DEF Direct
<1>2. CASE Reroute(c)
  BY <1>2 DEF Reroute
<1>3. CASE Accept(c)
  BY <1>3 DEF Accept
<1>4. CASE AcquireCancelled(c)
  BY <1>4 DEF AcquireCancelled
<1>5. CASE PageWaitEnds(c)
  BY <1>5 DEF PageWaitEnds, flightVars
<1>6. QED
  BY <1>1, <1>2, <1>3, <1>4, <1>5

LEMMA ChainMovesInv == ASSUME IInv, NEW c \in Callers, ChainMoves(c) PROVE IInv'
<1> USE DEF IInv, ChainMoves
<1>1. TypeOK'
  BY DEF TypeOK, Stage
<1>2. SlotsAreBrowsers'
  BY SlotsKept DEF TypeOK, Scraping, UsesBrowser
<1>3. FlightIsChain'
  BY DEF TypeOK, FlightIsChain, InChain, ChainStage
<1>4. ChannelOfOwner' /\ JoinedStage' /\ JoinKnowsFlight'
  BY DEF TypeOK, ChannelOfOwner, JoinedStage, JoinKnowsFlight, ChainStage
<1>5. JoinerAnswer'
  BY DEF TypeOK, JoinerAnswer, ChannelOfOwner, JoinedStage
<1>6. QED
  BY <1>1, <1>2, <1>3, <1>4, <1>5

LEMMA AcquireBrowserInv == ASSUME IInv, NEW c \in Callers, AcquireBrowser(c) PROVE IInv'
<1> USE DEF IInv, AcquireBrowser, Goto, flightVars
<1>1. TypeOK'
  BY FlightAssumption DEF TypeOK, Stage, MaxAttempts
<1>2. SlotsAreBrowsers'
  BY SlotTaken DEF TypeOK, Scraping, UsesBrowser
<1>3. FlightIsChain'
  BY DEF TypeOK, FlightIsChain, InChain, ChainStage
<1>4. ChannelOfOwner' /\ JoinedStage' /\ JoinKnowsFlight' /\ JoinerAnswer'
  BY DEF TypeOK, ChannelOfOwner, JoinedStage, JoinKnowsFlight, JoinerAnswer, ChainStage
<1>5. QED
  BY <1>1, <1>2, <1>3, <1>4

LEMMA TakePageInv == ASSUME IInv, NEW c \in Callers, TakePage(c) PROVE IInv'
<1> USE DEF IInv, TakePage, Goto, flightVars
<1>1. TypeOK'
  BY FlightAssumption DEF TypeOK, Stage
<1>2. SlotsAreBrowsers'
  BY SlotTaken DEF TypeOK, Scraping, UsesBrowser
<1>3. FlightIsChain'
  BY DEF TypeOK, FlightIsChain, InChain, ChainStage
<1>4. ChannelOfOwner' /\ JoinedStage' /\ JoinKnowsFlight' /\ JoinerAnswer'
  BY DEF TypeOK, ChannelOfOwner, JoinedStage, JoinKnowsFlight, JoinerAnswer, ChainStage
<1>5. QED
  BY <1>1, <1>2, <1>3, <1>4

\* A chain leaves the page or the scrape, for the answer or for the next try.
LEMMA BrowserLeft ==
    ASSUME IInv, NEW c \in Callers, UsesBrowser(c),
           NEW stage \in {"acquire", "deliver"}, pc' = [pc EXCEPT ![c] = stage],
           result' \in [Callers -> Answers],
           \A d \in Callers \ {c} : result'[d] = result[d],
           sem' = sem - 1, cached' \in SUBSET Keys,
           UNCHANGED <<key, alive, answer, joined, attempt, flights, done, closed>>
    PROVE  IInv'
<1>1. pc[c] \in {"page", "scrape"}
  BY DEF UsesBrowser
<1>2. Scraping' = Scraping \ {c}
  <2>1. pc'[c] = stage /\ \A d \in Callers \ {c} : pc'[d] = pc[d]
    BY DEF IInv, TypeOK
  <2>2. ~UsesBrowser(c)' /\ \A d \in Callers \ {c} : UsesBrowser(d)' <=> UsesBrowser(d)
    BY <2>1 DEF UsesBrowser
  <2>3. QED
    BY <2>2 DEF Scraping
<1>3. SlotsAreBrowsers' /\ sem > 0
  BY <1>2, SlotReleased DEF IInv
<1>4. TypeOK'
  <2>1. pc' \in [Callers -> Stage]
    BY DEF IInv, TypeOK, Stage
  <2>2. sem' \in 0..MaxBrowserSessions
    BY <1>3, FlightAssumption DEF IInv, TypeOK
  <2>3. QED
    BY <2>1, <2>2 DEF IInv, TypeOK
<1>5. FlightIsChain'
  BY <1>1 DEF IInv, TypeOK, FlightIsChain, InChain, ChainStage
<1>6. ChannelOfOwner' /\ JoinedStage' /\ JoinKnowsFlight'
  BY <1>1 DEF IInv, TypeOK, ChannelOfOwner, JoinedStage, JoinKnowsFlight, ChainStage
<1>7. JoinerAnswer'
  BY <1>1 DEF IInv, TypeOK, JoinerAnswer, ChannelOfOwner, JoinedStage
<1>8. QED
  BY <1>3, <1>4, <1>5, <1>6, <1>7 DEF IInv

LEMMA PageInv == ASSUME IInv, NEW c \in Callers, Page(c) PROVE IInv'
<1>1. PICK stage \in {"acquire", "deliver"} : pc' = [pc EXCEPT ![c] = stage]
  BY DEF Page, EndChain, EndChainMinted, Goto
<1>2. /\ result' \in [Callers -> Answers]
      /\ \A d \in Callers \ {c} : result'[d] = result[d]
      /\ cached' \in SUBSET Keys
  BY DEF IInv, TypeOK, Page, EndChain, EndChainMinted, Answers
<1>3. /\ UsesBrowser(c) /\ sem' = sem - 1
      /\ UNCHANGED <<key, alive, answer, joined, attempt, flights, done, closed>>
  BY DEF Page, UsesBrowser
<1>4. QED
  BY <1>1, <1>2, <1>3, BrowserLeft

LEMMA ScrapeInv == ASSUME IInv, NEW c \in Callers, Scrape(c) PROVE IInv'
<1>1. CASE sem' = sem
  <2> USE <1>1 DEF IInv, Scrape, EndChain, EndChainMinted, Goto
  <2>1. UNCHANGED <<pc, key, alive, answer, joined, flights, done, result, cached, closed>>
        /\ attempt' = [attempt EXCEPT ![c] = @ + 1] /\ attempt[c] < MaxAttempts
    BY DEF TypeOK
  <2>2. TypeOK'
    BY <2>1 DEF TypeOK, MaxAttempts
  <2>3. SlotsAreBrowsers' /\ FlightIsChain' /\ ChannelOfOwner'
    BY <2>1 DEF SlotsAreBrowsers, UsesBrowser, FlightIsChain, InChain, ChannelOfOwner
  <2>4. JoinedStage' /\ JoinKnowsFlight' /\ JoinerAnswer'
    BY <2>1 DEF JoinedStage, JoinKnowsFlight, JoinerAnswer
  <2>5. QED
    BY <2>2, <2>3, <2>4
<1>2. CASE sem' # sem
  <2>1. /\ pc[c] = "scrape"
        /\ pc' = [pc EXCEPT ![c] = "deliver"]
        /\ result' \in [Callers -> Answers]
        /\ \A d \in Callers \ {c} : result'[d] = result[d]
        /\ sem' = sem - 1
        /\ cached' \in SUBSET Keys
        /\ UNCHANGED <<key, alive, answer, joined, attempt, flights, done, closed>>
    BY <1>2 DEF IInv, TypeOK, Scrape, EndChain, EndChainMinted, Goto, Answers
  <2>2. UsesBrowser(c)
    BY <2>1 DEF UsesBrowser
  <2>3. QED
    BY <2>1, <2>2, BrowserLeft
<1>3. QED
  BY <1>1, <1>2

LEMMA DeliverInv == ASSUME IInv, NEW c \in Callers, Deliver(c) PROVE IInv'
<1> USE DEF IInv, Deliver, Goto
<1>1. TypeOK'
  BY DEF TypeOK, Stage, Channel
<1>2. SlotsAreBrowsers'
  BY SlotsKept DEF TypeOK, Scraping, UsesBrowser
<1>3. FlightIsChain'
  BY DEF TypeOK, FlightIsChain, InChain, ChainStage
<1>4. ChannelOfOwner' /\ JoinedStage' /\ JoinKnowsFlight'
  BY DEF TypeOK, ChannelOfOwner, JoinedStage, JoinKnowsFlight, ChainStage
<1>5. JoinerAnswer'
  BY DEF TypeOK, JoinerAnswer, ChannelOfOwner, JoinedStage
<1>6. QED
  BY <1>1, <1>2, <1>3, <1>4, <1>5

LEMMA RetireInv == ASSUME IInv, NEW c \in Callers, Retire(c) PROVE IInv'
<1> USE DEF IInv, Retire, Return, Goto
<1>1. TypeOK'
  BY DEF TypeOK, Stage
<1>2. SlotsAreBrowsers'
  BY SlotsKept DEF TypeOK, Scraping, UsesBrowser
<1>3. FlightIsChain'
  BY FlightAssumption DEF TypeOK, FlightIsChain, InChain, ChainStage
<1>4. ChannelOfOwner' /\ JoinedStage' /\ JoinKnowsFlight'
  BY DEF TypeOK, ChannelOfOwner, JoinedStage, JoinKnowsFlight, ChainStage
<1>5. JoinerAnswer'
  BY DEF TypeOK, JoinerAnswer, JoinedStage
<1>6. QED
  BY <1>1, <1>2, <1>3, <1>4, <1>5

LEMMA EnvironmentInv ==
    ASSUME IInv, Close \/ (\E c \in Callers : Disconnect(c)) \/ UNCHANGED vars
    PROVE  IInv'
<1>1. /\ UNCHANGED <<pc, key, answer, joined, attempt, flights, done, result, sem, cached>>
      /\ alive' \in [Callers -> BOOLEAN]
      /\ closed' \in BOOLEAN
  BY DEF IInv, TypeOK, Close, Disconnect, vars, callerVars, flightVars
<1>2. TypeOK'
  BY <1>1 DEF IInv, TypeOK
<1>3. SlotsAreBrowsers' /\ FlightIsChain' /\ ChannelOfOwner'
  BY <1>1 DEF IInv, SlotsAreBrowsers, UsesBrowser, FlightIsChain, InChain, ChannelOfOwner
<1>4. JoinedStage' /\ JoinKnowsFlight' /\ JoinerAnswer'
  BY <1>1 DEF IInv, JoinedStage, JoinKnowsFlight, JoinerAnswer
<1>5. QED
  BY <1>2, <1>3, <1>4 DEF IInv

LEMMA NextIInv == IInv /\ [Next]_vars => IInv'
<1> SUFFICES ASSUME IInv, [Next]_vars PROVE IInv'
  OBVIOUS
<1>1. ASSUME NEW c \in Callers, Call(c) PROVE IInv'
  BY <1>1, CallInv
<1>2. ASSUME NEW c \in Callers, Step(c) PROVE IInv'
  <2>1. CASE EnterFlight(c)
    BY <2>1, EnterFlightInv
  <2>2. CASE JoinerReceives(c)
    BY <2>2, JoinerReceivesInv
  <2>3. CASE JoinerGivesUp(c)
    BY <2>3, JoinerGivesUpInv
  <2>4. CASE Direct(c) \/ PageWaitEnds(c) \/ Reroute(c) \/ Accept(c) \/ AcquireCancelled(c)
    BY <2>4, StepsAreChainMoves, ChainMovesInv DEF IInv
  <2>5. CASE AcquireBrowser(c)
    BY <2>5, AcquireBrowserInv
  <2>6. CASE Scrape(c)
    BY <2>6, ScrapeInv
  <2>7. CASE Deliver(c)
    BY <2>7, DeliverInv
  <2>8. CASE Retire(c)
    BY <2>8, RetireInv
  <2>9. CASE TakePage(c)
    BY <2>9, TakePageInv
  <2>10. CASE Page(c)
    BY <2>10, PageInv
  <2>11. QED
    BY <1>2, <2>1, <2>2, <2>3, <2>4, <2>5, <2>6, <2>7, <2>8, <2>9, <2>10 DEF Step
<1>3. CASE Close \/ (\E c \in Callers : Disconnect(c)) \/ UNCHANGED vars
  BY <1>3, EnvironmentInv
<1>4. QED
  BY <1>1, <1>2, <1>3 DEF Next

-----------------------------------------------------------------------------

\* Type correctness, with the browser slots inside their bound.
THEOREM TypeCorrect == Spec => []TypeOK
<1>1. IInv => TypeOK
  BY DEF IInv
<1>2. QED
  BY <1>1, InitIInv, NextIInv, PTL DEF Spec

\* No title is ever resolved by two chains at once, and r.flights never
\* loses or keeps a chain too long (Resolve).
THEOREM OneChainPerTitle == Spec => []FlightIsChain
<1>1. IInv => FlightIsChain
  BY DEF IInv
<1>2. QED
  BY <1>1, InitIInv, NextIInv, PTL DEF Spec

\* No path through resolveFresh leaks or double-frees a browser slot.
THEOREM BrowserSlots == Spec => []SlotsAreBrowsers
<1>1. IInv => SlotsAreBrowsers
  BY DEF IInv
<1>2. QED
  BY <1>1, InitIInv, NextIInv, PTL DEF Spec

\* A joiner is answered with the final outcome of its own title's chain.
THEOREM JoinersGetTheirFlight == Spec => []JoinerAnswer
<1>1. IInv => JoinerAnswer
  BY DEF IInv
<1>2. QED
  BY <1>1, InitIInv, NextIInv, PTL DEF Spec

=============================================================================
