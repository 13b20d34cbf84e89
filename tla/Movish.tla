------------------------------- MODULE Movish -------------------------------
(***************************************************************************)
(* The movish and vixsrc providers (internal/mediaresolver/movish.go,      *)
(* vixsrc.go).  Movish probes every listed server at once, three requests  *)
(* deep; vixsrc is a plain chain.                                          *)
(***************************************************************************)
EXTENDS Lookup

CONSTANTS
    Servers,  \* how many proxiable streams the source API may list
    Heights   \* picture heights of a master playlist, 0 when it says none

ASSUME MovishAssumption == Servers \in Nat \ {0} /\ Heights \subseteq Nat

VARIABLES
    movish,   \* [Lookups -> sequence of Probe], one goroutine each
    late      \* [Lookups -> BOOLEAN]  the probes' five seconds are over

movishVars == <<movish, late>>

Probe == [at : {"master", "variant", "segment", "passed", "failed"}, height : Heights \cup {0}]
NewProbe == [at |-> "master", height |-> 0]
FailedProbe == [at |-> "failed", height |-> 0]
Ended == {"passed", "failed"}

MovishSteps == {"movish api", "movish wait", "movish won",
                "vixsrc api", "vixsrc embed", "vixsrc master", "vixsrc won"}

InitMovish == movish = [k \in Lookups |-> <<>>] /\ late = [k \in Lookups |-> FALSE]

BeginMovish(k) == Begin(k, "movish api") /\ UNCHANGED movishVars

MovishEnds(k) ==
    /\ Finish(k)
    /\ movish' = [movish EXCEPT ![k] = <<>>]
    /\ late' = [late EXCEPT ![k] = FALSE]

\* fetchMovishSources, and the filter: streams that are not HLS are dropped, and a
\* list with none left is a failure.  A probe is started for each one that is left.
MovishSources(k) ==
    /\ at[k] = "movish api"
    /\ \/ /\ Reached(k)
          /\ \E n \in 1..Servers : movish' = [movish EXCEPT ![k] = [i \in 1..n |-> NewProbe]]
          /\ Go(k, "movish wait") /\ UNCHANGED late
       \/ MovishEnds(k)

\* probeMovishCandidate and validateMovishDepth: the master, its tallest variant, the
\* variant's first segment.  A playlist without variants is tried as it is.
Probed(p, reached) ==
    {FailedProbe} \cup
    (IF ~reached THEN {}
     ELSE CASE p.at = "master"  -> {[p EXCEPT !.at = "variant", !.height = h] : h \in Heights}
                                     \cup {[p EXCEPT !.at = "segment"]}
            [] p.at = "variant" -> {[p EXCEPT !.at = "segment"]}
            [] p.at = "segment" -> {[p EXCEPT !.at = "passed"]})

MovishProbe(k, i) ==
    /\ at[k] = "movish wait"
    /\ i \in DOMAIN movish[k] /\ movish[k][i].at \notin Ended
    /\ \E p \in Probed(movish[k][i], Reached(k) /\ ~late[k]) :
         movish' = [movish EXCEPT ![k][i] = p]
    /\ UNCHANGED <<late, common>>

\* movishProbeTimeout: five seconds each, from the start of all of them.
MovishLate(k) ==
    /\ at[k] = "movish wait" /\ ~late[k]
    /\ late' = [late EXCEPT ![k] = TRUE]
    /\ UNCHANGED <<movish, common>>

\* One turn of the loop over the results: who is best up to i.
Better(probes, best, i) ==
    IF probes[i].at = "passed" /\ (best = 0 \/ probes[i].height > probes[best].height)
    THEN i ELSE best

\* The loop, in the order of the list: 0 when none passed.
Winner(probes) ==
    LET best[i \in 0..Len(probes)] == IF i = 0 THEN 0 ELSE Better(probes, best[i - 1], i)
    IN best[Len(probes)]

\* wg.Wait: not before every probe has ended, the slow ones by their time limit.
MovishPick(k) ==
    /\ at[k] = "movish wait"
    /\ \A i \in DOMAIN movish[k] : movish[k][i].at \in Ended
    /\ IF Reached(k) /\ Winner(movish[k]) # 0
       THEN Go(k, "movish won") /\ UNCHANGED movishVars
       ELSE MovishEnds(k)

\* tryMovishDirect
MovishAccept(k) == at[k] = "movish won" /\ MovishEnds(k)

\* resolveVixsrcDirect: the API, the embed page with its parameters and the check of
\* its host, the master playlist.  Any of them may end the lookup.
BeginVixsrc(k) == Begin(k, "vixsrc api") /\ UNCHANGED movishVars

VixsrcNext == [s \in {"vixsrc api", "vixsrc embed", "vixsrc master"} |->
                 CASE s = "vixsrc api" -> "vixsrc embed"
                   [] s = "vixsrc embed" -> "vixsrc master"
                   [] s = "vixsrc master" -> "vixsrc won"]

VixsrcFetch(k) ==
    /\ at[k] \in DOMAIN VixsrcNext
    /\ Finish(k) \/ (Reached(k) /\ Go(k, VixsrcNext[at[k]]))
    /\ UNCHANGED movishVars

\* tryVixsrcDirect
VixsrcAccept(k) == at[k] = "vixsrc won" /\ MovishEnds(k)

MovishStep(k) ==
    \/ MovishSources(k) \/ MovishPick(k) \/ MovishAccept(k) \/ VixsrcFetch(k) \/ VixsrcAccept(k)
    \/ \E i \in 1..Servers : MovishProbe(k, i)

-----------------------------------------------------------------------------
MovishTypeOK ==
    /\ late \in [Lookups -> BOOLEAN]
    /\ \A k \in Lookups : movish[k] \in UNION {[1..n -> Probe] : n \in 0..Servers}

\* Whatever the order the probes ended in: the server that plays validated to its
\* first segment, no other that did is taller, and none as tall is listed earlier.
MovishPlaysTallest ==
    \A k \in Lookups : at[k] = "movish won" =>
        LET w == Winner(movish[k])
        IN /\ movish[k][w].at = "passed"
           /\ \A i \in DOMAIN movish[k] : movish[k][i].at = "passed" =>
                \/ movish[k][i].height < movish[k][w].height
                \/ movish[k][i].height = movish[k][w].height /\ w <= i
=============================================================================
