----------------------------- MODULE Providers -----------------------------
(***************************************************************************)
(* The providers' direct lookups side by side: goroutines of different     *)
(* titles, prewarms and reroutes are at any of them at any time.           *)
(***************************************************************************)
EXTENDS Movy, Movish, Vidsrcme, Cinesrc

CONSTANTS
    ProviderSets,  \* bound: which providers one behaviour asks
    MaxCinesrc     \* bound: lookups in all where cinesrc is asked

VARIABLE asked   \* the set of providers this behaviour asks

vars == <<common, movyVars, movishVars, vidVars, cinesrcVars, asked>>

Init ==
    /\ InitCommon /\ InitMovy /\ InitMovish /\ InitVid /\ InitCinesrc
    /\ asked \in ProviderSets

\* resolveFresh and the prewarm pick the provider; ResolveFlight has the order.
Start(k) ==
    \/ "movy" \in asked /\ BeginMovy(k) /\ UNCHANGED <<movishVars, vidVars, cinesrcVars>>
    \/ /\ ("movish" \in asked /\ BeginMovish(k)) \/ ("vixsrc" \in asked /\ BeginVixsrc(k))
       /\ UNCHANGED <<movyVars, vidVars, cinesrcVars>>
    \/ "vidsrcme" \in asked /\ BeginVid(k) /\ UNCHANGED <<movyVars, movishVars, cinesrcVars>>
    \/ /\ "cinesrc" \in asked /\ begun < MaxCinesrc /\ BeginCinesrc(k)
       /\ UNCHANGED <<movyVars, movishVars, vidVars>>

Step(k) ==
    \/ MovyStep(k) /\ UNCHANGED <<movishVars, vidVars, cinesrcVars>>
    \/ MovishStep(k) /\ UNCHANGED <<movyVars, vidVars, cinesrcVars>>
    \/ VidStep(k) /\ UNCHANGED <<movyVars, movishVars, cinesrcVars>>
    \/ CinesrcStep(k) /\ UNCHANGED <<movyVars, movishVars, vidVars>>

\* A site that nobody asks changes nothing that anyone sees.
Outside ==
    \/ /\ "movy" \in asked /\ (SiteRotates \/ SeedExpires)
       /\ UNCHANGED <<movishVars, vidVars, cinesrcVars>>
    \/ /\ "vidsrcme" \in asked /\ ((\E o \in Origins : TokenExpires(o)) \/ EvictExpired)
       /\ UNCHANGED <<movyVars, movishVars, cinesrcVars>>
    \/ "cinesrc" \in asked /\ CinesrcOutside /\ UNCHANGED <<movyVars, movishVars, vidVars>>

Deadline(k) ==
    \/ Expires(k) /\ UNCHANGED <<movyVars, movishVars, vidVars, cinesrcVars>>
    \/ MovishLate(k) /\ UNCHANGED <<movyVars, vidVars, cinesrcVars>>

Next ==
    /\ Outside \/ \E k \in Lookups : Start(k) \/ Step(k) \/ Deadline(k)
    /\ UNCHANGED asked

Spec == Init /\ [][Next]_vars

-----------------------------------------------------------------------------
TypeOK ==
    /\ at \in [Lookups -> {"idle"} \cup MovySteps \cup MovishSteps \cup VidSteps
                       \cup CinesrcSteps]
    /\ alive \in [Lookups -> BOOLEAN] /\ begun \in 0..MaxLookups
    /\ MovyTypeOK /\ MovishTypeOK /\ VidTypeOK /\ CinesrcTypeOK /\ asked \in ProviderSets

\* A source that comes back is the best its provider offered among those that work.
PlaysBest == MovyPlaysBest /\ MovishPlaysTallest
=============================================================================
