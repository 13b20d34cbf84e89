-------------------------------- MODULE Movy --------------------------------
(***************************************************************************)
(* The movy provider (internal/mediaresolver/movy.go): metadata, a         *)
(* short-lived seed that all lookups of a title share, and then server by  *)
(* server an encrypted list of tiers, tried best first.                    *)
(***************************************************************************)
EXTENDS Lookup, Functions

CONSTANTS
    MovyServers,  \* how many servers there are
    MovyPayloads, \* what a server may list: sequences of [rank, proxiable]
    MaxSeeds      \* bound: seeds the site hands out

\* movyQualityRank gives 0 to what has no number.
ASSUME MovyAssumption ==
    /\ MovyServers \in Nat \ {0} /\ MaxSeeds \in Nat \ {0}
    /\ MovyPayloads \subseteq Seq([rank : Nat, proxiable : BOOLEAN])

VARIABLES
    movySeed,   \* the cached seed of the title, 0 when there is none
    siteSeed,   \* the seed the site accepts at present
    movy        \* [Lookups -> MovyRun]

movyVars == <<movySeed, siteSeed, movy>>

MovySeeds == 1..MaxSeeds

\* refused: the seed a server answered 401 to.  tiers: candidates not yet tried.
NoRun == [srv |-> 0, seed |-> 0, refused |-> 0, list |-> <<>>, tiers |-> <<>>]

MovySteps == {"movy meta", "movy seed", "movy sources", "movy refresh", "movy again",
              "movy tiers", "movy won"}

InitMovy ==
    /\ movySeed = 0
    /\ siteSeed = 1
    /\ movy = [k \in Lookups |-> NoRun]

BeginMovy(k) == Begin(k, "movy meta") /\ UNCHANGED movyVars

\* The lookup is over: what it kept goes with it.
MovyEnds(k) ==
    /\ Finish(k)
    /\ movy' = [movy EXCEPT ![k] = NoRun]

\* fetchMovyMeta: no credentials, a failed request and a record without a title end
\* the lookup.
MovyMeta(k) ==
    /\ at[k] = "movy meta"
    /\ \/ Reached(k) /\ Go(k, "movy seed") /\ UNCHANGED movy
       \/ MovyEnds(k)
    /\ UNCHANGED <<movySeed, siteSeed>>

\* fetchMovySeed: the cached seed while it lasts, else the site's, which is cached.
\* The request runs without the lock.  A lifetime of five seconds or less is over at
\* once, so the seed may come back and not be found again.
FetchMovySeed(k, next, failed) ==
    IF movySeed # 0
    THEN /\ movy' = [movy EXCEPT ![k].seed = movySeed]
         /\ Go(k, next) /\ UNCHANGED <<movySeed, siteSeed>>
    ELSE /\ \/ /\ Reached(k)
               /\ movy' = [movy EXCEPT ![k].seed = siteSeed]
               /\ movySeed' \in {0, siteSeed}
               /\ Go(k, next)
            \/ failed /\ UNCHANGED movySeed
         /\ UNCHANGED siteSeed

MovySeed(k) ==
    /\ at[k] = "movy seed"
    /\ FetchMovySeed(k, "movy sources", MovyEnds(k))

\* On to the next server, unless there is none or the deadline has passed.
NextMovyServer(k) ==
    IF Reached(k) /\ movy[k].srv + 1 < MovyServers
    THEN /\ movy' = [movy EXCEPT ![k] = [NoRun EXCEPT !.srv = movy[k].srv + 1, !.seed = movy[k].seed]]
         /\ Go(k, "movy sources")
    ELSE MovyEnds(k)

\* Highest rank first, equal ranks as listed (sort.SliceStable).
Before(list, i, j) ==
    \/ list[i].rank > list[j].rank
    \/ list[i].rank = list[j].rank /\ i < j

Proxiable(list) == {i \in DOMAIN list : list[i].proxiable}

\* Fault: the comparison is the other way round.
Behind(list, i) == {j \in Proxiable(list) : j = i \/ Before(list, i, j)}

Ahead(list, i) == {j \in Proxiable(list) : j = i \/ Before(list, j, i)}

\* A tier's place is how many there are up to it.
ByRank(list) ==
    [p \in 1..Cardinality(Proxiable(list)) |->
        CHOOSE i \in Proxiable(list) : Cardinality(Ahead(list, i)) = p]

\* fetchMovySources, one call: the payload can be read when its seed is the site's.
MovySources(k) ==
    /\ at[k] \in {"movy sources", "movy again"}
    /\ \/ /\ Reached(k) /\ movy[k].seed = siteSeed
          /\ \E list \in MovyPayloads :
               /\ movy' = [movy EXCEPT ![k].list = list, ![k].tiers = ByRank(list)]
               /\ Go(k, "movy tiers")
       \/ /\ Reached(k) /\ movy[k].seed # siteSeed /\ at[k] = "movy sources"
          /\ movy' = [movy EXCEPT ![k].refused = movy[k].seed]
          /\ Go(k, "movy refresh")
       \/ NextMovyServer(k)
    /\ UNCHANGED <<movySeed, siteSeed>>

\* A 401: the seed is fetched once more, for this server and the ones after it.
MovyRefresh(k) ==
    /\ at[k] = "movy refresh"
    /\ FetchMovySeed(k, "movy again", NextMovyServer(k))

\* finishMovySources: the best tier left is fetched.  A refusal, a truncated body or
\* no playlist sends the lookup to the next tier.
MovyTier(k) ==
    /\ at[k] = "movy tiers"
    /\ IF movy[k].tiers = <<>>
       THEN NextMovyServer(k)
       ELSE \/ Reached(k) /\ Go(k, "movy won") /\ UNCHANGED movy
            \/ /\ movy' = [movy EXCEPT ![k].tiers = Tail(@)]
               /\ UNCHANGED common
    /\ UNCHANGED <<movySeed, siteSeed>>

\* tryMovyDirect: the session is minted, or cannot be.
MovyAccept(k) ==
    /\ at[k] = "movy won"
    /\ MovyEnds(k)
    /\ UNCHANGED <<movySeed, siteSeed>>

MovyStep(k) ==
    \/ MovyMeta(k) \/ MovySeed(k) \/ MovySources(k) \/ MovyRefresh(k) \/ MovyTier(k)
    \/ MovyAccept(k)

\* The site moves on to another seed.
SiteRotates ==
    /\ siteSeed < MaxSeeds
    /\ siteSeed' = siteSeed + 1
    /\ UNCHANGED <<movySeed, movy, common>>

\* The cached seed's lifetime, less the five seconds of margin, has passed.
SeedExpires ==
    /\ movySeed # 0
    /\ movySeed' = 0
    /\ UNCHANGED <<siteSeed, movy, common>>

-----------------------------------------------------------------------------
MovyTypeOK ==
    /\ movySeed \in {0} \cup MovySeeds
    /\ siteSeed \in MovySeeds
    /\ \A k \in Lookups :
         /\ movy[k].srv \in 0..(MovyServers - 1)
         /\ {movy[k].seed, movy[k].refused} \subseteq {0} \cup MovySeeds
         /\ movy[k].list \in MovyPayloads \cup {<<>>}
         /\ Range(movy[k].tiers) \subseteq DOMAIN movy[k].list

\* What plays is the best tier of its server that was not tried and found broken;
\* among equals the one listed first.
MovyPlaysBest ==
    \A k \in Lookups : at[k] = "movy won" =>
        LET mine == Head(movy[k].tiers)
        IN \A i \in Range(Tail(movy[k].tiers)) :
             \/ movy[k].list[mine].rank > movy[k].list[i].rank
             \/ movy[k].list[mine].rank = movy[k].list[i].rank /\ mine < i

\* fetchMovySources's comment: after a 401 the request is repeated with a refreshed
\* seed.
RefusedSeedIsReplaced ==
    \A k \in Lookups : at[k] = "movy again" => movy[k].seed # movy[k].refused
=============================================================================
