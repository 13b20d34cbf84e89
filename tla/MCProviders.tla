---------------------------- MODULE MCProviders ----------------------------
\* Providers on a small instance.  A server lists an unranked tier first, then one that
\* cannot be proxied and two equally good ones.
EXTENDS Providers, TLC

Tier(rank, proxiable) == [rank |-> rank, proxiable |-> proxiable]

\* No two providers share state: cinesrc, the largest, is asked alone, the others two by two.
MCProviderSets == {{"cinesrc"}, {"movy", "vidsrcme"}, {"movish", "vixsrc"}}

MCMovyPayloads == {<<Tier(0, TRUE), Tier(1, FALSE), Tier(1, TRUE), Tier(1, TRUE)>>}

Symmetry == Permutations(Lookups) \cup Permutations(Windows)
=============================================================================
