----------------------------- MODULE MCRestarts -----------------------------
(* A small catalog: two caches, a home page of three rows of every kind. *)
EXTENDS Restarts

T(i, c, r) == [id |-> i, type |-> "movie", cat |-> c, rating |-> r]

MCKindOrder == <<"movies", "popular">>
MCAnswers ==
  [movies |-> {<< >>, <<T("a", "Trending Now", 1), T("b", "Top Rated", 1),
                        T("c", "Top Rated", 2), T("a", "Top Rated", 1)>>,
                      <<T("c", "Trending Now", 2), T("b", "Trending Now", 1),
                        T("a", "Trending Now", 1)>>},
   popular |-> {<< >>, <<T("b", "Trending Movies", 1), T("a", "Trending Movies", 1),
                         T("d", "Trending Shows", 2)>>}]
MCLegacyFiles ==
  {Nothing, [Nothing EXCEPT !["popular"] = <<T("e", "Trending Shows", 1)>>]}
MCHomeRows ==
  <<[cat |-> "Trending Movies", src |-> "movies", how |-> "joined",
     tags |-> <<"Trending Movies", "Trending Now">>],
    [cat |-> "Trending This Week", src |-> "popular", how |-> "interleaved",
     tags |-> <<"Trending Movies", "Trending Shows">>],
    [cat |-> "Top Rated Movies", src |-> "movies", how |-> "rated",
     tags |-> <<"Top Rated Movies", "Top Rated">>]>>
=============================================================================
