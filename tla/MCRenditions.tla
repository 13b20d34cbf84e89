---------------------------- MODULE MCRenditions ----------------------------
(* A session whose upstream serves one of seven playlists; its requests of the *)
(* root are interchangeable.                                                   *)
EXTENDS Renditions, TLC

U(name, host) == [name |-> name, host |-> host]
V(name) == Bare(U(name, "cdn2"), "upstream")
Segment == Line("segment", "", <<0, 0>>, NoUri, "")
Audio == Line("audio", "a", <<0, 0>>, U("aud", "cdn3"), "upstream")
OddAudio == Line("audio", "a", <<0, 0>>, U("odd", ""), "odd")
OwnSubs == Line("subs", "s", <<0, 0>>, U("own", "cdn3"), "upstream")

MCSource == U("src", "cdn1")
MCTexts == {
  <<Header, Variant("", <<2, 5>>), V("v1"), Variant("", <<2, 6>>), V("v2")>>,
  <<Header, Audio, Variant("s", <<3, 1>>), V("v1"), Variant("", <<2, 6>>),
    Bare(U("v 2", "cdn4"), "spaced")>>,
  <<Header, OwnSubs, Variant("s", <<1, 1>>), V("v1"), Variant("s", <<1, 1>>), V("v2")>>,
  <<Header, Variant("", <<0, 3>>), OddAudio, V("v1"), Variant("", <<0, 2>>)>>,
  <<Header, Segment, Bare(U("seg1", "cdn2"), "upstream"), Segment,
    Bare(U("seg 2", "cdn4"), "spaced")>>,
  <<Variant("s", <<2, 5>>), V("v1")>>,
  <<Header>>}
MCLadderLists == {<< >>, <<"en", "fr", "de">>}
MCPlayerLists == {<< >>, <<"mine", "mine">>}
MCSymmetry == Permutations(Roots)
=============================================================================
