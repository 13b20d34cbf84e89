----------------------------- MODULE Renditions -----------------------------
(***************************************************************************)
(* External subtitles of one proxy session.  The resolver's ladder looks   *)
(* them up after the session is made, the player may register a list of    *)
(* its own, and the session's playlists are rewritten to carry whatever is *)
(* there.  The first request of the session's root waits for the ladder, a *)
(* little.  mu is the resolver's lock; the rendition state is an atomic    *)
(* that is read without it.                                                *)
(***************************************************************************)
EXTENDS Playlist

CONSTANTS Texts,         \* playlists the upstream may serve
          LadderLists, PlayerLists,  \* subtitle lists, sequences of names
          MaxSubs,       \* maxSubRenditions
          Roots, Others, \* player requests, without and with ?url=
          MaxPosts       \* bound: lists the player registers

ASSUME RenditionsAssumption ==
  /\ MaxSubs \in Nat \ {0} /\ MaxPosts \in Nat
  /\ Source \in URI /\ Texts \subseteq Seq(UpstreamLine)
  /\ LadderLists \cup PlayerLists \subseteq Seq(STRING)

VARIABLES text,      \* the upstream's playlist
          open,      \* the token names an unexpired session
          state,     \* subsState: "none", "pending" or "done"
          subs, by,  \* the session's list and, history, whose it is
          subsDone,  \* the channel of that name is closed
          mu,        \* who holds the lock
          ladder,    \* maybeAttachSubRenditions and its goroutine
          posts, post,   \* the player's registrations
          allowed,   \* the hosts the session may fetch from
          request    \* per player request: how far it is

subsVars == <<text, open, state, subs, by, subsDone, mu, ladder, posts,
              post, allowed, request>>

Requests == Roots \cup Others
Capped(list) == SubSeq(list, 1, IF Len(list) > MaxSubs THEN MaxSubs ELSE Len(list))
Lists == {Capped(l) : l \in LadderLists \cup PlayerLists}

NoRequest == [at |-> "new", heard |-> FALSE, list |-> << >>, from |-> "none",
              page |-> << >>]

SubsInit ==
  /\ text \in Texts
  /\ open = TRUE /\ state = "none" /\ subs = << >> /\ by = "none"
  /\ subsDone = FALSE /\ mu = "free"
  /\ ladder = [at |-> "before", list |-> << >>]
  /\ posts = 0 /\ post = [at |-> "idle", list |-> << >>]
  /\ allowed = {Source.host}
  /\ request = [q \in Requests |-> NoRequest]

(***************************************************************************)
(* The ladder: Pending under the lock, then up to 25 s on its own, then    *)
(* its list, if the session is there and nobody else has answered.         *)
(***************************************************************************)
MaybeAttach ==
  /\ ladder.at = "before" /\ mu = "free"
  /\ \E eligible \in BOOLEAN :        \* the provider, and whether a hook is set
       IF eligible /\ open /\ state = "none"
       THEN ladder' = [ladder EXCEPT !.at = "fetching"] /\ state' = "pending"
       ELSE ladder' = [ladder EXCEPT !.at = "over"] /\ UNCHANGED state
  /\ UNCHANGED <<text, open, subs, by, subsDone, mu, posts, post, allowed, request>>

LadderReturns ==
  /\ ladder.at = "fetching"
  /\ \E list \in LadderLists :
       ladder' = [at |-> "returned", list |-> Capped(list)]
  /\ UNCHANGED <<text, open, state, subs, by, subsDone, mu, posts, post, allowed,
                 request>>

\* Fault: Done is stored, not swapped for Pending.
LadderFlipsAlways ==
  /\ ladder.at = "returned" /\ mu = "free"
  /\ IF open
     THEN mu' = "ladder" /\ state' = "done" /\ ladder' = [ladder EXCEPT !.at = "won"]
     ELSE ladder' = [ladder EXCEPT !.at = "over"] /\ UNCHANGED <<mu, state>>
  /\ UNCHANGED <<text, open, subs, by, subsDone, posts, post, allowed, request>>

\* Fault: the lock is let go before the list is set.
LadderFlipsUnlocked ==
  /\ ladder.at = "returned" /\ mu = "free"
  /\ IF open /\ state = "pending"
     THEN state' = "done" /\ ladder' = [ladder EXCEPT !.at = "won"]
     ELSE ladder' = [ladder EXCEPT !.at = "over"] /\ UNCHANGED state
  /\ UNCHANGED <<text, open, subs, by, subsDone, mu, posts, post, allowed, request>>

LadderFlips ==
  /\ ladder.at = "returned" /\ mu = "free"
  /\ IF open /\ state = "pending"
     THEN mu' = "ladder" /\ state' = "done" /\ ladder' = [ladder EXCEPT !.at = "won"]
     ELSE ladder' = [ladder EXCEPT !.at = "over"] /\ UNCHANGED <<mu, state>>
  /\ UNCHANGED <<text, open, subs, by, subsDone, posts, post, allowed, request>>

LadderAttaches ==
  /\ ladder.at = "won"
  /\ subs' = ladder.list /\ by' = "ladder" /\ subsDone' = TRUE
  /\ mu' = "free" /\ ladder' = [ladder EXCEPT !.at = "over"]
  /\ UNCHANGED <<text, open, state, posts, post, allowed, request>>

(***************************************************************************)
(* The player registers a list: the list, then the state, then the signal. *)
(***************************************************************************)
Attached == ladder.at # "before"      \* the player has the token

SetSubRenditions ==
  /\ Attached /\ posts < MaxPosts /\ post.at = "idle" /\ mu = "free"
  /\ posts' = posts + 1
  /\ \E list \in PlayerLists :
       IF open
       THEN /\ mu' = "player" /\ subs' = Capped(list) /\ by' = "player"
            /\ post' = [at |-> "set", list |-> Capped(list)]
       ELSE UNCHANGED <<mu, subs, by, post>>         \* "proxy session expired"
  /\ UNCHANGED <<text, open, state, subsDone, ladder, allowed, request>>

PostSignals ==
  /\ post.at = "set"
  /\ state' = "done" /\ subsDone' = TRUE
  /\ mu' = "free" /\ post' = [at |-> "idle", list |-> << >>]
  /\ UNCHANGED <<text, open, subs, by, ladder, posts, allowed, request>>

(* Stopped, blocked or expired: the token names nothing any more. *)
SessionEnds ==
  /\ open /\ Attached /\ mu = "free" /\ open' = FALSE
  /\ UNCHANGED <<text, state, subs, by, subsDone, mu, ladder, posts, post, allowed,
                 request>>

(***************************************************************************)
(* A player's request: the session is looked up, the root is held while    *)
(* the ladder runs, the playlist is rewritten with the list of that        *)
(* moment, its hosts are allowed, and it is written.                       *)
(***************************************************************************)
At(q, where) == request[q].at = where
To(q, where) == request' = [request EXCEPT ![q].at = where]

Serve(q) ==
  /\ Attached /\ At(q, "new") /\ mu = "free"
  /\ IF open THEN To(q, "looked up") ELSE To(q, "refused")
  /\ UNCHANGED <<text, open, state, subs, by, subsDone, mu, ladder, posts, post,
                 allowed>>

HoldRoot(q) ==
  /\ At(q, "looked up")
  /\ request' = [request EXCEPT
       ![q].at = IF q \in Roots /\ state = "pending" THEN "held" ELSE "rewriting",
       ![q].heard = q \in Roots /\ state = "done"]
  /\ UNCHANGED <<text, open, state, subs, by, subsDone, mu, ladder, posts, post,
                 allowed>>

WaitForSubs(q) ==
  /\ At(q, "held")
  /\ \/ subsDone /\ request' = [request EXCEPT ![q].at = "rewriting", ![q].heard = TRUE]
     \/ To(q, "rewriting")                           \* the 2.5 s ceiling
  /\ UNCHANGED <<text, open, state, subs, by, subsDone, mu, ladder, posts, post,
                 allowed>>

\* subRenditions
ReadList(q) ==
  /\ At(q, "rewriting") /\ mu = "free"
  /\ request' = [request EXCEPT ![q].at = "listed",
                                ![q].list = IF open THEN subs ELSE << >>,
                                ![q].from = IF open THEN by ELSE "gone"]
  /\ UNCHANGED <<text, open, state, subs, by, subsDone, mu, ladder, posts, post,
                 allowed>>

\* A master of its own takes the lock again, for the session's source.
Rewrite(q) ==
  LET list == request[q].list  source == IF open THEN Source ELSE NoUri IN
  /\ At(q, "listed")
  /\ IsWrapped(text, list, q \in Roots) => mu = "free"
  /\ request' = [request EXCEPT ![q].at = "rewritten",
                                ![q].page = RewriteManifest(text, list, q \in Roots, source)]
  /\ UNCHANGED <<text, open, state, subs, by, subsDone, mu, ladder, posts, post,
                 allowed>>

\* A page from the cache writes to the session it looked up, ended or not.
Admit(q) ==
  /\ At(q, "rewritten") /\ mu = "free"
  /\ \/ allowed' = allowed \cup Discovered(text)
     \/ ~open /\ UNCHANGED allowed
  /\ To(q, "served")
  /\ UNCHANGED <<text, open, state, subs, by, subsDone, mu, ladder, posts, post>>

SubsNext ==
  \/ MaybeAttach \/ LadderReturns \/ LadderFlips \/ LadderAttaches
  \/ SetSubRenditions \/ PostSignals \/ SessionEnds
  \/ \E q \in Requests : \/ Serve(q) \/ HoldRoot(q) \/ WaitForSubs(q)
                         \/ ReadList(q) \/ Rewrite(q) \/ Admit(q)

SubsSpec == SubsInit /\ [][SubsNext]_subsVars

(***************************************************************************)
(* Properties.                                                             *)
(***************************************************************************)
(* "The player's payload wins, so the ladder finishing late (possibly with *)
(* zero results) cannot drop the user-visible tracks": a list the player   *)
(* registered is followed by lists of the player only.                     *)
PlayersListStays == [][by = "player" => by' = "player"]_by

(* A root that was let go because the subtitles are there is served with   *)
(* them: between the state that lets it go and the list it is rewritten    *)
(* with there is no moment without a list, unless the session has ended.   *)
HeldRootsCarry ==
  \A q \in Requests :
    request[q].heard /\ request[q].at \in {"listed", "rewritten", "served"} =>
      request[q].from # "none"

Served(q) == request[q].at = "served"

(* A playlist served with a list shows it, line for line, and links every  *)
(* variant to it, or is left alone where the upstream has subtitles of its *)
(* own or the master has no header.                                        *)
LeftAlone == Has(text, "subs") \/ (Has(text, "variant") /\ ~Has(text, "header"))

ListsCarried ==
  \A q \in Requests : LET page == request[q].page  list == request[q].list IN
    Served(q) /\ list # << >> /\ Has(page, "variant") =>
      IF LeftAlone
      THEN \A i \in 1..Len(page) : page[i].via # "here"
      ELSE /\ GroupsDeclared(page)
           /\ \A sub \in ToSet(list) :
                Cardinality({i \in 1..Len(page) :
                  page[i].via = "here" /\ page[i].uri.name = sub})
                = Cardinality({k \in 1..Len(list) : list[k] = sub})

(* While its session is there, the player may fetch all a page leads to    *)
(* through the proxy, attributes, lines and the master made for it, before *)
(* it has read it.                                                         *)
HostsAllowed ==
  \A q \in Requests : LET page == request[q].page IN
    Served(q) /\ open =>
      \A i \in 1..Len(page) : page[i].via = "proxy" => page[i].uri.host \in allowed

(* The read-ahead warms the variant it says it picks.                      *)
WarmsTheBest == BestIsWarmed(text)

(* "It rewrites manifest URIs so the browser never contacts the provider/  *)
(* CDN directly" (proxy.go).                                               *)
NothingLeadsAround ==
  \A q \in Requests : LET page == request[q].page IN
    Served(q) => \A i \in 1..Len(page) : page[i].via \notin {"upstream", "spaced"}

=============================================================================
