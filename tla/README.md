# Verification of GoFlix

GoFlix is a self-hosted streaming front end: a Go server that resolves a title
to a playable HLS source, proxies the stream to the browser, keeps accounts and
their lists, and a JavaScript player. This directory holds TLA+ models of its
concurrent parts, the TLC configurations that check them, and TLAPS proofs.

Paths below are relative to `src/`; `mediaresolver/` stands for
`internal/mediaresolver/`.

## The system

| Part | Code | State | Operations | What is hard | Modules |
|---|---|---|---|---|---|
| Resolve single-flight, provider chain | `mediaresolver/resolver.go` | `r.flights`, `browserSem`, closed flag | Resolve, resolveFresh, Close | joiners, cancellation, shared browser slots | ResolveFlight |
| Providers | `mediaresolver/{movy,movish,vixsrc,vidsrcme,cinesrc}.go` | shared seed, compiled modules, tokens, one warm browser page | one lookup each | what lookups share goes stale between two requests; deadlines; locks held over downloads | Movy, Movish, Vidsrcme, Providers, Cinesrc |
| JavaScript engine | `mediaresolver/cinesrcjs/`, `cinesrcjs_bridge.go` | assets, proof-of-work module, server list | Resolve | one scan that others join, modules replaced while in use | CinesrcEngine, Cinesrc |
| Resolution cache | `mediaresolver/resolution_cache.go` | `r.resolutions`, `healing`, table `resolution_records` | lookup, remember, replay, heal, invalidate, prewarm, persist, reload | goroutines that outlive the request, snapshots written later, restarts | ResolutionCache |
| Proxy sessions, moderation | `session.go`, `streams.go`, `proxy.go`, `warmer.go` | `r.sessions`, pause and block marks, the session's warmer | mint, play, pause, stop, block, hot swap, sweep, Close | lookups used after the lock is gone; pipelines nobody cancels | ProxySessions |
| Read-ahead and body cache | `cache.go`, `warmer.go`, `proxy.go` | `r.cache`, `r.inflight`, warmer cursor, marks, back-off, live count | fetchForCache, pumpPrefetch, Proxy | joined downloads, time-outs, retry policy | ReadAhead |
| Upstream host gate | `netutil.go` | per-host semaphore, cool-down | doWithRetry, limitUpstreamHeaders | slots held while sleeping and over bodies, a shift that overflows | HostGate |
| Blocked-address file | `streams.go` | `r.blockedIPs`, a JSON file | BlockIP, UnblockIP, persist, load | copy and write without a lock, shared temporary file, crashes | BlockList, Restarts |
| Subtitle renditions, playlists | `renditions.go`, `manifest.go`, `server/handlers_renditions.go` | session's list and state, its allowed hosts | ladder, player's own list, waitForSubs, rewriteManifest | two writers, a bounded wait, a list read in the middle of a rewrite | Renditions, Playlist |
| Accounts | `internal/server/auth.go` | `users`, `sessions` tables | register, login, logout, delete | check and use in separate critical sections | Accounts |
| User data | `internal/server/handlers_userdata.go`, `static/js/storage.js` | `userdata` rows, localStorage | merge, sync, sign-out | edits during a sync, tombstones, the household's row | UserSync, Accounts |
| Catalog | `internal/catalog/` | caches, a snapshot table | refresh, persist, load, home page | overlapping refreshes, crashes | Catalog, Restarts |
| Database | `internal/db/db.go` | SQLite file | migrate, save, load | imports that run again | Accounts, Restarts, ResolutionCache |
| Rate limiter, subtitle search, browser scraping, HTTP plumbing, configuration, web pages | see "Not modelled" | | | | none |

How they interact: `Resolve` replays the resolution cache or runs the provider
chain, whose result mints a proxy session and is remembered. The player asks
`Proxy` with the session's token; `Proxy` serves the body cache, joins a
download in flight or goes upstream, and moves the cursor of the session's
read-ahead. The healer behind a replay may hot-swap the session's source. The
dashboard stops, pauses and blocks. Everything shares `r.mu`, which is never
held across a network call: most hazards come from what happens while it is
released. The lookups of the providers go through the host gate and end in a
session; the subtitle ladder starts when the session is made, and the proxy
rewrites every playlist of the session with whatever list it has by then. The
accounts own the rows the browsers sync, and the database, the catalog's table
and the block list's file are what a restart finds.

## Modules

### ResolveFlight (`resolver.go`)

`caller[c]` is a request goroutine, its `stage` the place in `Resolve` or
`resolveFresh` it has reached. `flights` is `r.flights`; `chan` the one-element
channel of a flight; `slots` the browser semaphore. `Call` is everything up to
the flight lock, `EnterFlight` the critical section, `Direct`, `Reroute`,
`AcquireBrowser` and `Scrape` the chain, `Deliver` and `Retire` the send and the
deferred removal. `TakePage`, `PageWaitEnds` and `Page` are cinesrc's fallback within
`Direct`, which takes and gives back the same semaphore before the scrape takes it
again (`cinesrc.go:230-237`), for the titles in `CinesrcKeys`. What a provider
answers is a nondeterministic outcome.
`Disconnect` cancels a request's context at any time and is outside `src/`.

### ResolutionCache (`resolution_cache.go`)

`mem` is `r.resolutions`, `table` the SQLite table, `task[p]` a goroutine (a
request, the healer it starts, a prewarm, or a persist in progress). A record is
a source and an age. `Stamp` is what `rememberResolution` does before it takes the
lock and `Remember` what it does under it, so a record stored later may be the
older one, and then it is the one that makes room. `Snap` and `Write` are the two critical sections of
`persistResolutions`; `Restart` loses every goroutine and reloads the table.
`CinesrcKeys` are the titles whose resolve may end on cinesrc's page, behind a lock
and without a deadline.

### ProxySessions (`session.go`, `streams.go`, `proxy.go`, `warmer.go`)

Tokens, viewers and processes. `sessions`, `expires`, `paused`, `blocked` are
the tables under `r.mu`; `warmer` is a session's `atomic.Pointer`, and `live`
the pipelines whose context is not cancelled. An operation that works on after
it let `r.mu` go is two actions with what it remembers in `task[p]` (`kill` are
the CancelFuncs it still has to call).

### ReadAhead (`cache.go`, `warmer.go`, `proxy.go`)

Downloads are keyed by URL and shared between sessions. `task[d]` is the
prefetch goroutine of one segment for one session; `request[p]` a player
request. `Pump` is `pumpPrefetch`, performed at the end of every step whose code
calls it: the window, the live-playback throttle, the count that stops the scan,
the cached, in-flight and back-off tests, and the goroutines it starts.
Abstracted: bodies are fresh, stale or absent, and any body may be the least
recently used; segments are the positions in one playlist, which both sessions
share; the manifest branch of `Proxy` is represented by `Register`.

### UserSync (`server/handlers_userdata.go`, `static/js/storage.js`)

`local[d]` is a browser's localStorage, `account[u]` a row of `userdata`, both a
`Data`: of every entry only its time is kept (`listAt`, `at`), as a stamp that
counts edits. `page[d]` is the state of `storage.js` in the open page: whether
`initPromise` is pending, `syncState`, the debounce timer. A sync under way is a
`Flight`: `Serve` is the handler (session looked up, `merge`, save, which may
fail), `Hear` the code after `fetch`, `Lose` either way of losing it. A page that is
left hears nothing any more, but what it had sent is an orphan that the server may
still serve (`Orphans`); after a sign-in it would only be refused, as its session
is over. `BindUser`,
`BindAnonymous` and `BindUnreachable` are the ends of `initialSync`. `author` is
no part of the program: it remembers whose browser an edit was made in, for
`Isolated`. Abstracted: one page per browser; edit times never tie (a tie goes
to the client in the code); a row that is there can be read; entries that never
had a time.

### HostGate (`netutil.go`)

One host, as hosts share nothing. `used` is the number of values in the
semaphore channel, `strikes` and `cool` the host's `hostThrottle`, `fetch[f]` a
goroutine in `limitUpstreamHeaders` or `doWithRetry`, with the timer it sleeps
on, or in its caller: `release` is deferred there, so `fetchForCache` holds its slot
until the whole body is read (`cache.go:224-241`) and the proxy until the head of a
200 is (`proxy.go:204-218`), which is the place "reading" and ends with `BodyEnds`;
`resolveFetch` returns at once. The body of an answer that is retried is drained
before `BackOff`. `Cool` computes the shift in `Width` bits with its sign. `Attempt` ends in
any kind of answer, the kinds told apart as `noteUpstreamOutcome` and
`retryableUpstreamStatus` do. `Attempt` and `BackOff` are two steps, since the
cool-down is read again after it was widened.

### Lookup, Movy, Movish, Vidsrcme, Providers

`Lookup` is what all direct lookups have: `at[k]`, the upstream request that
comes next, and a deadline. Each provider's module adds its own variables and
steps, a request that may succeed only before the deadline: `Movy` the cached
seed and the site's (`SiteRotates` is outside `src/`), the servers in order and
their tiers, sorted (`ByRank`: a tier's place is the number of tiers up to it);
`Movish` one probe per server, three requests deep, in any order, the loop over
their results (`Winner`), and the plain chain of vixsrc; `Vidsrcme` the mutex `wasmCacheMu`, the
compiled modules with their least-recently-used order, and the tokens per
origin. `Providers` runs them and `Cinesrc` side by side. Left out: what is requested,
decrypted and parsed; an outcome stands for it. `resolveFresh`, which chooses
the provider, is ResolveFlight's.

### CinesrcEngine, Cinesrc

`CinesrcEngine` is `cinesrcjs.Resolver`, on the same `Lookup`. A scan's number stands for the assets it
fetched; `powOf` is the scan the shared module was compiled from, `powsOpen` the
modules not closed. `EnsureAssets`, `Scan`, `LeaveScan` and `CloseScan` are
`ensureAssets`, whose deferred end is two steps; `NextBatch`, `TryStep`,
`BatchOver` and `PassOver` the loops of `Resolve`, with every attempt of a batch a
goroutine of its own that may find the module it was handed closed. `firstPass`
is no part of the program: it remembers which assets a resolve's first pass ran.
`GetPow` compiles the module of the assets in use when they have none yet.
`Cinesrc` adds the bridge's two slots, the fallback to a browser, the one warm
worker (`worker`, and `mine[r]` the one a resolve was handed), its death and expiry,
the goroutine in which `New` starts one ahead (`PrewarmWorker`), and
`Resolver.Close`. A worker's name is used again once nobody refers to it.

### Accounts, AccountBook (`server/auth.go`, `handlers_userdata.go`, `db/db.go`)

A row of `users` is its `account` and whether it is in `admins`; `session` is the
table of sign-in sessions by token, `row` the `userdata` table with the
household's row of before there were accounts. `req[r]` is a request between two
critical sections: `Authorize` and `Identify` are the two halves of the
middleware, `AdminGuard` the handlers' own check, `Mint` the insertion of a
session after the password was checked, `DropState` what the handler does after
the account is gone. `ImportUsers`, `ImportData` and `Retire` are `Migrate`: a file may
be unreadable, a transaction fail and be rolled back (one that meets a row it would
insert always does), and a rename fail. `CountMayFail` says whether the count of a
table may fail, which `count` answers with 0. `Crash` ends the process at any step. Sessions that a
browser never got are not told apart from those it threw away.

`AccountBook` is what the store promises, without requests, locks, tables and
restarts; `Book` in Accounts maps the tables to it, and `KeepsTheBook` states
that Accounts implements it. A session counts as ended in the book from the
moment it expires, although its row stays until it is pruned.

### Catalog, BlockList, Restarts

`Catalog` has a cache per kind of list, `refresher[k]` the refresh under way (its
lock is the reason there is at most one), `table` the table. `CopyCache` copies
one cache at a time, as `snapshotCachesAsJSON` takes one lock after another, and
`SaveCatalogCaches` replaces the table or fails. `HomeView` is the pure part: row
by row, a row's lists are joined, interleaved or sorted by rating, and `Chosen`
goes through them title by title, past those that were `seen`, up to the cap. A
film is its type, id, rating and the one tag its list is found under. `BlockList` has the list in memory, the file, the
temporary file and the handles open on either: a rename takes the handles along.
`Restarts` puts both under one process: `Migrate`, `LoadBlocks` and `LoadCatalog`
are the start in `main`'s order, `ProcessDies` its end at any step. `unread`, `mixed`,
`settled` and `sure` are history: they say whether a write failed or two met.

### Playlist, Renditions (`manifest.go`, `renditions.go`, `proxy.go`)

`Playlist` is pure: a playlist is a sequence of lines, of which only the
attributes the code looks at are kept, and `RewriteManifest`,
`InjectSubRenditions`, `SynthMediaMaster`, `ForceHighestQuality` are operators on
it, checked against `GroupsDeclared` and `BestIsWarmed`. `via` is where a line's
address leads; two kinds of upstream addresses are told apart because the code
leaves them alone, bare lines with a blank ("spaced") and those that
`resolveMediaURL` gives up on ("odd"). `Scan` is one turn of the
two loops of `ForceHighestQuality`. `Renditions` is one
session: the ladder's goroutine, the player's registrations, the state that is
read without the lock (`LadderFlips` and `LadderAttaches`, `SetSubRenditions` and
`PostSignals` are the two sides of that), and the player's requests from their
lookup to the hosts they add. A rewrite takes the lock for the list (`ReadList`)
and, for a master of its own, again for the session's source (`Rewrite`); a page
from the cache adds its hosts to the session it looked up, ended or not (`Admit`). `by` and `from` remember whose list it is.

`MCResolveFlight`, `MCAccounts`, `MCUserSync`, `MCProviders`, `MCRestarts` and `MCRenditions`
give values to what a cfg cannot write, or symmetry.

## Runs

| Run | Instance | Shows |
|---|---|---|
| `resolve_flight` | 3 callers, 2 titles, one of cinesrc, 1 slot | one chain per title; no slot leaks; a joiner's answer is its owner's; every flight lands, if no page hangs for ever |
| `lost_joiner` | the same, violation | two joiners, one value: `AllCallersAnswered` fails |
| `resolution_cache` | 2 goroutines, 2 titles, cap 1, restarts, failing writes | the cap holds for memory, table and snapshots; a dropped record does not come back by a healer; every change is followed by a snapshot that includes it; healers end, if no page hangs for ever |
| `proxy_sessions` | 3 goroutines, 1 token, 2 viewers | one pipeline; pause and block are effective; Close is final; abandoned sessions go |
| `read_ahead` | 2 sessions, 1 segment, 1 player, 1-body cache | nobody waits for a download that is over; marks and counters are given back; joins end |
| `user_sync` | 1 browser, 2 accounts, 2 titles, 2 edits, 2 syncs at once, a page load, Continue Watching of 1 | nothing is sent before it is known whose it is; tombstones hold; an account's data and a browser's preferences never go back in time |
| `accounts` | 3 accounts, 2 tokens, 2 requests at once and 3 in all, 1 crash | no session without its account; an administrator remains; the tables implement the account book, as long as they can be counted |
| `host_gate` | 2 fetches at once and 5 in all, 1 slot, 3 attempts, 5-bit durations | slots are held by fetches whose callers have not returned, and by nothing else; the cool-down only widens; a fetch whose caller has gone ends; every fetch ends, if no body is held back for ever |
| `nil_answer` | the same, violation | a cancelled fetch comes back with neither a response nor an error: `AnswersOrFails` fails |
| `providers` | 2 lookups at once and 3 in all, 2 servers, 3 windows for 2 places; 2 lookups of cinesrc, 2 scans, 1 browser slot | the best source that works plays; a module is compiled once and its mutex is let go; slots, modules and browsers of cinesrc are never left behind; joiners of a scan are woken; a second pass runs newer assets |
| `restarts` | 2 caches, 2 ticks; or 2 administrators, 3 edits; 1 crash | what was saved is not forgotten and is found by the next start; the home page is sound in every state of the caches |
| `renditions` | 1 session, 7 playlists, 2 root requests and 1 other, 2 lists by the player | a playlist served with a list carries it, or is left alone; what it leads to through the proxy may be fetched; a released root has its subtitles; the player's list stays |

Bounds. Two titles are enough for "different titles never block each other" and
for eviction to choose; three callers are the least with two joiners of one
flight; one browser slot makes queueing happen, for the scrape as for cinesrc's
page, and one cache body makes eviction happen. Time is a bounded age or a number of ticks left, so that every
state space is finite. Two sessions over one segment exercise the sharing of
downloads, which is where the read-ahead's hazards are.

`user_sync` has one browser: two overlapping syncs of it reach the server in
either order, as those of two browsers would. What an older page left under way
does not count among the two. Accounts and titles are interchangeable
(`MCSymmetry`). The proofs cover any number.

`accounts`: two requests at a time are enough for one to come between two
critical sections of the other; the three accounts are two administrators of the
old file, who may delete each other, and one that registers. `host_gate`: at 5
bits the shift reaches the sign bit and zero within the failures of five
fetches, as 64 bits do after many; what the property needs of the width is
`ShiftAssumption`, which the proof states for all widths and TLC evaluates here.
`providers`: three windows for two places make eviction happen, a list of four
tiers has an unranked one, one that cannot be proxied and two equals. One
behaviour asks cinesrc alone, or two of the other providers (`ProviderSets`), since
no two providers share state and every property is about one of them. For
cinesrc, two scans let a module be replaced once, and two lookups (`MaxCinesrc`)
are the least for a scan with a joiner; a batch is the whole list. Three names of
workers (`Workers`) are enough for one that runs and one that each of two resolves
still has in hand.
`restarts`: in a behaviour the crashes fall between refreshes or between edits,
never both, since the two parts share only the process and no property reads
both. `renditions`: two roots, so that one may be held while another is not, and
a request with an address of its own; among the playlists are masters with
subtitles of their own, with an unfinished variant, without a header, with an
address that cannot be resolved and with a blank in a bare line, and the
player may register a name twice; the two roots are interchangeable. A run whose bounds use up the work of the
environment (requests, lookups, resolves) ends there, which is why deadlock is
not checked in those; FetchesEnd stands in for it in `host_gate`.

For reasons of size not every invariant is in a run: `TypeOK` of every module but
ResolveFlight's, which has the bound on browser slots in it, `HealMuHeld` of
ResolutionCache and `WarmsTheBest` of Renditions hold under the same cfgs, and are
proved.
`LedgersAreTrue` is the conjunction of two ledgers of ReadAhead, `PlaysBest` of
two providers' choices, `NothingLeaks` of slots, modules and browsers,
`RestartKeeps` of the catalog's and the block list's half.

Fairness. Weak fairness is assumed of steps of goroutines that wait for nobody
outside the program, which Go's scheduler justifies, and of timers the code
sets (`inflightJoinWait`, session expiry and the sweeper, the resolve timeout).
It is not assumed of a viewer or of an administrator, and of an upstream's answer
only where a limit of the code's ends the wait: the transport's limits on dialling,
handshakes and headers end an attempt in HostGate, and provider calls in
ResolveFlight and ResolutionCache have time limits of their own.

Two things have no limit, and are given no fairness: cinesrc's page, which runs
in the worker's context behind a plain mutex (`mediaresolver/cinesrc.go:246,416`),
and the body of an answer, which the host sends as slowly as it likes while its
reader is there (`mediaresolver/cache.go:241`, `proxy.go:214`, and the drain at
`netutil.go:181`). The liveness properties that depend on them say so in a premise of
their own: `FlightLands` and `HealersFinish` hold where no goroutine stays on such
a page for ever, `FetchesEnd` where no body is held back for ever (`Stalled`).
`GoneCallersEnd` has no such premise: a cancelled context ends a read too.

Strong fairness is assumed where a goroutine competes: to send on the semaphore
channels of HostGate and ResolveFlight, whose senders are served in the order they
came, and for the healing mutex, which hands itself to a waiter that starves.
Accounts, UserSync, the providers, Cinesrc, Restarts and Renditions state safety
only and assume no fairness.

### What the models disagree with

The two violation runs show disagreements between the code and its comments that
`PROJECT.json` quotes under `findings`. The more serious is `nil_answer`:
`doWithRetry` says it returns the final response or the error, but when the
context ends between an answer it would retry and its look at the context, it
returns `nil, nil` (`mediaresolver/netutil.go:191`). Its callers look at the error
alone and close the response's body: a nil dereference, which ends the whole
process where it happens in a background goroutine. The models of the callers
take such a return for an error, which is what it would be once corrected.

These others can be seen by running the named property of the module in the same
way, under the cfg of the module's run, with the constants changed that are named:

- `SlowBodiesNeverBlock` (HostGate): "Body reads happen outside the limiter, so a slow
  segment download never blocks other requests from starting"
  (`mediaresolver/netutil.go:33-35`), but `fetchForCache` defers its release over the
  read of the body (`mediaresolver/cache.go:224-241`), and the proxy over that of the
  head (`mediaresolver/proxy.go:204-218`): one fetch reads while another is queued for
  the slot it holds.
- `NothingLeadsAround` (Renditions): "the browser never contacts the provider/CDN
  directly" (`mediaresolver/proxy.go:19-20`), but a bare line with a blank in it is left
  alone (`mediaresolver/manifest.go:58-60`). What `resolveMediaURL` gives up on ("odd",
  `manifest.go:26-29`) stays too, and is no address the property speaks of.
- `TableMatchesMemory` (ResolutionCache, `WritesMayFail = FALSE`): the table is "always
  consistent with memory" (`mediaresolver/resolution_cache.go:512-515`), but snapshots
  taken under one lock and written under another may be written in the other order.
- `ClearedStaysEmpty` (UserSync): "a shared computer's next visitor starts clean"
  (`static/js/storage.js:133-137`), but signing out gives up no sync under way, and the
  answer that is heard between the clearing and the next page puts the account's
  data back (`static/js/storage.js:269`).
- `ImportsIntoEmpty` (Accounts, `CountMayFail = TRUE`): imports go where "the
  corresponding tables are empty" (`internal/db/db.go:81-83`), but a count that fails
  answers 0: a first import fails, an account registers, and after a restart whose
  count fails the legacy accounts are put beside it.
- `StoppedIsCancelled` (ProxySessions): `startWarmup` looks the session up and
  `ensureWarmer` starts a pipeline after `StopStream` removed it
  (`mediaresolver/streams.go:458-459`).
- `NoRetryStorm`, `StaleBeatsFailure` (ReadAhead): an upstream error status leaves
  no back-off (`mediaresolver/resolver.go:167-168`), and the expired copy is
  removed before it is looked for (`mediaresolver/proxy.go:281-283`).
- `ReAddsSurvive`, `Isolated` (UserSync): an older sync that arrives late drops a
  title that was added again (`internal/server/handlers_userdata.go:38-39`; it takes
  three edits, so `MaxClock = 3`, and one account will do), and
  after a failed status request one account's edits reach another's row
  (`internal/server/handlers_userdata.go:8-10`).
- `FailedHoldNoSlot` (HostGate): `mediaresolver/netutil.go:130-132` says the slot
  is released once the headers are there "(or the attempt failed)"; its callers
  defer the release, so a fetch sleeps between attempts with its slot. The sleeps
  alone keep nobody out for ever (`FetchesEnd`).
- `RefusedSeedIsReplaced` (Movy): after a 401 the seed "is refreshed once"
  (`mediaresolver/movy.go:323-324`), but `fetchMovySeed` answers from the cache,
  which still holds the refused one.
- The premises `mixed` and `sure` of `RestartKeeps`: a refresh that copied before
  another stored may be saved after it (`internal/catalog/store.go:142-145`), and
  two block-list writes that meet may leave an older or an unreadable file
  (`mediaresolver/streams.go:546-548`, "they must survive a restart").
- Accounts: `GET /api/userdata` adopts the household's row, which deletes it, and
  saves nothing (`internal/server/handlers_userdata.go:125`); a sync authorised
  before its account was deleted writes the row again, which nobody can reach.
- `waitForSubs` (`mediaresolver/renditions.go:173-178`) says it returns when the
  context is cancelled; it takes no context and waits out its ceiling.
- A hanging page of the warm browser keeps its lock and a browser slot past the
  resolve's deadline, as its script runs in the worker's context
  (`mediaresolver/cinesrc.go:416`); with it hang the flight and the healing mark of
  the title, and the scrapes of others where there is one slot. It is why
  `FlightLands` and `HealersFinish` need their premise.

Some hazards are covered only in part:

- A sign-in that signing out everywhere overtakes, between its password check and
  the insertion of its session, leaves a session open (`server/auth.go:659`). The
  account book takes it for a later sign-in.
- `HeldRequestsRefused` is about holds in force when the request finds its session;
  one that comes before the checks may be seen by them or not.
- `OnePipeline` is about sessions in the table. What a pipeline of a stopped one does
  is `StoppedIsCancelled` above.
- `HeldRootsCarry` asks nothing of a root that waited out the ceiling, or whose
  ladder comes late or never.
- `ServerKeepsNewest` leaves out My List and Continue Watching, whose entries go with
  tombstones or with the cap, and `NoZombies` does not tell which of two copies was
  compared (`ReAddsSurvive`).
- `ExpiredSessionsGo` is about sessions, not about their pipelines.
- `RestartKeeps` and `NothingForgotten` exclude the meetings of writes named above, and
  know one kind of failed refresh.

## Proofs

Eight modules hold proofs, for every value of the constants that satisfies the
named assumptions: finite sets of processes, titles or keys, null values that are
none of the others, capacities that are natural numbers. Where more is assumed it
is said below.

| Module | Properties proved | What the invariant adds to them |
|---|---|---|
| `ResolveFlightProofs` | type correctness, `FlightIsChain`, `SlotsAreBrowsers`, `JoinerAnswer` | a flight's owner is in its chain; the value in a channel is the owner's; a slot is taken exactly by a caller that scrapes or is on cinesrc's page |
| `ProxySessionsProofs` | type correctness, the cap, `OnePipeline`, `HeldRequestsRefused`, `ClosedAddsNothing` | pipelines are numbered below a bound and a session's current one is the newest; a request marked as held is still under a pause or a block |
| the same, of Renditions | `HeldRootsCarry`, `PlayersListStays`, `ListsCarried`, `HostsAllowed`, `WarmsTheBest` | who holds the lock is between the two stores of a pair; Done means a list, except within the ladder's pair; a page is the upstream's text rewritten with the request's list, and its hosts are allowed |
| `UserSyncProofs` | type correctness, `BoundBeforeSync`, `NoZombies`, `ServerKeepsNewest`, `PrefsNeverBack` | everything in flight is typed; no preference is stamped after the last edit |
| `AccountsProofs` | type correctness, `SessionsHaveAccounts`, `AdminRemains`, the refinement `KeepsTheBook`, `NothingReturns` | a token that opens a session was minted; when no account is there, none was there before |
| the same, of Restarts | `RestartKeeps`, `NothingForgotten` | unless mixed, one refresh writes and its copy is the caches so far; a list once in a cache stays there; unless a write failed or two met, one call edits and the temporary file is its list |
| the same, of Catalog's home page | `HomeIsSound` | the caches are sequences of films; the page after n rows is sound in those n |
| `HostGateProofs` | type correctness, `SlotsReturned`, `WidensOnly` | a fetch that has failed for now or sleeps has attempts left; an idle one holds nothing, one that reads a body holds a slot |
| `ResolutionCacheProofs` | type correctness, `WithinCap`, `HealMuHeld`, `DroppedStayOut`, `SnapshotsKeepUp` | nothing holds a record that was not resolved yet, and no record stands under two titles, in memory, in a snapshot or in the table; a record about to be remembered is nowhere else yet |
| `ReadAheadProofs` | type correctness, `InflightRuns`, `WaitersAreHeard`, `LedgersAreTrue`, `WithinWindow` | a download that is over has a result; a request is somebody's, for something |
| `ProvidersProofs` | type correctness, `WasmCacheKept`, `NothingLeaks`, `JoinersAreHeard`, `RetryIsRescanned`, `PlaysBest` | see below |

An invariant of these is checked by TLC on the run's instance before it is
proved, and each line above names what the properties needed to become
inductive. Some of it says more about the code than the properties do:

- UserSync: without a bound on the stamps, a new edit of the preferences could be
  older than what it replaces. `MergeKeeps` says what one merge keeps, and needs
  both states to be typed.
- Accounts: `EmptyIsNew` says that an import into an empty table is the first
  one, since accounts never all leave; it holds where the tables can be counted, so
  `ImplementsBook` and `NothingReturnsHolds` assume `~CountMayFail`
  (`ImportsIntoEmpty` above is what is lost without it). `KeepsTheBook` shows that
  what requests do in several critical sections, with others between them, is one of
  the four operations of `AccountBook` or nothing; the proof maps the initial state, and
  then each action to an operation of the book or to no change of it.
- Restarts: `RestartKeeps` speaks of quiet moments only, so what is proved is how
  a refresh gets from one to the next: its copy agrees with the caches up to
  where it has read (`CopyIsTrue`), and caches that are all empty go with an empty
  table, since that copy is not saved. `NothingForgotten` needs in addition that
  no copy has a list its cache has not, mixed or not (`ListsStay`). For the block
  list the file reads as the list before the call until the rename (`OneEdit`).
  `CatalogAssumption` says that the caches are in a sequence, that an old file
  has a list for each, and that lists are lists of films.
- The home page: `HomeIsSound` is a fact of every state in which the caches are
  lists of films, which the invariant says they are (`CachesAreLists`). The page is
  built up by two loops, and each has an invariant of its own: `Picked` says
  what a row has taken from its first items, `UpTo` what the page is after its
  first rows. `HomeAssumption` is what `homeRowOrder` gives: no two rows have a name,
  and a row that is interleaved has two lists.
- Renditions: what keeps a late ladder from the player's list is that the player
  stores list and Done under one lock (`LockedPairs`, `DoneHasList`); a root
  reads Done without the lock, and the lock it takes for the list makes the
  ladder's second store come first. What a playlist is made of plays no part in
  these two. `ListsCarried` and `HostsAllowed` add that a request that was rewritten
  has the upstream's text, rewritten with the list it took (`PagesAreRewritten`), and
  that what it leads to is allowed from the moment it is served, while the session is
  there (`HostsAreAllowed`); the rest is about the text: that one insertion behind the
  first header carries every list line for line, however often a name occurs in it, and that the loop of
  `ForceHighestQuality` ends with a variant that none is better than. The playlists
  are any sequences of lines that an upstream may send (`UpstreamLine`).
- HostGate: the slots are counted by the cardinality of the set of fetches that
  hold one, for any number of fetches and slots. `WidensOnly` needs
  `ShiftAssumption`: what an overflowing shift leaves of the base is at least the
  base, or no longer positive, which the code tests for. That holds while the base is below
  `2^((Width - 1) / 2)`, and 750 ms in nanoseconds is below `2^30` of 64 bits.
- ResolutionCache: that a dropped record does not come back, and that a snapshot
  due holds what memory holds, rest on `Fresh`: what a goroutine is about to
  remember is its own, neither dropped nor stored under another title.
- ReadAhead: the two ledgers (marks of segments, counters of sessions) are set
  equalities and cardinalities over goroutines at any stage, and the marks are
  part of the invariant, since they keep the pump from starting a download twice.
- Providers: `NothingLeaks` and `JoinersAreHeard` are not inductive by themselves. The
  strengthening is that `r.refreshing` names a resolve that has not left its scan
  (`ScanIsRunning`), that no batch is ever empty and none is tried after the
  second pass (`Rounds`), and that scans are numbered as they come, so that what a
  resolve goes on with after a pass is newer than what it failed with
  (`Rescanned`), whoever resets or rescans in between. For the cache of modules it
  is that a goroutine that compiles has the mutex and that the module was not
  there when it took it (`Compiling`). The servers' list must have a longest
  length, which a site's answer of finite length has.
- What movy and movish play: while a server's tiers are tried, those that are left
  are in the order of their ranks (`Ordered` in `MovyInv`), which `ByRank` starts
  with and a tier that fails keeps; and a lookup of movish that has won has a
  winner (`MovishInv`), the last value of a loop that keeps the tallest so far.
  `MovyAssumption` has ranks that are numbers and one server at least.

Type correctness (but ResolveFlight's), `CapHolds` of ProxySessions,
`HealsSerialized`, `WindowHolds`, `WarmsBest` and `NothingReturnsHolds` are about
formulas that no run checks for want of room; the theorems hold their place.

Each proof has one step per action, a lemma for each action that changes what the
invariant speaks of, and a common lemma for those that only move a goroutine.
What a record of a goroutine keeps when one field changes is a lemma of its own
(`JoinedRun`, `TriedRun`, `VidRunFields`), and so is how a count changes when one
goroutine comes or goes (`CountGains`, `CountLoses`).

Loops over data. The library's induction theorems take an operator as parameter,
which no prover at hand can instantiate. Where a proof needs induction over the
naturals it uses `Counting` instead: a set of naturals that has 0, and n + 1 with
every n, has them all, as one that it lacks would be a least one (`WFMin` and
`NatLessThanWellFounded`). With it, a loop is a recursive function under a LET: that
there is such a function is shown once for each loop, and then what one turn of it
keeps holds at the end. For the same reason sorting is written as places that are
counted (`ByRank`, `ByRating`), and proved by what the counts are: of the library's
sorting, selecting and folding the provers know nothing.

Only model-checked: liveness (`FlightLands`, `HealersFinish`, `ExpiredSessionsGo`,
`JoinsEnd`, `GoneCallersEnd`, `FetchesEnd`), as the provers know no fairness; and the
violation runs.

The proofs of Renditions and Restarts stand at the end of `ProxySessionsProofs` and
`AccountsProofs`, which extend them too: the subtitles are part of a session, and
the catalog and the block list outlive a process as the accounts do. The two
halves of such a module share no variable; the specifications are told apart by
their names (`SubsSpec`, `DiskSpec`).

## Not modelled, and the plan

Next, of the models: ReadAhead with two sources, for a playlist warmed before a hot
swap that registers its segments after it (`mediaresolver/cache.go:309`).

Not modelled, and why:

- Rate limiter (`internal/server/ratelimit.go`): one critical section per request
  over buckets that share nothing; what is left is arithmetic in floating point.
- Subtitle search (`internal/subtitles/`): a sequence of requests and text
  conversions; Renditions takes what it answers as a list.
- Browser scraping (`mediaresolver/browser.go`): drives a Chrome process through
  third-party pages; the slot it takes is in ResolveFlight.
- The emulated browser interfaces and the cryptography of the engine
  (`cinesrcjs/{runtime,subtle,webapi}.go`): sequential, and about their data.
- HTTP plumbing and configuration: no state of their own. Web pages other than
  `storage.js`: DOM code driven by a media element.
- In the modelled parts: password changes, e-mail and avatars of accounts, the
  measuring of audio (`audio.go`), the dashboard's listing.
