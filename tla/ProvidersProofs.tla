--------------------------- MODULE ProvidersProofs ---------------------------
(***************************************************************************)
(* Safety of what concurrent lookups of vidsrcme and of cinesrc share, for *)
(* any number of lookups, windows, servers, scans and slots, and that what *)
(* movy and movish play is the best they have, whatever is listed; last,   *)
(* the types of everything, the counter of workers included.               *)
(***************************************************************************)
EXTENDS Providers, FiniteSetTheorems, SequenceTheorems, WellFoundedInduction, TLAPS

Places == {"idle"} \cup MovySteps \cup MovishSteps \cup VidSteps \cup CinesrcSteps

AtTyped == at \in [Lookups -> Places]

Scanning == {"scan", "leave", "leave failed"}

\* r.refreshing names a resolve that has not left its scan yet: the next one to ask
\* joins something that is going to end.
ScanIsRunning == refreshing # None => at[refreshing] \in Scanning

JoinedAreLookups == \A r \in Lookups : at[r] = "joined" => run[r].joined \in Lookups

\* Nothing is tried after the second pass, and a batch is never empty.
Rounds ==
    \A r \in Lookups :
        /\ at[r] \in {"batch", "attempts", "pass over"} => run[r].pass < 2
        /\ at[r] = "attempts" => run[r].start <= run[r].servers

\* Scans are numbered as they come; what a resolve goes on with after a pass is newer
\* than what it has failed with.
Rescanned ==
    /\ assets # None => assets.scan <= scans
    /\ \A r \in Lookups :
        /\ run[r].firstPass <= scans
        /\ run[r].pass > 0 /\ assets # None => run[r].firstPass < assets.scan

EngineInv ==
    /\ EngineTypeOK
    /\ OneModuleOpen
    /\ JoinersAreHeard /\ JoinedAreLookups /\ ScanIsRunning
    /\ Rounds
    /\ Rescanned

\* Whoever compiles a module has the mutex, and the module was not there when it was
\* taken.
Compiling ==
    \A k \in Lookups : at[k] = "vid wasm" =>
        /\ wasmMu = k
        /\ vid[k].window = NoWindow \/ vid[k].window \notin Range(wasmCache)

\* A token is asked for, and used, for a candidate that there is.
Asking ==
    \A k \in Lookups : at[k] \in {"vid generate", "vid limited", "vid manifest"} =>
        vid[k].cands # <<>>

VidInv ==
    /\ VidTypeOK /\ wasmCache \in Seq(Windows)
    /\ WasmCacheKept
    /\ Compiling
    /\ Asking

IInv ==
    /\ AtTyped
    /\ VidInv
    /\ EngineInv
    /\ SlotsAreUsed
    /\ OneBrowser

-----------------------------------------------------------------------------
(* Where lookups are *)

\* Lookup k is among the steps S and stays there, and the others stay where they are.
Stays(k, S) ==
    /\ AtTyped'
    /\ at[k] \in S /\ at'[k] \in S
    /\ \A q \in Lookups \ {k} : at'[q] = at[q]

\* No lookup comes to the steps S, goes from there or moves on among them.
Elsewhere(S) == \A q \in Lookups : at'[q] = at[q] \/ (at[q] \notin S /\ at'[q] \notin S)

\* The steps of an action by itself.
Goes(k, S) ==
    /\ at[k] \in S
    /\ at' = at \/ Finish(k) \/ \E s \in S : Go(k, s)

LEMMA GoesStays ==
    ASSUME AtTyped, NEW k \in Lookups, NEW S \in SUBSET Places, Goes(k, S), "idle" \in S
    PROVE  Stays(k, S)
<1>1. CASE at' = at
  BY <1>1 DEF AtTyped, Stays, Goes
<1>2. CASE Finish(k)
  BY <1>2 DEF AtTyped, Stays, Goes, Finish
<1>3. ASSUME NEW s \in S, Go(k, s) PROVE Stays(k, S)
  BY <1>3 DEF AtTyped, Stays, Goes, Go
<1>4. QED
  BY <1>1, <1>2, <1>3 DEF Goes

LEMMA NobodyMoves ==
    ASSUME AtTyped, at' = at, NEW S
    PROVE  AtTyped' /\ Elsewhere(S)
BY DEF AtTyped, Elsewhere

LEMMA StaysElsewhere ==
    ASSUME NEW k \in Lookups, NEW S, NEW T, Stays(k, S), S \cap T = {}
    PROVE  AtTyped' /\ Elsewhere(T)
BY DEF Stays, Elsewhere

MovyPlaces == MovySteps \cup {"idle"}
MovishPlaces == MovishSteps \cup {"idle"}
VidPlaces == VidSteps \cup {"idle"}

LEMMA Apartness ==
    /\ MovyPlaces \cap VidSteps = {} /\ MovyPlaces \cap CinesrcSteps = {}
    /\ MovishPlaces \cap VidSteps = {} /\ MovishPlaces \cap CinesrcSteps = {}
    /\ VidPlaces \cap CinesrcSteps = {}
    /\ CinesrcSteps \cap VidSteps = {} /\ "idle" \notin VidSteps
    /\ EngineSteps \cap WorkerSteps = {}
<1>1. /\ MovyPlaces \cap VidSteps = {} /\ MovishPlaces \cap VidSteps = {} /\ "idle" \notin VidSteps
  BY DEF MovyPlaces, MovySteps, MovishPlaces, MovishSteps, VidSteps
<1>2. MovyPlaces \cap CinesrcSteps = {}
  BY DEF MovyPlaces, MovySteps, CinesrcSteps, EngineSteps, WorkerSteps
<1>3. MovishPlaces \cap CinesrcSteps = {}
  BY DEF MovishPlaces, MovishSteps, CinesrcSteps, EngineSteps, WorkerSteps
<1>4. VidPlaces \cap CinesrcSteps = {} /\ CinesrcSteps \cap VidSteps = {}
  BY DEF VidPlaces, VidSteps, CinesrcSteps, EngineSteps, WorkerSteps
<1>5. EngineSteps \cap WorkerSteps = {}
  BY DEF EngineSteps, WorkerSteps
<1>6. QED
  BY <1>1, <1>2, <1>3, <1>4, <1>5

LEMMA PlacesOfProviders ==
    /\ MovyPlaces \subseteq Places /\ "idle" \in MovyPlaces
    /\ MovishPlaces \subseteq Places /\ "idle" \in MovishPlaces
    /\ VidPlaces \subseteq Places /\ "idle" \in VidPlaces
BY DEF Places, MovyPlaces, MovishPlaces, VidPlaces

\* Of the two providers that share nothing it is enough where their steps lead.
LEMMA MovyMoves ==
    ASSUME AtTyped, NEW k \in Lookups, MovyStep(k)
    PROVE  Stays(k, MovyPlaces)
<1>1. SUFFICES Goes(k, MovyPlaces)
  BY <1>1, GoesStays, PlacesOfProviders
<1> USE DEF MovyPlaces, MovySteps, Goes, MovyEnds
<1>2. CASE MovyMeta(k)
  BY <1>2 DEF MovyMeta
<1>3. CASE MovySeed(k)
  BY <1>3 DEF MovySeed, FetchMovySeed
<1>4. CASE MovySources(k)
  <2>1. at[k] \in MovyPlaces
    BY <1>4 DEF MovySources
  <2>2. Go(k, "movy tiers") \/ Go(k, "movy refresh") \/ Go(k, "movy sources") \/ Finish(k)
    BY <1>4, Zenon DEF MovySources, NextMovyServer
  <2>3. QED
    BY <2>1, <2>2
<1>5. CASE MovyRefresh(k)
  BY <1>5 DEF MovyRefresh, FetchMovySeed, NextMovyServer
<1>6. CASE MovyTier(k)
  BY <1>6 DEF MovyTier, NextMovyServer, common
<1>7. CASE MovyAccept(k)
  BY <1>7 DEF MovyAccept
<1>8. QED
  BY <1>2, <1>3, <1>4, <1>5, <1>6, <1>7 DEF MovyStep

LEMMA MovishMoves ==
    ASSUME AtTyped, NEW k \in Lookups, MovishStep(k)
    PROVE  Stays(k, MovishPlaces)
<1>1. SUFFICES Goes(k, MovishPlaces)
  BY <1>1, GoesStays, PlacesOfProviders
<1> USE DEF MovishPlaces, MovishSteps, Goes, MovishEnds
<1>2. CASE MovishSources(k)
  BY <1>2 DEF MovishSources
<1>3. CASE MovishPick(k)
  BY <1>3 DEF MovishPick
<1>4. CASE MovishAccept(k)
  BY <1>4 DEF MovishAccept
<1>5. CASE VixsrcFetch(k)
  <2>1. DOMAIN VixsrcNext = {"vixsrc api", "vixsrc embed", "vixsrc master"}
    BY DEF VixsrcNext
  <2>2. \A s \in DOMAIN VixsrcNext : s \in MovishPlaces /\ VixsrcNext[s] \in MovishPlaces
    BY DEF VixsrcNext
  <2>3. at[k] \in DOMAIN VixsrcNext /\ (Finish(k) \/ Go(k, VixsrcNext[at[k]]))
    BY <1>5, Zenon DEF VixsrcFetch
  <2>4. QED
    BY <2>2, <2>3 DEF Goes
<1>6. CASE VixsrcAccept(k)
  BY <1>6 DEF VixsrcAccept
<1>7. ASSUME NEW i \in 1..Servers, MovishProbe(k, i) PROVE Goes(k, MovishPlaces)
  BY <1>7 DEF MovishProbe, common
<1>8. QED
  BY <1>2, <1>3, <1>4, <1>5, <1>6, <1>7 DEF MovishStep

-----------------------------------------------------------------------------
(* Vidsrcme: the cache of modules *)

LEMMA RemovedAt ==
    ASSUME NEW S, NEW c \in Seq(S), NEW n \in Nat, n = Len(c), NEW i \in 1..n
    PROVE  /\ RemoveAt(c, i) \in Seq(S) /\ Len(RemoveAt(c, i)) = n - 1
           /\ \A j \in 1..(n - 1) : RemoveAt(c, i)[j] = IF j < i THEN c[j] ELSE c[j + 1]
<1> DEFINE front == SubSeq(c, 1, i - 1)
           back == SubSeq(c, i + 1, n)
           m == i - 1
<1>1. \A j \in 1..n : c[j] \in S
  BY ElementOfSeq
<1>2. /\ front \in Seq(S) /\ Len(front) = IF 1 <= i - 1 THEN i - 1 - 1 + 1 ELSE 0
      /\ \A j \in 1..(i - 1 - 1 + 1) : front[j] = c[1 + j - 1]
  BY <1>1, SubSeqProperties
<1>3. /\ back \in Seq(S) /\ Len(back) = IF i + 1 <= n THEN n - (i + 1) + 1 ELSE 0
      /\ \A j \in 1..(n - (i + 1) + 1) : back[j] = c[i + 1 + j - 1]
  BY <1>1, SubSeqProperties
<1> HIDE DEF front, back
<1>4. m \in Nat /\ n - i \in Nat /\ m + (n - i) = n - 1
  OBVIOUS
<1>5. Len(front) = m /\ \A j \in 1..m : front[j] = c[j]
  BY <1>2
<1>6. Len(back) = n - i
  BY <1>3
<1>7. ASSUME NEW j \in 1..(n - i) PROVE back[j] = c[i + j]
  <2>1. j \in 1..(n - (i + 1) + 1) /\ i + 1 + j - 1 = i + j
    OBVIOUS
  <2>2. QED
    BY <1>3, <2>1
<1> DEFINE rest == front \o back
<1>8. /\ rest \in Seq(S) /\ Len(rest) = Len(front) + Len(back)
      /\ \A j \in 1..(Len(front) + Len(back)) :
            rest[j] = IF j <= Len(front) THEN front[j] ELSE back[j - Len(front)]
  BY <1>2, <1>3, ConcatProperties
<1> HIDE DEF rest, m
<1>9. Len(rest) = n - 1 /\ \A j \in 1..(n - 1) : rest[j] = IF j <= m THEN front[j] ELSE back[j - m]
  BY <1>4, <1>5, <1>6, <1>8
<1>10. ASSUME NEW j \in 1..(n - 1) PROVE rest[j] = IF j < i THEN c[j] ELSE c[j + 1]
  <2>1. CASE j < i
    <3>1. j <= m /\ j \in 1..m
      BY <2>1 DEF m
    <3>2. QED
      BY <1>5, <1>9, <2>1, <3>1
  <2>2. CASE ~(j < i)
    <3>1. ~(j <= m) /\ j - m \in 1..(n - i) /\ i + (j - m) = j + 1
      BY <2>2 DEF m
    <3>2. QED
      BY <1>7, <1>9, <2>2, <3>1
  <2>3. QED
    BY <2>1, <2>2
<1>11. RemoveAt(c, i) = rest
  BY DEF RemoveAt, rest, front, back
<1>12. QED
  BY <1>8, <1>9, <1>10, <1>11

\* What has moved to the end is still there once.
LEMMA MovedLast ==
    ASSUME NEW n \in Nat, NEW c, NEW u, NEW i \in 1..n,
           \A j, k \in 1..n : c[j] = c[k] => j = k,
           \A j \in 1..(n - 1) : u[j] = IF j < i THEN c[j] ELSE c[j + 1],
           u[n] = c[i]
    PROVE  \A j, k \in 1..n : u[j] = u[k] => j = k
<1> DEFINE from(j) == IF j = n THEN i ELSE IF j < i THEN j ELSE j + 1
<1>1. \A j \in 1..n : from(j) \in 1..n /\ u[j] = c[from(j)]
  OBVIOUS
<1>2. \A j, k \in 1..n : from(j) = from(k) => j = k
  OBVIOUS
<1> HIDE DEF from
<1>3. QED
  BY <1>1, <1>2

\* Using a module puts it last; the ones behind it move up.
LEMMA UsedKeeps ==
    ASSUME NEW cache \in Seq(Windows), NEW w \in Range(cache), IsInjective(cache)
    PROVE  /\ Used(cache, w) \in Seq(Windows) /\ Len(Used(cache, w)) = Len(cache)
           /\ IsInjective(Used(cache, w))
<1> DEFINE i == CHOOSE j \in DOMAIN cache : cache[j] = w
           rest == RemoveAt(cache, i)
           used == Append(rest, w)
<1>1. PICK n \in Nat : n = Len(cache) /\ DOMAIN cache = 1..n
  BY LenProperties
<1>2. w \in Windows
  BY RangeOfSeq
<1>3. i \in 1..n /\ cache[i] = w
  BY <1>1 DEF Range
<1> HIDE DEF i, rest, used
<1>4. /\ rest \in Seq(Windows) /\ Len(rest) = n - 1
      /\ \A j \in 1..(n - 1) : rest[j] = IF j < i THEN cache[j] ELSE cache[j + 1]
  <2>1. i \in 1..Len(cache) /\ Len(cache) \in Nat
    BY <1>1, <1>3
  <2>2. /\ rest \in Seq(Windows) /\ Len(rest) = Len(cache) - 1
        /\ \A j \in 1..(Len(cache) - 1) : rest[j] = IF j < i THEN cache[j] ELSE cache[j + 1]
    BY <2>1, RemovedAt, Zenon DEF rest
  <2>3. QED
    BY <1>1, <2>2
<1>5. /\ used \in Seq(Windows) /\ Len(used) = Len(rest) + 1
      /\ \A j \in 1..Len(rest) : used[j] = rest[j]
      /\ used[Len(rest) + 1] = w
  <2>1. rest \in Seq(Windows)
    BY <1>4
  <2>2. QED
    BY <1>2, <2>1, AppendProperties DEF used
<1>6. /\ Len(used) = n /\ used[n] = cache[i]
      /\ \A j \in 1..(n - 1) : used[j] = IF j < i THEN cache[j] ELSE cache[j + 1]
  BY <1>3, <1>4, <1>5
<1>7. \A j, k \in 1..n : cache[j] = cache[k] => j = k
  BY <1>1 DEF IsInjective
<1>8. \A j, k \in 1..n : used[j] = used[k] => j = k
  BY <1>3, <1>6, <1>7, MovedLast
<1>9. DOMAIN used = 1..n
  BY <1>5, <1>6, LenProperties
<1>10. Used(cache, w) = used
  BY DEF Used, used, rest, i
<1>11. QED
  BY <1>1, <1>5, <1>6, <1>8, <1>9, <1>10 DEF IsInjective

\* A module that is not there comes last, and the first makes room for it.
LEMMA KeptKeeps ==
    ASSUME NEW cache \in Seq(Windows), NEW w \in Windows, w \notin Range(cache),
           IsInjective(cache), Len(cache) <= WasmCacheMax
    PROVE  /\ Kept(cache, w) \in Seq(Windows) /\ Len(Kept(cache, w)) <= WasmCacheMax
           /\ IsInjective(Kept(cache, w))
<1> DEFINE rest == IF Len(cache) >= WasmCacheMax THEN Tail(cache) ELSE cache
           off == IF Len(cache) >= WasmCacheMax THEN 1 ELSE 0
           kept == Append(rest, w)
<1>1. DOMAIN cache = 1..Len(cache) /\ Len(cache) \in Nat /\ WasmCacheMax \in Nat \ {0}
  BY LenProperties, VidAssumption
<1>2. \A j \in 1..Len(cache) : cache[j] # w
  BY <1>1 DEF Range
<1>3. /\ rest \in Seq(Windows) /\ Len(rest) = Len(cache) - off /\ Len(rest) \in Nat
      /\ \A j \in 1..Len(rest) : rest[j] = cache[j + off] /\ j + off \in 1..Len(cache)
      /\ Len(rest) < WasmCacheMax
  <2>1. CASE Len(cache) >= WasmCacheMax
    <3>1. cache # <<>>
      BY <1>1, <2>1
    <3>2. QED
      BY <1>1, <2>1, <3>1, HeadTailProperties
  <2>2. CASE Len(cache) < WasmCacheMax
    BY <1>1, <2>2
  <2>3. QED
    BY <1>1, <2>1, <2>2
<1> HIDE DEF rest
<1>4. /\ kept \in Seq(Windows) /\ Len(kept) = Len(rest) + 1
      /\ \A j \in 1..Len(rest) : kept[j] = rest[j]
      /\ kept[Len(rest) + 1] = w
  BY <1>3, AppendProperties
<1> HIDE DEF kept, off
<1>5. DOMAIN kept = 1..(Len(rest) + 1)
  BY <1>4, LenProperties
<1>6. off \in Nat
  BY DEF off
<1>7. ASSUME NEW j \in DOMAIN kept, NEW k \in DOMAIN kept, kept[j] = kept[k] PROVE j = k
  <2>1. CASE j \in 1..Len(rest) /\ k \in 1..Len(rest)
    <3>1. cache[j + off] = cache[k + off] /\ j + off \in DOMAIN cache /\ k + off \in DOMAIN cache
      BY <1>1, <1>3, <1>4, <1>7, <2>1
    <3>2. j + off = k + off
      BY <3>1 DEF IsInjective
    <3>3. QED
      BY <1>6, <2>1, <3>2
  <2>2. CASE j = Len(rest) + 1 /\ k \in 1..Len(rest)
    BY <1>2, <1>3, <1>4, <1>7, <2>2
  <2>3. CASE k = Len(rest) + 1 /\ j \in 1..Len(rest)
    BY <1>2, <1>3, <1>4, <1>7, <2>3
  <2>4. QED
    BY <1>3, <1>5, <2>1, <2>2, <2>3
<1>8. Kept(cache, w) = kept
  BY DEF Kept, kept, rest
<1>9. QED
  BY <1>1, <1>3, <1>4, <1>7, <1>8 DEF IsInjective

-----------------------------------------------------------------------------
(* Vidsrcme: the lookups *)

LEMMA CandsAreSeqs ==
    UNION {[1..n -> Origins] : n \in 0..2} = {c \in Seq(Origins) : Len(c) <= 2}
<1>1. Seq(Origins) = UNION {[1..n -> Origins] : n \in Nat}
  BY SeqDef
<1>2. ASSUME NEW n \in Nat, NEW c \in [1..n -> Origins]
      PROVE  c \in Seq(Origins) /\ Len(c) = n
  BY <1>1, <1>2, LenProperties
<1>3. \A c \in Seq(Origins) : Len(c) \in Nat /\ c \in [1..Len(c) -> Origins]
  BY LenProperties
<1>4. ASSUME NEW n \in 0..2, NEW c \in [1..n -> Origins] PROVE c \in Seq(Origins) /\ Len(c) <= 2
  <2>1. n \in Nat /\ n <= 2
    OBVIOUS
  <2>2. c \in Seq(Origins) /\ Len(c) = n
    BY <1>2, <2>1
  <2>3. QED
    BY <2>1, <2>2
<1>5. ASSUME NEW c \in Seq(Origins), Len(c) <= 2 PROVE \E n \in 0..2 : c \in [1..n -> Origins]
  <2>1. PICK n \in Nat : n = Len(c)
    BY <1>3
  <2>2. n \in 0..2
    BY <1>5, <2>1
  <2>3. QED
    BY <1>3, <2>1, <2>2
<1>6. QED
  BY <1>4, <1>5

LEMMA VidRunFields ==
    /\ NoVidRun \in VidRun /\ NoVidRun.cands = <<>>
    /\ \A e \in VidRun : \A w \in Windows \cup {NoWindow} :
          [e EXCEPT !.window = w] \in VidRun /\ [e EXCEPT !.window = w].window = w
    /\ \A n \in 1..2 : \A c \in [1..n -> Origins] : [NoVidRun EXCEPT !.cands = c] \in VidRun
    /\ \A e \in VidRun : e.window \in Windows \cup {NoWindow}
<1>1. <<>> \in UNION {[1..n -> Origins] : n \in 0..2}
  BY CandsAreSeqs, EmptySeq
<1>2. QED
  BY <1>1 DEF VidRun, NoVidRun

LEMMA NextCand ==
    ASSUME NEW e \in VidRun, e.cands # <<>>
    PROVE  [e EXCEPT !.cands = Tail(@)] \in VidRun
<1>1. e.cands \in Seq(Origins) /\ Len(e.cands) <= 2
  BY CandsAreSeqs DEF VidRun
<1>2. Tail(e.cands) \in Seq(Origins) /\ Len(Tail(e.cands)) <= 2
  BY <1>1, HeadTailProperties, LenProperties
<1>3. Tail(e.cands) \in UNION {[1..n -> Origins] : n \in 0..2}
  BY <1>2, CandsAreSeqs
<1>4. QED
  BY <1>3 DEF VidRun

LEMMA VidMoves ==
    ASSUME AtTyped, NEW k \in Lookups, VidStep(k)
    PROVE  Stays(k, VidPlaces)
<1>1. SUFFICES Goes(k, VidPlaces)
  BY <1>1, GoesStays, PlacesOfProviders
<1> USE DEF VidPlaces, VidSteps, Goes, VidEnds, Use, NextCandidate
<1>2. CASE VidApi(k)
  BY <1>2 DEF VidApi
<1>3. CASE VidLock(k)
  BY <1>3 DEF VidLock
<1>4. CASE VidCompile(k)
  BY <1>4 DEF VidCompile
<1>5. CASE VidDecrypt(k)
  BY <1>5 DEF VidDecrypt
<1>6. CASE VidToken(k)
  BY <1>6 DEF VidToken
<1>7. CASE VidGenerate(k)
  <2>1. at[k] \in VidPlaces
    BY <1>7 DEF VidGenerate
  <2>2. Go(k, "vid manifest") \/ Go(k, "vid limited") \/ Go(k, "vid token")
    BY <1>7, Zenon DEF VidGenerate
  <2>3. QED
    BY <2>1, <2>2
<1>8. CASE VidLimited(k)
  BY <1>8 DEF VidLimited
<1>9. CASE VidManifest(k)
  BY <1>9 DEF VidManifest
<1>10. CASE VidAccept(k)
  BY <1>10 DEF VidAccept
<1>11. QED
  BY <1>2, <1>3, <1>4, <1>5, <1>6, <1>7, <1>8, <1>9, <1>10 DEF VidStep

\* A lookup that is not in the download goes on, and leaves the modules alone.
LEMMA CacheStays ==
    ASSUME VidInv, NEW k \in Lookups, Stays(k, VidPlaces),
           "vid wasm" \notin {at[k], at'[k]},
           UNCHANGED <<wasmMu, wasmCache>>,
           cdnToken' \in [Origins -> {"none", "fresh", "expired"}],
           NEW e \in VidRun, vid' = [vid EXCEPT ![k] = e],
           at'[k] \in {"vid generate", "vid limited", "vid manifest"} => e.cands # <<>>
    PROVE  VidInv'
<1>1. vid' \in [Lookups -> VidRun] /\ vid'[k] = e /\ \A q \in Lookups \ {k} : vid'[q] = vid[q]
  BY DEF VidInv, VidTypeOK
<1>2. VidTypeOK' /\ (wasmCache \in Seq(Windows))'
  BY <1>1 DEF VidInv, VidTypeOK
<1>3. \A q \in Lookups : at[q] = "vid wasm" <=> at'[q] = "vid wasm"
  BY DEF Stays
<1>4. WasmCacheKept'
  BY <1>3 DEF VidInv, VidTypeOK, WasmCacheKept, MutexIsDownload, OneModulePerWindow
<1>5. Compiling'
  BY <1>1, <1>3 DEF VidInv, Compiling
<1>6. Asking'
  BY <1>1 DEF VidInv, Asking, Stays
<1>7. QED
  BY <1>2, <1>4, <1>5, <1>6 DEF VidInv

\* Nobody compiles while the mutex is free.
LEMMA FreeMutex ==
    ASSUME VidInv, wasmMu = NoWindow, NEW q \in Lookups
    PROVE  at[q] # "vid wasm"
BY VidAssumption DEF VidInv, Compiling

LEMMA VidKeepsInv ==
    ASSUME AtTyped, VidInv, NEW k \in Lookups, VidStep(k)
    PROVE  VidInv'
<1>1. Stays(k, VidPlaces)
  BY VidMoves
<1>2. vid[k] \in VidRun /\ cdnToken \in [Origins -> {"none", "fresh", "expired"}]
      /\ k \in DOMAIN vid /\ k \in DOMAIN at /\ vid \in [Lookups -> VidRun]
  BY DEF VidInv, VidTypeOK, AtTyped
<1>3. \A q \in Lookups : at'[q] = IF q = k THEN at'[k] ELSE at[q]
  BY <1>1 DEF Stays
<1>4. ASSUME NEW s, Go(k, s) PROVE at'[k] = s
  BY <1>2, <1>4 DEF Go
<1>5. ASSUME Finish(k) PROVE at'[k] = "idle"
  BY <1>2, <1>5 DEF Finish
<1> DEFINE Idle == at[k] # "vid wasm" /\ UNCHANGED <<wasmMu, wasmCache>>
                   /\ cdnToken' \in [Origins -> {"none", "fresh", "expired"}]
           NeedsOne == {"vid generate", "vid limited", "vid manifest"}
<1>e. ASSUME Idle, VidEnds(k) PROVE VidInv'
  BY <1>1, <1>5, <1>e, VidRunFields, CacheStays DEF VidEnds
<1>s. ASSUME Idle, NEW s \in VidPlaces \ {"vid wasm"}, Go(k, s), vid' = vid,
             s \in NeedsOne => vid[k].cands # <<>>
      PROVE  VidInv'
  <2>1. vid' = [vid EXCEPT ![k] = vid[k]] /\ at'[k] = s
    BY <1>2, <1>4, <1>s
  <2>2. QED
    BY <1>1, <1>2, <1>s, <2>1, CacheStays
<1>n. ASSUME Idle, NextCandidate(k), vid[k].cands # <<>> PROVE VidInv'
  <2>1. vid' = [vid EXCEPT ![k] = [vid[k] EXCEPT !.cands = Tail(@)]] /\ at'[k] = "vid token"
    BY <1>2, <1>4, <1>n DEF NextCandidate
  <2>2. QED
    BY <1>1, <1>2, <1>n, <2>1, NextCand, CacheStays
<1>6. CASE VidApi(k)
  <2>1. Idle
    BY <1>2, <1>6 DEF VidApi
  <2>2. CASE Go(k, "vid lock") /\ \E w \in Windows \cup {NoWindow} : vid' = [vid EXCEPT ![k].window = w]
    <3>1. PICK w \in Windows \cup {NoWindow} : vid' = [vid EXCEPT ![k] = [vid[k] EXCEPT !.window = w]]
      BY <2>2
    <3>2. at'[k] = "vid lock"
      BY <1>4, <2>2
    <3>3. [vid[k] EXCEPT !.window = w] \in VidRun
      BY <1>2, VidRunFields
    <3>4. QED
      BY <1>1, <2>1, <3>1, <3>2, <3>3, CacheStays
  <2>3. CASE VidEnds(k)
    BY <1>e, <2>1, <2>3
  <2>4. QED
    BY <1>6, <2>2, <2>3 DEF VidApi
<1>7. CASE VidLock(k)
  <2> DEFINE w == vid[k].window
  <2>1. /\ at[k] = "vid lock" /\ wasmMu = NoWindow /\ vid' = vid /\ cdnToken' = cdnToken
        /\ w \in Windows \cup {NoWindow}
    BY <1>2, <1>7, VidRunFields DEF VidLock
  <2>2. \A q \in Lookups : at[q] # "vid wasm"
    BY <2>1, FreeMutex
  <2>3. CASE w # NoWindow /\ w \in Range(wasmCache)
    <3>1. wasmCache' = Used(wasmCache, w) /\ Go(k, "vid decrypt") /\ wasmMu' = wasmMu
      BY <1>7, <2>3 DEF VidLock
    <3>2. /\ wasmCache' \in Seq(Windows) /\ Len(wasmCache') = Len(wasmCache)
          /\ IsInjective(wasmCache')
      BY <2>3, <3>1, UsedKeeps DEF VidInv, WasmCacheKept, OneModulePerWindow
    <3>3. \A q \in Lookups : at'[q] # "vid wasm"
      BY <1>3, <1>4, <2>2, <3>1
    <3>4. VidTypeOK'
      BY <2>1, <3>1, <3>2, RangeOfSeq DEF VidInv, VidTypeOK
    <3>5. WasmCacheKept'
      BY <2>1, <3>1, <3>2 DEF VidInv, WasmCacheKept, MutexIsDownload, OneModulePerWindow
    <3>6. Asking'
      BY <1>3, <1>4, <2>1, <3>1 DEF VidInv, Asking
    <3>7. QED
      BY <3>2, <3>3, <3>4, <3>5, <3>6 DEF VidInv, Compiling
  <2>4. CASE ~(w # NoWindow /\ w \in Range(wasmCache))
    <3>1. wasmMu' = k /\ Go(k, "vid wasm") /\ wasmCache' = wasmCache
      BY <1>7, <2>4 DEF VidLock
    <3>2. at'[k] = "vid wasm"
      BY <1>4, <3>1
    <3>3. VidTypeOK'
      BY <2>1, <3>1 DEF VidInv, VidTypeOK
    <3>4. WasmCacheKept'
      BY <3>1, <3>2 DEF VidInv, WasmCacheKept, MutexIsDownload, OneModulePerWindow
    <3>5. Compiling'
      BY <1>3, <2>1, <2>2, <2>4, <3>1 DEF Compiling
    <3>6. Asking'
      BY <1>3, <2>1, <3>2 DEF VidInv, Asking
    <3>7. QED
      BY <3>1, <3>3, <3>4, <3>5, <3>6 DEF VidInv
  <2>5. QED
    BY <2>3, <2>4
<1>8. CASE VidCompile(k)
  <2> DEFINE w == vid[k].window
  <2>1. at[k] = "vid wasm" /\ wasmMu' = NoWindow /\ cdnToken' = cdnToken
    BY <1>8 DEF VidCompile
  <2>2. wasmMu = k /\ (w = NoWindow \/ w \notin Range(wasmCache)) /\ w \in Windows \cup {NoWindow}
    BY <1>2, <2>1, VidRunFields DEF VidInv, Compiling
  <2>3. at'[k] \in {"vid decrypt", "idle"} /\ vid' \in [Lookups -> VidRun]
        /\ \A q \in Lookups \ {k} : vid'[q] = vid[q]
    <3>1. CASE Go(k, "vid decrypt") /\ vid' = vid
      BY <1>2, <1>4, <3>1
    <3>2. CASE VidEnds(k)
      BY <1>2, <1>5, <3>2, VidRunFields DEF VidEnds
    <3>3. QED
      BY <1>8, <3>1, <3>2 DEF VidCompile
  <2>4. \A q \in Lookups : at'[q] # "vid wasm"
    BY <1>3, <2>2, <2>3 DEF VidInv, Compiling
  <2>5. /\ wasmCache' \in Seq(Windows) /\ Len(wasmCache') <= WasmCacheMax
        /\ IsInjective(wasmCache')
    <3>1. CASE wasmCache' = wasmCache
      BY <3>1 DEF VidInv, WasmCacheKept, OneModulePerWindow
    <3>2. CASE w # NoWindow /\ wasmCache' = Kept(wasmCache, w)
      BY <2>2, <3>2, KeptKeeps DEF VidInv, WasmCacheKept, OneModulePerWindow
    <3>3. QED
      BY <1>8, <3>1, <3>2 DEF VidCompile
  <2>6. VidTypeOK'
    BY <1>2, <2>1, <2>3, <2>5, RangeOfSeq DEF VidTypeOK
  <2>7. WasmCacheKept'
    BY <2>1, <2>5 DEF WasmCacheKept, MutexIsDownload, OneModulePerWindow
  <2>8. Asking'
    BY <1>3, <2>3 DEF VidInv, Asking
  <2>9. QED
    BY <2>4, <2>5, <2>6, <2>7, <2>8 DEF VidInv, Compiling
<1>9. CASE VidDecrypt(k)
  <2>1. Idle
    BY <1>2, <1>9 DEF VidDecrypt
  <2>2. ASSUME NEW n \in 1..2, NEW c \in [1..n -> Origins],
               vid' = [vid EXCEPT ![k] = [NoVidRun EXCEPT !.cands = c]], Go(k, "vid token")
        PROVE  VidInv'
    <3>1. [NoVidRun EXCEPT !.cands = c] \in VidRun /\ at'[k] = "vid token"
      BY <1>4, <2>2, VidRunFields
    <3>2. QED
      BY <1>1, <2>1, <2>2, <3>1, CacheStays
  <2>3. CASE VidEnds(k)
    BY <1>e, <2>1, <2>3
  <2>4. QED
    BY <1>9, <2>2, <2>3 DEF VidDecrypt
<1>10. CASE VidToken(k)
  <2>1. Idle
    BY <1>2, <1>10 DEF VidToken
  <2>2. \/ VidEnds(k)
        \/ vid[k].cands # <<>> /\ vid' = vid /\ (Go(k, "vid manifest") \/ Go(k, "vid generate"))
    BY <1>10, Zenon DEF VidToken, Use
  <2>3. QED
    BY <1>e, <1>s, <2>1, <2>2 DEF VidPlaces, VidSteps
<1>11. CASE VidGenerate(k)
  <2>1. Idle
    BY <1>2, <1>11 DEF VidGenerate
  <2>2. vid[k].cands # <<>>
    BY <1>11 DEF VidGenerate, VidInv, Asking
  <2>3. \/ vid' = vid /\ (Go(k, "vid manifest") \/ Go(k, "vid limited"))
        \/ NextCandidate(k)
    BY <1>11, Zenon DEF VidGenerate, Use
  <2>4. QED
    BY <1>s, <1>n, <2>1, <2>2, <2>3 DEF VidPlaces, VidSteps
<1>12. CASE VidLimited(k)
  <2>1. Idle
    BY <1>2, <1>12 DEF VidLimited
  <2>2. vid[k].cands # <<>>
    BY <1>12 DEF VidLimited, VidInv, Asking
  <2>3. (vid' = vid /\ Go(k, "vid manifest")) \/ NextCandidate(k)
    BY <1>12, Zenon DEF VidLimited, Use
  <2>4. QED
    BY <1>s, <1>n, <2>1, <2>2, <2>3 DEF VidPlaces, VidSteps
<1>13. CASE VidManifest(k)
  <2>1. Idle
    BY <1>2, <1>13 DEF VidManifest
  <2>2. vid[k].cands # <<>>
    BY <1>13 DEF VidManifest, VidInv, Asking
  <2>3. (vid' = vid /\ Go(k, "vid won")) \/ NextCandidate(k)
    BY <1>13, Zenon DEF VidManifest
  <2>4. QED
    BY <1>s, <1>n, <2>1, <2>2, <2>3 DEF VidPlaces, VidSteps
<1>14. CASE VidAccept(k)
  <2>1. Idle /\ VidEnds(k)
    BY <1>2, <1>14 DEF VidAccept
  <2>2. QED
    BY <1>e, <2>1
<1>15. QED
  BY <1>6, <1>7, <1>8, <1>9, <1>10, <1>11, <1>12, <1>13, <1>14 DEF VidStep

LEMMA VidInvElsewhere ==
    ASSUME VidInv, Elsewhere(VidSteps), UNCHANGED vidVars
    PROVE  VidInv'
<1>1. \A q \in Lookups : \A s \in VidSteps : at[q] = s <=> at'[q] = s
  BY DEF Elsewhere
<1>2. UNCHANGED <<wasmMu, wasmCache, cdnToken, vid>>
  BY DEF vidVars
<1>3. VidTypeOK' /\ OneModulePerWindow' /\ (wasmCache \in Seq(Windows))'
  BY <1>2 DEF VidInv, VidTypeOK, WasmCacheKept, OneModulePerWindow
<1>4. MutexIsDownload'
  BY <1>1, <1>2 DEF VidInv, VidTypeOK, WasmCacheKept, MutexIsDownload, VidSteps
<1>5. Compiling'
  BY <1>1, <1>2 DEF VidInv, Compiling, VidSteps
<1>6. Asking'
  BY <1>1, <1>2 DEF VidInv, Asking, VidSteps
<1>7. QED
  BY <1>2, <1>3, <1>4, <1>5, <1>6 DEF VidInv, WasmCacheKept

\* Tokens come and go, and say nothing about the modules.
LEMMA TokensAge ==
    ASSUME VidInv, (\E o \in Origins : TokenExpires(o)) \/ EvictExpired
    PROVE  VidInv' /\ at' = at
<1>1. UNCHANGED <<wasmMu, wasmCache, vid, at>>
  BY DEF TokenExpires, EvictExpired, common
<1>2. cdnToken' \in [Origins -> {"none", "fresh", "expired"}]
  BY DEF TokenExpires, EvictExpired, VidInv, VidTypeOK
<1>3. QED
  BY <1>1, <1>2 DEF VidInv, VidTypeOK, WasmCacheKept, MutexIsDownload, OneModulePerWindow,
                    Compiling, Asking

-----------------------------------------------------------------------------
(* The records of a resolve by the engine *)

LEMMA LongestList ==
    /\ MaxServers \in ListLengths /\ MaxServers \in Nat /\ MaxServers >= 1
    /\ \A n \in ListLengths : n \in Nat /\ n >= 1 /\ n <= MaxServers
<1>1. MaxServers \in ListLengths /\ \A n \in ListLengths : MaxServers >= n
  <2>1. \E x \in ListLengths : \A n \in ListLengths : x >= n
    BY EngineAssumption
  <2>2. QED
    BY <2>1 DEF MaxServers, Max
<1>2. QED
  BY <1>1, EngineAssumption

LEMMA RunFields ==
    ASSUME NEW e \in EngineRun
    PROVE  /\ e.joined \in Lookups \cup {None} /\ e.pass \in 0..2
           /\ e.start \in 1..(MaxServers + ServerParallelism)
           /\ e.servers \in {0} \cup ListLengths
           /\ e.try \in [1..MaxServers -> Attempt] /\ e.firstPass \in {0} \cup Scans
BY DEF EngineRun

LEMMA RunNumbers ==
    ASSUME NEW e \in EngineRun
    PROVE  /\ e.start \in Nat /\ e.start >= 1 /\ e.pass \in Nat
           /\ e.servers \in Nat /\ e.servers <= MaxServers
<1>1. PICK m \in Nat : m = MaxServers
  BY LongestList
<1>2. PICK p \in Nat : p = ServerParallelism
  BY EngineAssumption
<1>3. e.start \in 1..(m + p)
  BY <1>1, <1>2, RunFields
<1>4. e.servers = 0 \/ e.servers \in ListLengths
  BY RunFields
<1>5. e.servers \in Nat /\ e.servers <= MaxServers
  <2>1. CASE e.servers = 0
    BY <1>1, <2>1
  <2>2. CASE e.servers \in ListLengths
    BY <2>2, LongestList
  <2>3. QED
    BY <1>4, <2>1, <2>2
<1>6. e.pass \in 0..2
  BY RunFields
<1>7. QED
  BY <1>3, <1>5, <1>6

LEMMA NoTry == NoEngineRun.try \in [1..MaxServers -> Attempt]
           /\ \A i \in 1..MaxServers : NoEngineRun.try[i].st = "off"
BY DEF NoEngineRun, NoAttempt, Attempt

LEMMA NoRunFields ==
    NoEngineRun \in EngineRun /\ NoEngineRun.pass = 0 /\ NoEngineRun.firstPass = 0
<1>1. 1 \in 1..(MaxServers + ServerParallelism)
  BY LongestList, EngineAssumption
<1>2. NoEngineRun.try \in [1..MaxServers -> Attempt]
  BY NoTry
<1>3. QED
  BY <1>1, <1>2 DEF NoEngineRun, EngineRun, Errors

LEMMA JoinedRun ==
    ASSUME NEW e \in EngineRun, NEW q \in Lookups \cup {None}
    PROVE  /\ [e EXCEPT !.joined = q] \in EngineRun /\ [e EXCEPT !.joined = q].joined = q
           /\ [e EXCEPT !.joined = q].pass = e.pass
           /\ [e EXCEPT !.joined = q].start = e.start
           /\ [e EXCEPT !.joined = q].servers = e.servers
           /\ [e EXCEPT !.joined = q].firstPass = e.firstPass
           /\ [e EXCEPT !.joined = q].try = e.try
BY DEF EngineRun

LEMMA ListedRun ==
    ASSUME NEW e \in EngineRun, NEW n \in ListLengths
    PROVE  /\ [e EXCEPT !.servers = n] \in EngineRun
           /\ [e EXCEPT !.servers = n].pass = e.pass
           /\ [e EXCEPT !.servers = n].firstPass = e.firstPass
           /\ [e EXCEPT !.servers = n].try = e.try
BY DEF EngineRun

LEMMA TriedRun ==
    ASSUME NEW e \in EngineRun, NEW t \in [1..MaxServers -> Attempt]
    PROVE  /\ [e EXCEPT !.try = t] \in EngineRun /\ [e EXCEPT !.try = t].try = t
           /\ [e EXCEPT !.try = t].pass = e.pass
           /\ [e EXCEPT !.try = t].start = e.start
           /\ [e EXCEPT !.try = t].servers = e.servers
           /\ [e EXCEPT !.try = t].firstPass = e.firstPass
BY DEF EngineRun

LEMMA LoadedRun ==
    ASSUME NEW e \in EngineRun, NEW f \in {0} \cup Scans
    PROVE  /\ [e EXCEPT !.firstPass = f] \in EngineRun /\ [e EXCEPT !.firstPass = f].firstPass = f
           /\ [e EXCEPT !.firstPass = f].pass = e.pass
           /\ [e EXCEPT !.firstPass = f].start = e.start
           /\ [e EXCEPT !.firstPass = f].servers = e.servers
           /\ [e EXCEPT !.firstPass = f].try = e.try
BY DEF EngineRun

LEMMA PassedRun ==
    ASSUME NEW p \in 0..2, NEW f \in {0} \cup Scans
    PROVE  /\ [NoEngineRun EXCEPT !.pass = p, !.firstPass = f] \in EngineRun
           /\ [NoEngineRun EXCEPT !.pass = p, !.firstPass = f].pass = p
           /\ [NoEngineRun EXCEPT !.pass = p, !.firstPass = f].firstPass = f
           /\ [NoEngineRun EXCEPT !.pass = p, !.firstPass = f].try = NoEngineRun.try
<1>1. NoEngineRun \in EngineRun
  BY NoRunFields
<1>2. QED
  BY <1>1 DEF EngineRun

\* An attempt that goes on leaves the rest of its resolve alone.
LEMMA AttemptRun ==
    ASSUME NEW e \in EngineRun, NEW i \in 1..MaxServers, NEW a \in Attempt
    PROVE  /\ [e.try EXCEPT ![i] = a] \in [1..MaxServers -> Attempt]
           /\ [e EXCEPT !.try[i] = a] = [e EXCEPT !.try = [e.try EXCEPT ![i] = a]]
<1>1. e.try \in [1..MaxServers -> Attempt]
  BY RunFields
<1>2. QED
  BY <1>1 DEF EngineRun

-----------------------------------------------------------------------------
(* Steps of the engine *)

\* Steps of a scan that joiners wait for, and the others EngineInv speaks of.
WaitedFor == {"scan", "leave", "leave failed", "close", "close failed"}
Watched == WaitedFor \cup {"joined", "batch", "attempts", "pass over"}

OnlyMoves(r) == AtTyped' /\ \A q \in Lookups \ {r} : at'[q] = at[q]

LEMMA GoMoves ==
    ASSUME AtTyped, NEW r \in Lookups, NEW s \in CinesrcSteps, Go(r, s)
    PROVE  OnlyMoves(r) /\ at'[r] = s
<1>1. s \in Places
  BY DEF Places
<1>2. QED
  BY <1>1 DEF AtTyped, OnlyMoves, Go

\* A resolve that nobody waits for goes on by itself.
LEMMA RunGoesOn ==
    ASSUME EngineInv, NEW r \in Lookups, OnlyMoves(r), at[r] \notin WaitedFor,
           NEW e \in EngineRun, run' = [run EXCEPT ![r] = e],
           UNCHANGED <<assets, powOf, powsOpen, refreshing, scans>>,
           providers' \in {0} \cup ListLengths,
           at'[r] = "joined" => e.joined \in Lookups /\ at[e.joined] \in WaitedFor,
           at'[r] \in {"batch", "attempts", "pass over"} => e.pass < 2,
           at'[r] = "attempts" => e.start <= e.servers,
           e.firstPass <= scans,
           e.pass > 0 /\ assets # None => e.firstPass < assets.scan
    PROVE  EngineInv'
<1>1. run' \in [Lookups -> EngineRun] /\ run'[r] = e /\ \A q \in Lookups \ {r} : run'[q] = run[q]
  BY DEF EngineInv, EngineTypeOK
<1>2. EngineTypeOK'
  BY <1>1 DEF EngineInv, EngineTypeOK
<1>3. OneModuleOpen'
  BY DEF EngineInv, OneModuleOpen
<1>4. \A q \in Lookups : at[q] \in WaitedFor => at'[q] = at[q]
  BY DEF OnlyMoves
<1>5. JoinersAreHeard' /\ JoinedAreLookups'
  <2>1. ASSUME NEW q \in Lookups, at'[q] = "joined"
        PROVE  run'[q].joined \in Lookups /\ at[run'[q].joined] \in WaitedFor
    <3>1. CASE q = r
      BY <1>1, <2>1, <3>1
    <3>2. CASE q # r
      BY <1>1, <2>1, <3>2
         DEF OnlyMoves, EngineInv, JoinersAreHeard, JoinedAreLookups, WaitedFor
    <3>3. QED
      BY <3>1, <3>2
  <2>2. QED
    BY <1>4, <2>1 DEF JoinersAreHeard, JoinedAreLookups, WaitedFor
<1>6. ScanIsRunning'
  <2>1. refreshing \in Lookups \cup {None} /\ Scanning \subseteq WaitedFor
    BY DEF EngineInv, EngineTypeOK, Scanning, WaitedFor
  <2>2. QED
    BY <1>4, <2>1 DEF EngineInv, ScanIsRunning
<1>7. Rounds'
  BY <1>1 DEF EngineInv, Rounds, OnlyMoves
<1>8. Rescanned'
  BY <1>1 DEF EngineInv, Rescanned
<1>9. QED
  BY <1>2, <1>3, <1>5, <1>6, <1>7, <1>8 DEF EngineInv

\* The same where the resolve ends or keeps what it has.
LEMMA RunEnds ==
    ASSUME EngineInv, AtTyped, NEW r \in Lookups, at[r] \notin WaitedFor,
           NEW s \in {"found", "failed"}, Ends(r, s),
           UNCHANGED <<assets, powOf, powsOpen, refreshing, scans>>,
           providers' \in {0} \cup ListLengths
    PROVE  EngineInv'
<1>1. OnlyMoves(r) /\ at'[r] = s
  BY GoMoves DEF Ends, CinesrcSteps, EngineSteps
<1>2. run' = [run EXCEPT ![r] = NoEngineRun]
  BY DEF Ends
<1>3. NoEngineRun.firstPass <= scans
  BY NoRunFields DEF EngineInv, EngineTypeOK
<1>4. at'[r] \notin {"joined", "batch", "attempts", "pass over"}
  BY <1>1
<1>5. NoEngineRun \in EngineRun /\ ~(NoEngineRun.pass > 0)
  BY NoRunFields
<1>6. QED
  BY <1>1, <1>2, <1>3, <1>4, <1>5, RunGoesOn

LEMMA RunStays ==
    ASSUME EngineInv, AtTyped, NEW r \in Lookups, at[r] \notin WaitedFor,
           NEW s \in CinesrcSteps \ {"joined", "batch", "attempts", "pass over"}, Go(r, s),
           run' = run, UNCHANGED <<assets, powOf, powsOpen, refreshing, scans, providers>>
    PROVE  EngineInv'
<1>1. OnlyMoves(r) /\ at'[r] = s
  BY GoMoves
<1>2. run[r] \in EngineRun /\ run' = [run EXCEPT ![r] = run[r]] /\ providers' \in {0} \cup ListLengths
  BY DEF EngineInv, EngineTypeOK
<1>3. /\ run[r].firstPass <= scans
      /\ run[r].pass > 0 /\ assets # None => run[r].firstPass < assets.scan
  BY DEF EngineInv, Rescanned
<1>4. QED
  BY <1>1, <1>2, <1>3, RunGoesOn

LEMMA EnsureKeeps ==
    ASSUME EngineInv, AtTyped, NEW r \in Lookups, EnsureAssets(r)
    PROVE  EngineInv'
<1>1. at[r] = "ensure" /\ at[r] \notin WaitedFor
      /\ UNCHANGED <<assets, powOf, powsOpen, scans, providers>>
  BY DEF EnsureAssets, WaitedFor
<1>2. CASE Go(r, "list") /\ UNCHANGED <<refreshing, run>>
  BY <1>1, <1>2, RunStays DEF CinesrcSteps, EngineSteps
<1>3. CASE /\ refreshing # None /\ run' = [run EXCEPT ![r].joined = refreshing]
           /\ Go(r, "joined") /\ UNCHANGED refreshing
  <2>1. OnlyMoves(r) /\ at'[r] = "joined"
    BY <1>3, GoMoves DEF CinesrcSteps, EngineSteps
  <2>2. refreshing \in Lookups /\ at[refreshing] \in WaitedFor
    BY <1>3 DEF EngineInv, EngineTypeOK, ScanIsRunning, Scanning, WaitedFor
  <2>3. run[r] \in EngineRun /\ providers' \in {0} \cup ListLengths
    BY <1>1 DEF EngineInv, EngineTypeOK
  <2> DEFINE e == [run[r] EXCEPT !.joined = refreshing]
  <2>4. /\ e \in EngineRun /\ e.joined = refreshing /\ e.pass = run[r].pass
        /\ e.firstPass = run[r].firstPass
    BY <2>2, <2>3, JoinedRun
  <2>5. run' = [run EXCEPT ![r] = e]
    BY <1>3
  <2> HIDE DEF e
  <2>6. /\ e.firstPass <= scans
        /\ e.pass > 0 /\ assets # None => e.firstPass < assets.scan
    BY <2>4 DEF EngineInv, Rescanned
  <2>7. QED
    BY <1>1, <1>3, <2>1, <2>2, <2>3, <2>4, <2>5, <2>6, RunGoesOn
<1>4. CASE refreshing = None /\ refreshing' = r /\ Go(r, "scan") /\ UNCHANGED run
  <2>1. OnlyMoves(r) /\ at'[r] = "scan"
    BY <1>4, GoMoves DEF CinesrcSteps, EngineSteps
  <2>2. EngineTypeOK'
    BY <1>1, <1>4 DEF EngineInv, EngineTypeOK
  <2>3. OneModuleOpen' /\ Rescanned'
    BY <1>1, <1>4 DEF EngineInv, OneModuleOpen, Rescanned
  <2>4. JoinersAreHeard' /\ JoinedAreLookups'
    BY <1>1, <1>4, <2>1 DEF EngineInv, JoinersAreHeard, JoinedAreLookups, OnlyMoves
  <2>5. ScanIsRunning'
    BY <1>4, <2>1 DEF ScanIsRunning, Scanning
  <2>6. Rounds'
    BY <1>4, <2>1 DEF EngineInv, Rounds, OnlyMoves
  <2>7. QED
    BY <2>2, <2>3, <2>4, <2>5, <2>6 DEF EngineInv
<1>5. QED
  BY <1>2, <1>3, <1>4 DEF EnsureAssets

LEMMA JoinKeeps ==
    ASSUME EngineInv, AtTyped, NEW r \in Lookups, LeaveJoin(r) \/ Woken(r)
    PROVE  EngineInv'
<1>1. /\ at[r] \notin WaitedFor /\ providers' \in {0} \cup ListLengths
      /\ UNCHANGED <<assets, powOf, powsOpen, refreshing, scans, providers>>
  BY DEF LeaveJoin, Woken, WaitedFor, EngineInv, EngineTypeOK
<1>2. CASE Go(r, "list") /\ UNCHANGED run
  BY <1>1, <1>2, RunStays DEF CinesrcSteps, EngineSteps
<1>3. CASE Ends(r, "failed")
  BY <1>1, <1>3, RunEnds
<1>4. QED
  BY <1>2, <1>3 DEF LeaveJoin, Woken

\* A scan goes on: its joiners still wait for it, and what it brings is the newest.
LEMMA ScanGoesOn ==
    ASSUME EngineInv, NEW r \in Lookups, OnlyMoves(r),
           at[r] \in WaitedFor, at'[r] \in WaitedFor,
           refreshing' = None \/ (refreshing' = refreshing /\ at'[r] \in Scanning), run' = run
    PROVE  JoinersAreHeard' /\ JoinedAreLookups' /\ ScanIsRunning' /\ Rounds'
<1>1. \A q \in Lookups : at[q] \in WaitedFor => at'[q] \in WaitedFor
  BY DEF OnlyMoves
<1>2. \A q \in Lookups : at'[q] = "joined" => at[q] = "joined"
  BY DEF OnlyMoves, WaitedFor
<1>3. JoinersAreHeard' /\ JoinedAreLookups'
  BY <1>1, <1>2 DEF EngineInv, JoinersAreHeard, JoinedAreLookups, WaitedFor
<1>4. ScanIsRunning'
  BY DEF EngineInv, EngineTypeOK, ScanIsRunning, OnlyMoves
<1>5. Rounds'
  BY DEF EngineInv, Rounds, OnlyMoves, WaitedFor
<1>6. QED
  BY <1>3, <1>4, <1>5

LEMMA ScanKeeps ==
    ASSUME EngineInv, AtTyped, NEW r \in Lookups, Scan(r)
    PROVE  EngineInv'
<1>1. at[r] = "scan" /\ UNCHANGED <<refreshing, providers, run>>
  BY DEF Scan
<1>2. OnlyMoves(r) /\ at'[r] \in {"leave", "leave failed"}
  <2>1. Go(r, "leave") \/ Go(r, "leave failed")
    BY Zenon DEF Scan, Replace, ScanFails
  <2>2. QED
    BY <2>1, GoMoves DEF CinesrcSteps, EngineSteps
<1>3. JoinersAreHeard' /\ JoinedAreLookups' /\ ScanIsRunning' /\ Rounds'
  BY <1>1, <1>2, ScanGoesOn DEF WaitedFor, Scanning
<1>4. CASE Replace(r) /\ powsOpen' = (powsOpen \ {powOf}) \cup {scans + 1}
  <2>1. /\ scans < MaxScans /\ scans' = scans + 1
        /\ assets' = [scan |-> scans + 1, fresh |-> TRUE] /\ powOf' = scans + 1
    BY <1>4 DEF Replace
  <2>2. scans \in Nat /\ MaxScans \in Nat /\ scans + 1 \in Scans /\ scans' \in 0..MaxScans
    BY <2>1, EngineAssumption DEF EngineInv, EngineTypeOK, Scans
  <2>3. powsOpen' = {scans + 1}
    BY <1>4 DEF EngineInv, OneModuleOpen
  <2>4. EngineTypeOK'
    BY <1>1, <2>1, <2>2, <2>3 DEF EngineInv, EngineTypeOK
  <2>5. assets' # None /\ scans + 1 # None /\ assets'.scan = scans + 1
    <3>1. assets' \in [scan : Nat, fresh : BOOLEAN]
      BY <2>1, <2>2
    <3>2. QED
      BY <2>1, <2>2, <3>1, EngineAssumption
  <2>6. OneModuleOpen'
    BY <2>1, <2>3, <2>5 DEF OneModuleOpen
  <2>7. \A q \in Lookups : run[q].firstPass \in Nat /\ run[q].firstPass <= scans
    <3>1. ASSUME NEW q \in Lookups PROVE run[q].firstPass \in Nat
      <4>1. run[q] \in EngineRun
        BY DEF EngineInv, EngineTypeOK
      <4>2. QED
        BY <4>1, RunFields, EngineAssumption DEF Scans
    <3>2. QED
      BY <3>1 DEF EngineInv, Rescanned
  <2>8. Rescanned'
    BY <1>1, <2>1, <2>2, <2>5, <2>7 DEF Rescanned
  <2>9. QED
    BY <1>3, <2>4, <2>6, <2>8 DEF EngineInv
<1>5. CASE ScanFails(r)
  <2>1. UNCHANGED <<assets, powOf, powsOpen, scans>>
    BY <1>5 DEF ScanFails
  <2>2. EngineTypeOK' /\ OneModuleOpen' /\ Rescanned'
    BY <1>1, <2>1 DEF EngineInv, EngineTypeOK, OneModuleOpen, Rescanned
  <2>3. QED
    BY <1>3, <2>2 DEF EngineInv
<1>6. QED
  BY <1>4, <1>5 DEF Scan

LEMMA LeaveScanKeeps ==
    ASSUME EngineInv, AtTyped, NEW r \in Lookups, LeaveScan(r)
    PROVE  EngineInv'
<1>1. /\ at[r] \in {"leave", "leave failed"} /\ refreshing' = None
      /\ UNCHANGED <<assets, powOf, powsOpen, scans, providers, run>>
  BY DEF LeaveScan
<1>2. OnlyMoves(r) /\ at'[r] \in {"close", "close failed"}
  <2>1. Go(r, "close") \/ Go(r, "close failed")
    BY DEF LeaveScan
  <2>2. QED
    BY <2>1, GoMoves DEF CinesrcSteps, EngineSteps
<1>3. JoinersAreHeard' /\ JoinedAreLookups' /\ ScanIsRunning' /\ Rounds'
  BY <1>1, <1>2, ScanGoesOn DEF WaitedFor
<1>4. EngineTypeOK' /\ OneModuleOpen' /\ Rescanned'
  BY <1>1 DEF EngineInv, EngineTypeOK, OneModuleOpen, Rescanned
<1>5. QED
  BY <1>3, <1>4 DEF EngineInv

\* What the closing of the channel does to each lookup.
LEMMA CloseScanMoves ==
    ASSUME EngineInv, AtTyped, NEW r \in Lookups, CloseScan(r), NEW q \in Lookups
    PROVE  \/ q = r /\ at'[q] \in {"list", "failed"} /\ run'[q] \in {run[q], NoEngineRun}
           \/ /\ at[q] = "joined" /\ run[q].joined = r
              /\ at'[q] = "woken" /\ run'[q] = [run[q] EXCEPT !.joined = None]
           \/ /\ q # r /\ ~(at[q] = "joined" /\ run[q].joined = r)
              /\ at'[q] = at[q] /\ run'[q] = run[q]
BY DEF CloseScan

LEMMA CloseScanKeeps ==
    ASSUME EngineInv, AtTyped, NEW r \in Lookups, CloseScan(r)
    PROVE  AtTyped' /\ EngineInv'
<1>1. /\ at[r] \in {"close", "close failed"}
      /\ UNCHANGED <<assets, powOf, powsOpen, refreshing, scans, providers>>
  BY DEF CloseScan
<1>2. DOMAIN at' = Lookups /\ DOMAIN run' = Lookups
      /\ at' = [q \in Lookups |-> at'[q]] /\ run' = [q \in Lookups |-> run'[q]]
  BY DEF CloseScan
<1>3. ASSUME NEW q \in Lookups
      PROVE  /\ at'[q] \in Places /\ run'[q] \in EngineRun
             /\ run'[q].firstPass \in {0, run[q].firstPass} /\ run'[q].pass \in {0, run[q].pass}
             /\ run'[q].pass > 0 => run'[q].firstPass = run[q].firstPass
             /\ at'[q] \in Watched => at'[q] = at[q] /\ run'[q] = run[q] /\ q # r
             /\ at'[q] = "joined" => run[q].joined # r
  <2>1. run[q] \in EngineRun /\ at[q] \in Places
    BY DEF EngineInv, EngineTypeOK, AtTyped
  <2>2. {"list", "failed", "woken"} \subseteq Places /\ {"list", "failed", "woken"} \cap Watched = {}
    BY DEF Places, CinesrcSteps, EngineSteps, Watched, WaitedFor
  <2>3. CASE q = r /\ at'[q] \in {"list", "failed"} /\ run'[q] \in {run[q], NoEngineRun}
    <3>1. at'[q] \in Places /\ at'[q] \notin Watched /\ "joined" \in Watched
      BY <2>2, <2>3 DEF Watched
    <3>2. CASE run'[q] = run[q]
      BY <2>1, <3>1, <3>2
    <3>3. CASE run'[q] = NoEngineRun
      BY <3>1, <3>3, NoRunFields
    <3>4. QED
      BY <2>3, <3>2, <3>3
  <2>4. CASE /\ at[q] = "joined" /\ run[q].joined = r
             /\ at'[q] = "woken" /\ run'[q] = [run[q] EXCEPT !.joined = None]
    <3>1. at'[q] \in Places /\ at'[q] \notin Watched /\ "joined" \in Watched
      BY <2>2, <2>4 DEF Watched
    <3>2. /\ run'[q] \in EngineRun /\ run'[q].pass = run[q].pass
          /\ run'[q].firstPass = run[q].firstPass
      BY <2>1, <2>4, JoinedRun
    <3>3. QED
      BY <3>1, <3>2
  <2>5. CASE /\ q # r /\ ~(at[q] = "joined" /\ run[q].joined = r)
             /\ at'[q] = at[q] /\ run'[q] = run[q]
    BY <2>1, <2>5
  <2>6. QED
    BY <2>3, <2>4, <2>5, CloseScanMoves
<1>4. AtTyped'
  BY <1>2, <1>3 DEF AtTyped
<1>5. EngineTypeOK' /\ OneModuleOpen'
  BY <1>1, <1>2, <1>3 DEF EngineInv, EngineTypeOK, OneModuleOpen
<1>6. ASSUME NEW q \in Lookups, at[q] \in WaitedFor, q # r PROVE at'[q] = at[q]
  BY <1>6, CloseScanMoves DEF WaitedFor
<1>7. JoinersAreHeard' /\ JoinedAreLookups'
  <2>1. ASSUME NEW q \in Lookups, at'[q] = "joined"
        PROVE  run'[q].joined \in Lookups /\ at'[run'[q].joined] \in WaitedFor
    <3>1. at[q] = "joined" /\ run'[q] = run[q] /\ run[q].joined # r
      BY <1>3, <2>1 DEF Watched
    <3>2. run[q].joined \in Lookups /\ at[run[q].joined] \in WaitedFor
      BY <3>1 DEF EngineInv, JoinersAreHeard, JoinedAreLookups, WaitedFor
    <3>3. QED
      BY <1>6, <3>1, <3>2
  <2>2. QED
    BY <2>1 DEF JoinersAreHeard, JoinedAreLookups, WaitedFor
<1>8. ScanIsRunning'
  <2>1. refreshing \in Lookups \cup {None}
    BY DEF EngineInv, EngineTypeOK
  <2>2. refreshing # None => refreshing # r /\ at[refreshing] \in WaitedFor
    BY <1>1 DEF EngineInv, ScanIsRunning, Scanning, WaitedFor
  <2>3. QED
    BY <1>1, <1>6, <2>1, <2>2 DEF EngineInv, ScanIsRunning
<1>9. Rounds'
  BY <1>3 DEF EngineInv, Rounds, Watched
<1>10. Rescanned'
  <2>1. scans >= 0
    BY DEF EngineInv, EngineTypeOK
  <2>2. ASSUME NEW q \in Lookups
        PROVE  /\ run'[q].firstPass <= scans
               /\ run'[q].pass > 0 /\ assets # None => run'[q].firstPass < assets.scan
    <3>1. run[q].firstPass <= scans
          /\ (run[q].pass > 0 /\ assets # None => run[q].firstPass < assets.scan)
      BY DEF EngineInv, Rescanned
    <3>2. run'[q].firstPass <= scans
      BY <1>3, <2>1, <3>1
    <3>3. ASSUME run'[q].pass > 0, assets # None PROVE run'[q].firstPass < assets.scan
      <4>1. run'[q].firstPass = run[q].firstPass /\ run'[q].pass = run[q].pass
        BY <1>3, <3>3
      <4>2. QED
        BY <3>1, <3>3, <4>1
    <3>4. QED
      BY <3>2, <3>3
  <2>3. QED
    BY <1>1, <2>2 DEF EngineInv, Rescanned
<1>11. QED
  BY <1>4, <1>5, <1>7, <1>8, <1>9, <1>10 DEF EngineInv

\* What EngineInv says of one resolve.
LEMMA OfOne ==
    ASSUME EngineInv, NEW r \in Lookups
    PROVE  /\ run[r] \in EngineRun /\ run[r].firstPass <= scans /\ scans \in Nat
           /\ run[r].pass > 0 /\ assets # None => run[r].firstPass < assets.scan
           /\ providers \in {0} \cup ListLengths
           /\ at[r] \in {"batch", "attempts", "pass over"} => run[r].pass < 2
           /\ at[r] = "attempts" => run[r].start <= run[r].servers
<1>1. run[r] \in EngineRun /\ scans \in 0..MaxScans /\ providers \in {0} \cup ListLengths
  BY DEF EngineInv, EngineTypeOK
<1>2. scans \in Nat
  BY <1>1, EngineAssumption
<1>3. /\ run[r].firstPass <= scans
      /\ run[r].pass > 0 /\ assets # None => run[r].firstPass < assets.scan
  BY DEF EngineInv, Rescanned
<1>4. /\ at[r] \in {"batch", "attempts", "pass over"} => run[r].pass < 2
      /\ at[r] = "attempts" => run[r].start <= run[r].servers
  BY DEF EngineInv, Rounds
<1>5. QED
  BY <1>1, <1>2, <1>3, <1>4

LEMMA ListKeeps ==
    ASSUME EngineInv, AtTyped, NEW r \in Lookups, List(r)
    PROVE  EngineInv'
<1>1. at[r] = "list" /\ at[r] \notin WaitedFor
      /\ UNCHANGED <<assets, powOf, powsOpen, refreshing, scans>>
  BY DEF List, WaitedFor
<1>2. PICK n \in ListLengths :
        /\ providers' \in {providers, n}
        /\ \/ Ends(r, "failed")
           \/ run[r].pass # 2 /\ Go(r, "batch") /\ run' = [run EXCEPT ![r].servers = n]
  BY Zenon DEF List
<1>3. providers' \in {0} \cup ListLengths
  BY <1>2, OfOne
<1>4. CASE Ends(r, "failed")
  BY <1>1, <1>3, <1>4, RunEnds
<1>5. CASE run[r].pass # 2 /\ Go(r, "batch") /\ run' = [run EXCEPT ![r].servers = n]
  <2> DEFINE e == [run[r] EXCEPT !.servers = n]
  <2>1. OnlyMoves(r) /\ at'[r] = "batch"
    BY <1>5, GoMoves DEF CinesrcSteps, EngineSteps
  <2>2. run' = [run EXCEPT ![r] = e]
    BY <1>5
  <2>3. e \in EngineRun /\ e.pass = run[r].pass /\ e.firstPass = run[r].firstPass
    BY OfOne, ListedRun
  <2> HIDE DEF e
  <2>4. run[r].pass \in 0..2
    BY OfOne, RunFields
  <2>5. e.pass < 2
    BY <1>5, <2>3, <2>4
  <2>6. e.firstPass <= scans /\ (e.pass > 0 /\ assets # None => e.firstPass < assets.scan)
    BY <2>3, OfOne
  <2>7. QED
    BY <1>1, <1>3, <2>1, <2>2, <2>3, <2>5, <2>6, RunGoesOn
<1>6. QED
  BY <1>2, <1>4, <1>5

LEMMA NextBatchKeeps ==
    ASSUME EngineInv, AtTyped, NEW r \in Lookups, NextBatch(r)
    PROVE  EngineInv'
<1>1. at[r] = "batch" /\ at[r] \notin WaitedFor
      /\ UNCHANGED <<assets, powOf, powsOpen, refreshing, scans, providers>>
  BY DEF NextBatch, WaitedFor
<1>2. providers' \in {0} \cup ListLengths
  BY <1>1, OfOne
<1>3. CASE Ends(r, "failed")
  BY <1>1, <1>2, <1>3, RunEnds
<1>4. CASE Go(r, "pass over") /\ UNCHANGED run
  <2>1. OnlyMoves(r) /\ at'[r] = "pass over"
    BY <1>4, GoMoves DEF CinesrcSteps, EngineSteps
  <2>2. run' = [run EXCEPT ![r] = run[r]]
    BY <1>4 DEF EngineInv, EngineTypeOK
  <2>3. run[r].pass < 2
    BY <1>1, OfOne
  <2>4. QED
    BY <1>1, <1>2, <2>1, <2>2, <2>3, OfOne, RunGoesOn
<1>5. CASE /\ Batch(r) # {} /\ Go(r, "attempts")
           /\ run' = [run EXCEPT ![r].try = [i \in 1..MaxServers |->
                        IF i \in Batch(r) THEN [st |-> "begun", scan |-> 0] ELSE NoAttempt]]
  <2> DEFINE t == [i \in 1..MaxServers |->
                     IF i \in Batch(r) THEN [st |-> "begun", scan |-> 0] ELSE NoAttempt]
             e == [run[r] EXCEPT !.try = t]
  <2>1. OnlyMoves(r) /\ at'[r] = "attempts"
    BY <1>5, GoMoves DEF CinesrcSteps, EngineSteps
  <2>2. run' = [run EXCEPT ![r] = e]
    BY <1>5
  <2>3. t \in [1..MaxServers -> Attempt]
    BY DEF Attempt, NoAttempt
  <2> HIDE DEF t
  <2>4. /\ e \in EngineRun /\ e.pass = run[r].pass /\ e.firstPass = run[r].firstPass
        /\ e.start = run[r].start /\ e.servers = run[r].servers
    BY <2>3, OfOne, TriedRun
  <2> HIDE DEF e
  <2>5. run[r].start <= run[r].servers
    <3>1. PICK i \in 1..run[r].servers : i \in run[r].start..(run[r].start + ServerParallelism - 1)
      BY <1>5 DEF Batch
    <3>2. run[r].start \in Nat /\ run[r].servers \in Nat
      BY OfOne, RunNumbers
    <3>3. QED
      BY <3>1, <3>2
  <2>6. e.pass < 2 /\ e.start <= e.servers
    BY <1>1, <2>4, <2>5, OfOne
  <2>7. e.firstPass <= scans /\ (e.pass > 0 /\ assets # None => e.firstPass < assets.scan)
    BY <2>4, OfOne
  <2>8. QED
    BY <1>1, <1>2, <2>1, <2>2, <2>4, <2>6, <2>7, RunGoesOn
<1>6. QED
  BY <1>3, <1>4, <1>5 DEF NextBatch

\* An attempt moves nothing but itself; the one that loads its scripts notes the scan.
LEMMA AttemptKeeps ==
    ASSUME EngineInv, AtTyped, NEW r \in Lookups, at[r] = "attempts", at' = at,
           NEW i \in 1..MaxServers, NEW a \in Attempt, NEW f \in {0} \cup Scans,
           run' = [run EXCEPT ![r] = [run[r] EXCEPT !.try[i] = a, !.firstPass = f]],
           f <= scans, run[r].pass > 0 => f = run[r].firstPass,
           UNCHANGED <<assets, powOf, powsOpen, refreshing, scans, providers>>
    PROVE  EngineInv'
<1> DEFINE t == [run[r].try EXCEPT ![i] = a]
           d == [run[r] EXCEPT !.try = t]
           e == [d EXCEPT !.firstPass = f]
<1>1. run[r] \in EngineRun
  BY OfOne
<1>2. t \in [1..MaxServers -> Attempt]
  BY <1>1, AttemptRun
<1>3. e = [run[r] EXCEPT !.try[i] = a, !.firstPass = f]
  BY <1>1 DEF EngineRun
<1>4. run' = [run EXCEPT ![r] = e]
  BY <1>3
<1> HIDE DEF t
<1>5. /\ d \in EngineRun /\ d.pass = run[r].pass /\ d.start = run[r].start
      /\ d.servers = run[r].servers
  BY <1>1, <1>2, TriedRun
<1> HIDE DEF d
<1>6. /\ e \in EngineRun /\ e.pass = run[r].pass /\ e.firstPass = f
      /\ e.start = run[r].start /\ e.servers = run[r].servers
  BY <1>5, LoadedRun
<1> HIDE DEF e
<1>7. OnlyMoves(r)
  BY DEF OnlyMoves, AtTyped
<1>8. e.pass < 2 /\ e.start <= e.servers /\ e.firstPass <= scans
  BY <1>6, OfOne
<1>9. e.pass > 0 /\ assets # None => e.firstPass < assets.scan
  BY <1>6, OfOne
<1>10. at[r] \notin WaitedFor /\ at'[r] # "joined" /\ providers' \in {0} \cup ListLengths
  BY OfOne DEF WaitedFor
<1>11. QED
  BY <1>4, <1>6, <1>7, <1>8, <1>9, <1>10, RunGoesOn

LEMMA TryKeeps ==
    ASSUME EngineInv, AtTyped, NEW r \in Lookups, NEW i \in 1..MaxServers, TryStep(r, i)
    PROVE  EngineInv'
\* There is no module to compile: the scan has made that of its assets.
<1>0. /\ assets # None => powOf # None /\ powOf \in Scans
      /\ UNCHANGED <<powOf, powsOpen>>
  <2>1. assets # None => powOf # None /\ powOf \in Scans
    BY EngineAssumption DEF EngineInv, EngineTypeOK, OneModuleOpen, Scans
  <2>2. QED
    BY <2>1 DEF TryStep, GetPow
<1>1. at[r] = "attempts" /\ at' = at
      /\ UNCHANGED <<assets, powOf, powsOpen, refreshing, scans, providers>>
  BY <1>0 DEF TryStep, common
<1>2. run[r] \in EngineRun /\ run[r].firstPass \in {0} \cup Scans /\ run[r].firstPass <= scans
  BY OfOne, RunFields
<1>3. ASSUME NEW a \in Attempt, run' = [run EXCEPT ![r].try[i] = a] PROVE EngineInv'
  <2>1. run' = [run EXCEPT ![r] = [run[r] EXCEPT !.try[i] = a, !.firstPass = run[r].firstPass]]
    BY <1>2, <1>3 DEF EngineRun
  <2>2. QED
    BY <1>1, <1>2, <2>1, AttemptKeeps
<1>4. CASE Fails(r, i)
  <2>1. [st |-> "other", scan |-> 0] \in Attempt
    BY DEF Attempt
  <2>2. run' = [run EXCEPT ![r].try[i] = [st |-> "other", scan |-> 0]]
    BY <1>4 DEF Fails, Tries
  <2>3. QED
    BY <1>3, <2>1, <2>2
<1>5. CASE GetPow(r, i)
  <2>1. CASE assets # None /\ Tries(r, i, "proof", powOf)
    <3>1. [st |-> "proof", scan |-> powOf] \in Attempt
      BY <1>0, <2>1 DEF Attempt
    <3>2. QED
      BY <1>3, <2>1, <3>1 DEF Tries
  <2>2. QED
    BY <1>0, <1>4, <1>5, <2>1 DEF GetPow
<1>6. CASE SolveAndAsk(r, i)
  <2>1. [st |-> "found", scan |-> 0] \in Attempt /\ [st |-> "no cipher", scan |-> 0] \in Attempt
    BY DEF Attempt
  <2>2. QED
    BY <1>3, <1>6, <2>1 DEF SolveAndAsk, Tries
<1>7. CASE LoadScripts(r, i) /\ assets # None
  <2> DEFINE a == [run[r].try[i] EXCEPT !.st = "vm"]
             f == IF run[r].pass = 0 THEN assets.scan ELSE run[r].firstPass
  <2>1. run[r].try[i] \in Attempt
    BY <1>2, RunFields
  <2>2. a \in Attempt
    BY <2>1 DEF Attempt
  <2>3. assets.scan \in Scans /\ assets.scan <= scans
    BY <1>7 DEF EngineInv, EngineTypeOK, Rescanned
  <2>4. f \in {0} \cup Scans /\ f <= scans /\ (run[r].pass > 0 => f = run[r].firstPass)
    BY <1>2, <2>3
  <2>5. run' = [run EXCEPT ![r] = [run[r] EXCEPT !.try[i] = a, !.firstPass = f]]
    <3>1. run' = [run EXCEPT ![r].try[i].st = "vm",
                             ![r].firstPass = IF run[r].pass = 0 THEN assets.scan ELSE @]
      BY <1>7 DEF LoadScripts
    <3>2. run \in [Lookups -> EngineRun]
      BY DEF EngineInv, EngineTypeOK
    <3>3. QED
      BY <1>2, <3>1, <3>2 DEF EngineRun
  <2> HIDE DEF a, f
  <2>6. QED
    BY <1>1, <2>2, <2>4, <2>5, AttemptKeeps
<1>8. CASE LoadScripts(r, i) /\ assets = None
  BY <1>4, <1>8 DEF LoadScripts
<1>9. QED
  BY <1>4, <1>5, <1>6, <1>7, <1>8 DEF TryStep, AttemptFails

LEMMA BatchOverKeeps ==
    ASSUME EngineInv, AtTyped, NEW r \in Lookups, BatchOver(r)
    PROVE  EngineInv'
<1>1. at[r] = "attempts" /\ at[r] \notin WaitedFor
      /\ UNCHANGED <<assets, powOf, powsOpen, refreshing, scans, providers>>
  BY DEF BatchOver, WaitedFor
<1>2. providers' \in {0} \cup ListLengths
  BY <1>1, OfOne
<1>3. CASE Ends(r, "found")
  BY <1>1, <1>2, <1>3, RunEnds
<1>4. CASE ~Ends(r, "found")
  <2> DEFINE x == run[r].try[run[r].start].st
             e == [run[r] EXCEPT !.lastErr = x, !.start = @ + ServerParallelism,
                                 !.try = NoEngineRun.try]
  <2>1. /\ \A i \in Batch(r) : run[r].try[i].st \in {"no cipher", "other"}
        /\ run' = [run EXCEPT ![r].lastErr = x, ![r].start = @ + ServerParallelism,
                              ![r].try = NoEngineRun.try]
        /\ Go(r, "batch")
    BY <1>4 DEF BatchOver
  <2>2. run[r] \in EngineRun /\ run[r].start <= run[r].servers /\ run[r].pass < 2
    BY <1>1, OfOne
  <2>3. PICK m, p \in Nat : m = MaxServers /\ p = ServerParallelism /\ p >= 1
    BY LongestList, EngineAssumption
  <2>4. PICK a, n \in Nat : a = run[r].start /\ n = run[r].servers /\ 1 <= a /\ a <= n /\ n <= m
    BY <2>2, <2>3, RunNumbers
  <2>5. x \in Errors
    <3>1. a \in 1..n /\ a \in a..(a + p - 1)
      BY <2>3, <2>4
    <3>2. run[r].start \in Batch(r)
      BY <2>3, <2>4, <3>1 DEF Batch
    <3>3. QED
      BY <2>1, <3>2 DEF Errors
  <2>6. run[r].start + ServerParallelism \in 1..(MaxServers + ServerParallelism)
    <3>1. a + p \in 1..(m + p)
      BY <2>3, <2>4
    <3>2. QED
      BY <2>3, <2>4, <3>1
  <2>7. OnlyMoves(r) /\ at'[r] = "batch"
    BY <2>1, GoMoves DEF CinesrcSteps, EngineSteps
  <2>8. run' = [run EXCEPT ![r] = e]
    BY <2>1
  <2> HIDE DEF x
  <2>9. e \in EngineRun /\ e.pass = run[r].pass /\ e.firstPass = run[r].firstPass
    <3>1. PICK t \in [1..MaxServers -> Attempt] : t = NoEngineRun.try
      BY NoTry
    <3> DEFINE b == run[r].start + ServerParallelism
    <3>2. e = [run[r] EXCEPT !.lastErr = x, !.start = b, !.try = t]
          /\ b \in 1..(MaxServers + ServerParallelism)
      BY <2>6, <3>1
    <3> HIDE DEF e, b
    <3>3. QED
      BY <2>2, <2>5, <3>1, <3>2 DEF EngineRun
  <2> HIDE DEF e
  <2>10. e.firstPass <= scans /\ (e.pass > 0 /\ assets # None => e.firstPass < assets.scan)
    BY <2>9, OfOne
  <2>11. e.pass < 2
    BY <2>2, <2>9
  <2>12. QED
    BY <1>1, <1>2, <2>7, <2>8, <2>9, <2>10, <2>11, RunGoesOn
<1>5. QED
  BY <1>3, <1>4

LEMMA PassOverSafe ==
    ASSUME EngineInv, AtTyped, NEW r \in Lookups, PassOver(r)
    PROVE  EngineInv'
<1>1. at[r] = "pass over" /\ at[r] \notin WaitedFor
      /\ UNCHANGED <<refreshing, scans, providers>>
  BY DEF PassOver, WaitedFor
<1>2. CASE Ends(r, "failed") /\ UNCHANGED <<assets, powOf, powsOpen>>
  <2>1. providers' \in {0} \cup ListLengths
    BY <1>1, OfOne
  <2>2. QED
    BY <1>1, <1>2, <2>1, RunEnds
<1>3. CASE /\ assets' = None /\ powOf' = None /\ powsOpen' = powsOpen \ {powOf}
           /\ NextPass(r)
  <2> DEFINE e == [NoEngineRun EXCEPT !.pass = run[r].pass + 1, !.firstPass = run[r].firstPass]
  <2>1. OnlyMoves(r) /\ at'[r] = "ensure"
    <3>1. Go(r, "ensure")
      BY <1>3 DEF NextPass
    <3>2. QED
      BY <3>1, GoMoves DEF CinesrcSteps, EngineSteps
  <2>2. run' = [run EXCEPT ![r] = e]
    BY <1>3 DEF NextPass
  <2>3. run[r].pass + 1 \in 0..2 /\ run[r].firstPass \in {0} \cup Scans
    <3>1. run[r] \in EngineRun /\ run[r].pass < 2
      BY <1>1, OfOne
    <3>2. run[r].firstPass \in {0} \cup Scans /\ run[r].pass \in Nat
      BY <3>1, RunFields, RunNumbers
    <3>3. QED
      BY <3>1, <3>2
  <2>4. e \in EngineRun /\ e.firstPass = run[r].firstPass
    BY <2>3, PassedRun
  <2> HIDE DEF e
  <2>5. /\ run' \in [Lookups -> EngineRun] /\ run'[r] = e
        /\ \A q \in Lookups \ {r} : run'[q] = run[q]
    BY <2>2, <2>4 DEF EngineInv, EngineTypeOK
  <2>6. EngineTypeOK'
    BY <1>1, <1>3, <2>5 DEF EngineInv, EngineTypeOK
  <2>7. OneModuleOpen'
    BY <1>3 DEF EngineInv, OneModuleOpen
  <2>8. \A q \in Lookups : at[q] \in WaitedFor => at'[q] = at[q]
    BY <1>1, <2>1 DEF OnlyMoves
  <2>9. ASSUME NEW q \in Lookups, at'[q] = "joined"
        PROVE  run'[q].joined \in Lookups /\ at[run'[q].joined] \in WaitedFor
    <3>1. q # r /\ at[q] = "joined" /\ run'[q] = run[q]
      BY <2>1, <2>5, <2>9 DEF OnlyMoves
    <3>2. QED
      BY <3>1 DEF EngineInv, JoinersAreHeard, JoinedAreLookups, WaitedFor
  <2>10. JoinersAreHeard' /\ JoinedAreLookups'
    BY <2>8, <2>9 DEF JoinersAreHeard, JoinedAreLookups, WaitedFor
  <2>11. ScanIsRunning'
    <3>1. refreshing \in Lookups \cup {None} /\ Scanning \subseteq WaitedFor
      BY DEF EngineInv, EngineTypeOK, Scanning, WaitedFor
    <3>2. QED
      BY <1>1, <2>8, <3>1 DEF EngineInv, ScanIsRunning
  <2>12. Rounds'
    BY <2>1, <2>5 DEF EngineInv, Rounds, OnlyMoves
  <2>13. Rescanned'
    BY <1>1, <1>3, <2>4, <2>5, OfOne DEF Rescanned
  <2>14. QED
    BY <2>6, <2>7, <2>10, <2>11, <2>12, <2>13 DEF EngineInv
<1>4. QED
  BY <1>2, <1>3 DEF PassOver

\* Assets and the server list grow old; nobody notices before it asks for them.
LEMMA AgeKeeps ==
    ASSUME EngineInv, AssetsAge \/ ListAges
    PROVE  EngineInv' /\ at' = at /\ run' = run
<1>1. UNCHANGED <<at, powOf, powsOpen, refreshing, scans, run>>
  BY DEF AssetsAge, ListAges, common
<1>2. /\ assets' \in {None} \cup [scan : Scans, fresh : BOOLEAN]
      /\ assets' = None <=> assets = None
      /\ assets # None => assets'.scan = assets.scan
  <2>1. CASE assets' = assets
    BY <2>1 DEF EngineInv, EngineTypeOK
  <2>2. CASE assets # None /\ assets' = [assets EXCEPT !.fresh = FALSE]
    <3>1. assets \in [scan : Scans, fresh : BOOLEAN]
      BY <2>2 DEF EngineInv, EngineTypeOK
    <3>2. assets' \in [scan : Scans, fresh : BOOLEAN] /\ assets'.scan = assets.scan
      BY <2>2, <3>1
    <3>3. assets' \in [scan : Nat, fresh : BOOLEAN]
      BY <3>2, EngineAssumption DEF Scans
    <3>4. QED
      BY <2>2, <3>2, <3>3, EngineAssumption
  <2>3. QED
    BY <2>1, <2>2 DEF AssetsAge, ListAges, Fresh
<1>3. providers' \in {0} \cup ListLengths
  BY DEF AssetsAge, ListAges, EngineInv, EngineTypeOK
<1>4. EngineTypeOK'
  BY <1>1, <1>2, <1>3 DEF EngineInv, EngineTypeOK
<1>5. OneModuleOpen' /\ Rescanned'
  BY <1>1, <1>2 DEF EngineInv, OneModuleOpen, Rescanned
<1>6. JoinersAreHeard' /\ JoinedAreLookups' /\ ScanIsRunning' /\ Rounds'
  BY <1>1 DEF EngineInv, JoinersAreHeard, JoinedAreLookups, ScanIsRunning, Rounds
<1>7. QED
  BY <1>1, <1>4, <1>5, <1>6 DEF EngineInv

LEMMA EngineKeeps ==
    ASSUME EngineInv, AtTyped, NEW r \in Lookups, EngineStep(r)
    PROVE  EngineInv'
BY EnsureKeeps, JoinKeeps, ScanKeeps, LeaveScanKeeps, CloseScanKeeps, ListKeeps,
   NextBatchKeeps, BatchOverKeeps, PassOverSafe, TryKeeps DEF EngineStep

\* Lookups outside the engine do not enter into what it guarantees.
LEMMA EngineInvElsewhere ==
    ASSUME EngineInv, Elsewhere(Watched), UNCHANGED engineVars
    PROVE  EngineInv'
<1>1. UNCHANGED <<assets, powOf, powsOpen, refreshing, scans, providers, run>>
  BY DEF engineVars
<1>2. \A q \in Lookups : \A s \in Watched : at[q] = s <=> at'[q] = s
  BY DEF Elsewhere
<1>3. EngineTypeOK' /\ OneModuleOpen' /\ Rescanned'
  BY <1>1 DEF EngineInv, EngineTypeOK, OneModuleOpen, Rescanned
<1>4. JoinersAreHeard' /\ JoinedAreLookups'
  <2>1. ASSUME NEW q \in Lookups, at'[q] = "joined"
        PROVE  run[q].joined \in Lookups /\ at'[run[q].joined] \in WaitedFor
    <3>1. at[q] = "joined"
      BY <1>2, <2>1 DEF Watched
    <3>2. run[q].joined \in Lookups /\ at[run[q].joined] \in WaitedFor
      BY <3>1 DEF EngineInv, JoinersAreHeard, JoinedAreLookups, WaitedFor
    <3>3. at[run[q].joined] \in Watched
      BY <3>2 DEF Watched
    <3>4. at'[run[q].joined] = at[run[q].joined]
      BY <1>2, <3>2, <3>3
    <3>5. QED
      BY <3>2, <3>4
  <2>2. QED
    BY <1>1, <2>1 DEF JoinersAreHeard, JoinedAreLookups, WaitedFor
<1>5. ScanIsRunning'
  <2>1. refreshing \in Lookups \cup {None} /\ Scanning \subseteq Watched
    BY DEF EngineInv, EngineTypeOK, Scanning, Watched, WaitedFor
  <2>2. refreshing # None => at[refreshing] \in Scanning
    BY DEF EngineInv, ScanIsRunning
  <2>3. QED
    BY <1>1, <1>2, <2>1, <2>2 DEF ScanIsRunning
<1>6. Rounds'
  BY <1>1, <1>2 DEF EngineInv, Rounds, Watched
<1>7. QED
  BY <1>3, <1>4, <1>5, <1>6 DEF EngineInv

-----------------------------------------------------------------------------
(* Where a resolve by cinesrc is *)

\* Those who move, move among the steps S.
Within(S) ==
    /\ AtTyped'
    /\ \A q \in Lookups : at'[q] = at[q] \/ (at[q] \in S /\ at'[q] \in S)

LEMMA GoIsWithin ==
    ASSUME AtTyped, NEW r \in Lookups, NEW s \in EngineSteps, at[r] \in EngineSteps, Go(r, s)
    PROVE  Within(EngineSteps)
<1>1. OnlyMoves(r) /\ at'[r] = s
  BY GoMoves DEF CinesrcSteps
<1>2. QED
  BY <1>1 DEF Within, OnlyMoves

LEMMA EngineMoves ==
    ASSUME EngineInv, AtTyped, NEW r \in Lookups, EngineStep(r)
    PROVE  Within(EngineSteps)
<1>1. ASSUME at[r] \in EngineSteps, \E s \in EngineSteps : Go(r, s) PROVE Within(EngineSteps)
  BY <1>1, GoIsWithin
<1>2. CASE EnsureAssets(r)
  <2>1. at[r] = "ensure" /\ (Go(r, "list") \/ Go(r, "joined") \/ Go(r, "scan"))
    BY <1>2 DEF EnsureAssets
  <2>2. QED
    BY <1>1, <2>1 DEF EngineSteps
<1>3. CASE LeaveJoin(r) \/ Woken(r)
  <2>1. at[r] \in {"joined", "woken"} /\ (Go(r, "list") \/ Go(r, "failed"))
    BY <1>3 DEF LeaveJoin, Woken, Ends
  <2>2. QED
    BY <1>1, <2>1 DEF EngineSteps
<1>4. CASE Scan(r)
  <2>1. at[r] = "scan" /\ (Go(r, "leave") \/ Go(r, "leave failed"))
    BY <1>4, Zenon DEF Scan, Replace, ScanFails
  <2>2. QED
    BY <1>1, <2>1 DEF EngineSteps
<1>5. CASE LeaveScan(r)
  <2>1. at[r] \in {"leave", "leave failed"} /\ (Go(r, "close") \/ Go(r, "close failed"))
    BY <1>5 DEF LeaveScan
  <2>2. QED
    BY <1>1, <2>1 DEF EngineSteps
<1>6. CASE CloseScan(r)
  <2>1. AtTyped' /\ at[r] \in {"close", "close failed"}
    BY <1>6, CloseScanKeeps DEF CloseScan
  <2>2. \A q \in Lookups : \/ q = r /\ at'[q] \in {"list", "failed"}
                           \/ at[q] = "joined" /\ at'[q] = "woken"
                           \/ at'[q] = at[q]
    BY <1>6, CloseScanMoves
  <2>3. QED
    BY <2>1, <2>2 DEF Within, EngineSteps
<1>7. CASE List(r)
  <2>1. at[r] = "list" /\ (Go(r, "failed") \/ Go(r, "batch"))
    BY <1>7, Zenon DEF List, Ends
  <2>2. QED
    BY <1>1, <2>1 DEF EngineSteps
<1>8. CASE NextBatch(r)
  <2>1. at[r] = "batch" /\ (Go(r, "pass over") \/ Go(r, "failed") \/ Go(r, "attempts"))
    BY <1>8 DEF NextBatch, Ends
  <2>2. QED
    BY <1>1, <2>1 DEF EngineSteps
<1>9. CASE BatchOver(r)
  <2>1. at[r] = "attempts" /\ (Go(r, "found") \/ Go(r, "batch"))
    BY <1>9 DEF BatchOver, Ends
  <2>2. QED
    BY <1>1, <2>1 DEF EngineSteps
<1>10. CASE PassOver(r)
  <2>1. at[r] = "pass over" /\ (Go(r, "failed") \/ Go(r, "ensure"))
    BY <1>10, Zenon DEF PassOver, Ends, NextPass
  <2>2. QED
    BY <1>1, <2>1 DEF EngineSteps
<1>11. ASSUME NEW i \in 1..MaxServers, TryStep(r, i) PROVE Within(EngineSteps)
  BY <1>11 DEF TryStep, common, Within, AtTyped
<1>12. QED
  BY <1>2, <1>3, <1>4, <1>5, <1>6, <1>7, <1>8, <1>9, <1>10, <1>11 DEF EngineStep

CinesrcPlaces == CinesrcSteps \cup {"idle"}

\* What starts, ends or moves on in one lookup.
LEMMA BeginMoves ==
    ASSUME AtTyped, NEW k \in Lookups, NEW S \in SUBSET Places, "idle" \in S, NEW s \in S,
           Begin(k, s)
    PROVE  Stays(k, S) /\ at'[k] = s
BY DEF Begin, AtTyped, Stays

LEMMA FinishMoves ==
    ASSUME AtTyped, NEW r \in Lookups, Finish(r)
    PROVE  OnlyMoves(r) /\ at'[r] = "idle"
BY DEF AtTyped, OnlyMoves, Finish, Places

LEMMA ElsewhereOfLess ==
    ASSUME NEW S, NEW T \in SUBSET S, Elsewhere(S)
    PROVE  Elsewhere(T)
BY DEF Elsewhere

LEMMA WithinIsElsewhere ==
    ASSUME NEW S, NEW T, Within(S), S \cap T = {}
    PROVE  Elsewhere(T)
BY DEF Within, Elsewhere

LEMMA EngineIsInside ==
    /\ Watched \subseteq EngineSteps /\ EngineSteps \subseteq CinesrcSteps
    /\ WorkerSteps \subseteq CinesrcSteps /\ CinesrcPlaces \subseteq Places
    /\ CinesrcPlaces \cap VidSteps = {} /\ "idle" \in CinesrcPlaces
    /\ EngineSteps \cap VidSteps = {}
<1>1. Watched \subseteq EngineSteps
  BY DEF Watched, WaitedFor, EngineSteps
<1>2. QED
  BY <1>1, Apartness DEF CinesrcSteps, CinesrcPlaces, Places

-----------------------------------------------------------------------------
(* The slots *)

InSteps(S) == {q \in Lookups : at[q] \in S}

LEMMA Counted ==
    ASSUME NEW S
    PROVE  IsFiniteSet(InSteps(S)) /\ Cardinality(InSteps(S)) \in Nat
<1>1. InSteps(S) \subseteq Lookups
  BY DEF InSteps
<1>2. IsFiniteSet(InSteps(S))
  BY <1>1, FS_Subset, LookupAssumption
<1>3. QED
  BY <1>2, FS_CardinalityType

LEMMA CountStays ==
    ASSUME NEW S, \A q \in Lookups : at[q] \in S <=> at'[q] \in S
    PROVE  InSteps(S)' = InSteps(S)
BY DEF InSteps

LEMMA CountGains ==
    ASSUME NEW S, NEW r \in Lookups, OnlyMoves(r), at[r] \notin S, at'[r] \in S
    PROVE  Cardinality(InSteps(S)') = Cardinality(InSteps(S)) + 1
<1>1. InSteps(S)' = InSteps(S) \cup {r} /\ r \notin InSteps(S)
  BY DEF InSteps, OnlyMoves
<1>2. IsFiniteSet(InSteps(S))
  BY Counted
<1>3. QED
  BY <1>1, <1>2, FS_AddElement

LEMMA CountLoses ==
    ASSUME NEW S, NEW r \in Lookups, OnlyMoves(r), at[r] \in S, at'[r] \notin S
    PROVE  Cardinality(InSteps(S)') = Cardinality(InSteps(S)) - 1
<1>1. InSteps(S)' = InSteps(S) \ {r} /\ r \in InSteps(S)
  BY DEF InSteps, OnlyMoves
<1>2. IsFiniteSet(InSteps(S))
  BY Counted
<1>3. QED
  BY <1>1, <1>2, FS_RemoveElement

\* SlotsAreUsed, one semaphore at a time.
Taken(tokens, S, cap) == tokens = Cardinality(InSteps(S)) /\ tokens <= cap

LEMMA SlotsByName ==
    SlotsAreUsed <=> Taken(jsSlots, EngineSteps, JsSlots) /\ Taken(slots, WorkerSteps, BrowserSlots)
BY DEF SlotsAreUsed, Taken, InSteps

LEMMA TakenMoves ==
    ASSUME NEW S, NEW t, NEW u, NEW cap \in Nat, NEW r \in Lookups, OnlyMoves(r),
           Taken(t, S, cap),
           \/ u = t /\ (at[r] \in S <=> at'[r] \in S)
           \/ u = t + 1 /\ t < cap /\ at[r] \notin S /\ at'[r] \in S
           \/ u = t - 1 /\ at[r] \in S /\ at'[r] \notin S
    PROVE  u = Cardinality(InSteps(S)') /\ u <= cap
<1>1. t = Cardinality(InSteps(S)) /\ t <= cap /\ t \in Nat
  BY Counted DEF Taken
<1>2. CASE u = t /\ (at[r] \in S <=> at'[r] \in S)
  BY <1>1, <1>2, CountStays DEF OnlyMoves
<1>3. CASE u = t + 1 /\ t < cap /\ at[r] \notin S /\ at'[r] \in S
  BY <1>1, <1>3, CountGains
<1>4. CASE u = t - 1 /\ at[r] \in S /\ at'[r] \notin S
  BY <1>1, <1>4, CountLoses
<1>5. QED
  BY <1>2, <1>3, <1>4

LEMMA SlotsMove ==
    ASSUME SlotsAreUsed, NEW r \in Lookups, OnlyMoves(r),
           \/ jsSlots' = jsSlots /\ (at[r] \in EngineSteps <=> at'[r] \in EngineSteps)
           \/ jsSlots' = jsSlots + 1 /\ jsSlots < JsSlots
              /\ at[r] \notin EngineSteps /\ at'[r] \in EngineSteps
           \/ jsSlots' = jsSlots - 1 /\ at[r] \in EngineSteps /\ at'[r] \notin EngineSteps,
           \/ slots' = slots /\ (at[r] \in WorkerSteps <=> at'[r] \in WorkerSteps)
           \/ slots' = slots + 1 /\ slots < BrowserSlots
              /\ at[r] \notin WorkerSteps /\ at'[r] \in WorkerSteps
           \/ slots' = slots - 1 /\ at[r] \in WorkerSteps /\ at'[r] \notin WorkerSteps
    PROVE  SlotsAreUsed'
<1>1. JsSlots \in Nat /\ BrowserSlots \in Nat
  BY CinesrcAssumption
<1>2. Taken(jsSlots, EngineSteps, JsSlots) /\ Taken(slots, WorkerSteps, BrowserSlots)
  BY SlotsByName
<1>3. jsSlots' = Cardinality(InSteps(EngineSteps)') /\ jsSlots' <= JsSlots
  BY <1>1, <1>2, TakenMoves
<1>4. slots' = Cardinality(InSteps(WorkerSteps)') /\ slots' <= BrowserSlots
  BY <1>1, <1>2, TakenMoves
<1>5. QED
  BY <1>3, <1>4 DEF SlotsAreUsed, InSteps

\* Lookups of the other providers, and steps inside the engine, take no slot.
LEMMA SlotsStay ==
    ASSUME SlotsAreUsed, UNCHANGED <<jsSlots, slots>>,
           \A q \in Lookups : at[q] \in EngineSteps <=> at'[q] \in EngineSteps,
           \A q \in Lookups : at[q] \in WorkerSteps <=> at'[q] \in WorkerSteps
    PROVE  SlotsAreUsed'
<1>1. InSteps(EngineSteps)' = InSteps(EngineSteps) /\ InSteps(WorkerSteps)' = InSteps(WorkerSteps)
  BY CountStays
<1>2. QED
  BY <1>1 DEF SlotsAreUsed, InSteps

\* The ways of a resolve outside the engine.
Around(r) ==
    /\ OnlyMoves(r)
    /\ at[r] \in CinesrcSteps \ Watched /\ at'[r] \in CinesrcPlaces \ Watched
    /\ UNCHANGED engineVars
    /\ SlotsAreUsed' /\ OneBrowser'

LEMMA AroundTheEngine ==
    ASSUME AtTyped, SlotsAreUsed, OneBrowser, NEW r \in Lookups,
           EnterEngine(r) \/ LeaveEngine(r) \/ EnterBrowser(r) \/ GetWorker(r) \/ LockPage(r)
           \/ PageEnds(r) \/ CinesrcAccept(r)
    PROVE  Around(r)
<1> DEFINE Inside == {"ensure", "found", "failed"}
           Beside == {"bridge", "fallback", "cinesrc won"}
<1>1. /\ Inside \subseteq EngineSteps \ Watched /\ Inside \cap WorkerSteps = {}
      /\ Beside \cap EngineSteps = {} /\ Beside \cap WorkerSteps = {}
      /\ "idle" \notin EngineSteps /\ "idle" \notin WorkerSteps
      /\ WorkerSteps \cap EngineSteps = {} /\ WorkerSteps = {"worker", "lock", "page"}
      /\ Beside \subseteq CinesrcSteps
  BY DEF EngineSteps, WorkerSteps, Watched, WaitedFor, CinesrcSteps
<1>2. Watched \subseteq EngineSteps /\ EngineSteps \subseteq CinesrcSteps
      /\ WorkerSteps \subseteq CinesrcSteps
  BY EngineIsInside
<1> HIDE DEF Inside, Beside
<1>3. ASSUME NEW s \in CinesrcSteps, Go(r, s) PROVE OnlyMoves(r) /\ at'[r] = s
  BY <1>3, GoMoves
<1>4. ASSUME Finish(r) PROVE OnlyMoves(r) /\ at'[r] = "idle"
  BY <1>4, FinishMoves
<1>5. CASE EnterEngine(r)
  <2>1. at[r] \in Beside /\ UNCHANGED engineVars /\ slots' = slots /\ OneBrowser'
    BY <1>5 DEF EnterEngine, workerVars, OneBrowser, Beside
  <2>2. CASE jsSlots < JsSlots /\ jsSlots' = jsSlots + 1 /\ Go(r, "ensure")
    <3>1. "ensure" \in Inside
      BY DEF Inside
    <3>2. OnlyMoves(r) /\ at'[r] \in Inside
      BY <1>1, <1>2, <1>3, <2>2, <3>1
    <3>3. SlotsAreUsed'
      BY <1>1, <2>1, <2>2, <3>2, SlotsMove
    <3>4. QED
      BY <1>1, <1>2, <2>1, <3>2, <3>3 DEF Around, CinesrcPlaces
  <2>3. CASE Go(r, "fallback") /\ jsSlots' = jsSlots
    <3>1. OnlyMoves(r) /\ at'[r] \in Beside
      BY <1>1, <1>3, <2>3 DEF Beside
    <3>2. SlotsAreUsed'
      BY <1>1, <2>1, <2>3, <3>1, SlotsMove
    <3>3. QED
      BY <1>1, <1>2, <2>1, <3>1, <3>2 DEF Around, CinesrcPlaces
  <2>4. QED
    BY <1>5, <2>2, <2>3 DEF EnterEngine
<1>6. CASE LeaveEngine(r)
  <2>1. at[r] \in Inside /\ UNCHANGED engineVars /\ jsSlots' = jsSlots - 1 /\ slots' = slots
        /\ OneBrowser'
    BY <1>6 DEF LeaveEngine, workerVars, OneBrowser, Inside
  <2>2. OnlyMoves(r) /\ at'[r] \in Beside
    BY <1>1, <1>3, <1>6 DEF LeaveEngine, Beside
  <2>3. SlotsAreUsed'
    BY <1>1, <2>1, <2>2, SlotsMove
  <2>4. QED
    BY <1>1, <1>2, <2>1, <2>2, <2>3 DEF Around, CinesrcPlaces
<1>7. CASE EnterBrowser(r)
  <2>1. at[r] \in Beside /\ UNCHANGED engineVars /\ jsSlots' = jsSlots /\ OneBrowser'
    BY <1>7 DEF EnterBrowser, workerVars, OneBrowser, Beside
  <2>2. CASE slots < BrowserSlots /\ slots' = slots + 1 /\ Go(r, "worker")
    <3>1. OnlyMoves(r) /\ at'[r] \in WorkerSteps
      BY <1>1, <1>2, <1>3, <2>2
    <3>2. SlotsAreUsed'
      BY <1>1, <2>1, <2>2, <3>1, SlotsMove
    <3>3. QED
      BY <1>1, <1>2, <2>1, <3>1, <3>2 DEF Around, CinesrcPlaces
  <2>3. CASE Finish(r) /\ slots' = slots
    <3>1. OnlyMoves(r) /\ at'[r] = "idle"
      BY <1>4, <2>3
    <3>2. SlotsAreUsed'
      BY <1>1, <2>1, <2>3, <3>1, SlotsMove
    <3>3. QED
      BY <1>1, <1>2, <2>1, <3>1, <3>2 DEF Around, CinesrcPlaces
  <2>4. QED
    BY <1>7, <2>2, <2>3 DEF EnterBrowser
\* From the worker's steps a resolve stays with its slot, or leaves with it.
<1>8. ASSUME at[r] \in WorkerSteps, UNCHANGED engineVars, jsSlots' = jsSlots, OneBrowser',
             \/ slots' = slots /\ (Go(r, "lock") \/ Go(r, "page"))
             \/ slots' = slots - 1 /\ (Go(r, "cinesrc won") \/ Finish(r))
      PROVE  Around(r)
  <2>1. OnlyMoves(r) /\ \/ slots' = slots /\ at'[r] \in WorkerSteps
                        \/ slots' = slots - 1 /\ at'[r] \in Beside \cup {"idle"}
    BY <1>1, <1>2, <1>3, <1>4, <1>8 DEF Beside
  <2>2. SlotsAreUsed'
    BY <1>1, <1>8, <2>1, SlotsMove
  <2>3. QED
    BY <1>1, <1>2, <1>8, <2>1, <2>2 DEF Around, CinesrcPlaces
<1>9. CASE GetWorker(r)
  <2>1. at[r] \in WorkerSteps /\ UNCHANGED engineVars /\ jsSlots' = jsSlots
    BY <1>1, <1>9 DEF GetWorker
  <2>2. OneBrowser'
    BY <1>9 DEF GetWorker, KeepWorker, StartWorker, DropWorker, OneBrowser
  <2>3. \/ slots' = slots /\ Go(r, "lock")
        \/ slots' = slots - 1 /\ Finish(r)
    BY <1>9, Zenon DEF GetWorker, LeaveBrowser
  <2>4. QED
    BY <1>8, <2>1, <2>2, <2>3
<1>10. CASE LockPage(r) \/ PageEnds(r)
  <2>1. at[r] \in WorkerSteps /\ UNCHANGED engineVars /\ jsSlots' = jsSlots
    BY <1>1, <1>10 DEF LockPage, PageEnds
  <2>2. OneBrowser'
    BY <1>10 DEF LockPage, PageEnds, OneBrowser
  <2>3. \/ slots' = slots /\ Go(r, "page")
        \/ slots' = slots - 1 /\ (Go(r, "cinesrc won") \/ Finish(r))
    BY <1>10, Zenon DEF LockPage, PageEnds, LeaveBrowser
  <2>4. QED
    BY <1>8, <2>1, <2>2, <2>3
<1>11. CASE CinesrcAccept(r)
  <2>1. at[r] \in Beside /\ UNCHANGED <<engineVars, jsSlots, slots>> /\ OneBrowser' /\ Finish(r)
    BY <1>11 DEF CinesrcAccept, cinesrcVars, workerVars, OneBrowser, Beside
  <2>2. OnlyMoves(r) /\ at'[r] = "idle"
    BY <1>4, <2>1
  <2>3. SlotsAreUsed'
    BY <1>1, <2>1, <2>2, SlotsMove
  <2>4. QED
    BY <1>1, <1>2, <2>1, <2>2, <2>3 DEF Around, CinesrcPlaces
<1>12. QED
  BY <1>5, <1>6, <1>7, <1>9, <1>10, <1>11

-----------------------------------------------------------------------------
(* The invariant of the providers side by side *)

CinesrcInv == EngineInv /\ SlotsAreUsed /\ OneBrowser

LEMMA CinesrcInvElsewhere ==
    ASSUME CinesrcInv, Elsewhere(CinesrcSteps), UNCHANGED cinesrcVars
    PROVE  CinesrcInv'
<1>1. Elsewhere(Watched) /\ Elsewhere(EngineSteps) /\ Elsewhere(WorkerSteps)
  <2>1. Watched \subseteq CinesrcSteps
    BY EngineIsInside
  <2>2. QED
    BY <2>1, EngineIsInside, ElsewhereOfLess
<1>2. EngineInv'
  BY <1>1, EngineInvElsewhere DEF CinesrcInv, cinesrcVars
<1>3. SlotsAreUsed'
  BY <1>1, SlotsStay DEF CinesrcInv, cinesrcVars, Elsewhere
<1>4. QED
  BY <1>2, <1>3 DEF CinesrcInv, OneBrowser, cinesrcVars, workerVars

LEMMA CinesrcKeeps ==
    ASSUME AtTyped, CinesrcInv, NEW r \in Lookups, CinesrcStep(r)
    PROVE  AtTyped' /\ CinesrcInv' /\ Elsewhere(VidSteps)
<1>1. CASE EngineStep(r) /\ UNCHANGED <<jsSlots, slots, workerVars>>
  <2>1. Within(EngineSteps) /\ EngineInv'
    BY <1>1, EngineMoves, EngineKeeps DEF CinesrcInv
  <2>2. Elsewhere(VidSteps) /\ Elsewhere(WorkerSteps)
    BY <2>1, WithinIsElsewhere, EngineIsInside, Apartness
  <2>3. SlotsAreUsed'
    BY <1>1, <2>1, <2>2, SlotsStay DEF CinesrcInv, Within, Elsewhere
  <2>4. QED
    BY <1>1, <2>1, <2>2, <2>3 DEF CinesrcInv, OneBrowser, Within, workerVars
<1>2. CASE EnterEngine(r) \/ LeaveEngine(r) \/ EnterBrowser(r) \/ GetWorker(r)
           \/ LockPage(r) \/ PageEnds(r) \/ CinesrcAccept(r)
  <2>1. Around(r)
    BY <1>2, AroundTheEngine DEF CinesrcInv
  <2>2. Stays(r, CinesrcPlaces)
    BY <2>1 DEF Around, Stays, OnlyMoves, CinesrcPlaces
  <2>3. AtTyped' /\ Elsewhere(VidSteps)
    BY <2>2, StaysElsewhere, EngineIsInside
  <2>4. Elsewhere(Watched)
    BY <2>1 DEF Around, OnlyMoves, Elsewhere
  <2>5. EngineInv'
    BY <2>1, <2>4, EngineInvElsewhere DEF Around, CinesrcInv
  <2>6. QED
    BY <2>1, <2>3, <2>5 DEF Around, CinesrcInv
<1>3. QED
  BY <1>1, <1>2 DEF CinesrcStep

LEMMA CinesrcBegins ==
    ASSUME AtTyped, CinesrcInv, NEW r \in Lookups, BeginCinesrc(r)
    PROVE  AtTyped' /\ CinesrcInv' /\ Elsewhere(VidSteps)
<1>1. {"idle", "bridge"} \cap (EngineSteps \cup WorkerSteps) = {} /\ "bridge" \in CinesrcPlaces
  BY DEF EngineSteps, WorkerSteps, CinesrcPlaces, CinesrcSteps
<1>2. Begin(r, "bridge") /\ UNCHANGED cinesrcVars
  BY DEF BeginCinesrc
<1>3. Stays(r, CinesrcPlaces) /\ at'[r] = "bridge" /\ at[r] = "idle"
  BY <1>1, <1>2, BeginMoves, EngineIsInside DEF Begin
<1>4. AtTyped' /\ Elsewhere(VidSteps)
  BY <1>3, StaysElsewhere, EngineIsInside
<1>5. Elsewhere(EngineSteps) /\ Elsewhere(WorkerSteps)
  BY <1>1, <1>3 DEF Elsewhere, Stays
<1>6. Elsewhere(Watched)
  BY <1>5, EngineIsInside, ElsewhereOfLess
<1>7. EngineInv'
  BY <1>2, <1>6, EngineInvElsewhere DEF CinesrcInv, cinesrcVars
<1>8. SlotsAreUsed'
  BY <1>2, <1>5, SlotsStay DEF CinesrcInv, cinesrcVars, Elsewhere
<1>9. QED
  BY <1>2, <1>4, <1>7, <1>8 DEF CinesrcInv, OneBrowser, cinesrcVars, workerVars

\* Chrome dies, New warms a worker or Close lets it go: what runs is still the worker.
LEMMA CinesrcAges ==
    ASSUME CinesrcInv, CinesrcOutside
    PROVE  CinesrcInv' /\ at' = at
<1>1. CASE (AssetsAge \/ ListAges) /\ UNCHANGED <<jsSlots, slots, workerVars>>
  <2>1. EngineInv' /\ at' = at
    BY <1>1, AgeKeeps DEF CinesrcInv
  <2>2. SlotsAreUsed'
    BY <1>1, <2>1, SlotsStay DEF CinesrcInv
  <2>3. QED
    BY <1>1, <2>1, <2>2 DEF CinesrcInv, OneBrowser, workerVars
<1>2. CASE PrewarmWorker \/ WorkerDies \/ CloseWorker
  <2>1. at' = at /\ UNCHANGED engineVars /\ UNCHANGED <<jsSlots, slots>> /\ OneBrowser'
    BY <1>2 DEF PrewarmWorker, WorkerDies, CloseWorker, KeepWorker, StartWorker, DropWorker,
                common, CinesrcInv, OneBrowser
  <2>2. EngineInv'
    BY <2>1, EngineInvElsewhere DEF CinesrcInv, Elsewhere
  <2>3. SlotsAreUsed'
    BY <2>1, SlotsStay DEF CinesrcInv
  <2>4. QED
    BY <2>1, <2>2, <2>3 DEF CinesrcInv
<1>3. QED
  BY <1>1, <1>2 DEF CinesrcOutside

LEMMA VidBegins ==
    ASSUME AtTyped, VidInv, NEW k \in Lookups, BeginVid(k)
    PROVE  Stays(k, VidPlaces) /\ VidInv'
<1>1. "vid api" \in VidPlaces
  BY DEF VidPlaces, VidSteps
<1>2. Begin(k, "vid api") /\ UNCHANGED <<wasmMu, wasmCache, cdnToken, vid>>
  BY DEF BeginVid, vidVars
<1>3. Stays(k, VidPlaces) /\ at'[k] = "vid api" /\ at[k] = "idle"
  BY <1>1, <1>2, BeginMoves, PlacesOfProviders DEF Begin
<1>4. vid[k] \in VidRun /\ vid' = [vid EXCEPT ![k] = vid[k]]
      /\ cdnToken' \in [Origins -> {"none", "fresh", "expired"}]
  BY <1>2 DEF VidInv, VidTypeOK
<1>5. QED
  BY <1>2, <1>3, <1>4, CacheStays

LEMMA InitInv == Init => IInv
<1> SUFFICES ASSUME Init PROVE IInv
  OBVIOUS
<1>1. at = [k \in Lookups |-> "idle"]
  BY DEF Init, InitCommon
<1>2. AtTyped /\ \A q \in Lookups : at[q] = "idle"
  BY <1>1 DEF AtTyped, Places
<1>3. VidInv
  <2>1. /\ wasmMu = NoWindow /\ wasmCache = <<>> /\ cdnToken = [o \in Origins |-> "none"]
        /\ vid = [k \in Lookups |-> NoVidRun]
    BY DEF Init, InitVid
  <2>2. wasmCache \in Seq(Windows) /\ Len(wasmCache) = 0 /\ Range(wasmCache) \subseteq Windows
    BY <2>1, EmptySeq, RangeOfSeq
  <2>3. VidTypeOK
    BY <2>1, <2>2, VidRunFields DEF VidTypeOK
  <2>4. WasmCacheKept
    <3>1. IsInjective(wasmCache)
      BY <2>1 DEF IsInjective
    <3>2. Len(wasmCache) <= WasmCacheMax
      BY <2>2, VidAssumption
    <3>3. QED
      BY <2>1, <3>1, <3>2 DEF WasmCacheKept, MutexIsDownload, OneModulePerWindow
  <2>5. QED
    BY <1>2, <2>2, <2>3, <2>4 DEF VidInv, Compiling, Asking
<1>4. EngineInv
  <2>1. /\ assets = None /\ powOf = None /\ powsOpen = {} /\ refreshing = None
        /\ scans = 0 /\ providers = 0 /\ run = [r \in Lookups |-> NoEngineRun]
    BY DEF Init, InitCinesrc, InitEngine
  <2>2. EngineTypeOK
    BY <2>1, NoRunFields, EngineAssumption DEF EngineTypeOK
  <2>3. OneModuleOpen
    BY <2>1 DEF OneModuleOpen
  <2>4. Rescanned
    BY <2>1, NoRunFields DEF Rescanned
  <2>5. JoinersAreHeard /\ JoinedAreLookups /\ ScanIsRunning /\ Rounds
    BY <1>2, <2>1 DEF JoinersAreHeard, JoinedAreLookups, ScanIsRunning, Rounds
  <2>6. QED
    BY <2>2, <2>3, <2>4, <2>5 DEF EngineInv
<1>5. SlotsAreUsed
  <2>1. "idle" \notin EngineSteps /\ "idle" \notin WorkerSteps
    BY DEF EngineSteps, WorkerSteps
  <2>2. InSteps(EngineSteps) = {} /\ InSteps(WorkerSteps) = {}
    BY <1>2, <2>1 DEF InSteps
  <2>3. jsSlots = 0 /\ slots = 0 /\ JsSlots \in Nat /\ BrowserSlots \in Nat
    BY CinesrcAssumption DEF Init, InitCinesrc
  <2>4. QED
    BY <2>2, <2>3, FS_EmptySet DEF SlotsAreUsed, InSteps
<1>6. OneBrowser
  BY DEF Init, InitCinesrc, OneBrowser
<1>7. QED
  BY <1>2, <1>3, <1>4, <1>5, <1>6 DEF IInv

LEMMA NextKeepsInv ==
    ASSUME IInv, [Next]_vars
    PROVE  IInv'
<1>1. AtTyped /\ VidInv /\ CinesrcInv
  BY DEF IInv, CinesrcInv
<1> SUFFICES AtTyped' /\ VidInv' /\ CinesrcInv'
  BY DEF IInv, CinesrcInv
\* Who shares nothing with the two, and who shares with one of them only.
<1>2. ASSUME at' = at, UNCHANGED <<vidVars, cinesrcVars>> PROVE AtTyped' /\ VidInv' /\ CinesrcInv'
  BY <1>1, <1>2, NobodyMoves, VidInvElsewhere, CinesrcInvElsewhere
<1>3. ASSUME NEW k \in Lookups, NEW S, Stays(k, S), S \cap VidSteps = {},
             S \cap CinesrcSteps = {}, UNCHANGED <<vidVars, cinesrcVars>>
      PROVE  AtTyped' /\ VidInv' /\ CinesrcInv'
  <2>1. AtTyped' /\ Elsewhere(VidSteps) /\ Elsewhere(CinesrcSteps)
    BY <1>3, StaysElsewhere
  <2>2. QED
    BY <1>1, <1>3, <2>1, VidInvElsewhere, CinesrcInvElsewhere
<1>4. ASSUME NEW k \in Lookups, Stays(k, VidPlaces), VidInv', UNCHANGED cinesrcVars
      PROVE  AtTyped' /\ VidInv' /\ CinesrcInv'
  <2>1. AtTyped' /\ Elsewhere(CinesrcSteps)
    BY <1>4, StaysElsewhere, Apartness
  <2>2. QED
    BY <1>1, <1>4, <2>1, CinesrcInvElsewhere
<1>5. ASSUME AtTyped', CinesrcInv', Elsewhere(VidSteps), UNCHANGED vidVars
      PROVE  AtTyped' /\ VidInv' /\ CinesrcInv'
  BY <1>1, <1>5, VidInvElsewhere
<1>6. ASSUME NEW k \in Lookups, Start(k) PROVE AtTyped' /\ VidInv' /\ CinesrcInv'
  <2>1. CASE BeginMovy(k) /\ UNCHANGED <<movishVars, vidVars, cinesrcVars>>
    <3>1. Stays(k, MovyPlaces)
      <4>1. "movy meta" \in MovyPlaces /\ Begin(k, "movy meta")
        BY <2>1 DEF BeginMovy, MovyPlaces, MovySteps
      <4>2. QED
        BY <1>1, <4>1, BeginMoves, PlacesOfProviders
    <3>2. QED
      BY <1>3, <2>1, <3>1, Apartness
  <2>2. CASE /\ BeginMovish(k) \/ BeginVixsrc(k)
             /\ UNCHANGED <<movyVars, vidVars, cinesrcVars>>
    <3>1. Stays(k, MovishPlaces)
      <4>1. {"movish api", "vixsrc api"} \subseteq MovishPlaces
            /\ (Begin(k, "movish api") \/ Begin(k, "vixsrc api"))
        BY <2>2 DEF BeginMovish, BeginVixsrc, MovishPlaces, MovishSteps
      <4>2. QED
        BY <1>1, <4>1, BeginMoves, PlacesOfProviders
    <3>2. QED
      BY <1>3, <2>2, <3>1, Apartness
  <2>3. CASE BeginVid(k) /\ UNCHANGED <<movyVars, movishVars, cinesrcVars>>
    BY <1>1, <1>4, <2>3, VidBegins
  <2>4. CASE BeginCinesrc(k) /\ UNCHANGED <<movyVars, movishVars, vidVars>>
    BY <1>1, <1>5, <2>4, CinesrcBegins
  <2>5. QED
    BY <1>6, <2>1, <2>2, <2>3, <2>4 DEF Start
<1>7. ASSUME NEW k \in Lookups, Step(k) PROVE AtTyped' /\ VidInv' /\ CinesrcInv'
  <2>1. CASE MovyStep(k) /\ UNCHANGED <<movishVars, vidVars, cinesrcVars>>
    BY <1>1, <1>3, <2>1, MovyMoves, Apartness
  <2>2. CASE MovishStep(k) /\ UNCHANGED <<movyVars, vidVars, cinesrcVars>>
    BY <1>1, <1>3, <2>2, MovishMoves, Apartness
  <2>3. CASE VidStep(k) /\ UNCHANGED <<movyVars, movishVars, cinesrcVars>>
    BY <1>1, <1>4, <2>3, VidMoves, VidKeepsInv
  <2>4. CASE CinesrcStep(k) /\ UNCHANGED <<movyVars, movishVars, vidVars>>
    BY <1>1, <1>5, <2>4, CinesrcKeeps
  <2>5. QED
    BY <1>7, <2>1, <2>2, <2>3, <2>4 DEF Step
<1>8. CASE Outside
  <2>1. CASE (SiteRotates \/ SeedExpires) /\ UNCHANGED <<movishVars, vidVars, cinesrcVars>>
    BY <1>2, <2>1 DEF SiteRotates, SeedExpires, common
  <2>2. CASE /\ (\E o \in Origins : TokenExpires(o)) \/ EvictExpired
             /\ UNCHANGED <<movyVars, movishVars, cinesrcVars>>
    <3>1. VidInv' /\ at' = at
      BY <1>1, <2>2, TokensAge
    <3>2. QED
      BY <1>1, <2>2, <3>1, NobodyMoves, CinesrcInvElsewhere
  <2>3. CASE CinesrcOutside /\ UNCHANGED <<movyVars, movishVars, vidVars>>
    <3>1. CinesrcInv' /\ at' = at
      BY <1>1, <2>3, CinesrcAges
    <3>2. QED
      BY <1>1, <2>3, <3>1, NobodyMoves, VidInvElsewhere
  <2>4. QED
    BY <1>8, <2>1, <2>2, <2>3 DEF Outside
<1>9. ASSUME NEW k \in Lookups, Deadline(k) PROVE AtTyped' /\ VidInv' /\ CinesrcInv'
  BY <1>2, <1>9 DEF Deadline, Expires, MovishLate, common
<1>10. CASE UNCHANGED vars
  BY <1>2, <1>10 DEF vars, common
<1>11. QED
  BY <1>6, <1>7, <1>8, <1>9, <1>10 DEF Next

-----------------------------------------------------------------------------
(* What a retry runs *)

\* Attempts load their scripts one by one, and only from assets that are there.
LEMMA TryLoads ==
    ASSUME EngineInv, NEW r \in Lookups, NEW i \in 1..MaxServers, TryStep(r, i),
           NEW q \in Lookups, NEW j \in 1..MaxServers,
           run[q].try[j].st = "begun", run'[q].try[j].st = "vm"
    PROVE  assets # None
<1>1. run \in [Lookups -> EngineRun] /\ run[r] \in EngineRun
      /\ run[r].try \in [1..MaxServers -> Attempt]
  BY OfOne, RunFields DEF EngineInv, EngineTypeOK
<1>2. ASSUME NEW st \in {"other", "proof", "found", "no cipher"}, NEW scan, Tries(r, i, st, scan)
      PROVE  FALSE
  <2>1. run' = [run EXCEPT ![r] = [run[r] EXCEPT
                   !.try = [run[r].try EXCEPT ![i] = [st |-> st, scan |-> scan]]]]
    BY <1>2 DEF Tries
  <2>2. CASE q = r
    <3>1. run'[q].try = [run[r].try EXCEPT ![i] = [st |-> st, scan |-> scan]]
      BY <1>1, <2>1, <2>2 DEF EngineRun
    <3>2. run'[q].try[j] = IF j = i THEN [st |-> st, scan |-> scan] ELSE run[r].try[j]
      BY <1>1, <3>1
    <3>3. CASE j = i
      <4>1. run'[q].try[j] = [st |-> st, scan |-> scan] /\ st # "vm"
        BY <1>2, <3>2, <3>3
      <4>2. run'[q].try[j].st = st
        BY <4>1
      <4>3. QED
        BY <4>1, <4>2
    <3>4. CASE j # i
      BY <2>2, <3>2, <3>4
    <3>5. QED
      BY <3>3, <3>4
  <2>3. CASE q # r
    BY <1>1, <2>1, <2>3
  <2>4. QED
    BY <2>2, <2>3
<1>3. CASE LoadScripts(r, i)
  BY <1>2, <1>3 DEF LoadScripts, Fails
<1>4. CASE GetPow(r, i) \/ SolveAndAsk(r, i) \/ AttemptFails(r, i)
  BY <1>2, <1>4 DEF GetPow, SolveAndAsk, AttemptFails, Fails
<1>5. QED
  BY <1>3, <1>4 DEF TryStep

\* All other steps leave the attempts alone or start with none, or with new ones.
LEMMA TriesStay ==
    ASSUME EngineInv, NEW r \in Lookups, EngineStep(r), ~(\E i \in 1..MaxServers : TryStep(r, i)),
           NEW q \in Lookups, NEW j \in 1..MaxServers
    PROVE  run'[q].try[j] = run[q].try[j] \/ run'[q].try[j].st \in {"off", "begun"}
<1>1. run \in [Lookups -> EngineRun] /\ \A p \in Lookups : run[p] \in EngineRun
  BY DEF EngineInv, EngineTypeOK
<1>2. NoEngineRun.try[j].st = "off"
  BY NoTry
<1>3. ASSUME NEW e, run' = [run EXCEPT ![r] = e], e.try = run[r].try \/ e.try = NoEngineRun.try
      PROVE  run'[q].try[j] = run[q].try[j] \/ run'[q].try[j].st = "off"
  BY <1>1, <1>2, <1>3
<1>4. ASSUME NEW s, Ends(r, s)
      PROVE  run'[q].try[j] = run[q].try[j] \/ run'[q].try[j].st = "off"
  BY <1>3, <1>4 DEF Ends
<1>5. CASE EnsureAssets(r)
  <2>1. run' = run \/ (refreshing # None /\ run' = [run EXCEPT ![r].joined = refreshing])
    BY <1>5 DEF EnsureAssets
  <2>2. CASE refreshing # None /\ run' = [run EXCEPT ![r].joined = refreshing]
    <3>1. run' = [run EXCEPT ![r] = [run[r] EXCEPT !.joined = refreshing]]
      BY <2>2
    <3>2. [run[r] EXCEPT !.joined = refreshing].try = run[r].try
      BY <1>1 DEF EngineRun
    <3>3. QED
      BY <1>3, <3>1, <3>2
  <2>3. QED
    BY <2>1, <2>2
<1>6. CASE LeaveJoin(r) \/ Woken(r)
  BY <1>4, <1>6 DEF LeaveJoin, Woken
<1>7. CASE Scan(r) \/ LeaveScan(r)
  BY <1>7 DEF Scan, LeaveScan
<1>8. CASE CloseScan(r)
  <2>1. run'[q] = run[q] \/ run'[q] = NoEngineRun \/ run'[q] = [run[q] EXCEPT !.joined = None]
    BY <1>8 DEF CloseScan
  <2>2. [run[q] EXCEPT !.joined = None].try = run[q].try
    BY <1>1 DEF EngineRun
  <2>3. QED
    BY <1>2, <2>1, <2>2
<1>9. CASE List(r)
  <2>1. Ends(r, "failed") \/ \E n \in ListLengths : run' = [run EXCEPT ![r].servers = n]
    BY <1>9, Zenon DEF List
  <2>2. ASSUME NEW n \in ListLengths, run' = [run EXCEPT ![r].servers = n]
        PROVE  run'[q].try[j] = run[q].try[j] \/ run'[q].try[j].st = "off"
    <3>1. run' = [run EXCEPT ![r] = [run[r] EXCEPT !.servers = n]]
      BY <2>2
    <3>2. [run[r] EXCEPT !.servers = n].try = run[r].try
      BY <1>1, ListedRun
    <3>3. QED
      BY <1>3, <3>1, <3>2
  <2>3. QED
    BY <1>4, <2>1, <2>2
<1>10. CASE NextBatch(r)
  <2> DEFINE t == [i \in 1..MaxServers |->
                     IF i \in Batch(r) THEN [st |-> "begun", scan |-> 0] ELSE NoAttempt]
  <2>1. run' = run \/ Ends(r, "failed") \/ run' = [run EXCEPT ![r].try = t]
    BY <1>10 DEF NextBatch
  <2>2. CASE run' = [run EXCEPT ![r].try = t]
    <3>1. run' = [run EXCEPT ![r] = [run[r] EXCEPT !.try = t]]
      BY <2>2
    <3>2. t[j].st \in {"off", "begun"}
      BY DEF NoAttempt
    <3> HIDE DEF t
    <3>3. q = r => run'[q].try = t
      BY <1>1, <3>1 DEF EngineRun
    <3>4. q # r => run'[q] = run[q]
      BY <1>1, <3>1
    <3>5. QED
      BY <3>2, <3>3, <3>4
  <2>3. QED
    BY <1>4, <2>1, <2>2
<1>11. CASE BatchOver(r)
  <2> DEFINE x == run[r].try[run[r].start].st
             e == [run[r] EXCEPT !.lastErr = x, !.start = @ + ServerParallelism,
                                 !.try = NoEngineRun.try]
  <2>1. Ends(r, "found")
        \/ run' = [run EXCEPT ![r].lastErr = x, ![r].start = @ + ServerParallelism,
                              ![r].try = NoEngineRun.try]
    BY <1>11 DEF BatchOver
  <2>2. CASE run' = [run EXCEPT ![r].lastErr = x, ![r].start = @ + ServerParallelism,
                                ![r].try = NoEngineRun.try]
    <3>1. run' = [run EXCEPT ![r] = e]
      BY <2>2
    <3> HIDE DEF x
    <3>2. e.try = NoEngineRun.try
      BY <1>1 DEF EngineRun
    <3>3. QED
      BY <1>3, <3>1, <3>2
  <2>3. QED
    BY <1>4, <2>1, <2>2
<1>12. CASE PassOver(r)
  <2> DEFINE e == [NoEngineRun EXCEPT !.pass = run[r].pass + 1, !.firstPass = run[r].firstPass]
  <2>1. Ends(r, "failed") \/ run' = [run EXCEPT ![r] = e]
    BY <1>12, Zenon DEF PassOver, NextPass
  <2>2. CASE run' = [run EXCEPT ![r] = e]
    <3>1. e.try = NoEngineRun.try
      BY DEF NoEngineRun
    <3>2. QED
      BY <1>3, <2>2, <3>1
  <2>3. QED
    BY <1>4, <2>1, <2>2
<1>13. QED
  BY <1>5, <1>6, <1>7, <1>8, <1>9, <1>10, <1>11, <1>12 DEF EngineStep

\* Who moves the engine's records at all.
LEMMA RunIsTheEngines ==
    ASSUME EngineInv, [Next]_vars, run' # run
    PROVE  \E r \in Lookups : EngineStep(r)
<1> SUFFICES ASSUME ~ \E r \in Lookups : EngineStep(r) PROVE run' = run
  OBVIOUS
<1>1. UNCHANGED cinesrcVars => run' = run
  BY DEF cinesrcVars, engineVars
<1>2. ASSUME NEW k \in Lookups, CinesrcStep(k) PROVE run' = run
  BY <1>1, <1>2 DEF CinesrcStep, EnterEngine, LeaveEngine, EnterBrowser, GetWorker, LockPage,
                    PageEnds, CinesrcAccept, engineVars
<1>3. CinesrcOutside => run' = run
  BY AgeKeeps DEF CinesrcOutside, PrewarmWorker, WorkerDies, CloseWorker, engineVars
<1>4. ASSUME NEW k \in Lookups, Start(k) PROVE run' = run
  BY <1>1, <1>4 DEF Start, BeginCinesrc
<1>5. ASSUME NEW k \in Lookups, Step(k) \/ Deadline(k) PROVE run' = run
  BY <1>1, <1>2, <1>5 DEF Step, Deadline
<1>6. Outside => run' = run
  BY <1>1, <1>3 DEF Outside
<1>7. QED
  BY <1>1, <1>4, <1>5, <1>6 DEF Next, vars

LEMMA RetryStep ==
    ASSUME IInv, [Next]_vars, NEW r \in Lookups, NEW i \in 1..MaxServers,
           run[r].pass > 0, run[r].try[i].st = "begun", run'[r].try[i].st = "vm"
    PROVE  assets.scan > run[r].firstPass
<1>1. PICK q \in Lookups : EngineStep(q)
  BY RunIsTheEngines DEF IInv
<1>2. PICK j \in 1..MaxServers : TryStep(q, j)
  BY <1>1, TriesStay DEF IInv
<1>3. assets # None
  BY <1>2, TryLoads DEF IInv
<1>4. /\ run[r].firstPass < assets.scan
  BY <1>3 DEF IInv, EngineInv, Rescanned
<1>5. assets.scan \in Nat /\ run[r].firstPass \in Nat
  <2>1. assets.scan \in Scans /\ run[r] \in EngineRun
    BY <1>3 DEF IInv, EngineInv, EngineTypeOK
  <2>2. run[r].firstPass \in {0} \cup Scans
    BY <2>1, RunFields
  <2>3. QED
    BY <2>1, <2>2, EngineAssumption DEF Scans
<1>6. QED
  BY <1>4, <1>5

-----------------------------------------------------------------------------
LEMMA Invariance == Spec => []IInv
BY InitInv, NextKeepsInv, PTL DEF Spec

\* resolveVidsrcmeDirect: however many lookups ask for a window's module, the mutex is
\* only ever held over a download and the cache has each module once, and no more than
\* its size.
THEOREM WasmSafe == Spec => []WasmCacheKept
<1>1. IInv => WasmCacheKept
  BY DEF IInv, VidInv
<1>2. QED
  BY <1>1, Invariance, PTL

\* The engine's shared state and each resolve's record stay what the code declares them
\* to be.
THEOREM EngineTyped == Spec => []EngineTypeOK
<1>1. IInv => EngineTypeOK
  BY DEF IInv, EngineInv
<1>2. QED
  BY <1>1, Invariance, PTL

\* cinesrcJSResolve, resolveCinesrcDirect and ensureAssets: the semaphores count who is
\* inside, the proof-of-work module that is open is that of the assets in use, and the
\* browser that runs is the one the next fallback would take.
THEOREM LeakSafe == Spec => []NothingLeaks
<1>1. IInv => NothingLeaks
  BY DEF IInv, EngineInv, NothingLeaks
<1>2. QED
  BY <1>1, Invariance, PTL

\* ensureAssets: who has joined a scan waits for a resolve that is still going to close
\* its channel.
THEOREM JoinersSafe == Spec => []JoinersAreHeard
<1>1. IInv => JoinersAreHeard
  BY DEF IInv, EngineInv
<1>2. QED
  BY <1>1, Invariance, PTL

\* Resolve and resetAssets: a second pass runs scripts scanned after those the first
\* pass failed with.
THEOREM RetrySafe == Spec => RetryIsRescanned
<1>1. IInv /\ [Next]_vars =>
        [\A r \in Lookups, i \in 1..MaxServers :
            (run[r].pass > 0 /\ run[r].try[i].st = "begun" /\ run'[r].try[i].st = "vm")
                => assets.scan > run[r].firstPass]_<<at, engineVars>>
  BY RetryStep
<1>2. QED
  BY <1>1, Invariance, PTL DEF Spec, RetryIsRescanned

-----------------------------------------------------------------------------
(* The order of movy's tiers *)

Tiers == [rank : Nat, proxiable : BOOLEAN]

LEMMA BeforeIsAnOrder ==
    ASSUME NEW list \in Seq(Tiers), NEW i \in DOMAIN list, NEW j \in DOMAIN list
    PROVE  /\ ~Before(list, i, i)
           /\ i = j \/ Before(list, i, j) \/ Before(list, j, i)
           /\ Before(list, i, j) => ~Before(list, j, i)
           /\ \A h \in DOMAIN list : Before(list, h, i) /\ Before(list, i, j) => Before(list, h, j)
<1>1. DOMAIN list = 1..Len(list) /\ Len(list) \in Nat
  BY LenProperties
<1>2. \A h \in DOMAIN list : h \in Nat /\ list[h].rank \in Nat
  <2>1. \A h \in 1..Len(list) : list[h] \in Tiers
    BY ElementOfSeq
  <2>2. QED
    BY <1>1, <2>1 DEF Tiers
<1>3. QED
  BY <1>2 DEF Before

\* Who comes later has more tiers up to it.
LEMMA AheadGrows ==
    ASSUME NEW list \in Seq(Tiers), NEW i \in Proxiable(list), NEW j \in Proxiable(list)
    PROVE  /\ Cardinality(Ahead(list, i)) \in 1..Cardinality(Proxiable(list))
           /\ Before(list, i, j) => Cardinality(Ahead(list, i)) < Cardinality(Ahead(list, j))
<1>1. IsFiniteSet(Proxiable(list)) /\ Proxiable(list) \subseteq DOMAIN list
  <2>1. DOMAIN list = 1..Len(list) /\ Len(list) \in Nat
    BY LenProperties
  <2>2. IsFiniteSet(1..Len(list))
    BY <2>1, FS_Interval
  <2>3. Proxiable(list) \in SUBSET (1..Len(list))
    BY <2>1 DEF Proxiable
  <2>4. QED
    BY <2>1, <2>2, <2>3, FS_Subset
<1>2. ASSUME NEW h \in Proxiable(list)
      PROVE  /\ Ahead(list, h) \in SUBSET Proxiable(list) /\ h \in Ahead(list, h)
             /\ IsFiniteSet(Ahead(list, h)) /\ Cardinality(Ahead(list, h)) \in Nat
             /\ Cardinality(Ahead(list, h)) <= Cardinality(Proxiable(list))
  <2>1. Ahead(list, h) \in SUBSET Proxiable(list) /\ h \in Ahead(list, h)
    BY DEF Ahead
  <2>2. QED
    BY <1>1, <2>1, FS_Subset, FS_CardinalityType
<1>3. Cardinality(Ahead(list, i)) # 0
  BY <1>2, FS_EmptySet
<1>4. ASSUME Before(list, i, j) PROVE Cardinality(Ahead(list, i)) < Cardinality(Ahead(list, j))
  <2>1. j \notin Ahead(list, i) /\ Ahead(list, i) \in SUBSET Ahead(list, j)
    BY <1>1, <1>4, BeforeIsAnOrder DEF Ahead
  <2>2. /\ Cardinality(Ahead(list, i)) <= Cardinality(Ahead(list, j))
        /\ Cardinality(Ahead(list, i)) # Cardinality(Ahead(list, j))
    BY <1>2, <2>1, FS_Subset
  <2>3. QED
    BY <1>2, <2>2
<1>5. Cardinality(Proxiable(list)) \in Nat
  BY <1>1, FS_CardinalityType
<1>6. QED
  BY <1>2, <1>3, <1>4, <1>5

Ordered(list, tiers) ==
    \A p, q \in DOMAIN tiers : p < q => Before(list, tiers[p], tiers[q])

\* ByRank lists the proxiable tiers, the best first.
LEMMA ByRankIs ==
    ASSUME NEW list \in Seq(Tiers)
    PROVE  /\ ByRank(list) \in Seq(Proxiable(list))
           /\ Ordered(list, ByRank(list))
<1> DEFINE kept == Proxiable(list)
           n == Cardinality(kept)
           place == [i \in kept |-> Cardinality(Ahead(list, i))]
<1>1. IsFiniteSet(kept) /\ n \in Nat
  <2>1. DOMAIN list = 1..Len(list) /\ Len(list) \in Nat
    BY LenProperties
  <2>2. IsFiniteSet(1..Len(list))
    BY <2>1, FS_Interval
  <2>3. kept \in SUBSET (1..Len(list))
    BY <2>1 DEF Proxiable
  <2>4. QED
    BY <2>2, <2>3, FS_Subset, FS_CardinalityType
<1>2. kept \subseteq DOMAIN list
  BY DEF Proxiable
<1>3. ASSUME NEW i \in kept, NEW j \in kept
      PROVE  place[i] \in 1..n /\ place[i] \in Nat /\ (Before(list, i, j) => place[i] < place[j])
  BY <1>1, AheadGrows
<1>4. ByRank(list) = [p \in 1..n |-> CHOOSE i \in kept : place[i] = p]
  <2>1. \A p : (CHOOSE i \in kept : place[i] = p)
                   = CHOOSE i \in kept : Cardinality(Ahead(list, i)) = p
    BY DEF place
  <2>2. QED
    BY <2>1 DEF ByRank
<1>5. DOMAIN place = kept
  OBVIOUS
<1> HIDE DEF kept, n, place
<1>6. ASSUME NEW i \in kept, NEW j \in kept, i # j PROVE place[i] # place[j]
  <2>1. Before(list, i, j) \/ Before(list, j, i)
    BY <1>2, <1>6, BeforeIsAnOrder
  <2>2. QED
    BY <1>3, <2>1
<1>7. place \in [kept -> 1..n]
  BY <1>3, <1>5 DEF place
<1>8. place \in Injection(kept, 1..n)
  BY <1>6, <1>7 DEF Injection, IsInjective
<1>9. IsFiniteSet(1..n) /\ Cardinality(1..n) = n
  BY <1>1, FS_Interval
<1>10. place \in Surjection(kept, 1..n)
  BY <1>8, <1>9, FS_Injection DEF n
<1>11. \A p \in 1..n : \E i \in kept : place[i] = p
  BY <1>10 DEF Surjection
<1>12. \A p \in 1..n : ByRank(list)[p] \in kept /\ place[ByRank(list)[p]] = p
  BY <1>4, <1>11
<1>13. DOMAIN ByRank(list) = 1..n
  BY <1>4
<1>14. ByRank(list) \in Seq(kept)
  <2>1. ByRank(list) \in [1..n -> kept]
    BY <1>4, <1>12
  <2>2. QED
    BY <1>1, <2>1, SeqDef
<1>15. ASSUME NEW p \in 1..n, NEW q \in 1..n, p < q
       PROVE  Before(list, ByRank(list)[p], ByRank(list)[q])
  <2>1. ~Before(list, ByRank(list)[q], ByRank(list)[p]) /\ ByRank(list)[p] # ByRank(list)[q]
    BY <1>3, <1>12, <1>15
  <2>2. QED
    BY <1>2, <1>12, <2>1, BeforeIsAnOrder
<1>16. QED
  BY <1>13, <1>14, <1>15 DEF Ordered, kept

-----------------------------------------------------------------------------
(* Lookups of movy *)

MovyRuns ==
    {m \in [srv : 0..(MovyServers - 1), seed : {0} \cup MovySeeds,
            refused : {0} \cup MovySeeds, list : MovyPayloads \cup {<<>>}, tiers : Seq(Nat)] :
       Range(m.tiers) \subseteq DOMAIN m.list}

\* While a server's tiers are tried those that are left are in their order, and what
\* plays is the first of them.
MovyInv ==
    /\ movySeed \in {0} \cup MovySeeds /\ siteSeed \in MovySeeds
    /\ movy \in [Lookups -> MovyRuns]
    /\ \A k \in Lookups :
         /\ at[k] \in {"movy tiers", "movy won"} => Ordered(movy[k].list, movy[k].tiers)
         /\ at[k] = "movy won" => movy[k].tiers # <<>>

LEMMA MovyInvElsewhere ==
    ASSUME MovyInv, Elsewhere(MovySteps), UNCHANGED movyVars
    PROVE  MovyInv'
<1>1. \A q \in Lookups : \A s \in MovySteps : at[q] = s <=> at'[q] = s
  BY DEF Elsewhere
<1>2. UNCHANGED <<movySeed, siteSeed, movy>>
  BY DEF movyVars
<1>3. {"movy tiers", "movy won"} \subseteq MovySteps
  BY DEF MovySteps
<1>4. QED
  BY <1>1, <1>2, <1>3 DEF MovyInv, MovySeeds

\* What a step gives the lookup it is about.
MovySound(step, m) ==
    /\ m \in MovyRuns
    /\ step \in {"movy tiers", "movy won"} => Ordered(m.list, m.tiers)
    /\ step = "movy won" => m.tiers # <<>>

LEMMA MovyStepKeeps ==
    ASSUME MovyInv, NEW k \in Lookups, Stays(k, MovyPlaces),
           NEW m, movy' = [movy EXCEPT ![k] = m], MovySound(at'[k], m),
           movySeed' \in {0} \cup MovySeeds, siteSeed' = siteSeed
    PROVE  MovyInv'
<1>1. movy' \in [Lookups -> MovyRuns]
  BY DEF MovyInv, MovySound
<1>2. ASSUME NEW q \in Lookups
      PROVE  MovySound(at'[q], movy'[q])
  <2>1. CASE q = k
    BY <2>1 DEF MovyInv
  <2>2. CASE q # k
    <3>1. at'[q] = at[q] /\ movy'[q] = movy[q] /\ movy[q] \in MovyRuns
      BY <2>2 DEF Stays, MovyInv
    <3>2. QED
      BY <3>1 DEF MovyInv, MovySound
  <2>3. QED
    BY <2>1, <2>2
<1>3. (siteSeed \in MovySeeds)'
  BY DEF MovyInv, MovySeeds
<1>4. ({0} \cup MovySeeds)' = {0} \cup MovySeeds
  BY DEF MovySeeds
<1>5. QED
  BY <1>1, <1>2, <1>3, <1>4 DEF MovyInv, MovySound

LEMMA WhereItGoes ==
    ASSUME AtTyped, NEW k \in Lookups
    PROVE  /\ \A s : Go(k, s) => at'[k] = s
           /\ Finish(k) => at'[k] = "idle"
BY DEF AtTyped, Go, Finish

LEMMA NoRunIs == NoRun \in MovyRuns
<1>1. <<>> \in Seq(Nat) /\ Range(<<>>) = {}
  BY EmptySeq DEF Range
<1>2. QED
  BY <1>1, MovyAssumption DEF NoRun, MovyRuns

\* The first is tried no more: the rest is in its order.
LEMMA RestIsOrdered ==
    ASSUME NEW list, NEW tiers \in Seq(Nat), tiers # <<>>, Ordered(list, tiers)
    PROVE  /\ Tail(tiers) \in Seq(Nat) /\ Ordered(list, Tail(tiers))
           /\ Range(Tail(tiers)) \subseteq Range(tiers)
<1>1. /\ Tail(tiers) \in Seq(Nat) /\ Len(Tail(tiers)) = Len(tiers) - 1
      /\ \A i \in 1..Len(Tail(tiers)) : Tail(tiers)[i] = tiers[i + 1]
  BY HeadTailProperties
<1>2. DOMAIN tiers = 1..Len(tiers) /\ Len(tiers) \in Nat
      /\ DOMAIN Tail(tiers) = 1..Len(Tail(tiers)) /\ Len(Tail(tiers)) \in Nat
  BY <1>1, LenProperties
<1>3. ASSUME NEW p \in DOMAIN Tail(tiers), NEW q \in DOMAIN Tail(tiers), p < q
      PROVE  Before(list, Tail(tiers)[p], Tail(tiers)[q])
  <2>1. p + 1 \in DOMAIN tiers /\ q + 1 \in DOMAIN tiers /\ p + 1 < q + 1
    BY <1>1, <1>2, <1>3
  <2>2. Before(list, tiers[p + 1], tiers[q + 1])
    BY <2>1 DEF Ordered
  <2>3. QED
    BY <1>1, <1>2, <2>2
<1>4. Range(Tail(tiers)) \subseteq Range(tiers)
  BY <1>1, <1>2 DEF Range
<1>5. QED
  BY <1>1, <1>3, <1>4 DEF Ordered

LEMMA MovyKeeps ==
    ASSUME AtTyped, MovyInv, NEW k \in Lookups, MovyStep(k)
    PROVE  MovyInv'
<1>1. Stays(k, MovyPlaces)
  BY MovyMoves
<1>2. /\ movy \in [Lookups -> MovyRuns] /\ movy[k] \in MovyRuns
      /\ movySeed \in {0} \cup MovySeeds /\ siteSeed \in MovySeeds
  BY DEF MovyInv
<1> DEFINE Tame == movySeed' \in {0} \cup MovySeeds /\ siteSeed' = siteSeed
           Playing == {"movy tiers", "movy won"}
<1>3. ASSUME NEW m, movy' = [movy EXCEPT ![k] = m], MovySound(at'[k], m), Tame
      PROVE  MovyInv'
  BY <1>1, <1>3, MovyStepKeeps
<1>4. ASSUME NEW s, Go(k, s), s \notin Playing, NEW m \in MovyRuns, Tame,
             movy' = [movy EXCEPT ![k] = m]
      PROVE  MovyInv'
  <2>1. at'[k] = s
    BY <1>4, WhereItGoes
  <2>2. MovySound(at'[k], m)
    BY <1>4, <2>1 DEF MovySound
  <2>3. QED
    BY <1>3, <1>4, <2>2
<1>5. ASSUME MovyEnds(k), Tame PROVE MovyInv'
  <2>1. at'[k] = "idle" /\ movy' = [movy EXCEPT ![k] = NoRun]
    BY <1>5, WhereItGoes DEF MovyEnds
  <2>2. MovySound(at'[k], NoRun)
    BY <2>1, NoRunIs DEF MovySound
  <2>3. QED
    BY <1>3, <1>5, <2>1, <2>2
<1>6. ASSUME NextMovyServer(k), Tame PROVE MovyInv'
  <2>1. CASE MovyEnds(k)
    BY <1>5, <1>6, <2>1
  <2>2. CASE /\ movy[k].srv + 1 < MovyServers
             /\ movy' = [movy EXCEPT ![k] = [NoRun EXCEPT !.srv = movy[k].srv + 1, !.seed = movy[k].seed]]
             /\ Go(k, "movy sources")
    <3> DEFINE m == [NoRun EXCEPT !.srv = movy[k].srv + 1, !.seed = movy[k].seed]
    <3>0. movy[k].srv \in 0..(MovyServers - 1) /\ movy[k].seed \in {0} \cup MovySeeds
      BY <1>2 DEF MovyRuns
    <3>1. movy[k].srv + 1 \in 0..(MovyServers - 1)
      <4>1. MovyServers \in Nat /\ movy[k].srv + 1 < MovyServers /\ movy[k].srv \in 0..(MovyServers - 1)
        BY <2>2, <3>0, MovyAssumption
      <4>2. \A x \in Nat : \A y \in 0..(x - 1) : y + 1 < x => y + 1 \in 0..(x - 1)
        OBVIOUS
      <4>3. QED
        BY <4>1, <4>2
    <3>2. m \in MovyRuns
      BY <3>0, <3>1, NoRunIs DEF MovyRuns
    <3>3. movy' = [movy EXCEPT ![k] = m]
      BY <2>2
    <3> HIDE DEF m
    <3>4. QED
      BY <1>4, <1>6, <2>2, <3>2, <3>3
  <2>3. QED
    BY <1>6, <2>1, <2>2 DEF NextMovyServer
<1>7. ASSUME NEW s, s \notin Playing, NEW m \in MovyRuns, Go(k, s), UNCHANGED movy, Tame
      PROVE  MovyInv'
  <2>1. movy' = [movy EXCEPT ![k] = movy[k]]
    BY <1>2, <1>7
  <2>2. QED
    BY <1>2, <1>4, <1>7, <2>1
<1>8. ASSUME NEW seed \in {0} \cup MovySeeds
      PROVE  [movy[k] EXCEPT !.seed = seed] \in MovyRuns
             /\ [movy EXCEPT ![k].seed = seed] = [movy EXCEPT ![k] = [movy[k] EXCEPT !.seed = seed]]
  BY <1>2 DEF MovyRuns
<1>9. CASE MovyMeta(k)
  <2>1. Tame
    BY <1>2, <1>9 DEF MovyMeta
  <2>2. CASE MovyEnds(k)
    BY <1>5, <2>1, <2>2
  <2>3. CASE Go(k, "movy seed") /\ UNCHANGED movy
    BY <1>2, <1>7, <2>1, <2>3
  <2>4. QED
    BY <1>9, <2>2, <2>3 DEF MovyMeta
<1>10. ASSUME NEW next \in {"movy sources", "movy again"}, NEW seed \in {0} \cup MovySeeds,
              movy' = [movy EXCEPT ![k].seed = seed], Go(k, next), Tame
       PROVE  MovyInv'
  <2>1. next \notin Playing
    OBVIOUS
  <2>2. QED
    BY <1>4, <1>8, <1>10, <2>1
<1>11. CASE MovySeed(k)
  <2>1. CASE movySeed # 0
    <3>1. /\ movy' = [movy EXCEPT ![k].seed = movySeed] /\ Go(k, "movy sources")
          /\ UNCHANGED <<movySeed, siteSeed>>
      BY <1>11, <2>1 DEF MovySeed, FetchMovySeed
    <3>2. QED
      BY <1>2, <1>10, <3>1
  <2>2. CASE movySeed = 0
    <3>1. \/ /\ movy' = [movy EXCEPT ![k].seed = siteSeed] /\ Go(k, "movy sources")
             /\ movySeed' \in {0, siteSeed} /\ siteSeed' = siteSeed
          \/ MovyEnds(k) /\ UNCHANGED <<movySeed, siteSeed>>
      BY <1>11, <2>2 DEF MovySeed, FetchMovySeed
    <3>2. QED
      BY <1>2, <1>5, <1>10, <3>1
  <2>3. QED
    BY <2>1, <2>2
<1>12. CASE MovyRefresh(k)
  <2>1. CASE movySeed # 0
    <3>1. /\ movy' = [movy EXCEPT ![k].seed = movySeed] /\ Go(k, "movy again")
          /\ UNCHANGED <<movySeed, siteSeed>>
      BY <1>12, <2>1 DEF MovyRefresh, FetchMovySeed
    <3>2. QED
      BY <1>2, <1>10, <3>1
  <2>2. CASE movySeed = 0
    <3>1. \/ /\ movy' = [movy EXCEPT ![k].seed = siteSeed] /\ Go(k, "movy again")
             /\ movySeed' \in {0, siteSeed} /\ siteSeed' = siteSeed
          \/ NextMovyServer(k) /\ UNCHANGED <<movySeed, siteSeed>>
      BY <1>12, <2>2, Zenon DEF MovyRefresh, FetchMovySeed
    <3>2. QED
      BY <1>2, <1>6, <1>10, <3>1
  <2>3. QED
    BY <2>1, <2>2
<1>13. CASE MovySources(k)
  <2>1. Tame
    BY <1>2, <1>13 DEF MovySources
  <2>2. ASSUME NEW list \in MovyPayloads, Go(k, "movy tiers"),
               movy' = [movy EXCEPT ![k].list = list, ![k].tiers = ByRank(list)]
        PROVE  MovyInv'
    <3> DEFINE m == [movy[k] EXCEPT !.list = list, !.tiers = ByRank(list)]
    <3>1. list \in Seq(Tiers)
      BY MovyAssumption DEF Tiers
    <3>2. ByRank(list) \in Seq(Proxiable(list)) /\ Ordered(list, ByRank(list))
      BY <3>1, ByRankIs
    <3>3. ByRank(list) \in Seq(Nat)
      <4>1. DOMAIN list = 1..Len(list) /\ Len(list) \in Nat
        BY <3>1, LenProperties
      <4>2. Proxiable(list) \subseteq Nat
        BY <4>1 DEF Proxiable
      <4>3. QED
        BY <3>2, <4>2, SeqDef
    <3>9. Range(ByRank(list)) \subseteq DOMAIN list
      <4>1. Proxiable(list) \subseteq DOMAIN list
        BY DEF Proxiable
      <4>2. QED
        BY <3>2, <4>1, RangeOfSeq
    <3>4. m \in MovyRuns /\ m.list = list /\ m.tiers = ByRank(list)
      BY <1>2, <2>2, <3>3, <3>9 DEF MovyRuns
    <3>5. movy' = [movy EXCEPT ![k] = m]
      BY <1>2, <2>2
    <3>6. at'[k] = "movy tiers"
      BY <2>2, WhereItGoes
    <3> HIDE DEF m
    <3>7. MovySound(at'[k], m)
      BY <3>2, <3>4, <3>6 DEF MovySound
    <3>8. QED
      BY <1>3, <2>1, <3>5, <3>7
  <2>3. ASSUME movy' = [movy EXCEPT ![k].refused = movy[k].seed], Go(k, "movy refresh")
        PROVE  MovyInv'
    <3> DEFINE m == [movy[k] EXCEPT !.refused = movy[k].seed]
    <3>1. m \in MovyRuns /\ movy' = [movy EXCEPT ![k] = m]
      BY <1>2, <2>3 DEF MovyRuns
    <3> HIDE DEF m
    <3>2. QED
      BY <1>4, <2>1, <2>3, <3>1
  <2>4. CASE NextMovyServer(k)
    BY <1>6, <2>1, <2>4
  <2>5. QED
    BY <1>13, <2>2, <2>3, <2>4, Zenon DEF MovySources
<1>14. CASE MovyTier(k)
  <2>1. Tame /\ at[k] = "movy tiers"
    BY <1>2, <1>14 DEF MovyTier
  <2>2. Ordered(movy[k].list, movy[k].tiers) /\ movy[k].tiers \in Seq(Nat)
    BY <1>2, <2>1 DEF MovyInv, MovyRuns
  <2>3. CASE movy[k].tiers = <<>>
    BY <1>6, <1>14, <2>1, <2>3 DEF MovyTier
  <2>4. CASE movy[k].tiers # <<>> /\ Go(k, "movy won") /\ UNCHANGED movy
    <3>1. movy' = [movy EXCEPT ![k] = movy[k]] /\ at'[k] = "movy won"
      BY <1>2, <2>4, WhereItGoes
    <3>2. MovySound(at'[k], movy[k])
      BY <1>2, <2>2, <2>4 DEF MovySound
    <3>3. QED
      BY <1>3, <2>1, <3>1, <3>2
  <2>5. CASE /\ movy[k].tiers # <<>> /\ movy' = [movy EXCEPT ![k].tiers = Tail(@)]
             /\ UNCHANGED common
    <3> DEFINE m == [movy[k] EXCEPT !.tiers = Tail(movy[k].tiers)]
    <3>1. /\ Tail(movy[k].tiers) \in Seq(Nat) /\ Ordered(movy[k].list, Tail(movy[k].tiers))
          /\ Range(Tail(movy[k].tiers)) \subseteq Range(movy[k].tiers)
      BY <2>2, <2>5, RestIsOrdered
    <3>2. m \in MovyRuns /\ m.list = movy[k].list /\ m.tiers = Tail(movy[k].tiers)
      BY <1>2, <3>1 DEF MovyRuns
    <3>3. movy' = [movy EXCEPT ![k] = m]
      BY <1>2, <2>5
    <3>4. at'[k] = "movy tiers"
      BY <2>1, <2>5 DEF common
    <3> HIDE DEF m
    <3>5. MovySound(at'[k], m)
      BY <3>1, <3>2, <3>4 DEF MovySound
    <3>6. QED
      BY <1>3, <2>1, <3>3, <3>5
  <2>6. QED
    BY <1>14, <2>3, <2>4, <2>5 DEF MovyTier
<1>15. CASE MovyAccept(k)
  BY <1>2, <1>5, <1>15 DEF MovyAccept
<1>16. QED
  BY <1>9, <1>11, <1>12, <1>13, <1>14, <1>15 DEF MovyStep

\* What plays is ahead of every tier behind it.
LEMMA FirstIsBest ==
    ASSUME MovyInv
    PROVE  MovyPlaysBest
<1>1. SUFFICES ASSUME NEW k \in Lookups, at[k] = "movy won", NEW i \in Range(Tail(movy[k].tiers))
               PROVE  Before(movy[k].list, Head(movy[k].tiers), i)
  BY <1>1 DEF MovyPlaysBest, Before
<1> DEFINE tiers == movy[k].tiers
<1>2. tiers \in Seq(Nat) /\ tiers # <<>> /\ Ordered(movy[k].list, tiers)
  BY <1>1 DEF MovyInv, MovyRuns
<1> HIDE DEF tiers
<1>3. /\ Head(tiers) = tiers[1] /\ Tail(tiers) \in Seq(Nat) /\ Len(Tail(tiers)) = Len(tiers) - 1
      /\ \A p \in 1..Len(Tail(tiers)) : Tail(tiers)[p] = tiers[p + 1]
  BY <1>2, HeadTailProperties
<1>4. DOMAIN tiers = 1..Len(tiers) /\ Len(tiers) \in Nat
      /\ DOMAIN Tail(tiers) = 1..Len(Tail(tiers)) /\ Len(Tail(tiers)) \in Nat
  BY <1>2, <1>3, LenProperties
<1>5. PICK p \in DOMAIN Tail(tiers) : i = Tail(tiers)[p]
  BY <1>1 DEF Range, tiers
<1>6. i = tiers[p + 1] /\ p + 1 \in DOMAIN tiers /\ 1 \in DOMAIN tiers /\ 1 < p + 1
  BY <1>3, <1>4, <1>5
<1>7. QED
  BY <1>2, <1>3, <1>6 DEF Ordered, tiers

-----------------------------------------------------------------------------
(* The winner of movish's probes *)

\* Induction over the naturals: a set that lacks one lacks a least one.
LEMMA Counting ==
    ASSUME NEW S, 0 \in S, \A n \in Nat : n \in S => n + 1 \in S
    PROVE  Nat \subseteq S
<1> SUFFICES ASSUME Nat \ S # {} PROVE FALSE
  OBVIOUS
<1>1. PICK m \in Nat \ S : \A k \in Nat \ S : ~(<<k, m>> \in OpToRel(<, Nat))
  BY NatLessThanWellFounded, WFMin
<1>2. \A k \in Nat \ S : ~(k < m)
  BY <1>1 DEF OpToRel
<1>3. m # 0
  OBVIOUS
<1>4. m - 1 \in Nat /\ m - 1 \in S
  BY <1>2, <1>3
<1>5. QED
  BY <1>4

\* best is what the loop has after each of the first n results.
Loops(probes, n, best) ==
    best = [i \in 0..n |-> IF i = 0 THEN 0 ELSE Better(probes, best[i - 1], i)]

LEMMA WinnerIs ==
    ASSUME NEW probes, Len(probes) \in Nat
    PROVE  \E best : Loops(probes, Len(probes), best) /\ Winner(probes) = best[Len(probes)]
<1> DEFINE S == {n \in Nat : \E g : Loops(probes, n, g)}
<1>1. 0 \in S
  <2>1. Loops(probes, 0, [i \in 0..0 |-> 0])
    BY DEF Loops
  <2>2. QED
    BY <2>1
<1>2. ASSUME NEW n \in Nat, n \in S PROVE n + 1 \in S
  <2>1. PICK g : Loops(probes, n, g)
    BY <1>2
  <2> DEFINE h == [i \in 0..n + 1 |-> IF i <= n THEN g[i] ELSE Better(probes, g[n], i)]
  <2>2. \A i \in 0..n : g[i] = IF i = 0 THEN 0 ELSE Better(probes, g[i - 1], i)
    <3> HIDE DEF h, S
    <3>1. QED
      BY <2>1 DEF Loops
  <2>3. \A i \in 0..n + 1 : h[i] = IF i = 0 THEN 0 ELSE Better(probes, h[i - 1], i)
    BY <2>2
  <2>4. Loops(probes, n + 1, h)
    BY <2>3 DEF Loops
  <2>5. QED
    BY <2>4
<1>3. Len(probes) \in S
  <2> HIDE DEF S
  <2>1. QED
    BY <1>1, <1>2, Counting
<1>4. \E best : Loops(probes, Len(probes), best)
  BY <1>3
<1> DEFINE chosen == CHOOSE best : Loops(probes, Len(probes), best)
<1>5. Loops(probes, Len(probes), chosen)
  BY <1>4
<1>6. Winner(probes) = chosen[Len(probes)]
  BY DEF Winner, Loops
<1>7. QED
  BY <1>5, <1>6

\* Of the first n probes w is the tallest that passed, and the first of its height.
Tallest(probes, n, w) ==
    /\ w # 0 => w \in 1..n /\ probes[w].at = "passed"
    /\ \A i \in 1..n : probes[i].at = "passed" =>
         /\ w # 0
         /\ \/ probes[i].height < probes[w].height
            \/ probes[i].height = probes[w].height /\ w <= i

LEMMA WinnerIsTallest ==
    ASSUME NEW n \in Nat, NEW probes \in [1..n -> Probe]
    PROVE  Winner(probes) \in Nat /\ Tallest(probes, n, Winner(probes))
<1>1. Len(probes) = n
  OBVIOUS
<1>2. PICK best : Loops(probes, n, best) /\ Winner(probes) = best[n]
  BY <1>1, WinnerIs
<1>3. \A i \in 1..n : probes[i].height \in Nat
  <2>1. \A i \in 1..n : probes[i].height \in Heights \cup {0}
    BY DEF Probe
  <2>2. Heights \cup {0} \subseteq Nat
    BY MovishAssumption
  <2>3. QED
    BY <2>1, <2>2
<1>4. \A i \in 0..n : best[i] = IF i = 0 THEN 0 ELSE Better(probes, best[i - 1], i)
  BY <1>2 DEF Loops
<1> DEFINE S == {i \in Nat : i <= n => best[i] \in Nat /\ Tallest(probes, i, best[i])}
<1>5. 0 \in S
  BY <1>4 DEF Tallest
<1>6. ASSUME NEW m \in Nat, m \in S PROVE m + 1 \in S
  <2>1. SUFFICES ASSUME m + 1 <= n
                 PROVE  best[m + 1] \in Nat /\ Tallest(probes, m + 1, best[m + 1])
    OBVIOUS
  <2> DEFINE w == best[m]
  <2>2. w \in Nat /\ Tallest(probes, m, w)
    BY <1>6, <2>1
  <2>3. best[m + 1] = Better(probes, w, m + 1)
    BY <1>4, <2>1
  <2> HIDE DEF w, S
  <2>4. CASE probes[m + 1].at = "passed" /\ (w = 0 \/ probes[m + 1].height > probes[w].height)
    <3>1. best[m + 1] = m + 1
      BY <2>3, <2>4 DEF Better
    <3>2. ASSUME NEW i \in 1..m, probes[i].at = "passed"
          PROVE  probes[i].height < probes[m + 1].height
      <4>1. w # 0 /\ w \in 1..m /\ probes[i].height <= probes[w].height
        BY <1>3, <2>1, <2>2, <3>2 DEF Tallest
      <4>2. QED
        BY <1>3, <2>1, <2>4, <4>1
    <3>3. QED
      BY <2>4, <3>1, <3>2 DEF Tallest
  <2>5. CASE ~(probes[m + 1].at = "passed" /\ (w = 0 \/ probes[m + 1].height > probes[w].height))
    <3>1. best[m + 1] = w
      BY <2>3, <2>5 DEF Better
    <3>2. ASSUME probes[m + 1].at = "passed"
          PROVE  w # 0 /\ w <= m + 1 /\ probes[m + 1].height <= probes[w].height
      BY <1>3, <2>1, <2>2, <2>5, <3>2 DEF Tallest
    <3>3. w # 0 => w \in 1..n /\ w \in 1..m + 1
      BY <2>1, <2>2 DEF Tallest
    <3>4. QED
      BY <1>3, <2>1, <2>2, <3>1, <3>2, <3>3 DEF Tallest
  <2>6. QED
    BY <2>4, <2>5
<1>7. n \in S
  <2> HIDE DEF S
  <2>1. QED
    BY <1>5, <1>6, Counting
<1>8. QED
  BY <1>2, <1>7

-----------------------------------------------------------------------------
(* Lookups of movish *)

MovishInv ==
    /\ movish \in [Lookups -> UNION {[1..n -> Probe] : n \in 0..Servers}]
    /\ late \in [Lookups -> BOOLEAN]
    /\ \A k \in Lookups : at[k] = "movish won" => Winner(movish[k]) # 0

LEMMA MovishInvElsewhere ==
    ASSUME MovishInv, Elsewhere(MovishSteps), UNCHANGED movishVars
    PROVE  MovishInv'
<1>1. \A q \in Lookups : at[q] = "movish won" <=> at'[q] = "movish won"
  BY DEF Elsewhere, MovishSteps
<1>2. movish' = movish /\ late' = late
  BY DEF movishVars
<1>3. QED
  BY <1>1, <1>2 DEF MovishInv

LEMMA MovishStepKeeps ==
    ASSUME MovishInv, NEW k \in Lookups, Stays(k, MovishPlaces),
           NEW probes \in UNION {[1..n -> Probe] : n \in 0..Servers},
           movish' = [movish EXCEPT ![k] = probes],
           at'[k] = "movish won" => Winner(probes) # 0,
           late' \in [Lookups -> BOOLEAN]
    PROVE  MovishInv'
<1>1. movish' \in [Lookups -> UNION {[1..n -> Probe] : n \in 0..Servers}]
  BY DEF MovishInv
<1>2. ASSUME NEW q \in Lookups, at'[q] = "movish won"
      PROVE  Winner(movish'[q]) # 0
  <2>1. CASE q = k
    BY <1>2, <2>1 DEF MovishInv
  <2>2. CASE q # k
    BY <1>2, <2>2 DEF MovishInv, Stays
  <2>3. QED
    BY <2>1, <2>2
<1>3. QED
  BY <1>1, <1>2 DEF MovishInv

LEMMA NewProbes ==
    /\ <<>> \in UNION {[1..n -> Probe] : n \in 0..Servers}
    /\ \A n \in 0..Servers : [i \in 1..n |-> NewProbe] \in UNION {[1..m -> Probe] : m \in 0..Servers}
<1>1. NewProbe \in Probe
  BY DEF NewProbe, Probe
<1>2. \A n \in 0..Servers : [i \in 1..n |-> NewProbe] \in [1..n -> Probe]
  BY <1>1
<1>3. <<>> \in [1..0 -> Probe] /\ 0 \in 0..Servers
  BY MovishAssumption
<1>4. QED
  BY <1>2, <1>3

LEMMA ProbedIs ==
    ASSUME NEW p \in Probe, p.at \notin Ended, NEW reached \in BOOLEAN,
           NEW q \in Probed(p, reached)
    PROVE  q \in Probe
<1>1. FailedProbe \in Probe
  BY DEF FailedProbe, Probe
<1>2. p.at = "master" \/ p.at = "variant" \/ p.at = "segment"
  BY DEF Probe, Ended
<1>3. CASE q = FailedProbe
  BY <1>1, <1>3
<1>4. CASE p.at = "master" /\ \E h \in Heights : q = [p EXCEPT !.at = "variant", !.height = h]
  BY <1>4 DEF Probe
<1>5. CASE q = [p EXCEPT !.at = "segment"]
  BY <1>5 DEF Probe
<1>6. CASE q = [p EXCEPT !.at = "passed"]
  BY <1>6 DEF Probe
<1>7. QED
  BY <1>2, <1>3, <1>4, <1>5, <1>6 DEF Probed

LEMMA MovishKeeps ==
    ASSUME AtTyped, MovishInv, NEW k \in Lookups, MovishStep(k)
    PROVE  MovishInv'
<1>1. Stays(k, MovishPlaces)
  BY MovishMoves
<1> DEFINE Probes == UNION {[1..n -> Probe] : n \in 0..Servers}
<1>2. movish \in [Lookups -> Probes] /\ movish[k] \in Probes /\ late \in [Lookups -> BOOLEAN]
      /\ movish = [movish EXCEPT ![k] = movish[k]]
  BY DEF MovishInv
<1>3. ASSUME NEW probes \in Probes, movish' = [movish EXCEPT ![k] = probes],
             at'[k] = "movish won" => Winner(probes) # 0, late' \in [Lookups -> BOOLEAN]
      PROVE  MovishInv'
  BY <1>1, <1>3, MovishStepKeeps
<1>4. <<>> \in Probes /\ \A n \in 0..Servers : [i \in 1..n |-> NewProbe] \in Probes
  BY NewProbes
<1> HIDE DEF Probes
<1>5. ASSUME MovishEnds(k) PROVE MovishInv'
  <2>1. at'[k] = "idle" /\ movish' = [movish EXCEPT ![k] = <<>>] /\ late' \in [Lookups -> BOOLEAN]
    BY <1>2, <1>5, WhereItGoes DEF MovishEnds
  <2>2. QED
    BY <1>3, <1>4, <2>1
<1>6. ASSUME UNCHANGED movishVars, NEW s, at'[k] = s, s # "movish won" PROVE MovishInv'
  BY <1>2, <1>3, <1>6 DEF movishVars
<1>7. CASE MovishSources(k)
  <2>1. ASSUME NEW n \in 1..Servers, Go(k, "movish wait"), UNCHANGED late,
               movish' = [movish EXCEPT ![k] = [i \in 1..n |-> NewProbe]]
        PROVE  MovishInv'
    <3>1. n \in 0..Servers
      BY MovishAssumption
    <3>2. at'[k] = "movish wait"
      BY <2>1, WhereItGoes
    <3>3. QED
      BY <1>2, <1>3, <1>4, <2>1, <3>1, <3>2
  <2>2. QED
    BY <1>5, <1>7, <2>1 DEF MovishSources
<1>8. CASE MovishPick(k)
  <2>1. CASE Winner(movish[k]) # 0 /\ UNCHANGED movishVars
    BY <1>2, <1>3, <2>1 DEF movishVars
  <2>2. QED
    BY <1>5, <1>8, <2>1 DEF MovishPick
<1>9. CASE MovishAccept(k) \/ VixsrcAccept(k)
  BY <1>5, <1>9 DEF MovishAccept, VixsrcAccept
<1>10. CASE VixsrcFetch(k)
  <2>1. DOMAIN VixsrcNext = {"vixsrc api", "vixsrc embed", "vixsrc master"}
    BY DEF VixsrcNext
  <2>2. \A s \in DOMAIN VixsrcNext : VixsrcNext[s] # "movish won"
    BY DEF VixsrcNext
  <2>3. at[k] \in DOMAIN VixsrcNext /\ (Finish(k) \/ Go(k, VixsrcNext[at[k]])) /\ UNCHANGED movishVars
    BY <1>10, Zenon DEF VixsrcFetch
  <2>4. at'[k] # "movish won"
    BY <2>2, <2>3, WhereItGoes
  <2>5. QED
    BY <1>6, <2>3, <2>4
<1>11. ASSUME NEW i \in 1..Servers, MovishProbe(k, i) PROVE MovishInv'
  <2>1. at'[k] = "movish wait" /\ late' = late
    BY <1>11 DEF MovishProbe, common
  <2>2. PICK n \in 0..Servers : movish[k] \in [1..n -> Probe]
    BY <1>2 DEF Probes
  <2>3. i \in 1..n /\ movish[k][i] \in Probe /\ movish[k][i].at \notin Ended
    BY <1>11, <2>2 DEF MovishProbe
  <2>4. PICK p \in Probed(movish[k][i], Reached(k) /\ ~late[k]) : movish' = [movish EXCEPT ![k][i] = p]
    BY <1>11 DEF MovishProbe
  <2>5. p \in Probe
    BY <2>3, <2>4, ProbedIs
  <2> DEFINE probes == [movish[k] EXCEPT ![i] = p]
  <2>6. probes \in [1..n -> Probe]
    BY <2>2, <2>5
  <2>7. probes \in Probes /\ movish' = [movish EXCEPT ![k] = probes]
    BY <1>2, <2>4, <2>6 DEF Probes
  <2> HIDE DEF probes
  <2>8. QED
    BY <1>2, <1>3, <2>1, <2>7
<1>12. QED
  BY <1>7, <1>8, <1>9, <1>10, <1>11 DEF MovishStep

\* Whoever has won has a winner, which is the tallest of those that passed.
LEMMA WinnerPlays ==
    ASSUME MovishInv
    PROVE  MovishPlaysTallest
<1>1. SUFFICES ASSUME NEW k \in Lookups, at[k] = "movish won"
               PROVE  LET w == Winner(movish[k])
                      IN /\ movish[k][w].at = "passed"
                         /\ \A i \in DOMAIN movish[k] : movish[k][i].at = "passed" =>
                              \/ movish[k][i].height < movish[k][w].height
                              \/ movish[k][i].height = movish[k][w].height /\ w <= i
  BY <1>1 DEF MovishPlaysTallest
<1>2. Winner(movish[k]) # 0
  BY <1>1 DEF MovishInv
<1>3. PICK n \in Nat : movish[k] \in [1..n -> Probe]
  <2>1. movish[k] \in UNION {[1..n -> Probe] : n \in 0..Servers}
    BY DEF MovishInv
  <2>2. QED
    BY <2>1
<1>4. Tallest(movish[k], n, Winner(movish[k])) /\ DOMAIN movish[k] = 1..n
  BY <1>3, WinnerIsTallest
<1>5. QED
  BY <1>2, <1>4 DEF Tallest

LEMMA MorePlaces ==
    /\ MovyPlaces \cap MovishSteps = {} /\ MovishPlaces \cap MovySteps = {}
    /\ VidPlaces \cap (MovySteps \cup MovishSteps) = {}
    /\ CinesrcPlaces \cap (MovySteps \cup MovishSteps) = {}
<1>1. MovyPlaces \cap MovishSteps = {} /\ MovishPlaces \cap MovySteps = {}
  BY DEF MovyPlaces, MovySteps, MovishPlaces, MovishSteps
<1>2. VidPlaces \cap (MovySteps \cup MovishSteps) = {}
  BY DEF VidPlaces, VidSteps, MovySteps, MovishSteps
<1>3. CinesrcPlaces \cap MovySteps = {}
  BY DEF MovySteps, CinesrcPlaces, CinesrcSteps, EngineSteps, WorkerSteps
<1>4. CinesrcPlaces \cap MovishSteps = {}
  BY DEF MovishSteps, CinesrcPlaces, CinesrcSteps, EngineSteps, WorkerSteps
<1>5. QED
  BY <1>1, <1>2, <1>3, <1>4

LEMMA CinesrcStaysAway ==
    ASSUME AtTyped, CinesrcInv, NEW r \in Lookups, CinesrcStep(r)
    PROVE  Elsewhere(MovySteps \cup MovishSteps)
<1>1. CASE EngineStep(r)
  <2>1. Within(EngineSteps)
    BY <1>1, EngineMoves DEF CinesrcInv
  <2>2. EngineSteps \subseteq CinesrcPlaces
    BY DEF CinesrcPlaces, CinesrcSteps
  <2>3. QED
    BY <2>1, <2>2, WithinIsElsewhere, MorePlaces
<1>2. CASE EnterEngine(r) \/ LeaveEngine(r) \/ EnterBrowser(r) \/ GetWorker(r)
           \/ LockPage(r) \/ PageEnds(r) \/ CinesrcAccept(r)
  <2>1. Around(r)
    BY <1>2, AroundTheEngine DEF CinesrcInv
  <2>2. Stays(r, CinesrcPlaces)
    BY <2>1 DEF Around, Stays, OnlyMoves, CinesrcPlaces
  <2>3. QED
    BY <2>2, StaysElsewhere, MorePlaces
<1>3. QED
  BY <1>1, <1>2 DEF CinesrcStep

\* What plays, with the invariant that has where lookups are.
BestInv == IInv /\ MovyInv /\ MovishInv

LEMMA InitBest == Init => BestInv
<1> SUFFICES ASSUME Init PROVE MovyInv /\ MovishInv
  BY InitInv DEF BestInv
<1>1. at = [k \in Lookups |-> "idle"]
  BY DEF Init, InitCommon
<1>2. MovyInv
  <2>1. movySeed = 0 /\ siteSeed = 1 /\ movy = [k \in Lookups |-> NoRun]
    BY DEF Init, InitMovy
  <2>2. 1 \in MovySeeds
    BY MovyAssumption DEF MovySeeds
  <2>3. QED
    BY <1>1, <2>1, <2>2, NoRunIs DEF MovyInv
<1>3. MovishInv
  <2>1. movish = [k \in Lookups |-> <<>>] /\ late = [k \in Lookups |-> FALSE]
    BY DEF Init, InitMovish
  <2>2. QED
    BY <1>1, <2>1, NewProbes DEF MovishInv
<1>4. QED
  BY <1>2, <1>3

LEMMA NextKeepsBest ==
    ASSUME BestInv, [Next]_vars
    PROVE  BestInv'
<1>1. IInv' /\ AtTyped /\ VidInv /\ CinesrcInv /\ MovyInv /\ MovishInv
  BY NextKeepsInv DEF BestInv, IInv, CinesrcInv
<1> SUFFICES MovyInv' /\ MovishInv'
  BY <1>1 DEF BestInv
<1>2. ASSUME Elsewhere(MovySteps \cup MovishSteps), UNCHANGED <<movyVars, movishVars>>
      PROVE  MovyInv' /\ MovishInv'
  BY <1>1, <1>2, ElsewhereOfLess, MovyInvElsewhere, MovishInvElsewhere
<1>3. ASSUME at' = at, UNCHANGED <<movyVars, movishVars>> PROVE MovyInv' /\ MovishInv'
  BY <1>1, <1>2, <1>3, NobodyMoves
<1>4. ASSUME NEW k \in Lookups, NEW S, Stays(k, S), S \cap (MovySteps \cup MovishSteps) = {},
             UNCHANGED <<movyVars, movishVars>>
      PROVE  MovyInv' /\ MovishInv'
  BY <1>2, <1>4, StaysElsewhere
<1>5. ASSUME NEW k \in Lookups, Stays(k, MovyPlaces), MovyInv', UNCHANGED movishVars
      PROVE  MovyInv' /\ MovishInv'
  BY <1>1, <1>5, StaysElsewhere, MorePlaces, MovishInvElsewhere
<1>6. ASSUME NEW k \in Lookups, Stays(k, MovishPlaces), MovishInv', UNCHANGED movyVars
      PROVE  MovyInv' /\ MovishInv'
  BY <1>1, <1>6, StaysElsewhere, MorePlaces, MovyInvElsewhere
<1>7. ASSUME NEW k \in Lookups, Start(k) PROVE MovyInv' /\ MovishInv'
  <2>1. CASE BeginMovy(k) /\ UNCHANGED <<movishVars, vidVars, cinesrcVars>>
    <3>1. "movy meta" \in MovyPlaces /\ Begin(k, "movy meta") /\ UNCHANGED movyVars
      BY <2>1 DEF BeginMovy, MovyPlaces, MovySteps
    <3>2. Stays(k, MovyPlaces) /\ at'[k] = "movy meta"
      BY <1>1, <3>1, BeginMoves, PlacesOfProviders
    <3>3. /\ movy[k] \in MovyRuns /\ movy' = [movy EXCEPT ![k] = movy[k]]
          /\ movySeed' \in {0} \cup MovySeeds /\ siteSeed' = siteSeed
      BY <1>1, <3>1 DEF MovyInv, movyVars
    <3>4. MovySound(at'[k], movy[k])
      BY <3>2, <3>3 DEF MovySound
    <3>5. MovyInv'
      BY <1>1, <3>2, <3>3, <3>4, MovyStepKeeps
    <3>6. QED
      BY <1>5, <2>1, <3>2, <3>5
  <2>2. CASE /\ BeginMovish(k) \/ BeginVixsrc(k)
             /\ UNCHANGED <<movyVars, vidVars, cinesrcVars>>
    <3>1. PICK s \in {"movish api", "vixsrc api"} : Begin(k, s) /\ UNCHANGED movishVars
      BY <2>2 DEF BeginMovish, BeginVixsrc
    <3>2. s \in MovishPlaces
      BY DEF MovishPlaces, MovishSteps
    <3>3. Stays(k, MovishPlaces) /\ at'[k] = s
      BY <1>1, <3>1, <3>2, BeginMoves, PlacesOfProviders
    <3>4. /\ movish[k] \in UNION {[1..n -> Probe] : n \in 0..Servers} /\ late' \in [Lookups -> BOOLEAN]
          /\ movish' = [movish EXCEPT ![k] = movish[k]]
      BY <1>1, <3>1 DEF MovishInv, movishVars
    <3>5. MovishInv'
      BY <1>1, <3>3, <3>4, MovishStepKeeps
    <3>6. QED
      BY <1>6, <2>2, <3>3, <3>5
  <2>3. CASE BeginVid(k) /\ UNCHANGED <<movyVars, movishVars, cinesrcVars>>
    BY <1>1, <1>4, <2>3, VidBegins, MorePlaces
  <2>4. CASE BeginCinesrc(k) /\ UNCHANGED <<movyVars, movishVars, vidVars>>
    <3>1. "bridge" \in CinesrcPlaces /\ Begin(k, "bridge")
      BY <2>4 DEF BeginCinesrc, CinesrcPlaces, CinesrcSteps
    <3>2. Stays(k, CinesrcPlaces)
      BY <1>1, <3>1, BeginMoves, EngineIsInside
    <3>3. QED
      BY <1>4, <2>4, <3>2, MorePlaces
  <2>5. QED
    BY <1>7, <2>1, <2>2, <2>3, <2>4 DEF Start
<1>8. ASSUME NEW k \in Lookups, Step(k) PROVE MovyInv' /\ MovishInv'
  <2>1. CASE MovyStep(k) /\ UNCHANGED <<movishVars, vidVars, cinesrcVars>>
    BY <1>1, <1>5, <2>1, MovyMoves, MovyKeeps
  <2>2. CASE MovishStep(k) /\ UNCHANGED <<movyVars, vidVars, cinesrcVars>>
    BY <1>1, <1>6, <2>2, MovishMoves, MovishKeeps
  <2>3. CASE VidStep(k) /\ UNCHANGED <<movyVars, movishVars, cinesrcVars>>
    BY <1>1, <1>4, <2>3, VidMoves, MorePlaces
  <2>4. CASE CinesrcStep(k) /\ UNCHANGED <<movyVars, movishVars, vidVars>>
    <3>1. Elsewhere(MovySteps \cup MovishSteps)
      BY <1>1, <2>4, CinesrcStaysAway
    <3>2. QED
      BY <1>2, <2>4, <3>1
  <2>5. QED
    BY <1>8, <2>1, <2>2, <2>3, <2>4 DEF Step
<1>9. CASE Outside
  <2>1. CASE (SiteRotates \/ SeedExpires) /\ UNCHANGED <<movishVars, vidVars, cinesrcVars>>
    <3>1. at' = at /\ movy' = movy
      BY <2>1 DEF SiteRotates, SeedExpires, common
    <3>2. (movySeed \in {0} \cup MovySeeds /\ siteSeed \in MovySeeds)'
      <4>1. movySeed' \in {0} \cup MovySeeds
        BY <1>1, <2>1 DEF SiteRotates, SeedExpires, MovyInv
      <4>2. siteSeed' \in MovySeeds
        <5>1. siteSeed \in 1..MaxSeeds /\ MaxSeeds \in Nat
          BY <1>1, MovyAssumption DEF MovyInv, MovySeeds
        <5>2. siteSeed' = siteSeed \/ (siteSeed < MaxSeeds /\ siteSeed' = siteSeed + 1)
          BY <2>1 DEF SiteRotates, SeedExpires
        <5>3. QED
          BY <5>1, <5>2 DEF MovySeeds
      <4>3. QED
        BY <4>1, <4>2 DEF MovySeeds
    <3>3. MovyInv'
      BY <1>1, <3>1, <3>2 DEF MovyInv
    <3>4. MovishInv'
      BY <1>1, <2>1, <3>1, NobodyMoves, MovishInvElsewhere
    <3>5. QED
      BY <3>3, <3>4
  <2>2. CASE /\ (\E o \in Origins : TokenExpires(o)) \/ EvictExpired
             /\ UNCHANGED <<movyVars, movishVars, cinesrcVars>>
    BY <1>1, <1>3, <2>2, TokensAge
  <2>3. CASE CinesrcOutside /\ UNCHANGED <<movyVars, movishVars, vidVars>>
    BY <1>1, <1>3, <2>3, CinesrcAges
  <2>4. QED
    BY <1>9, <2>1, <2>2, <2>3 DEF Outside
<1>10. ASSUME NEW k \in Lookups, Deadline(k) PROVE MovyInv' /\ MovishInv'
  <2>1. CASE Expires(k) /\ UNCHANGED <<movyVars, movishVars, vidVars, cinesrcVars>>
    BY <1>3, <2>1 DEF Expires
  <2>2. CASE MovishLate(k) /\ UNCHANGED <<movyVars, vidVars, cinesrcVars>>
    <3>1. at' = at /\ movish' = movish /\ late' \in [Lookups -> BOOLEAN]
      BY <1>1, <2>2 DEF MovishLate, common, MovishInv
    <3>2. MovishInv'
      BY <1>1, <3>1 DEF MovishInv
    <3>3. QED
      BY <1>1, <2>2, <3>1, <3>2, NobodyMoves, MovyInvElsewhere
  <2>3. QED
    BY <1>10, <2>1, <2>2 DEF Deadline
<1>11. CASE UNCHANGED vars
  BY <1>3, <1>11 DEF vars, common
<1>12. QED
  BY <1>7, <1>8, <1>9, <1>10, <1>11 DEF Next

\* resolveMovyDirect and resolveMovishDirect: whatever else runs, the source a lookup
\* comes back with is the best tier of its server that is left, and the tallest of the
\* streams that validated, the earlier listed among equals.
THEOREM BestSafe == Spec => []PlaysBest
<1>1. BestInv => PlaysBest
  BY FirstIsBest, WinnerPlays DEF BestInv, PlaysBest
<1>2. Spec => []BestInv
  BY InitBest, NextKeepsBest, PTL DEF Spec
<1>3. QED
  BY <1>1, <1>2, PTL

-----------------------------------------------------------------------------
(* The types of all that lookups share or keep *)

\* Who has a deadline, and how many lookups there have been.
CommonTyped == alive \in [Lookups -> BOOLEAN] /\ begun \in 0..MaxLookups

\* A lookup that goes on or comes back; nobody begins.
Moves == UNCHANGED common \/ \E k \in Lookups : Finish(k) \/ \E s : Go(k, s)

LEMMA MovesKeep ==
    ASSUME CommonTyped, Moves
    PROVE  CommonTyped' /\ begun' = begun
BY DEF CommonTyped, Moves, common, Finish, Go

LEMMA MovyMovesOne == ASSUME NEW k \in Lookups, MovyStep(k) PROVE Moves
<1> USE DEF MovyEnds
<1>1. ASSUME NextMovyServer(k) PROVE Moves
  BY <1>1 DEF NextMovyServer, Moves
<1>2. CASE MovyMeta(k)
  BY <1>2 DEF MovyMeta, Moves
<1>3. CASE MovySeed(k)
  BY <1>3, Zenon DEF MovySeed, FetchMovySeed, Moves
<1>4. CASE MovySources(k)
  <2>1. NextMovyServer(k) \/ \E s : Go(k, s)
    BY <1>4, Zenon DEF MovySources
  <2>2. QED
    BY <1>1, <2>1 DEF Moves
<1>5. CASE MovyRefresh(k)
  <2>1. NextMovyServer(k) \/ \E s : Go(k, s)
    BY <1>5, Zenon DEF MovyRefresh, FetchMovySeed
  <2>2. QED
    BY <1>1, <2>1 DEF Moves
<1>6. CASE MovyTier(k)
  BY <1>1, <1>6 DEF MovyTier, Moves
<1>7. CASE MovyAccept(k)
  BY <1>7 DEF MovyAccept, Moves
<1>8. QED
  BY <1>2, <1>3, <1>4, <1>5, <1>6, <1>7 DEF MovyStep

LEMMA MovishMovesOne == ASSUME NEW k \in Lookups, MovishStep(k) PROVE Moves
<1> USE DEF MovishEnds
<1>1. CASE MovishSources(k)
  BY <1>1, Zenon DEF MovishSources, Moves
<1>2. CASE MovishPick(k) \/ MovishAccept(k) \/ VixsrcAccept(k)
  BY <1>2, Zenon DEF MovishPick, MovishAccept, VixsrcAccept, Moves
<1>3. CASE VixsrcFetch(k)
  BY <1>3, Zenon DEF VixsrcFetch, Moves
<1>4. ASSUME NEW i \in 1..Servers, MovishProbe(k, i) PROVE Moves
  BY <1>4, Zenon DEF MovishProbe, Moves
<1>5. QED
  BY <1>1, <1>2, <1>3, <1>4 DEF MovishStep

LEMMA VidMovesOne == ASSUME NEW k \in Lookups, VidStep(k) PROVE Moves
<1> USE DEF VidEnds, Use, NextCandidate
<1>1. CASE VidApi(k) \/ VidLock(k)
  BY <1>1, Zenon DEF VidApi, VidLock, Moves
<1>2. CASE VidCompile(k) \/ VidDecrypt(k)
  BY <1>2, Zenon DEF VidCompile, VidDecrypt, Moves
<1>3. CASE VidToken(k) \/ VidGenerate(k)
  BY <1>3, Zenon DEF VidToken, VidGenerate, Moves
<1>4. CASE VidLimited(k) \/ VidManifest(k) \/ VidAccept(k)
  BY <1>4, Zenon DEF VidLimited, VidManifest, VidAccept, Moves
<1>5. QED
  BY <1>1, <1>2, <1>3, <1>4 DEF VidStep

LEMMA EngineMovesOne ==
    ASSUME NEW r \in Lookups, EngineStep(r), CommonTyped
    PROVE  CommonTyped' /\ begun' = begun
<1> USE DEF Ends
<1>1. CASE EnsureAssets(r) \/ LeaveJoin(r) \/ Woken(r)
  <2>1. Moves
    BY <1>1, Zenon DEF EnsureAssets, LeaveJoin, Woken, Moves
  <2>2. QED
    BY <2>1, MovesKeep
<1>2. CASE Scan(r) \/ LeaveScan(r)
  <2>1. Moves
    BY <1>2, Zenon DEF Scan, Replace, ScanFails, LeaveScan, Moves
  <2>2. QED
    BY <2>1, MovesKeep
<1>3. CASE CloseScan(r)
  BY <1>3 DEF CloseScan, CommonTyped
<1>4. CASE List(r) \/ NextBatch(r)
  <2>1. Moves
    BY <1>4, Zenon DEF List, NextBatch, Moves
  <2>2. QED
    BY <2>1, MovesKeep
<1>5. CASE BatchOver(r) \/ PassOver(r)
  <2>1. Moves
    BY <1>5, Zenon DEF BatchOver, PassOver, NextPass, Moves
  <2>2. QED
    BY <2>1, MovesKeep
<1>6. ASSUME NEW i \in 1..MaxServers, TryStep(r, i) PROVE CommonTyped' /\ begun' = begun
  BY <1>6, MovesKeep DEF TryStep, Moves
<1>7. QED
  BY <1>1, <1>2, <1>3, <1>4, <1>5, <1>6 DEF EngineStep

\* The warm browser, and who was handed it.
WorkersTyped ==
    /\ worker \in Workers \cup {NoWorker} /\ running \subseteq Workers
    /\ mine \in [Lookups -> Workers \cup {NoWorker}] /\ prewarm \in BOOLEAN

LEMMA BeginsTyped ==
    ASSUME CommonTyped, NEW k \in Lookups, NEW s, Begin(k, s)
    PROVE  CommonTyped' /\ begun' = begun + 1
BY LookupAssumption DEF CommonTyped, Begin

\* getOrInitCineWorker and Close: what there is afterwards is a worker again, or none.
LEMMA WorkerTaken ==
    ASSUME WorkersTyped, KeepWorker \/ StartWorker \/ DropWorker
    PROVE  worker' \in Workers \cup {NoWorker} /\ running' \subseteq Workers
<1>1. CASE StartWorker
  <2>1. (CHOOSE w \in Unused : TRUE) \in Unused
    BY <1>1 DEF StartWorker
  <2>2. worker' \in Workers
    BY <1>1, <2>1 DEF StartWorker, Unused
  <2>3. QED
    BY <1>1, <2>2 DEF StartWorker, WorkersTyped
<1>2. QED
  BY <1>1 DEF KeepWorker, DropWorker, WorkersTyped

LEMMA WorkersKeep ==
    ASSUME CommonTyped, WorkersTyped, NEW r \in Lookups, CinesrcStep(r)
    PROVE  CommonTyped' /\ begun' = begun /\ WorkersTyped'
<1>1. CommonTyped' /\ begun' = begun
  <2>1. CASE EngineStep(r)
    BY <2>1, EngineMovesOne
  <2>2. CASE EnterEngine(r) \/ LeaveEngine(r) \/ EnterBrowser(r)
    BY <2>2, MovesKeep, Zenon DEF EnterEngine, LeaveEngine, EnterBrowser, Moves
  <2>3. CASE GetWorker(r) \/ LockPage(r)
    BY <2>3, MovesKeep, Zenon DEF GetWorker, LockPage, Moves
  <2>4. CASE PageEnds(r) \/ CinesrcAccept(r)
    BY <2>4, MovesKeep, Zenon DEF PageEnds, CinesrcAccept, Moves
  <2>5. QED
    BY <2>1, <2>2, <2>3, <2>4 DEF CinesrcStep
<1>2. ASSUME UNCHANGED workerVars PROVE WorkersTyped'
  BY <1>2 DEF WorkersTyped, workerVars
<1>3. CASE GetWorker(r)
  <2>1. /\ KeepWorker \/ StartWorker \/ DropWorker
        /\ mine' = [mine EXCEPT ![r] = worker'] \/ mine' = [mine EXCEPT ![r] = NoWorker]
        /\ prewarm' = prewarm
    BY <1>3 DEF GetWorker, LeaveBrowser
  <2>2. worker' \in Workers \cup {NoWorker} /\ running' \subseteq Workers
    BY <2>1, WorkerTaken
  <2>3. QED
    BY <1>1, <2>1, <2>2 DEF WorkersTyped
<1>4. CASE LockPage(r) \/ PageEnds(r)
  <2>1. UNCHANGED <<worker, running, prewarm>>
    BY <1>4 DEF LockPage, PageEnds
  <2>2. mine' = mine \/ mine' = [mine EXCEPT ![r] = NoWorker]
    BY <1>4, Zenon DEF LockPage, PageEnds, LeaveBrowser
  <2>3. QED
    BY <1>1, <2>1, <2>2 DEF WorkersTyped
<1>5. CASE CinesrcAccept(r)
  BY <1>1, <1>2, <1>5 DEF CinesrcAccept, cinesrcVars
<1>6. CASE EnterEngine(r) \/ LeaveEngine(r) \/ EnterBrowser(r)
  BY <1>1, <1>2, <1>6 DEF EnterEngine, LeaveEngine, EnterBrowser
<1>7. CASE EngineStep(r) /\ UNCHANGED <<jsSlots, slots, workerVars>>
  <2>1. UNCHANGED workerVars
    BY <1>7, Zenon
  <2>2. QED
    BY <1>1, <1>2, <2>1, Zenon
<1>8. QED
  BY <1>1, <1>3, <1>4, <1>5, <1>6, <1>7 DEF CinesrcStep

LEMMA WorkersAge ==
    ASSUME CommonTyped, WorkersTyped, CinesrcOutside
    PROVE  CommonTyped' /\ WorkersTyped'
<1>1. UNCHANGED common
  BY DEF CinesrcOutside, AssetsAge, ListAges, PrewarmWorker, WorkerDies, CloseWorker
<1>2. CommonTyped'
  BY <1>1 DEF common, CommonTyped
<1>3. CASE PrewarmWorker \/ CloseWorker
  <2>1. (KeepWorker \/ StartWorker \/ DropWorker) /\ mine' = mine /\ prewarm' \in BOOLEAN
    BY <1>3 DEF PrewarmWorker, CloseWorker, WorkersTyped
  <2>2. QED
    BY <1>2, <2>1, WorkerTaken DEF WorkersTyped
<1>4. CASE WorkerDies \/ UNCHANGED workerVars
  BY <1>2, <1>4 DEF WorkerDies, workerVars, WorkersTyped
<1>5. QED
  BY <1>2, <1>3, <1>4 DEF CinesrcOutside

TypedInv == BestInv /\ CommonTyped /\ WorkersTyped /\ asked \in ProviderSets

LEMMA InitTyped == Init => TypedInv
<1> SUFFICES ASSUME Init PROVE CommonTyped /\ WorkersTyped
  BY InitBest DEF TypedInv, Init
<1>1. CommonTyped
  BY LookupAssumption DEF Init, InitCommon, CommonTyped
<1>2. WorkersTyped
  BY DEF Init, InitCinesrc, WorkersTyped
<1>3. QED
  BY <1>1, <1>2

LEMMA NextKeepsTyped ==
    ASSUME TypedInv, [Next]_vars
    PROVE  TypedInv'
<1>1. CommonTyped /\ WorkersTyped /\ BestInv'
  BY NextKeepsBest DEF TypedInv
<1>2. asked' = asked
  BY DEF Next, vars
<1> SUFFICES CommonTyped' /\ WorkersTyped'
  BY <1>1, <1>2 DEF TypedInv
<1>3. ASSUME CommonTyped', UNCHANGED cinesrcVars PROVE CommonTyped' /\ WorkersTyped'
  BY <1>1, <1>3 DEF cinesrcVars, workerVars, WorkersTyped
<1>4. ASSUME NEW k \in Lookups, Start(k) PROVE CommonTyped' /\ WorkersTyped'
  <2>1. UNCHANGED cinesrcVars
    BY <1>4 DEF Start, BeginCinesrc
  <2>2. \E s : Begin(k, s)
    BY <1>4 DEF Start, BeginMovy, BeginMovish, BeginVixsrc, BeginVid, BeginCinesrc
  <2>3. QED
    BY <1>1, <1>3, <2>1, <2>2, BeginsTyped
<1>5. ASSUME NEW k \in Lookups, Step(k) PROVE CommonTyped' /\ WorkersTyped'
  <2>1. CASE MovyStep(k) /\ UNCHANGED cinesrcVars
    BY <1>1, <1>3, <2>1, MovyMovesOne, MovesKeep
  <2>2. CASE MovishStep(k) /\ UNCHANGED cinesrcVars
    BY <1>1, <1>3, <2>2, MovishMovesOne, MovesKeep
  <2>3. CASE VidStep(k) /\ UNCHANGED cinesrcVars
    BY <1>1, <1>3, <2>3, VidMovesOne, MovesKeep
  <2>4. CASE CinesrcStep(k)
    BY <1>1, <2>4, WorkersKeep
  <2>5. QED
    BY <1>5, <2>1, <2>2, <2>3, <2>4 DEF Step
<1>6. CASE Outside
  <2>1. CASE (SiteRotates \/ SeedExpires) /\ UNCHANGED cinesrcVars
    BY <1>1, <1>3, <2>1 DEF SiteRotates, SeedExpires, common, CommonTyped
  <2>2. CASE ((\E o \in Origins : TokenExpires(o)) \/ EvictExpired) /\ UNCHANGED cinesrcVars
    BY <1>1, <1>3, <2>2 DEF TokenExpires, EvictExpired, common, CommonTyped
  <2>3. CASE CinesrcOutside
    BY <1>1, <2>3, WorkersAge
  <2>4. QED
    BY <1>6, <2>1, <2>2, <2>3 DEF Outside
<1>7. ASSUME NEW k \in Lookups, Deadline(k) PROVE CommonTyped' /\ WorkersTyped'
  <2>1. begun' = begun /\ UNCHANGED cinesrcVars
    BY <1>7 DEF Deadline, Expires, MovishLate, common
  <2>2. alive' = alive \/ alive' = [alive EXCEPT ![k] = FALSE]
    BY <1>7 DEF Deadline, Expires, MovishLate, common
  <2>3. CommonTyped'
    BY <1>1, <2>1, <2>2 DEF CommonTyped
  <2>4. QED
    BY <1>3, <2>1, <2>3
<1>8. CASE UNCHANGED vars
  BY <1>1, <1>3, <1>8 DEF vars, common, CommonTyped
<1>9. QED
  BY <1>4, <1>5, <1>6, <1>7, <1>8 DEF Next

LEMMA TypesFollow == TypedInv => TypeOK
<1> SUFFICES ASSUME TypedInv PROVE TypeOK
  OBVIOUS
<1>1. IInv /\ MovyInv /\ MovishInv /\ CommonTyped /\ WorkersTyped
  BY DEF TypedInv, BestInv
<1>2. MovyTypeOK
  BY <1>1 DEF MovyInv, MovyRuns, MovyTypeOK
<1>3. MovishTypeOK
  BY <1>1 DEF MovishInv, MovishTypeOK
<1>4. CinesrcTypeOK
  BY <1>1 DEF IInv, EngineInv, WorkersTyped, CinesrcTypeOK
<1>5. VidTypeOK /\ AtTyped
  BY <1>1 DEF IInv, VidInv
<1>6. QED
  BY <1>1, <1>2, <1>3, <1>4, <1>5 DEF TypeOK, TypedInv, CommonTyped, AtTyped, Places

\* What lookups share, keep and count stays what it is said to be, whichever providers
\* are asked.
THEOREM ProvidersTyped == Spec => []TypeOK
<1>1. Spec => []TypedInv
  BY InitTyped, NextKeepsTyped, PTL DEF Spec
<1>2. QED
  BY <1>1, TypesFollow, PTL
=============================================================================
