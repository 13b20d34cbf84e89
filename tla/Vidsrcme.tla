------------------------------ MODULE Vidsrcme ------------------------------
(***************************************************************************)
(* The vidsrcme provider (internal/mediaresolver/vidsrcme.go): the data    *)
(* API's ciphertext, decrypted by a module compiled once per window, and a *)
(* list of candidates that each need the token of their origin.            *)
(***************************************************************************)
EXTENDS Lookup, SequencesExt

CONSTANTS
    Windows,       \* ids the data API names its module by
    NoWindow,      \* the id 0: such a module is not kept
    WasmCacheMax,
    Origins        \* origins of the candidates

ASSUME VidAssumption ==
    /\ NoWindow \notin Windows \cup Lookups
    /\ WasmCacheMax \in Nat \ {0}

VARIABLES
    wasmMu,     \* the lookup that holds wasmCacheMu, or NoWindow
    wasmCache,  \* the windows of wasmCache, least recently used first
    cdnToken,   \* [Origins -> "none", "fresh" or "expired"]
    vid         \* [Lookups -> VidRun]

vidVars == <<wasmMu, wasmCache, cdnToken, vid>>

\* cands: origins of the candidates not yet tried.
VidRun == [window : Windows \cup {NoWindow}, cands : UNION {[1..n -> Origins] : n \in 0..2}]
NoVidRun == [window |-> NoWindow, cands |-> <<>>]

VidSteps == {"vid api", "vid lock", "vid wasm", "vid decrypt", "vid token", "vid generate",
             "vid limited", "vid manifest", "vid won"}

InitVid ==
    /\ wasmMu = NoWindow
    /\ wasmCache = <<>>
    /\ cdnToken = [o \in Origins |-> "none"]
    /\ vid = [k \in Lookups |-> NoVidRun]

BeginVid(k) == Begin(k, "vid api") /\ UNCHANGED vidVars

VidEnds(k) == Finish(k) /\ vid' = [vid EXCEPT ![k] = NoVidRun]

\* resolveVidsrcmeDirect's first request names the window of the module.
VidApi(k) ==
    /\ at[k] = "vid api"
    /\ \/ /\ Reached(k)
          /\ \E w \in Windows \cup {NoWindow} : vid' = [vid EXCEPT ![k].window = w]
          /\ Go(k, "vid lock")
       \/ VidEnds(k)
    /\ UNCHANGED <<wasmMu, wasmCache, cdnToken>>

\* Module w is used now, which makes it the one to be thrown out last.
Used(cache, w) == Append(RemoveAt(cache, CHOOSE i \in DOMAIN cache : cache[i] = w), w)

\* Fault: the mutex is let go while the module is downloaded.
VidLockBriefly(k) ==
    /\ at[k] = "vid lock"
    /\ LET w == vid[k].window
       IN IF w # NoWindow /\ w \in Range(wasmCache)
          THEN /\ wasmCache' = Used(wasmCache, w)
               /\ Go(k, "vid decrypt")
          ELSE Go(k, "vid wasm") /\ UNCHANGED wasmCache
    /\ UNCHANGED <<wasmMu, cdnToken, vid>>

\* getCompiledWasm: waiting for the mutex does not watch the deadline.  A module
\* found is used now; for one that is not, the mutex is kept over the download.
VidLock(k) ==
    /\ at[k] = "vid lock"
    /\ wasmMu = NoWindow
    /\ LET w == vid[k].window
       IN IF w # NoWindow /\ w \in Range(wasmCache)
          THEN /\ wasmCache' = Used(wasmCache, w)
               /\ Go(k, "vid decrypt") /\ UNCHANGED wasmMu
          ELSE /\ wasmMu' = k
               /\ Go(k, "vid wasm") /\ UNCHANGED wasmCache
    /\ UNCHANGED <<cdnToken, vid>>

\* The least recently used module makes room for the new one.
Kept(cache, w) == Append(IF Len(cache) >= WasmCacheMax THEN Tail(cache) ELSE cache, w)

\* The module is downloaded (or came with the answer), compiled and kept.
VidCompile(k) ==
    /\ at[k] = "vid wasm"
    /\ \/ /\ Reached(k)
          /\ wasmCache' = IF vid[k].window = NoWindow THEN wasmCache
                                                     ELSE Kept(wasmCache, vid[k].window)
          /\ Go(k, "vid decrypt") /\ UNCHANGED vid
       \/ VidEnds(k) /\ UNCHANGED wasmCache
    /\ wasmMu' = NoWindow
    /\ UNCHANGED cdnToken

\* decryptVidsrcmeStreamURLs: the candidates, none of which may be usable.
VidDecrypt(k) ==
    /\ at[k] = "vid decrypt"
    /\ \/ \E cands \in UNION {[1..n -> Origins] : n \in 1..2} :
            /\ vid' = [vid EXCEPT ![k] = [NoVidRun EXCEPT !.cands = cands]]
            /\ Go(k, "vid token")
       \/ VidEnds(k)
    /\ UNCHANGED <<wasmMu, wasmCache, cdnToken>>

\* The next candidate, or the end of the lookup.
NextCandidate(k) ==
    /\ vid' = [vid EXCEPT ![k].cands = Tail(@)]
    /\ Go(k, "vid token")

Origin(k) == Head(vid[k].cands)

Use(k) == Go(k, "vid manifest") /\ UNCHANGED vid

\* fetchVidsrcmeCDNToken: the origin's token while it lasts, else one is asked for.
VidToken(k) ==
    /\ at[k] = "vid token"
    /\ IF vid[k].cands = <<>>
       THEN VidEnds(k)
       ELSE IF cdnToken[Origin(k)] = "fresh" THEN Use(k)
       ELSE Go(k, "vid generate") /\ UNCHANGED vid
    /\ UNCHANGED <<wasmMu, wasmCache, cdnToken>>

VidGenerate(k) ==
    /\ at[k] = "vid generate"
    /\ \/ /\ Reached(k)
          /\ cdnToken' = [cdnToken EXCEPT ![Origin(k)] = "fresh"]
          /\ Use(k)
       \/ Reached(k) /\ Go(k, "vid limited") /\ UNCHANGED <<cdnToken, vid>>
       \/ NextCandidate(k) /\ UNCHANGED cdnToken
    /\ UNCHANGED <<wasmMu, wasmCache>>

\* A 429: whatever token the origin had meanwhile or still has, expired or not.
VidLimited(k) ==
    /\ at[k] = "vid limited"
    /\ IF cdnToken[Origin(k)] # "none" THEN Use(k) ELSE NextCandidate(k)
    /\ UNCHANGED <<wasmMu, wasmCache, cdnToken>>

\* fetchManifestText and the quality gate: the release's name, then what its sound
\* measures.  A flagged source is returned all the same; ResolveFlight has what follows.
VidManifest(k) ==
    /\ at[k] = "vid manifest"
    /\ \/ Reached(k) /\ Go(k, "vid won") /\ UNCHANGED vid
       \/ NextCandidate(k)
    /\ UNCHANGED <<wasmMu, wasmCache, cdnToken>>

\* tryVidsrcmeDirect and acceptVidsrcmeDirect
VidAccept(k) ==
    /\ at[k] = "vid won"
    /\ VidEnds(k)
    /\ UNCHANGED <<wasmMu, wasmCache, cdnToken>>

VidStep(k) ==
    \/ VidApi(k) \/ VidLock(k) \/ VidCompile(k) \/ VidDecrypt(k) \/ VidToken(k)
    \/ VidGenerate(k) \/ VidLimited(k) \/ VidManifest(k) \/ VidAccept(k)

\* Five minutes have passed since a token came.
TokenExpires(o) ==
    /\ cdnToken[o] = "fresh"
    /\ cdnToken' = [cdnToken EXCEPT ![o] = "expired"]
    /\ UNCHANGED <<wasmMu, wasmCache, vid, common>>

\* evictExpiredCDNTokens, from the session sweeper.
EvictExpired ==
    /\ \E o \in Origins : cdnToken[o] = "expired"
    /\ cdnToken' = [o \in Origins |-> IF cdnToken[o] = "expired" THEN "none" ELSE cdnToken[o]]
    /\ UNCHANGED <<wasmMu, wasmCache, vid, common>>

-----------------------------------------------------------------------------
VidTypeOK ==
    /\ wasmMu \in Lookups \cup {NoWindow}
    /\ Range(wasmCache) \subseteq Windows
    /\ cdnToken \in [Origins -> {"none", "fresh", "expired"}]
    /\ vid \in [Lookups -> VidRun]

\* Lookups wait for wasmCacheMu without a time limit, so it is only ever held over a
\* download that is under way: no way out of it leaves the mutex locked.
MutexIsDownload == wasmMu # NoWindow => at[wasmMu] = "vid wasm"

\* A window's module is compiled once while it is kept, however many lookups ask for
\* it at once, and there is never one too many.
OneModulePerWindow == IsInjective(wasmCache) /\ Len(wasmCache) <= WasmCacheMax

\* What the concurrent lookups share of a window's module: the mutex and the module.
WasmCacheKept == MutexIsDownload /\ OneModulePerWindow
=============================================================================
