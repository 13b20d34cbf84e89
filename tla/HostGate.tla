------------------------------ MODULE HostGate ------------------------------
(***************************************************************************)
(* One upstream host's gate (internal/mediaresolver/netutil.go): every     *)
(* fetch waits out the host's cool-down, takes one of its header slots and *)
(* tries a few times, sleeping between the tries; some of its callers read *)
(* the body before they give the slot back.  Hosts share nothing, so one   *)
(* is modelled.                                                            *)
(***************************************************************************)
EXTENDS Integers, FiniteSets

CONSTANTS
    Fetches,    \* fetches that may be under way at once
    Slots,      \* mediaHostHeaderConcurrency
    Attempts,   \* upstreamAttempts
    Base,       \* throttleBase
    MaxCool,    \* throttleMax
    MaxWait,    \* maxThrottleWait
    RetryBase,  \* 400ms in retryDelay
    LimitedBase,\* 2s in retryDelay, after a 429
    MaxDelay,   \* the 15s no retry waits longer than
    Width,      \* bits of a time.Duration: 64 in the code
    MaxStarts   \* bound: fetches in all

ASSUME GateAssumption ==
    /\ {Slots, Attempts, Base, MaxCool, MaxWait, RetryBase, LimitedBase, Width} \subseteq Nat \ {0}
    /\ Base <= MaxCool /\ MaxWait <= MaxCool /\ MaxStarts \in Nat
    /\ LimitedBase <= MaxDelay /\ MaxDelay \in Nat
    /\ IsFiniteSet(Fetches)

VARIABLES
    strikes,  \* hostThrottle.strikes
    cool,     \* what is left until hostThrottle.until
    used,     \* occupied places of the semaphore channel
    fetch,    \* [Fetches -> Fetch]
    started

vars == <<strikes, cool, used, fetch, started>>

Outcome == {"ok", "other", "transient", "limited", "error"}
Retryable(o) == o \in {"transient", "limited"}

\* left: what is left of the timer the fetch sleeps on.  alive: its caller is there.
Fetch == [at : {"idle", "pacing", "queued", "trying", "failed", "sleeping", "reading"},
          n : 0..Attempts, left : Nat, alive : BOOLEAN, got : Outcome \cup {"none"}]
Idle == [at |-> "idle", n |-> 0, left |-> 0, alive |-> TRUE, got |-> "none"]

Lesser(a, b) == IF a < b THEN a ELSE b
Greater(a, b) == IF a > b THEN a ELSE b

Init ==
    /\ strikes = 0
    /\ cool = 0
    /\ used = 0
    /\ fetch = [f \in Fetches |-> Idle]
    /\ started = 0

-----------------------------------------------------------------------------
(* hostThrottle *)

\* Base << k, as a signed number of Width bits: 0 once everything is shifted out.
Shifted(k) ==
    LET wrapped == (Base * 2^k) % 2^Width
    IN IF k >= Width THEN 0
       ELSE IF wrapped >= 2^(Width - 1) THEN wrapped - 2^Width ELSE wrapped

\* What is left of a product that overflows is no cool-down shorter than the base.  A
\* multiple of 2^k remains, so a base of at most 2^((Width - 1) / 2) is safe: it only
\* overflows for a 2^k above itself.  750ms in 64 bits, as nanoseconds, is below 2^30.
ASSUME ShiftAssumption ==
    \A k \in 0..(Width - 1) : Shifted(k) \in Int /\ (Shifted(k) <= 0 \/ Shifted(k) >= Base)

\* Fault: only too large a product falls back to the cap.
CoolUnguarded(s) == IF Shifted(s - 1) > MaxCool THEN MaxCool ELSE Shifted(s - 1)

\* The cool-down of the s-th failure in a row.
Cool(s) ==
    LET d == Shifted(s - 1)
    IN IF d > MaxCool \/ d <= 0 THEN MaxCool ELSE d

\* failed: the cool-down is only ever put off.
Failed ==
    /\ strikes' = strikes + 1
    /\ cool' = Greater(cool, Cool(strikes'))

Recovered == strikes' = 0 /\ cool' = 0

\* noteUpstreamOutcome
Note(o) ==
    CASE o = "error" \/ Retryable(o) -> Failed
      [] o = "ok"                    -> Recovered
      [] o = "other"                 -> UNCHANGED <<strikes, cool>>

\* retryDelay; a Retry-After header may ask for more, up to MaxDelay.
RetryDelays(n, o) ==
    IF o = "limited" THEN {Lesser(n * LimitedBase, MaxDelay), MaxDelay} ELSE {n * RetryBase}

-----------------------------------------------------------------------------
(* limitUpstreamHeaders *)

\* The cool-down is waited for before a slot is taken, but not longer than MaxWait.
Start(f) ==
    /\ fetch[f].at = "idle"
    /\ started < MaxStarts
    /\ started' = started + 1
    /\ LET wait == Lesser(cool, MaxWait)
       IN fetch' = [fetch EXCEPT ![f] = [Idle EXCEPT !.left = wait,
                       !.at = IF wait > 0 THEN "pacing" ELSE "queued"]]
    /\ UNCHANGED <<strikes, cool, used>>

PaceEnds(f) ==
    /\ fetch[f].at = "pacing" /\ fetch[f].left = 0
    /\ fetch' = [fetch EXCEPT ![f].at = "queued"]
    /\ UNCHANGED <<strikes, cool, used, started>>

Acquire(f) ==
    /\ fetch[f].at = "queued"
    /\ used < Slots
    /\ used' = used + 1
    /\ fetch' = [fetch EXCEPT ![f].at = "trying", ![f].n = 1]
    /\ UNCHANGED <<strikes, cool, started>>

\* Fault: the release is deferred before the error is looked at.
GiveUpReleases(f) ==
    /\ fetch[f].at \in {"pacing", "queued"}
    /\ ~fetch[f].alive
    /\ used' = used - 1
    /\ fetch' = [fetch EXCEPT ![f] = Idle]
    /\ UNCHANGED <<strikes, cool, started>>

\* Fault: the wait for a slot does not look at the context.
GiveUpPacing(f) ==
    /\ fetch[f].at = "pacing"
    /\ ~fetch[f].alive
    /\ fetch' = [fetch EXCEPT ![f] = Idle]
    /\ UNCHANGED <<strikes, cool, used, started>>

\* ctx.Done in either wait: there is no slot to give back.
GiveUp(f) ==
    /\ fetch[f].at \in {"pacing", "queued"}
    /\ ~fetch[f].alive
    /\ fetch' = [fetch EXCEPT ![f] = Idle]
    /\ UNCHANGED <<strikes, cool, used, started>>

-----------------------------------------------------------------------------
(* doWithRetry, and what its callers do before their deferred release *)

\* Fault: an answer given up on keeps its slot.
ReturnLeaks(f) ==
    /\ used' = IF fetch[f].alive THEN used - 1 ELSE used
    /\ fetch' = [fetch EXCEPT ![f] = Idle]

\* The caller returns, and its deferred release runs.
Return(f) ==
    /\ used' = used - 1
    /\ fetch' = [fetch EXCEPT ![f] = Idle]

\* With an answer, resolveFetch and the proxy's errors return at once; fetchForCache
\* reads the whole body before, and the proxy the head of a 200.
Answered(f) ==
    \/ Return(f)
    \/ fetch' = [fetch EXCEPT ![f].at = "reading"] /\ UNCHANGED used

\* An attempt ends.  One whose caller has gone may only fail; the transport's own
\* time limits, on dialling, handshakes and headers, end the others.
Attempt(f) ==
    /\ fetch[f].at = "trying"
    /\ \E o \in Outcome :
         /\ ~fetch[f].alive => o = "error"
         /\ IF o \in {"ok", "other"} \/ (Retryable(o) /\ fetch[f].n >= Attempts)
            THEN Note(o) /\ Answered(f)
            ELSE /\ Failed
                 /\ fetch' = [fetch EXCEPT ![f].at = "failed", ![f].got = o]
                 /\ UNCHANGED used
    /\ UNCHANGED started

\* The body is read, or fails: no time limit, but the caller's context ends it.
BodyEnds(f) ==
    /\ fetch[f].at = "reading"
    /\ Return(f)
    /\ UNCHANGED <<strikes, cool, started>>

\* After a failed attempt, and the body of an answer that is retried was drained: back
\* to the caller, or to sleep for the longer of the retry's own delay and the
\* cool-down, which others may have moved meanwhile.
BackOff(f) ==
    /\ fetch[f].at = "failed"
    /\ IF ~fetch[f].alive \/ (fetch[f].got = "error" /\ fetch[f].n >= Attempts)
       THEN Return(f)
       ELSE /\ \E d \in RetryDelays(fetch[f].n, fetch[f].got) :
                 fetch' = [fetch EXCEPT ![f].at = "sleeping", ![f].left = Greater(d, cool)]
            /\ UNCHANGED used
    /\ UNCHANGED <<strikes, cool, started>>

SleepEnds(f) ==
    /\ fetch[f].at = "sleeping" /\ fetch[f].left = 0
    /\ fetch' = [fetch EXCEPT ![f].at = "trying", ![f].n = @ + 1, ![f].got = "none"]
    /\ UNCHANGED <<strikes, cool, used, started>>

SleepAborted(f) ==
    /\ fetch[f].at = "sleeping" /\ ~fetch[f].alive
    /\ Return(f)
    /\ UNCHANGED <<strikes, cool, started>>

-----------------------------------------------------------------------------
(* The outside world *)

Cancel(f) ==
    /\ fetch[f].at # "idle" /\ fetch[f].alive
    /\ fetch' = [fetch EXCEPT ![f].alive = FALSE]
    /\ UNCHANGED <<strikes, cool, used, started>>

\* Time passes for the cool-down and for every timer.  A sleeper may wake late.
Tick ==
    /\ cool > 0 \/ \E f \in Fetches : fetch[f].left > 0
    /\ cool' = Greater(cool - 1, 0)
    /\ fetch' = [f \in Fetches |-> [fetch[f] EXCEPT !.left = Greater(@ - 1, 0)]]
    /\ UNCHANGED <<strikes, used, started>>

Steps(f) ==
    \/ PaceEnds(f) \/ GiveUp(f) \/ Attempt(f) \/ BackOff(f) \/ SleepEnds(f)
    \/ SleepAborted(f) \/ BodyEnds(f)

Next == Tick \/ \E f \in Fetches : Start(f) \/ Acquire(f) \/ Cancel(f) \/ Steps(f)

\* A body of the host's that a caller waits for: to use it, or to drain it.  Only the
\* host ends that, as fetchForCache and the proxy set no limit on the whole exchange.
Stalled(f) ==
    /\ fetch[f].alive
    /\ fetch[f].at = "reading" \/ (fetch[f].at = "failed" /\ fetch[f].got # "error")

\* A goroutine that can go on does, timers run down, and a waiting send on the
\* semaphore channel is served in turn.  Nothing makes the host send a body.
Fairness ==
    /\ WF_vars(Tick)
    /\ \A f \in Fetches : WF_vars(~Stalled(f) /\ Steps(f)) /\ SF_vars(Acquire(f))

Spec == Init /\ [][Next]_vars /\ Fairness

-----------------------------------------------------------------------------
(* Properties *)

TypeOK ==
    /\ strikes \in Nat
    /\ cool \in 0..MaxCool
    /\ used \in 0..Slots
    /\ fetch \in [Fetches -> Fetch]
    /\ started \in 0..MaxStarts

HoldsSlot(f) == fetch[f].at \in {"trying", "failed", "sleeping", "reading"}

\* Cancelled, out of attempts, answered or read to the end, at whatever step: a slot is
\* occupied exactly by a fetch whose caller has not returned since it was acquired.
SlotsReturned == used = Cardinality({f \in Fetches : HoldsSlot(f)})

\* However many failures are counted, and whatever the shift overflows to, one more
\* never shortens the cool-down and leaves at least the base one.
WidensOnly == [][strikes' > strikes => cool' >= Greater(cool, Base)]_vars

\* Whatever the host holds back, and whoever has the slots: a fetch whose caller has
\* gone comes back, from either wait, an attempt, a sleep, a drain or a read.
GoneCallersEnd ==
    \A f \in Fetches : (fetch[f].at # "idle" /\ ~fetch[f].alive) ~> fetch[f].at = "idle"

\* With every slot held by a fetch asleep between its attempts against a failing
\* host, each fetch still comes back, if no body is held back for ever.
FetchesEnd ==
    (\A f \in Fetches : []<>~Stalled(f))
        => \A f \in Fetches : fetch[f].at # "idle" ~> fetch[f].at = "idle"

\* What doWithRetry says of itself: the final response or the error is returned.  Its
\* caller looks at the error alone and closes the response's body if there is none.
AnswersOrFails ==
    [][\A f \in Fetches : (fetch[f].at = "failed" /\ fetch'[f].at = "idle")
                              => fetch[f].got = "error"]_vars

\* What mediaHostHeaderConcurrency says of itself: bodies are read outside the limiter,
\* so a slow download never keeps another request from starting.
SlowBodiesNeverBlock ==
    \A f, g \in Fetches : ~(fetch[f].at = "queued" /\ used = Slots /\ fetch[g].at = "reading")

\* What limitUpstreamHeaders says of its release: the slot comes back once the
\* attempt failed.
FailedHoldNoSlot == \A f \in Fetches : fetch[f].at = "sleeping" => ~HoldsSlot(f)
=============================================================================
