--------------------------- MODULE HostGateProofs ---------------------------
(***************************************************************************)
(* Safety of a host's gate for any number of fetches, slots and attempts,  *)
(* and any width of a duration.                                            *)
(***************************************************************************)
EXTENDS HostGate, FiniteSetTheorems, TLAPS

Holders == {f \in Fetches : HoldsSlot(f)}

\* Another attempt follows only while there is one left: doWithRetry returns the last
\* answer, and the last error after its sleep would have begun.
AttemptsLeft ==
    \A f \in Fetches :
        /\ fetch[f].at = "failed" =>
              fetch[f].got = "error" \/ (Retryable(fetch[f].got) /\ fetch[f].n < Attempts)
        /\ fetch[f].at = "sleeping" => fetch[f].n < Attempts
        /\ fetch[f].at = "idle" => fetch[f] = Idle

IInv == TypeOK /\ SlotsReturned /\ AttemptsLeft

-----------------------------------------------------------------------------
(* Arithmetic of the cool-down *)

\* Whatever the shift overflows to, the cool-down lies between the base and the cap.
LEMMA CoolBounds == ASSUME NEW s \in Nat \ {0} PROVE Cool(s) \in Base..MaxCool
<1>1. Base \in Nat \ {0} /\ MaxCool \in Nat /\ Base <= MaxCool /\ Width \in Nat \ {0}
  BY GateAssumption
<1>2. CASE s - 1 >= Width
  <2>1. Shifted(s - 1) = 0
    BY <1>2 DEF Shifted
  <2>2. QED
    BY <1>1, <2>1 DEF Cool
<1>3. CASE s - 1 < Width
  <2>1. s - 1 \in 0..(Width - 1)
    BY <1>1, <1>3
  <2>2. Shifted(s - 1) \in Int /\ (Shifted(s - 1) <= 0 \/ Shifted(s - 1) >= Base)
    BY <2>1, ShiftAssumption
  <2>3. QED
    BY <1>1, <2>2 DEF Cool
<1>4. QED
  BY <1>1, <1>2, <1>3

LEMMA FailedTypes ==
    ASSUME strikes \in Nat, cool \in 0..MaxCool, Failed
    PROVE  strikes' \in Nat /\ cool' \in 0..MaxCool
<1>1. MaxCool \in Nat /\ Base \in Nat
  BY GateAssumption
<1>2. strikes' \in Nat \ {0}
  BY DEF Failed
<1>3. Cool(strikes') \in Base..MaxCool
  BY <1>2, CoolBounds
<1>4. QED
  BY <1>1, <1>2, <1>3 DEF Failed, Greater

\* The two ways the cool-down changes when an attempt ends, and the third: not at all.
LEMMA NoteTypes ==
    ASSUME strikes \in Nat, cool \in 0..MaxCool, NEW o \in Outcome, Note(o)
    PROVE  strikes' \in Nat /\ cool' \in 0..MaxCool
<1>0. MaxCool \in Nat /\ Base \in Nat
  BY GateAssumption
<1>1. CASE Failed
  BY <1>1, FailedTypes
<1>2. CASE Recovered
  BY <1>0, <1>2 DEF Recovered
<1>3. CASE UNCHANGED <<strikes, cool>>
  BY <1>3
<1>4. QED
  BY <1>1, <1>2, <1>3 DEF Note, Outcome, Retryable

\* One more failure never shortens the cool-down and leaves at least the base one.
LEMMA FailedWidens ==
    ASSUME strikes \in Nat, cool \in 0..MaxCool, Failed
    PROVE  strikes' > strikes /\ cool' >= Greater(cool, Base)
<1>1. Base \in Nat /\ MaxCool \in Nat
  BY GateAssumption
<1>2. strikes' \in Nat \ {0} /\ strikes' > strikes
  BY DEF Failed
<1>3. Cool(strikes') \in Base..MaxCool
  BY <1>2, CoolBounds
<1>4. QED
  BY <1>1, <1>2, <1>3 DEF Failed, Greater

-----------------------------------------------------------------------------
(* Counting the slots *)

LEMMA HoldersFinite == IsFiniteSet(Holders) /\ Cardinality(Holders) \in Nat
<1>1. Holders \in SUBSET Fetches /\ IsFiniteSet(Fetches)
  BY GateAssumption DEF Holders
<1>2. QED
  BY <1>1, FS_Subset, FS_CardinalityType

\* A step in which nobody takes or gives back a slot.
LEMMA SlotsKept ==
    ASSUME SlotsReturned, used' = used,
           \A f \in Fetches : fetch'[f].at \in {"trying", "failed", "sleeping", "reading"} <=> HoldsSlot(f)
    PROVE  SlotsReturned'
<1>1. Holders' = Holders
  BY DEF Holders, HoldsSlot
<1>2. QED
  BY <1>1 DEF SlotsReturned, Holders, HoldsSlot

\* A fetch enters doWithRetry.
LEMMA SlotTaken ==
    ASSUME SlotsReturned, NEW f \in Fetches, ~HoldsSlot(f), used' = used + 1,
           fetch'[f].at \in {"trying", "failed", "sleeping", "reading"},
           \A g \in Fetches \ {f} : fetch'[g].at = fetch[g].at
    PROVE  SlotsReturned'
<1>1. Holders' = Holders \cup {f} /\ f \notin Holders
  BY DEF Holders, HoldsSlot
<1>2. Cardinality(Holders') = Cardinality(Holders) + 1
  BY <1>1, HoldersFinite, FS_AddElement
<1>3. QED
  BY <1>2 DEF SlotsReturned, Holders, HoldsSlot

\* A fetch returns from it, and had a slot to give back.
LEMMA SlotGivenBack ==
    ASSUME SlotsReturned, NEW f \in Fetches, HoldsSlot(f), used' = used - 1,
           fetch'[f].at \notin {"trying", "failed", "sleeping", "reading"},
           \A g \in Fetches \ {f} : fetch'[g].at = fetch[g].at
    PROVE  SlotsReturned' /\ used > 0
<1>1. Holders' = Holders \ {f} /\ f \in Holders
  BY DEF Holders, HoldsSlot
<1>2. Cardinality(Holders') = Cardinality(Holders) - 1
  BY <1>1, HoldersFinite, FS_RemoveElement
<1>3. Cardinality(Holders) # 0
  BY <1>1, HoldersFinite, FS_EmptySet
<1>4. QED
  BY <1>2, <1>3, HoldersFinite DEF SlotsReturned, Holders, HoldsSlot

-----------------------------------------------------------------------------
(* The invariant, one lemma per kind of step *)

LEMMA InitInv == Init => IInv
<1> SUFFICES ASSUME Init PROVE IInv
  OBVIOUS
<1>1. TypeOK
  <2>1. Idle \in Fetch
    BY GateAssumption DEF Idle, Fetch
  <2>2. QED
    BY <2>1, GateAssumption DEF Init, TypeOK
<1>2. Holders = {}
  BY DEF Init, Holders, HoldsSlot, Idle
<1>3. SlotsReturned
  BY <1>2, FS_EmptySet DEF Init, SlotsReturned, Holders
<1>4. AttemptsLeft
  BY DEF Init, AttemptsLeft, Idle
<1>5. QED
  BY <1>1, <1>3, <1>4 DEF IInv

\* What one fetch becomes, the others staying as they are.
LEMMA OneFetch ==
    ASSUME TypeOK, AttemptsLeft, NEW f \in Fetches, NEW e \in Fetch,
           fetch' = [fetch EXCEPT ![f] = e],
           e.at = "failed" => e.got = "error" \/ (Retryable(e.got) /\ e.n < Attempts),
           e.at = "sleeping" => e.n < Attempts,
           e.at = "idle" => e = Idle
    PROVE  /\ fetch' \in [Fetches -> Fetch] /\ AttemptsLeft'
           /\ fetch'[f] = e /\ \A g \in Fetches \ {f} : fetch'[g] = fetch[g]
<1>1. fetch \in [Fetches -> Fetch]
  BY DEF TypeOK
<1>2. fetch' \in [Fetches -> Fetch]
  BY <1>1
<1>3. fetch'[f] = e /\ \A g \in Fetches \ {f} : fetch'[g] = fetch[g]
  BY <1>1
<1>4. AttemptsLeft'
  BY <1>3 DEF AttemptsLeft
<1>5. QED
  BY <1>2, <1>3, <1>4

Places == {"idle", "pacing", "queued", "trying", "failed", "sleeping", "reading"}

\* The fields of a fetch, and what some of them being changed makes of it.
LEMMA FetchFields ==
    ASSUME NEW e \in Fetch
    PROVE  /\ e.at \in Places /\ e.n \in Nat /\ e.n <= Attempts /\ e.left \in Nat
           /\ e.alive \in BOOLEAN /\ e.got \in Outcome \cup {"none"}
BY GateAssumption DEF Fetch, Places

LEMMA MovedFetch ==
    ASSUME NEW e \in Fetch, NEW a \in Places
    PROVE  /\ [e EXCEPT !.at = a] \in Fetch /\ [e EXCEPT !.at = a].at = a
           /\ [e EXCEPT !.at = a].n = e.n /\ [e EXCEPT !.at = a].got = e.got
BY DEF Fetch, Places

LEMMA TriedFetch ==
    ASSUME NEW e \in Fetch, NEW k \in Nat, k <= Attempts
    PROVE  /\ [e EXCEPT !.at = "trying", !.n = k] \in Fetch
           /\ [e EXCEPT !.at = "trying", !.n = k].at = "trying"
           /\ [e EXCEPT !.at = "trying", !.n = k, !.got = "none"] \in Fetch
           /\ [e EXCEPT !.at = "trying", !.n = k, !.got = "none"].at = "trying"
<1>1. k \in 0..Attempts
  BY GateAssumption
<1>2. [e EXCEPT !.at = "trying", !.n = k] \in Fetch
  BY <1>1 DEF Fetch
<1>3. [e EXCEPT !.at = "trying", !.n = k, !.got = "none"] \in Fetch
  BY <1>1 DEF Fetch
<1>4. QED
  BY <1>2, <1>3 DEF Fetch

LEMMA PacedFetch ==
    ASSUME NEW e \in Fetch, NEW d \in Nat, NEW a \in {"pacing", "queued"}
    PROVE  /\ [e EXCEPT !.left = d, !.at = a] \in Fetch
           /\ [e EXCEPT !.left = d, !.at = a].at = a
BY DEF Fetch

LEMMA AsleepFetch ==
    ASSUME NEW e \in Fetch, NEW d \in Nat
    PROVE  /\ [e EXCEPT !.at = "sleeping", !.left = d] \in Fetch
           /\ [e EXCEPT !.at = "sleeping", !.left = d].at = "sleeping"
           /\ [e EXCEPT !.at = "sleeping", !.left = d].n = e.n
BY DEF Fetch

LEMMA TickedFetch ==
    ASSUME NEW e \in Fetch, NEW d \in Nat
    PROVE  /\ [e EXCEPT !.left = d] \in Fetch
           /\ [e EXCEPT !.left = d].at = e.at /\ [e EXCEPT !.left = d].n = e.n
           /\ [e EXCEPT !.left = d].got = e.got
BY DEF Fetch

LEMMA FailedFetch ==
    ASSUME NEW e \in Fetch, NEW o \in Outcome
    PROVE  /\ [e EXCEPT !.at = "failed", !.got = o] \in Fetch
           /\ [e EXCEPT !.at = "failed", !.got = o].at = "failed"
           /\ [e EXCEPT !.at = "failed", !.got = o].got = o
           /\ [e EXCEPT !.at = "failed", !.got = o].n = e.n
BY DEF Fetch

LEMMA GoneFetch ==
    ASSUME NEW e \in Fetch
    PROVE  /\ [e EXCEPT !.alive = FALSE] \in Fetch
           /\ [e EXCEPT !.alive = FALSE].at = e.at /\ [e EXCEPT !.alive = FALSE].n = e.n
           /\ [e EXCEPT !.alive = FALSE].got = e.got
BY DEF Fetch

LEMMA IdleFetch == Idle \in Fetch
BY GateAssumption DEF Idle, Fetch

LEMMA StartInv == ASSUME IInv, NEW f \in Fetches, Start(f) PROVE IInv'
<1> DEFINE wait == Lesser(cool, MaxWait)
           e == [Idle EXCEPT !.left = wait, !.at = IF wait > 0 THEN "pacing" ELSE "queued"]
<1>1. wait \in Nat
  BY GateAssumption DEF IInv, TypeOK, Lesser
<1>2. e \in Fetch /\ e.at \in {"pacing", "queued"}
  <2>1. \A a \in {"pacing", "queued"} :
          /\ [Idle EXCEPT !.left = wait, !.at = a] \in Fetch
          /\ [Idle EXCEPT !.left = wait, !.at = a].at = a
    BY <1>1, IdleFetch, PacedFetch
  <2>2. (IF wait > 0 THEN "pacing" ELSE "queued") \in {"pacing", "queued"}
    OBVIOUS
  <2>3. QED
    BY <2>1, <2>2
<1>3. fetch' = [fetch EXCEPT ![f] = e] /\ UNCHANGED <<strikes, cool, used>>
  BY DEF Start
<1> HIDE DEF e
<1>4. fetch' \in [Fetches -> Fetch] /\ AttemptsLeft'
  BY <1>2, <1>3, OneFetch DEF IInv
<1>5. SlotsReturned'
  BY <1>2, <1>3, SlotsKept DEF IInv, TypeOK, HoldsSlot, Start
<1>6. started' \in 0..MaxStarts
  BY GateAssumption DEF IInv, TypeOK, Start
<1>7. QED
  BY <1>3, <1>4, <1>5, <1>6 DEF IInv, TypeOK

\* Steps of one fetch that neither take nor give back a slot, nor touch the host.
LEMMA QuietStep ==
    ASSUME IInv, NEW f \in Fetches, NEW e \in Fetch, fetch' = [fetch EXCEPT ![f] = e],
           UNCHANGED <<strikes, cool, used, started>>,
           e.at \in {"trying", "failed", "sleeping", "reading"} <=> HoldsSlot(f),
           e.at = "failed" => e.got = "error" \/ (Retryable(e.got) /\ e.n < Attempts),
           e.at = "sleeping" => e.n < Attempts,
           e.at = "idle" => e = Idle
    PROVE  IInv'
<1>1. /\ fetch' \in [Fetches -> Fetch] /\ AttemptsLeft'
      /\ fetch'[f] = e /\ \A g \in Fetches \ {f} : fetch'[g] = fetch[g]
  BY OneFetch DEF IInv
<1>2. SlotsReturned'
  BY <1>1, SlotsKept DEF IInv, HoldsSlot
<1>3. QED
  BY <1>1, <1>2 DEF IInv, TypeOK

LEMMA WaitInv ==
    ASSUME IInv, NEW f \in Fetches, PaceEnds(f) \/ GiveUp(f) \/ Cancel(f) PROVE IInv'
<1>1. fetch[f] \in Fetch
  BY DEF IInv, TypeOK
<1>2. CASE PaceEnds(f)
  <2>1. fetch' = [fetch EXCEPT ![f] = [fetch[f] EXCEPT !.at = "queued"]]
    BY <1>2 DEF PaceEnds
  <2>2. [fetch[f] EXCEPT !.at = "queued"] \in Fetch /\ [fetch[f] EXCEPT !.at = "queued"].at = "queued"
    BY <1>1, MovedFetch DEF Places
  <2>3. QED
    BY <1>2, <2>1, <2>2, QuietStep DEF PaceEnds, HoldsSlot
<1>3. CASE GiveUp(f)
  BY <1>3, IdleFetch, QuietStep DEF GiveUp, HoldsSlot, Idle
<1>4. CASE Cancel(f)
  <2> DEFINE e == [fetch[f] EXCEPT !.alive = FALSE]
  <2>1. fetch' = [fetch EXCEPT ![f] = e]
    BY <1>4 DEF Cancel
  <2>2. e \in Fetch /\ e.at = fetch[f].at /\ e.n = fetch[f].n /\ e.got = fetch[f].got
    BY <1>1, GoneFetch
  <2> HIDE DEF e
  <2>3. fetch[f].at # "idle" /\ UNCHANGED <<strikes, cool, used, started>>
    BY <1>4 DEF Cancel
  <2>4. /\ e.at = "failed" => e.got = "error" \/ (Retryable(e.got) /\ e.n < Attempts)
        /\ e.at = "sleeping" => e.n < Attempts
    BY <2>2 DEF IInv, AttemptsLeft
  <2>5. QED
    BY <2>1, <2>2, <2>3, <2>4, QuietStep DEF HoldsSlot
<1>5. QED
  BY <1>2, <1>3, <1>4

LEMMA AcquireInv == ASSUME IInv, NEW f \in Fetches, Acquire(f) PROVE IInv'
<1> DEFINE e == [fetch[f] EXCEPT !.at = "trying", !.n = 1]
<1>1. e \in Fetch /\ e.at = "trying"
  <2>1. fetch[f] \in Fetch /\ 1 <= Attempts
    BY GateAssumption DEF IInv, TypeOK
  <2>2. QED
    BY <2>1, TriedFetch
<1>2. fetch' = [fetch EXCEPT ![f] = e] /\ UNCHANGED <<strikes, cool, started>>
  BY DEF Acquire
<1> HIDE DEF e
<1>3. /\ fetch' \in [Fetches -> Fetch] /\ AttemptsLeft'
      /\ fetch'[f] = e /\ \A g \in Fetches \ {f} : fetch'[g] = fetch[g]
  BY <1>1, <1>2, OneFetch DEF IInv
<1>4. SlotsReturned'
  BY <1>1, <1>3, SlotTaken DEF IInv, Acquire, HoldsSlot
<1>5. used' \in 0..Slots
  BY GateAssumption DEF IInv, TypeOK, Acquire
<1>6. QED
  BY <1>2, <1>3, <1>4, <1>5 DEF IInv, TypeOK

\* Out of doWithRetry, whichever way.
LEMMA ReturnKeeps ==
    ASSUME IInv, NEW f \in Fetches, HoldsSlot(f), Return(f)
    PROVE  fetch' \in [Fetches -> Fetch] /\ AttemptsLeft' /\ SlotsReturned' /\ used' \in 0..Slots
<1>1. /\ fetch' \in [Fetches -> Fetch] /\ AttemptsLeft'
      /\ fetch'[f] = Idle /\ \A g \in Fetches \ {f} : fetch'[g] = fetch[g]
  BY IdleFetch, OneFetch DEF IInv, Return, Idle
<1>2. SlotsReturned' /\ used > 0
  BY <1>1, SlotGivenBack DEF IInv, Return, Idle
<1>3. used' \in 0..Slots
  BY <1>2, GateAssumption DEF IInv, TypeOK, Return
<1>4. QED
  BY <1>1, <1>2, <1>3

LEMMA AttemptInv == ASSUME IInv, NEW f \in Fetches, Attempt(f) PROVE IInv'
<1>1. PICK o \in Outcome :
        IF o \in {"ok", "other"} \/ (Retryable(o) /\ fetch[f].n >= Attempts)
        THEN Note(o) /\ Answered(f)
        ELSE /\ Failed
             /\ fetch' = [fetch EXCEPT ![f].at = "failed", ![f].got = o]
             /\ UNCHANGED used
  BY DEF Attempt
<1>2. HoldsSlot(f) /\ started' = started /\ fetch[f] \in Fetch
  BY DEF IInv, TypeOK, Attempt, HoldsSlot
<1>3. CASE o \in {"ok", "other"} \/ (Retryable(o) /\ fetch[f].n >= Attempts)
  <2>1. strikes' \in Nat /\ cool' \in 0..MaxCool
    BY <1>1, <1>3, NoteTypes DEF IInv, TypeOK
  <2>2. CASE Return(f)
    BY <1>2, <2>1, <2>2, ReturnKeeps DEF IInv, TypeOK
  <2>3. CASE fetch' = [fetch EXCEPT ![f].at = "reading"] /\ UNCHANGED used
    <3> DEFINE e == [fetch[f] EXCEPT !.at = "reading"]
    <3>1. fetch' = [fetch EXCEPT ![f] = e]
      BY <2>3
    <3>2. e \in Fetch /\ e.at = "reading"
      BY <1>2, MovedFetch DEF Places
    <3> HIDE DEF e
    <3>3. /\ fetch' \in [Fetches -> Fetch] /\ AttemptsLeft'
          /\ fetch'[f] = e /\ \A g \in Fetches \ {f} : fetch'[g] = fetch[g]
      BY <3>1, <3>2, OneFetch DEF IInv
    <3>4. SlotsReturned'
      BY <1>2, <2>3, <3>2, <3>3, SlotsKept DEF IInv, HoldsSlot
    <3>5. QED
      BY <1>2, <2>1, <2>3, <3>3, <3>4 DEF IInv, TypeOK
  <2>4. QED
    BY <1>1, <1>3, <2>2, <2>3 DEF Answered
<1>4. CASE ~(o \in {"ok", "other"} \/ (Retryable(o) /\ fetch[f].n >= Attempts))
  <2> DEFINE e == [fetch[f] EXCEPT !.at = "failed", !.got = o]
  <2>1. fetch' = [fetch EXCEPT ![f] = e] /\ Failed /\ used' = used
    BY <1>1, <1>4
  <2>2. e \in Fetch /\ e.at = "failed" /\ e.got = o /\ e.n = fetch[f].n
    BY <1>2, FailedFetch
  <2>3. o = "error" \/ (Retryable(o) /\ fetch[f].n < Attempts)
    <3>1. fetch[f].n \in Nat /\ Attempts \in Nat
      BY <1>2, FetchFields, GateAssumption
    <3>2. QED
      BY <1>4, <3>1 DEF Outcome, Retryable
  <2> HIDE DEF e
  <2>4. /\ fetch' \in [Fetches -> Fetch] /\ AttemptsLeft'
        /\ fetch'[f] = e /\ \A g \in Fetches \ {f} : fetch'[g] = fetch[g]
    BY <2>1, <2>2, <2>3, OneFetch DEF IInv
  <2>5. SlotsReturned'
    BY <1>2, <2>1, <2>2, <2>4, SlotsKept DEF IInv, HoldsSlot
  <2>6. strikes' \in Nat /\ cool' \in 0..MaxCool
    BY <2>1, FailedTypes DEF IInv, TypeOK
  <2>7. QED
    BY <1>2, <2>1, <2>4, <2>5, <2>6 DEF IInv, TypeOK
<1>5. QED
  BY <1>3, <1>4

\* The retry sleeps for its own delay or the cool-down, and another attempt is left.
LEMMA BackOffInv == ASSUME IInv, NEW f \in Fetches, BackOff(f) PROVE IInv'
<1>1. fetch[f] \in Fetch /\ HoldsSlot(f) /\ UNCHANGED <<strikes, cool, started>>
  BY DEF IInv, TypeOK, BackOff, HoldsSlot
<1>2. CASE ~fetch[f].alive \/ (fetch[f].got = "error" /\ fetch[f].n >= Attempts)
  BY <1>1, <1>2, ReturnKeeps DEF IInv, TypeOK, BackOff
<1>3. CASE ~(~fetch[f].alive \/ (fetch[f].got = "error" /\ fetch[f].n >= Attempts))
  <2>1. PICK d \in RetryDelays(fetch[f].n, fetch[f].got) :
          fetch' = [fetch EXCEPT ![f].at = "sleeping", ![f].left = Greater(d, cool)]
    BY <1>3 DEF BackOff
  <2>2. used' = used
    BY <1>3 DEF BackOff
  <2>3. d \in Nat
    <3>1. fetch[f].n \in Nat
      BY <1>1, GateAssumption DEF Fetch
    <3>2. fetch[f].n * LimitedBase \in Nat /\ fetch[f].n * RetryBase \in Nat /\ MaxDelay \in Nat
      BY <3>1, GateAssumption
    <3>3. QED
      BY <2>1, <3>2 DEF RetryDelays, Lesser
  <2>4. Greater(d, cool) \in Nat
    BY <2>3, GateAssumption DEF IInv, TypeOK, Greater
  <2> DEFINE e == [fetch[f] EXCEPT !.at = "sleeping", !.left = Greater(d, cool)]
  <2>5. fetch' = [fetch EXCEPT ![f] = e]
    BY <2>1
  <2>6. e \in Fetch /\ e.at = "sleeping" /\ e.n = fetch[f].n
    BY <1>1, <2>4, AsleepFetch
  <2>7. fetch[f].n < Attempts
    <3>1. fetch[f].n \in Nat /\ Attempts \in Nat
      BY <1>1, FetchFields, GateAssumption
    <3>2. QED
      BY <1>3, <3>1 DEF IInv, AttemptsLeft, BackOff
  <2> HIDE DEF e
  <2>8. QED
    BY <1>1, <2>2, <2>5, <2>6, <2>7, QuietStep
<1>4. QED
  BY <1>2, <1>3

LEMMA SleepInv == ASSUME IInv, NEW f \in Fetches, SleepEnds(f) \/ SleepAborted(f) PROVE IInv'
<1>1. fetch[f] \in Fetch
  BY DEF IInv, TypeOK
<1>2. CASE SleepEnds(f)
  <2> DEFINE e == [fetch[f] EXCEPT !.at = "trying", !.n = @ + 1, !.got = "none"]
  <2>1. fetch' = [fetch EXCEPT ![f] = e] /\ HoldsSlot(f) /\ UNCHANGED <<strikes, cool, used, started>>
    BY <1>2 DEF SleepEnds, HoldsSlot
  <2>2. e \in Fetch /\ e.at = "trying"
    <3>1. fetch[f].n < Attempts /\ fetch[f].n \in Nat /\ Attempts \in Nat
      BY <1>1, <1>2, FetchFields, GateAssumption DEF IInv, AttemptsLeft, SleepEnds
    <3>2. fetch[f].n + 1 \in Nat /\ fetch[f].n + 1 <= Attempts
      BY <3>1
    <3>3. QED
      BY <1>1, <3>2, TriedFetch
  <2> HIDE DEF e
  <2>3. QED
    BY <2>1, <2>2, QuietStep
<1>3. CASE SleepAborted(f)
  BY <1>3, ReturnKeeps DEF IInv, TypeOK, SleepAborted, HoldsSlot
<1>4. QED
  BY <1>2, <1>3

LEMMA BodyInv == ASSUME IInv, NEW f \in Fetches, BodyEnds(f) PROVE IInv'
BY ReturnKeeps DEF IInv, TypeOK, BodyEnds, HoldsSlot

LEMMA TickInv == ASSUME IInv, Tick PROVE IInv'
<1>1. ASSUME NEW f \in Fetches
      PROVE  /\ fetch'[f] \in Fetch
             /\ fetch'[f].at = fetch[f].at /\ fetch'[f].n = fetch[f].n
             /\ fetch'[f].got = fetch[f].got
             /\ fetch[f] = Idle => fetch'[f] = Idle
  <2>1. fetch[f] \in Fetch /\ fetch'[f] = [fetch[f] EXCEPT !.left = Greater(@ - 1, 0)]
    BY DEF IInv, TypeOK, Tick
  <2>2. Greater(fetch[f].left - 1, 0) \in Nat
    BY <2>1 DEF Fetch, Greater
  <2>3. fetch'[f] \in Fetch
    BY <2>1, <2>2, TickedFetch
  <2>4. fetch[f] = Idle => fetch'[f] = Idle
    BY <2>1 DEF Idle, Greater
  <2>5. QED
    BY <2>1, <2>3, <2>4 DEF Fetch
<1>2. fetch' \in [Fetches -> Fetch]
  BY <1>1 DEF Tick
<1>3. AttemptsLeft'
  BY <1>1 DEF IInv, AttemptsLeft
<1>4. SlotsReturned'
  BY <1>1, SlotsKept DEF IInv, HoldsSlot, Tick
<1>5. cool' \in 0..MaxCool
  BY GateAssumption DEF IInv, TypeOK, Tick, Greater
<1>6. QED
  BY <1>2, <1>3, <1>4, <1>5 DEF IInv, TypeOK, Tick

LEMMA StepInv == ASSUME IInv, [Next]_vars PROVE IInv'
<1>1. CASE UNCHANGED vars
  BY <1>1 DEF vars, IInv, TypeOK, SlotsReturned, AttemptsLeft, HoldsSlot
<1>2. CASE Tick
  BY <1>2, TickInv
<1>3. ASSUME NEW f \in Fetches, Start(f) \/ Acquire(f) \/ Cancel(f) \/ Steps(f) PROVE IInv'
  BY <1>3, StartInv, AcquireInv, WaitInv, AttemptInv, BackOffInv, SleepInv, BodyInv DEF Steps
<1>4. QED
  BY <1>1, <1>2, <1>3 DEF Next

LEMMA Invariance == Spec => []IInv
BY InitInv, StepInv, PTL DEF Spec

-----------------------------------------------------------------------------
(* The theorems *)

\* Type correctness; in it, no more slots are taken than there are.
THEOREM TypeCorrect == Spec => []TypeOK
<1>1. IInv => TypeOK
  BY DEF IInv
<1>2. QED
  BY Invariance, <1>1, PTL

\* A slot is occupied exactly by a fetch whose caller has not returned since it was
\* acquired: attempting, retrying, or reading the body under its deferred release.
THEOREM SlotsSafe == Spec => []SlotsReturned
<1>1. IInv => SlotsReturned
  BY DEF IInv
<1>2. QED
  BY Invariance, <1>1, PTL

\* Only a failure counts as one: the other steps leave the strikes or clear them.
LEMMA StrikesAreFailures ==
    ASSUME IInv, [Next]_vars, strikes' > strikes PROVE Failed
<1>0. strikes \in Nat
  BY DEF IInv, TypeOK
<1>1. ~(strikes' = strikes) /\ ~Recovered
  BY <1>0 DEF Recovered
<1>2. PICK f \in Fetches : Attempt(f)
  BY <1>1 DEF Next, vars, Tick, Start, Acquire, Cancel, Steps, PaceEnds, GiveUp, BackOff,
              SleepEnds, SleepAborted, BodyEnds
<1>3. PICK o \in Outcome : Note(o) \/ Failed
  BY <1>2 DEF Attempt
<1>4. QED
  BY <1>1, <1>3 DEF Note, Outcome, Retryable

\* However many failures in a row, and whatever the shift overflows to, one more never
\* shortens the cool-down and leaves at least the base one.
THEOREM CoolWidens == Spec => WidensOnly
<1>1. IInv /\ [Next]_vars => [strikes' > strikes => cool' >= Greater(cool, Base)]_vars
  BY StrikesAreFailures, FailedWidens DEF IInv, TypeOK
<1>2. QED
  BY <1>1, Invariance, PTL DEF Spec, WidensOnly
=============================================================================
