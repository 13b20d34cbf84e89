------------------------------- MODULE Lookup -------------------------------
(***************************************************************************)
(* What the providers' direct lookups have in common: each goroutine walks *)
(* a chain of upstream requests under a deadline of its own, and either    *)
(* comes back with a source or hands over to the next provider.            *)
(***************************************************************************)
EXTENDS Integers, Sequences, FiniteSets

CONSTANTS
    Lookups,     \* bound: lookups under way at once
    MaxLookups   \* bound: lookups in all

ASSUME LookupAssumption == IsFiniteSet(Lookups) /\ MaxLookups \in Nat

VARIABLES
    at,     \* [Lookups -> Step]  what the lookup does next
    alive,  \* [Lookups -> BOOLEAN]  its deadline has not passed, its caller is there
    begun

common == <<at, alive, begun>>

InitCommon ==
    /\ at = [k \in Lookups |-> "idle"]
    /\ alive = [k \in Lookups |-> TRUE]
    /\ begun = 0

Begin(k, step) ==
    /\ at[k] = "idle" /\ begun < MaxLookups
    /\ begun' = begun + 1
    /\ at' = [at EXCEPT ![k] = step]
    /\ UNCHANGED alive

Go(k, step) == at' = [at EXCEPT ![k] = step] /\ UNCHANGED <<alive, begun>>

Finish(k) ==
    /\ at' = [at EXCEPT ![k] = "idle"]
    /\ alive' = [alive EXCEPT ![k] = TRUE]
    /\ UNCHANGED begun

\* A request that may succeed only while the deadline has not passed.
Reached(k) == alive[k]

\* context.WithTimeout runs out, or the caller is cancelled.
Expires(k) ==
    /\ at[k] # "idle" /\ alive[k]
    /\ alive' = [alive EXCEPT ![k] = FALSE]
    /\ UNCHANGED <<at, begun>>
=============================================================================
