---------------------------- MODULE AccountBook ----------------------------
(***************************************************************************)
(* What the account store promises (internal/server/auth.go), without      *)
(* requests, locks, tables and restarts: accounts come and go for good,    *)
(* the first ones manage the instance and never all leave, and a session   *)
(* belongs to an account for as long as both are there, once.              *)
(***************************************************************************)
EXTENDS FiniteSets

CONSTANTS Ids, Tokens, Nobody, Ended

VARIABLES
    status,   \* [Ids -> {"unused", "live", "gone"}]
    admins,   \* who manages the instance
    holder    \* [Tokens -> Ids, Nobody or Ended]  whose session a token opens

vars == <<status, admins, holder>>

Live == {u \in Ids : status[u] = "live"}

Init ==
    /\ status = [u \in Ids |-> "unused"]
    /\ admins = {}
    /\ holder = [k \in Tokens |-> Nobody]

\* The first accounts, with who manages the instance.
Found(S, A) ==
    /\ S # {}
    /\ \A u \in S : status[u] = "unused"
    /\ A # {} /\ A \subseteq S
    /\ status' = [u \in Ids |-> IF u \in S THEN "live" ELSE status[u]]
    /\ admins' = A
    /\ \/ UNCHANGED holder
       \/ \E k \in Tokens, u \in S :
             holder[k] = Nobody /\ holder' = [holder EXCEPT ![k] = u]

Join(u) ==
    /\ Live # {} /\ status[u] = "unused"
    /\ status' = [status EXCEPT ![u] = "live"]
    /\ UNCHANGED <<admins, holder>>

\* An account leaves with its sessions, unless nobody would be left in charge.
Leave(u) ==
    /\ u \in Live
    /\ (Live \cap admins) \ {u} # {}
    /\ status' = [status EXCEPT ![u] = "gone"]
    /\ holder' = [k \in Tokens |-> IF holder[k] = u THEN Ended ELSE holder[k]]
    /\ UNCHANGED admins

Open(k, u) ==
    /\ u \in Live /\ holder[k] = Nobody
    /\ holder' = [holder EXCEPT ![k] = u]
    /\ UNCHANGED <<status, admins>>

\* Some sessions end, and some tokens are lost before they open one.
End(K) ==
    /\ holder' = [k \in Tokens |-> IF k \in K THEN Ended ELSE holder[k]]
    /\ UNCHANGED <<status, admins>>

Next ==
    \/ \E K \in SUBSET Tokens : End(K)
    \/ \E u \in Ids : Join(u) \/ Leave(u) \/ \E k \in Tokens : Open(k, u)
    \/ Live = {} /\ \E S \in SUBSET Ids : \E A \in SUBSET S : Found(S, A)

Spec == Init /\ [][Next]_vars
=============================================================================
