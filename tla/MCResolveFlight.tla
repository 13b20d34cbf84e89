-------------------------- MODULE MCResolveFlight --------------------------
(* Three requests and one browser slot.  Either all three ask for the title *)
(* whose provider may carry only a flagged release (an owner and two        *)
(* joiners), or two share it and the third resolves another title (two      *)
(* chains competing for the slot), which is one of cinesrc.                 *)
EXTENDS ResolveFlight

CONSTANTS c1, c2, c3, k1, k2

MCCallers == {c1, c2, c3}
MCKeys == {k1, k2}
MCLowQualityKeys == {k1}
MCCinesrcKeys == {k2}
MCRequests == {[c \in MCCallers |-> k1],
               [c \in MCCallers |-> IF c = c3 THEN k2 ELSE k1]}
=============================================================================
