----------------------------- MODULE MCUserSync -----------------------------
(***************************************************************************)
(* Accounts, and titles, differ in nothing but their names.                *)
(***************************************************************************)
EXTENDS UserSync, TLC

MCSymmetry == Permutations(Users) \cup Permutations(Titles)
=============================================================================
