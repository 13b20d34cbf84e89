----------------------------- MODULE MCAccounts -----------------------------
\* Accounts on a small instance: requests and tokens are interchangeable.
EXTENDS Accounts, TLC

Symmetry == Permutations(Reqs) \cup Permutations(Tokens)
=============================================================================
