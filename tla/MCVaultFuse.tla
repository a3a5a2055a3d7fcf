----------------------------- MODULE MCVaultFuse -----------------------------
EXTENDS VaultFuse, TLC

\* The handlers treat all names alike, and only invariants are checked.
Symmetry == Permutations(Names)
=============================================================================
