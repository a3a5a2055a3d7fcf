--------------------------- MODULE MCVaultSnapshots ---------------------------
(***************************************************************************)
(* Model-checking instance of VaultSnapshots: two contents, of which one   *)
(* is longer.                                                              *)
(***************************************************************************)
EXTENDS VaultSnapshots, TLC

CONSTANTS c1, c2

Symmetry == Permutations(Files) \cup Permutations(Tags)
Sizes == (c1 :> 1) @@ (c2 :> 2)
=============================================================================
