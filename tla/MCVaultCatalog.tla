--------------------------- MODULE MCVaultCatalog ---------------------------
(***************************************************************************)
(* Model-checking instances of VaultCatalog.                               *)
(***************************************************************************)
EXTENDS VaultCatalog, TLC

NameSymmetry == Permutations(Names)
ProcSymmetry == Permutations(Procs) \cup Permutations(Names)

(* The history variables guard no action.  A run whose properties do not   *)
(* look at them identifies states that differ in nothing else.             *)
CatalogView == <<disk, mem, up>>
=============================================================================
