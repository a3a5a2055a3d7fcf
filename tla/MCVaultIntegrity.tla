------------------------- MODULE MCVaultIntegrity -------------------------
(* Two files that hold the same at first, and the shortest schedule.       *)
EXTENDS VaultIntegrity

Intervals == <<1>>
Disks == {[f \in File |-> "c1"]}
=============================================================================
