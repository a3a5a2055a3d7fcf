--------------------------- MODULE MCVaultEngine ---------------------------
(* Two siblings of text decoys, a chain of three layers of fake binaries     *)
(* that shares a node with them, and a level beyond the cap.               *)
EXTENDS VaultEngine

Depths == <<1, 3, 2>>
Branches == <<2, 1, 2>>
=============================================================================
