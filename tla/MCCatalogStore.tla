--------------------------- MODULE MCCatalogStore ---------------------------
(***************************************************************************)
(* Model-checking instances of CatalogStore: catalogs of zero, one and two *)
(* vaults, so that a later image may be longer or shorter than the one it  *)
(* replaces.                                                               *)
(***************************************************************************)
EXTENDS CatalogStore

Sizes == [k \in Versions |-> CASE k = 0 -> 0 [] k = 1 -> 2 [] k = 2 -> 1 [] OTHER -> 2]
=============================================================================
