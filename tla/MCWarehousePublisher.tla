------------------------ MODULE MCWarehousePublisher ------------------------
(***************************************************************************)
(* Small warehouses for TLC.                                               *)
(***************************************************************************)
EXTENDS WarehousePublisher, TLC

CONSTANTS w1, w2, v1, v2, v3, p1, p2

SymmetricNames == Permutations(Paths) \cup Permutations(Versions)
=============================================================================
