-------------------------- MODULE MCBackfillRunner --------------------------
(* A small download for TLC: one series of two months.                     *)
EXTENDS BackfillRunner

CONSTANTS j1, a1, a2, r1, v1, v2, p1, p2

MCJobOf == a1 :> j1 @@ a2 :> j1
MCRank == a1 :> 1 @@ a2 :> 2
MCBatches == j1 :> {{a1, a2}}
OneFileEach == a1 :> p1 @@ a2 :> p2
=============================================================================
