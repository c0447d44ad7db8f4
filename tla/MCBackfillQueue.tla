-------------------------- MODULE MCBackfillQueue --------------------------
(***************************************************************************)
(* A small queue for TLC: one job of two windows, enqueued together, so    *)
(* that retiring one window always meets a sibling.  (Windows of different *)
(* jobs meet in Claim and in the auth pause only; the proofs have any      *)
(* number of both.)                                                        *)
(***************************************************************************)
EXTENDS BackfillQueue, TLC

CONSTANTS j1, a1, a2, r1, r2

MCJobOf == a1 :> j1 @@ a2 :> j1
MCRank == a1 :> 1 @@ a2 :> 2
MCBatches == j1 :> {{a1, a2}}
=============================================================================
