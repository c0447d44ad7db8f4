------------------------------ MODULE MCOrderDesk ------------------------------
(* Two requests with the same correlation id: one is above the freeze      *)
(* limit and goes out in slices, one is not.                               *)
EXTENDS OrderDesk, TLC
CONSTANTS single, large, id
MCCid == (single :> id) @@ (large :> id)
MCSlices == (single :> 1) @@ (large :> 2)
================================================================================
