----------------------------- MODULE MCRateLimiter -----------------------------
(* Two requests at once and another every two ticks; two in a minute of    *)
(* four ticks, three in an hour of six.                                    *)
EXTENDS RateLimiter, TLC
CONSTANTS c1, c2
MCWindows == <<[length |-> 4, cap |-> 2], [length |-> 6, cap |-> 3]>>
Symmetry == Permutations(Callers)
================================================================================
