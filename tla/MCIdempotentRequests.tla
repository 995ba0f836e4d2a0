------------------------- MODULE MCIdempotentRequests -------------------------
(* Interchangeable requests. *)
EXTENDS IdempotentRequests, TLC

CONSTANTS r1, r2, r3

MCRequests == {r1, r2, r3}
MCSymmetry == Permutations(MCRequests)
==============================================================================
