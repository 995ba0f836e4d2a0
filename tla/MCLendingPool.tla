---------------------------- MODULE MCLendingPool ----------------------------
(***************************************************************************)
(* Two providers, a token supply of six, three ledgers.  The admin's       *)
(* settings move while the pool is small and lends little; the full range  *)
(* of amounts and loans is explored with the settings as initialize left   *)
(* them.                                                                   *)
(***************************************************************************)
EXTENDS LendingPool, TLC

CONSTANTS p1, p2

MCProviders == {p1, p2}
MCSymmetry  == Permutations(MCProviders)

SmallPool == idle <= 4 /\ outstanding \in 0 .. 2 /\ totalDeposits <= 4 /\ totalShares <= 4

AsInitialized ==
  /\ settings = <<0, TRUE, DefaultCooldown, FALSE>>
  /\ ledger <= 2

MCNext == Next /\ (SmallPool \/ AsInitialized)'

MCSpec == Init /\ [][MCNext]_vars
==============================================================================
