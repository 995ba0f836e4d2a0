---------------------------- MODULE MCRemittanceNft ----------------------------
(***************************************************************************)
(* Two holders and three addresses.  Tokens change while the registry and  *)
(* the settings are as initialize left them, and the registry changes      *)
(* while there are no tokens: the two halves share only the guards of      *)
(* who may call.                                                           *)
(***************************************************************************)
EXTENDS RemittanceNft, TLC

CONSTANTS u1, u2, a, b, c

MCUsers  == {u1, u2}
MCPeople == {a, b, c}
MCMinRepayments == {-1, 3}
MCDeltas == {-2, 1}
MCSymmetry == Permutations(MCUsers) \cup Permutations(MCPeople)

NoTokensYet == created = 0 /\ remintApproval = {} /\ ledger = 1

AsInitialized ==
  /\ minters = {admin} /\ proposed = NoOne /\ governance = NoOne
  /\ settingVars = <<DefaultThreshold, 0, FALSE>>

MCNext == Next /\ (NoTokensYet \/ AsInitialized)'

MCSpec == Init /\ [][MCNext]_vars
==============================================================================
