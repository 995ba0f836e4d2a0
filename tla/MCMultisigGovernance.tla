------------------------- MODULE MCMultisigGovernance -------------------------
(* Two people who are admins and signers in turn.                          *)
EXTENDS MultisigGovernance

CONSTANTS a, b
==============================================================================
