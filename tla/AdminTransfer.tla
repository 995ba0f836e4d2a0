---------------------------- MODULE AdminTransfer ----------------------------
(***************************************************************************)
(* How the admin of the LoanManager and of the LendingPool changes: in two *)
(* steps (propose_admin, accept_admin), or in one by set_admin, which      *)
(* listens to the configured governance address if there is one and to the *)
(* admin otherwise.  The two contracts share this code; the RemittanceNFT  *)
(* has the same entry points and also moves its minter list.               *)
(***************************************************************************)
CONSTANTS
  People,  \* addresses that sign for themselves
  NoOne    \* an absent address

VARIABLES
  admin,       \* Admin
  proposed,    \* ProposedAdmin
  governance,  \* Governance
  proposedBy   \* history: who was admin when proposed was written

vars == <<admin, proposed, governance, proposedBy>>

Init ==
  /\ admin \in People
  /\ proposed = NoOne
  /\ governance = NoOne
  /\ proposedBy = NoOne

(* propose_admin, signed by the admin. *)
ProposeAdmin(new) ==
  /\ proposed' = new
  /\ proposedBy' = admin
  /\ UNCHANGED <<admin, governance>>

(* accept_admin, signed by the proposed admin. *)
AcceptAdmin ==
  /\ proposed # NoOne
  /\ admin' = proposed
  /\ proposed' = NoOne
  /\ proposedBy' = NoOne
  /\ UNCHANGED governance

(* set_governance, signed by the admin. *)
SetGovernance(address) ==
  /\ governance' = address
  /\ UNCHANGED <<admin, proposed, proposedBy>>

(* Bug: a proposal of the previous admin stays open. *)
ProposalKept == proposed

ProposalAfterSetAdmin == NoOne

(* Whose signature set_admin asks for. *)
SetAdminAuthority == IF governance # NoOne THEN governance ELSE admin

(* set_admin, signed by (or called from) an address. *)
SetAdmin(new, caller) ==
  /\ caller = SetAdminAuthority
  /\ admin' = new
  /\ proposed' = ProposalAfterSetAdmin
  /\ proposedBy' = IF ProposalAfterSetAdmin = NoOne THEN NoOne ELSE proposedBy
  /\ UNCHANGED governance

(* An open proposal was made by the admin of today: no change of admin, by *)
(* either way, leaves a proposal of an earlier admin to be accepted.       *)
ProposalFromCurrentAdmin == proposed # NoOne => proposedBy = admin
==============================================================================
