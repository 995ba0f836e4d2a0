-------------------------- MODULE MultisigGovernance --------------------------
(***************************************************************************)
(* contracts/multisig_governance together with the contract it governs     *)
(* (AdminTransfer).  A transfer is proposed by the admin, approved by the  *)
(* signers it names, and finalized by anybody once its timelock has        *)
(* elapsed; finalizing calls set_admin of the target in the same step.     *)
(*                                                                         *)
(* A list of signers is a set: propose refuses duplicates.                 *)
(***************************************************************************)
EXTENDS Integers, FiniteSets

CONSTANTS
  People,        \* addresses that sign for themselves
  NoOne,         \* an absent address
  Gov,           \* the address of the governance contract
  MinTimelock,   \* MIN_TIMELOCK_SECONDS
  Ttl,           \* PROPOSAL_TTL_SECONDS
  Cooldown,      \* REPROPOSAL_COOLDOWN_SECONDS
  MaxSigners,    \* MAX_SIGNERS
  MaxProposals,  \* bound on KEY_PROPOSAL_COUNT
  MaxTime,       \* bound on the ledger's clock
  NoTransfer,    \* an absent PENDING entry
  NoTime         \* an absent CANCEL_AT entry

ASSUME GovernanceAssumption ==
  /\ IsFiniteSet(People) /\ NoOne \notin People /\ Gov \notin People /\ Gov # NoOne
  /\ MinTimelock \in Nat \ {0} /\ Ttl \in Nat /\ Ttl >= 2 * MinTimelock
  /\ Cooldown \in Nat /\ MaxSigners \in Nat /\ MaxProposals \in Nat /\ MaxTime \in Nat
  /\ NoTransfer \notin [id : Nat, proposedAdmin : People, signers : SUBSET People,
                        threshold : Nat, executableAfter : Nat, proposedAt : Nat,
                        approvals : SUBSET People, status : {"Active", "Cancelled"}]
  /\ NoTime \notin Nat

VARIABLES
  govAdmin,         \* ADMIN
  pending,          \* PENDING
  lastCancelledAt,  \* CANCEL_AT
  proposalCount,    \* COUNT
  now,              \* the timestamp of the ledger
  calls,            \* history: who called approve_transfer for which proposal
  ended             \* history: proposals finalized, cancelled or expired

VARIABLES admin, proposed, governance, proposedBy

Target == INSTANCE AdminTransfer

govVars        == <<govAdmin, pending, lastCancelledAt, proposalCount, calls, ended>>
targetVars     == <<admin, proposed, governance, proposedBy>>
governanceVars == <<govVars, now, targetVars>>

(* Bug: a timelock may last as long as the proposal. *)
MaxTimelockIsTtl == Ttl

MaxTimelock == Ttl - MinTimelock

Expiry == pending.proposedAt + Ttl

IsActive == pending # NoTransfer /\ pending.status = "Active"

GovernanceInit ==
  /\ Target!Init
  /\ govAdmin = admin
  /\ pending = NoTransfer
  /\ lastCancelledAt = NoTime
  /\ proposalCount = 0
  /\ now = 0
  /\ calls = {}
  /\ ended = {}

(* Bug: the counter is read, not advanced. *)
SameId == proposalCount

NextId == proposalCount + 1

(* Bug: a new proposal starts with the approvals of the one before. *)
ApprovalsCarriedOver(signers) ==
  IF pending = NoTransfer THEN {} ELSE pending.approvals

FirstApprovals(signers) == {}

ProposeAdminTransfer(new, signers, threshold, delay) ==
  /\ ~IsActive
  /\ lastCancelledAt # NoTime => now >= lastCancelledAt + Cooldown
  /\ signers # {} /\ Cardinality(signers) <= MaxSigners
  /\ threshold >= 1 /\ threshold <= Cardinality(signers)
  /\ delay >= MinTimelock /\ delay <= MaxTimelock
  /\ proposalCount < MaxProposals
  /\ proposalCount' = NextId
  /\ pending' = [id |-> NextId, proposedAdmin |-> new, signers |-> signers,
                 threshold |-> threshold, executableAfter |-> now + delay,
                 proposedAt |-> now, approvals |-> FirstApprovals(signers),
                 status |-> "Active"]
  /\ UNCHANGED <<govAdmin, lastCancelledAt, calls, ended, now, targetVars>>

ApproveTransfer(signer) ==
  /\ IsActive
  /\ signer \in pending.signers
  /\ pending' = [pending EXCEPT !.approvals = @ \cup {signer}]
  /\ calls' = calls \cup {<<pending.id, signer>>}
  /\ UNCHANGED <<govAdmin, lastCancelledAt, proposalCount, ended, now, targetVars>>

FinalizeAdminTransfer ==
  /\ IsActive
  /\ now >= pending.executableAfter
  /\ now < Expiry
  /\ Cardinality(pending.approvals) >= pending.threshold
  /\ Target!SetAdmin(pending.proposedAdmin, Gov)
  /\ govAdmin' = pending.proposedAdmin
  /\ pending' = NoTransfer
  /\ lastCancelledAt' = now
  /\ ended' = ended \cup {pending.id}
  /\ UNCHANGED <<proposalCount, calls, now>>

(* cancel_admin_transfer; emergency_cancel_proposal is the same for the    *)
(* proposal it names, and does nothing for any other.                      *)
Cancel ==
  /\ IsActive
  /\ pending' = [pending EXCEPT !.status = "Cancelled"]
  /\ lastCancelledAt' = now
  /\ ended' = ended \cup {pending.id}
  /\ UNCHANGED <<govAdmin, proposalCount, calls, now, targetVars>>

EmergencyCancelProposal(id) == pending # NoTransfer /\ pending.id = id /\ Cancel

ExpireProposal ==
  /\ IsActive
  /\ now >= Expiry
  /\ pending' = NoTransfer
  /\ ended' = ended \cup {pending.id}
  /\ UNCHANGED <<govAdmin, lastCancelledAt, proposalCount, calls, now, targetVars>>

------------------------------------------------------------------------------
(* The target's own entry points: its admin may propose a successor or     *)
(* choose another governance address, and a person who is that address, or *)
(* the admin of a contract without one, may call set_admin.                *)
TargetMoves ==
  /\ \/ \E p \in People : Target!ProposeAdmin(p)
     \/ Target!AcceptAdmin
     \/ \E g \in People \cup {Gov} : Target!SetGovernance(g)
     \/ \E new, caller \in People : Target!SetAdmin(new, caller)
  /\ UNCHANGED <<govVars, now>>

Tick == now < MaxTime /\ now' = now + 1 /\ UNCHANGED <<govVars, targetVars>>

GovernanceNext ==
  \/ \E new \in People, signers \in SUBSET People,
        threshold \in 0 .. Cardinality(People) + 1, delay \in 0 .. Ttl :
       ProposeAdminTransfer(new, signers, threshold, delay)
  \/ \E signer \in People : ApproveTransfer(signer)
  \/ FinalizeAdminTransfer
  \/ Cancel
  \/ \E id \in 1 .. MaxProposals : EmergencyCancelProposal(id)
  \/ ExpireProposal
  \/ TargetMoves
  \/ Tick

GovernanceSpec == GovernanceInit /\ [][GovernanceNext]_governanceVars
------------------------------------------------------------------------------
Transfer ==
  [id : 0 .. MaxProposals, proposedAdmin : People, signers : SUBSET People,
   threshold : Nat, executableAfter : Nat, proposedAt : Nat,
   approvals : SUBSET People, status : {"Active", "Cancelled"}]

(* A stored proposal can be approved by its signers alone, and they suffice. *)
GovernanceTypeOK ==
  /\ govAdmin \in People
  /\ pending \in Transfer \cup {NoTransfer}
  /\ pending # NoTransfer =>
       /\ pending.approvals \subseteq pending.signers
       /\ pending.threshold \in 1 .. Cardinality(pending.signers)
  /\ lastCancelledAt \in Nat \cup {NoTime}
  /\ proposalCount \in 0 .. MaxProposals
  /\ now \in 0 .. MaxTime
  /\ calls \subseteq (0 .. MaxProposals) \X People
  /\ ended \subseteq 0 .. MaxProposals
  /\ admin \in People
  /\ proposed \in People \cup {NoOne}
  /\ governance \in People \cup {Gov, NoOne}

(* The governance admin changes only by a proposal that was open for at    *)
(* least the minimum timelock and for which a quorum of its own signers    *)
(* called approve_transfer; approvals of an earlier proposal never count.  *)
(* The target's admin changes with it.                                     *)
Supporters(id) == {p \in People : <<id, p>> \in calls}

AdminChangesByQuorum ==
  [][govAdmin' # govAdmin =>
       /\ IsActive
       /\ Cardinality(Supporters(pending.id) \cap pending.signers) >= pending.threshold
       /\ now \in pending.proposedAt + MinTimelock .. Expiry - 1
       /\ admin' = govAdmin']_governanceVars

(* A proposal that was finalized, cancelled or expired is never open again *)
(* and no later one has its id: an emergency cancellation that arrives     *)
(* late cannot hit another proposal.                                       *)
NoSecondLife == IsActive => pending.id \notin ended

(* An open proposal can be finalized for at least MinTimelock before it    *)
(* expires (MAX_TIMELOCK_SECONDS): it never only blocks the next one.      *)
UsableWindow == IsActive => pending.executableAfter + MinTimelock <= Expiry

(* The target's open proposal was made by its admin of today.              *)
ProposalFromCurrentAdmin == Target!ProposalFromCurrentAdmin

(* The open proposal is sound in whatever order proposals are made,        *)
(* approved, cancelled, expired and finalized.                             *)
ProposalsSound ==
  /\ GovernanceTypeOK
  /\ NoSecondLife
  /\ UsableWindow
  /\ ProposalFromCurrentAdmin
==============================================================================
