---------------------------- MODULE MinterRegistry ----------------------------
(***************************************************************************)
(* Who may mint: the minter allow-list of the RemittanceNFT, kept both as  *)
(* one marker per address and as a bounded list, and the admin role, whose *)
(* hand-over (AdminTransfer) moves the outgoing admin's entry to the       *)
(* incoming one.                                                           *)
(***************************************************************************)
EXTENDS Integers, Sequences, FiniteSets

CONSTANTS
  People,     \* addresses: accounts and contracts
  NoOne,      \* an absent address
  MaxMinters  \* MAX_AUTHORIZED_MINTERS

ASSUME RegistryAssumption == NoOne \notin People /\ MaxMinters \in Nat \ {0}

VARIABLES admin, proposed, governance, proposedBy

VARIABLES
  minters,       \* the AuthorizedMinter markers
  minterList,    \* AuthorizedMinters
  scoreRecorder  \* ScoreRecorder

Handover == INSTANCE AdminTransfer

handoverVars == <<admin, proposed, governance, proposedBy>>
registryVars == <<handoverVars, minters, minterList, scoreRecorder>>

Listed == {minterList[i] : i \in DOMAIN minterList}

RegistryInit ==
  /\ Handover!Init
  /\ minters = {admin}
  /\ minterList = <<admin>>
  /\ scoreRecorder = NoOne

(* The two copies of the allow-list, as one value. *)
Registry == [marked |-> minters, list |-> minterList]

(* Bug: an address that is on the list already is appended again. *)
AddTwice(r, m) ==
  IF Len(r.list) >= MaxMinters THEN r
  ELSE [marked |-> r.marked \cup {m}, list |-> Append(r.list, m)]

AddMinter(r, m) ==
  IF m \in r.marked \/ Len(r.list) >= MaxMinters THEN r
  ELSE [marked |-> r.marked \cup {m}, list |-> Append(r.list, m)]

(* The list is written anew, entry by entry, without the address.          *)
Kept(list, m) ==
  LET kept[n \in 0 .. Len(list)] ==
        IF n = 0 THEN <<>>
        ELSE IF list[n] = m THEN kept[n - 1] ELSE Append(kept[n - 1], list[n])
  IN  kept

Without(list, m) == Kept(list, m)[Len(list)]

RemoveMinter(r, m) ==
  IF m \notin r.marked THEN r
  ELSE [marked |-> r.marked \ {m}, list |-> Without(r.list, m)]

(* Bug: the incoming admin is added before the outgoing one is removed. *)
AddedFirst(outgoing, incoming) ==
  IF outgoing = incoming THEN Registry
  ELSE RemoveMinter(AddMinter(Registry, incoming), outgoing)

(* Bug: the outgoing admin keeps its entry. *)
OutgoingKept(outgoing, incoming) == AddMinter(Registry, incoming)

(* A full list leaves the incoming admin without an entry, silently. *)
Reconciled(outgoing, incoming) ==
  IF outgoing = incoming THEN Registry
  ELSE AddMinter(RemoveMinter(Registry, outgoing), incoming)

Become(r) == minters' = r.marked /\ minterList' = r.list

(* authorize_minter, signed by the admin: an address already marked is     *)
(* only refreshed, and a full list refuses any other.                      *)
AuthorizeMinter(m) ==
  /\ m \in minters \/ Len(minterList) < MaxMinters
  /\ Become(AddMinter(Registry, m))
  /\ UNCHANGED <<handoverVars, scoreRecorder>>

RevokeMinter(m) ==
  /\ m # admin
  /\ Become(RemoveMinter(Registry, m))
  /\ UNCHANGED <<handoverVars, scoreRecorder>>

SetScoreRecorder(address) ==
  /\ scoreRecorder' = address
  /\ UNCHANGED <<handoverVars, minters, minterList>>

AcceptAdmin ==
  /\ Handover!AcceptAdmin
  /\ Become(Reconciled(admin, proposed))
  /\ UNCHANGED scoreRecorder

SetAdmin(new, caller) ==
  /\ Handover!SetAdmin(new, caller)
  /\ Become(Reconciled(admin, new))
  /\ UNCHANGED scoreRecorder

RegistryNext ==
  \/ \E m \in People : AuthorizeMinter(m)
  \/ \E m \in People : RevokeMinter(m)
  \/ \E m \in People : SetScoreRecorder(m)
  \/ AcceptAdmin
  \/ \E new, caller \in People : SetAdmin(new, caller)
  \/ /\ \/ \E p \in People : Handover!ProposeAdmin(p)
        \/ \E g \in People : Handover!SetGovernance(g)
     /\ UNCHANGED <<minters, minterList, scoreRecorder>>

(* require_admin_or_authorized_minter: either the admin signs and names no *)
(* minter, or the minter it names signs.                                   *)
MayMint(minter) == minter = NoOne \/ minter \in minters

(* require_score_writer: the admin without a name, or the recorder.        *)
MayScore(writer) == writer = NoOne \/ (scoreRecorder # NoOne /\ writer = scoreRecorder)
------------------------------------------------------------------------------
RegistryTypeOK ==
  /\ admin \in People
  /\ proposed \in People \cup {NoOne}
  /\ governance \in People \cup {NoOne}
  /\ minters \subseteq People
  /\ minterList \in Seq(People)
  /\ scoreRecorder \in People \cup {NoOne}

(* The markers and the bounded list are two copies of one set, written one *)
(* after the other (add_ and remove_authorized_minter): they always agree, *)
(* nobody is listed twice, and the cap holds through hand-overs.           *)
MinterListMatches ==
  /\ Listed = minters
  /\ Len(minterList) = Cardinality(minters)
  /\ Len(minterList) <= MaxMinters

(* initialize makes the admin a minter and every hand-over keeps it so,    *)
(* even one that happens while the list is full.                           *)
AdminIsMinter == admin \in minters

(* The allow-list is one set, and always has the admin in it.              *)
RegistrySound == MinterListMatches /\ AdminIsMinter

(* Whoever hands the admin role over loses the minter entry in the same    *)
(* step (reconcile_minter_after_admin_change), by either way of handing    *)
(* over.                                                                   *)
PastAdminCannotMint == [][admin' # admin => admin \notin minters']_registryVars
==============================================================================
