----------------------------- MODULE RemittanceNft -----------------------------
(***************************************************************************)
(* contracts/remittance_nft: one reputation token per address, its score   *)
(* and score history, the seized flag, the count of defaults, burning and  *)
(* reminting, and moving a token to another address.                       *)
(*                                                                         *)
(* The entry of a version before metadata (DataKey::Score) is read as the  *)
(* token it is migrated to by every reader.  URIs and history hashes are   *)
(* left out.                                                               *)
(***************************************************************************)
EXTENDS MinterRegistry

CONSTANTS
  Users,             \* addresses that hold tokens
  MinCreditScore,    \* MIN_CREDIT_SCORE
  MaxScore,          \* MAX_SCORE
  MaxHistory,        \* MAX_SCORE_HISTORY_ENTRIES
  TransferCooldown,  \* TRANSFER_COOLDOWN_LEDGERS
  PointUnit,         \* repaid units a point, also MIN_SCORE_UPDATE_REPAYMENT
  DefaultThreshold,  \* DEFAULT_BURN_THRESHOLD
  Thresholds,        \* thresholds the admin chooses, up to MAX_ALLOWED_BURN_THRESHOLD
  MinRepayments,     \* floors the admin chooses for update_score
  MintScores,        \* initial scores passed to mint and admin_remint
  Amounts,           \* repayments reported to update_score
  Penalties,         \* penalties passed to decrease_score
  Deltas,            \* adjustments passed to apply_score_delta
  MaxTokens,         \* bound on tokens ever created
  MaxDefaults,       \* bound on the default count
  MaxLedger,         \* bound on the ledger sequence
  NoToken,           \* no metadata
  NoLedger           \* no transfer cooldown

ASSUME NftAssumption ==
  /\ MinCreditScore \in Nat /\ MaxScore \in Nat /\ MinCreditScore <= MaxScore
  /\ MaxHistory \in Nat \ {0} /\ TransferCooldown \in Nat /\ PointUnit \in Nat \ {0}
  /\ MintScores \subseteq Nat /\ Amounts \subseteq Int /\ Penalties \subseteq Nat
  /\ Deltas \subseteq Int /\ Thresholds \subseteq Nat /\ MinRepayments \subseteq Int
  /\ DefaultThreshold \in Nat \ {0} /\ MaxDefaults \in Nat /\ MaxLedger \in Nat \ {0}
  /\ NoToken \notin Nat /\ NoLedger \notin Nat

VARIABLES
  score,           \* the score in Metadata, NoToken without an entry
  scoreHistory,    \* ScoreHistory: <<old, new>> pairs
  seized,          \* Seized
  defaultCount,    \* DefaultCount
  burned,          \* Burned
  remintApproval,  \* RemintApproval
  cooldown,        \* TransferCooldown: the ledger of the next transfer
  burnThreshold,   \* BURNTHR
  minRepayment,    \* MinRepaymentAmount
  nftPaused,       \* Paused
  ledger,          \* env.ledger().sequence()
  approvedSince,   \* history: addresses approved since they were last burned or reminted
  created          \* history: the number of tokens created

tokenVars   == <<score, scoreHistory, seized, defaultCount, burned, remintApproval,
                 cooldown, approvedSince, created>>
settingVars == <<burnThreshold, minRepayment, nftPaused>>
vars        == <<registryVars, tokenVars, settingVars, ledger>>

HasToken(u) == score[u] # NoToken

AtMost(x, y)  == IF x < y THEN x ELSE y
AtLeast(x, y) == IF x > y THEN x ELSE y

Init ==
  /\ RegistryInit
  /\ score = [u \in Users |-> NoToken]
  /\ scoreHistory = [u \in Users |-> <<>>]
  /\ seized = {}
  /\ defaultCount = [u \in Users |-> 0]
  /\ burned = {}
  /\ remintApproval = {}
  /\ cooldown = [u \in Users |-> NoLedger]
  /\ burnThreshold = DefaultThreshold
  /\ minRepayment = 0
  /\ nftPaused = FALSE
  /\ ledger = 1
  /\ approvedSince = {}
  /\ created = 0

------------------------------------------------------------------------------
Mint(u, initial, minter) ==
  /\ ~nftPaused /\ MayMint(minter)
  /\ ~HasToken(u)
  /\ u \notin burned
  /\ created < MaxTokens
  /\ created' = created + 1
  /\ score' = [score EXCEPT ![u] = AtMost(initial, MaxScore)]
  /\ UNCHANGED <<registryVars, settingVars, ledger, scoreHistory, seized, defaultCount,
                 burned, remintApproval, cooldown, approvedSince>>

AdminRemint(u, initial) ==
  /\ ~nftPaused
  /\ u \in burned
  /\ u \in remintApproval
  /\ ~HasToken(u)
  /\ created < MaxTokens
  /\ created' = created + 1
  /\ remintApproval' = remintApproval \ {u}
  /\ burned' = burned \ {u}
  /\ seized' = seized \ {u}
  /\ cooldown' = [cooldown EXCEPT ![u] = NoLedger]
  /\ score' = [score EXCEPT ![u] = AtMost(initial, MaxScore)]
  /\ approvedSince' = approvedSince \ {u}
  /\ UNCHANGED <<registryVars, settingVars, ledger, scoreHistory, defaultCount>>

ApproveRemint(u) ==
  /\ ~nftPaused
  /\ remintApproval' = remintApproval \cup {u}
  /\ approvedSince' = approvedSince \cup {u}
  /\ UNCHANGED <<registryVars, settingVars, ledger, score, scoreHistory, seized,
                 defaultCount, burned, cooldown, created>>

(* Bug: the oldest entry is dropped one entry too late. *)
AppendHistoryLong(old, entry) ==
  Append(SubSeq(old, AtLeast(1, Len(old) - MaxHistory + 1), Len(old)), entry)

(* append_score_history: the newest MaxHistory entries are kept. *)
AppendHistory(old, entry) ==
  Append(SubSeq(old, AtLeast(1, Len(old) - MaxHistory + 2), Len(old)), entry)

Rescore(u, new) ==
  /\ score' = [score EXCEPT ![u] = new]
  /\ scoreHistory' = [scoreHistory EXCEPT ![u] = AppendHistory(@, <<score[u], new>>)]
  /\ UNCHANGED <<registryVars, settingVars, ledger, seized, defaultCount, burned,
                 remintApproval, cooldown, approvedSince, created>>

(* Repayments too small to earn a point are refused, so points are never   *)
(* zero; at the maximum the same score is recorded again.                  *)
UpdateScore(u, amount, writer) ==
  /\ amount >= minRepayment /\ amount >= PointUnit
  /\ ~nftPaused /\ MayScore(writer)
  /\ HasToken(u)
  /\ Rescore(u, AtMost(score[u] + amount \div PointUnit, MaxScore))

Penalized(old, penalty) == AtLeast(old - penalty, MinCreditScore)

DecreaseScore(u, penalty, writer) ==
  /\ ~nftPaused /\ MayScore(writer)
  /\ HasToken(u)
  /\ Penalized(score[u], penalty) # score[u]
  /\ Rescore(u, Penalized(score[u], penalty))

ApplyScoreDelta(u, delta) ==
  LET new == AtMost(AtLeast(score[u] + delta, 0), MaxScore)
  IN  /\ ~nftPaused
      /\ HasToken(u)
      /\ new # score[u]
      /\ Rescore(u, new)

------------------------------------------------------------------------------
SeizeCollateral(u, minter) ==
  /\ ~nftPaused /\ MayMint(minter)
  /\ HasToken(u)
  /\ u \notin seized
  /\ seized' = seized \cup {u}
  /\ UNCHANGED <<registryVars, settingVars, ledger, score, scoreHistory, defaultCount,
                 burned, remintApproval, cooldown, approvedSince, created>>

(* Bug: burning leaves the history of the old token behind. *)
HistoryKept(u) == scoreHistory

HistoryAfterBurn(u) == [scoreHistory EXCEPT ![u] = <<>>]

(* Bug: burning leaves an approval given to the living token. *)
ApprovalKept(u) == remintApproval

ApprovalAfterBurn(u) == remintApproval \ {u}

BurnInternal(u, seizedNow) ==
  /\ score' = [score EXCEPT ![u] = NoToken]
  /\ scoreHistory' = HistoryAfterBurn(u)
  /\ seized' = seizedNow \ {u}
  /\ remintApproval' = ApprovalAfterBurn(u)
  /\ cooldown' = [cooldown EXCEPT ![u] = NoLedger]
  /\ burned' = burned \cup {u}
  /\ approvedSince' = approvedSince \ {u}
  /\ UNCHANGED <<registryVars, settingVars, ledger, created>>

Burn(u, minter) ==
  /\ ~nftPaused /\ MayMint(minter)
  /\ HasToken(u)
  /\ BurnInternal(u, seized)
  /\ UNCHANGED defaultCount

(* The count survives burning and reminting: it only ever moves with the   *)
(* token.                                                                  *)
RecordDefault(u, minter) ==
  LET count == defaultCount[u] + 1
  IN  /\ ~nftPaused /\ MayMint(minter)
      /\ HasToken(u)
      /\ count <= MaxDefaults
      /\ defaultCount' = [defaultCount EXCEPT ![u] = count]
      /\ \/ /\ count >= burnThreshold
            /\ BurnInternal(u, seized \cup {u})
         \/ /\ count < burnThreshold
            /\ seized' = seized \cup {u}
            /\ UNCHANGED <<registryVars, settingVars, ledger, score, scoreHistory,
                           burned, remintApproval, cooldown, approvedSince, created>>

(* Bug: the receiving address starts unseized. *)
SeizedLeftBehind(u, v) == seized \ {u}

SeizedMoved(u, v) == IF u \in seized THEN (seized \ {u}) \cup {v} ELSE seized

(* Bug: the sender's own cooldown entry stays. *)
CooldownAdded(u, v) == [cooldown EXCEPT ![v] = ledger + TransferCooldown]

CooldownMoved(u, v) ==
  [cooldown EXCEPT ![u] = NoLedger, ![v] = ledger + TransferCooldown]

Transfer(u, v, minter) ==
  /\ u # v
  /\ ~nftPaused /\ MayMint(minter)
  /\ cooldown[u] # NoLedger => ledger >= cooldown[u]
  /\ HasToken(u)
  /\ ~HasToken(v)
  /\ score' = [score EXCEPT ![u] = NoToken, ![v] = score[u]]
  /\ scoreHistory' =
       IF scoreHistory[u] = <<>> THEN scoreHistory
       ELSE [scoreHistory EXCEPT ![u] = <<>>, ![v] = scoreHistory[u]]
  /\ defaultCount' =
       IF defaultCount[u] = 0 THEN defaultCount
       ELSE [defaultCount EXCEPT ![u] = 0, ![v] = defaultCount[u]]
  /\ seized' = SeizedMoved(u, v)
  /\ remintApproval' = remintApproval \ {u}
  /\ cooldown' = CooldownMoved(u, v)
  /\ UNCHANGED <<registryVars, settingVars, ledger, burned, approvedSince, created>>

------------------------------------------------------------------------------
SetDefaultBurnThreshold(threshold) ==
  /\ ~nftPaused
  /\ threshold # 0
  /\ burnThreshold' = threshold
  /\ UNCHANGED <<registryVars, tokenVars, ledger, minRepayment, nftPaused>>

SetMinRepaymentAmount(amount) ==
  /\ amount >= 0
  /\ minRepayment' = amount
  /\ UNCHANGED <<registryVars, tokenVars, ledger, burnThreshold, nftPaused>>

SetPaused(flag) ==
  /\ nftPaused' = flag
  /\ UNCHANGED <<registryVars, tokenVars, ledger, burnThreshold, minRepayment>>

CloseLedger ==
  /\ ledger < MaxLedger
  /\ ledger' = ledger + 1
  /\ UNCHANGED <<registryVars, tokenVars, settingVars>>

TokenNext ==
  \E u \in Users, caller \in People \cup {NoOne} :
    \/ \E initial \in MintScores : Mint(u, initial, caller)
    \/ \E amount \in Amounts : UpdateScore(u, amount, caller)
    \/ \E penalty \in Penalties : DecreaseScore(u, penalty, caller)
    \/ SeizeCollateral(u, caller)
    \/ RecordDefault(u, caller)
    \/ Burn(u, caller)
    \/ \E v \in Users : Transfer(u, v, caller)

AdminNext ==
  \/ \E u \in Users, initial \in MintScores : AdminRemint(u, initial)
  \/ \E u \in Users : ApproveRemint(u)
  \/ \E u \in Users, delta \in Deltas : ApplyScoreDelta(u, delta)
  \/ \E threshold \in Thresholds : SetDefaultBurnThreshold(threshold)
  \/ \E amount \in MinRepayments : SetMinRepaymentAmount(amount)
  \/ \E flag \in BOOLEAN : SetPaused(flag)

Next ==
  \/ TokenNext
  \/ AdminNext
  \/ RegistryNext /\ UNCHANGED <<tokenVars, settingVars, ledger>>
  \/ CloseLedger

Spec == Init /\ [][Next]_vars
------------------------------------------------------------------------------
TypeOK ==
  /\ RegistryTypeOK
  /\ score \in [Users -> 0 .. MaxScore \cup {NoToken}]
  /\ scoreHistory \in [Users -> Seq((0 .. MaxScore) \X (0 .. MaxScore))]
  /\ \A u \in Users : Len(scoreHistory[u]) <= MaxHistory
  /\ seized \subseteq Users
  /\ defaultCount \in [Users -> 0 .. MaxDefaults]
  /\ burned \subseteq Users
  /\ remintApproval \subseteq Users
  /\ cooldown \in [Users -> Nat \cup {NoLedger}]
  /\ burnThreshold \in Nat \ {0}
  /\ minRepayment \in Nat
  /\ nftPaused \in BOOLEAN
  /\ ledger \in 1 .. MaxLedger

(* The stored history explains the score: its entries follow one another   *)
(* and end at the score of today, and it belongs to the token that is      *)
(* there now, however tokens were burned, reminted and moved before.       *)
HistoryTellsScore ==
  \A u \in Users :
    LET h == scoreHistory[u]
    IN  h # <<>> =>
          /\ h[Len(h)][2] = score[u]
          /\ \A i \in 1 .. Len(h) - 1 : h[i][2] = h[i + 1][1]

(* The seized flag and the cooldown are entries of their own beside the    *)
(* token; neither outlives it, so the next token at an address starts      *)
(* without them.                                                           *)
MarksFollowToken ==
  \A u \in Users : u \in seized \/ cooldown[u] # NoLedger => HasToken(u)

(* The entries kept beside a token say of it what is true of it.           *)
RecordsAgree == TypeOK /\ HistoryTellsScore /\ MarksFollowToken

(* Moving a token does not shake the seized flag off: the number of seized *)
(* tokens falls only when one of them is burned.                           *)
SeizureOutlivesTransfer ==
  [][Cardinality(seized') < Cardinality(seized)
       => \E u \in seized : HasToken(u) /\ u \in burned' /\ score'[u] = NoToken]_vars

(* A burned address is reminted only with an approval given after that     *)
(* burn and not used since; one given to the living token, or to an        *)
(* earlier burn, does not count.                                           *)
RemintFreshlyApproved ==
  [][\A u \in Users : u \in burned /\ u \notin burned' => u \in approvedSince]_vars

(* Who may mint, and for whom, follows the latest hand-over and the latest *)
(* approval.                                                               *)
MintRules == RemintFreshlyApproved /\ PastAdminCannotMint
==============================================================================
