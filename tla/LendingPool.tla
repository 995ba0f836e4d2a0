----------------------------- MODULE LendingPool -----------------------------
(***************************************************************************)
(* The share ledger of contracts/lending_pool: one token market of the     *)
(* contract (storage is keyed by token, so markets do not interact).       *)
(*                                                                         *)
(* A call of the contract is one atomic step: Soroban reverts the whole    *)
(* invocation when it fails, so an error path is an action that is not     *)
(* enabled.  The LoanManager is the environment here: it may call          *)
(* disburse, settle_outstanding and adjust_outstanding with any amount.    *)
(* Module LoanManager puts the real one in its place.                      *)
(***************************************************************************)
EXTENDS Integers, FiniteSets

CONSTANTS
  Providers,        \* addresses that deposit
  Amounts,          \* token amounts a caller passes (a bound on inputs)
  MinDeposit,       \* MIN_DEPOSIT_AMOUNT
  MinimumHold,      \* MINIMUM_HOLD_LEDGERS
  MaxCooldown,      \* MAX_WITHDRAWAL_COOLDOWN_LEDGERS
  DefaultCooldown,  \* DEFAULT_WITHDRAWAL_COOLDOWN
  Cooldowns,        \* cooldowns an admin passes (a bound on inputs)
  Caps,             \* pool sizes an admin passes (a bound on inputs)
  Supply,           \* tokens in existence: no balance can exceed it
  MaxInt,           \* i128::MAX, where checked arithmetic reverts
  MaxLedger,        \* bound on the ledger sequence
  NoStamp           \* an absent DepositTimestamp entry

ASSUME PoolAssumption ==
  /\ IsFiniteSet(Providers)
  /\ Amounts \subseteq Int
  /\ Cooldowns \subseteq Nat
  /\ Caps \subseteq Int
  /\ MinDeposit \in Nat \ {0}
  /\ MinimumHold = 1
  /\ MaxCooldown \in Nat
  /\ DefaultCooldown \in 0 .. MaxCooldown
  /\ Supply \in Nat
  /\ MaxInt \in Nat /\ Supply <= MaxInt
  /\ MaxLedger \in Nat
  /\ NoStamp \notin Int

VARIABLES
  idle,            \* the pool's balance in the token contract
  outstanding,     \* TotalOutstanding
  totalShares,     \* TotalShares
  shares,          \* Shares(provider)
  depositedAt,     \* DepositTimestamp(provider)
  totalDeposits,   \* TotalDeposits, the principal basis
  depositorCount,  \* DepositorCount
  maxPoolSize,     \* MaxPoolSize, 0 when unlimited
  tokenAllowed,    \* AllowedToken
  cooldown,        \* WithdrawalCooldown
  poolPaused,      \* Paused
  ledger           \* env.ledger().sequence()

holdings == <<totalShares, shares, depositedAt, totalDeposits, depositorCount>>
settings == <<maxPoolSize, tokenAllowed, cooldown, poolPaused>>
poolVars == <<idle, outstanding, holdings, settings>>
vars     == <<poolVars, ledger>>

MinInt == -MaxInt - 1
Fits(x) == x \in MinInt .. MaxInt

------------------------------------------------------------------------------
(* Share and asset arithmetic. *)

VirtualShares == 1
VirtualAssets == 1

TotalPoolAssets == idle + outstanding

(* Bug: the quotient is rounded up, in the depositor's favour. *)
CalcSharesToMintUp(amount, assets, curShares) ==
  IF curShares = 0 \/ assets <= 0 THEN amount
  ELSE (amount * (curShares + VirtualShares) + assets)
         \div (assets + VirtualAssets)

(* Shares minted for amount.  With negative assets the quotient is not     *)
(* positive, or the division traps: either way the deposit is refused,     *)
(* which the value 0 stands for.                                           *)
CalcSharesToMint(amount, assets, curShares) ==
  IF curShares = 0 \/ assets = 0 THEN amount
  ELSE IF assets < 0 THEN 0
  ELSE (amount * (curShares + VirtualShares)) \div (assets + VirtualAssets)

(* Bug: the quotient is rounded up, in the redeemer's favour. *)
CalcAssetsToRedeemUp(burnt, assets, curShares) ==
  IF assets < 0 THEN 0
  ELSE (burnt * (assets + VirtualAssets) + curShares)
         \div (curShares + VirtualShares)

(* Assets paid for burnt shares, 0 again standing for a refused call.      *)
CalcAssetsToRedeem(burnt, assets, curShares) ==
  IF assets < 0 THEN 0
  ELSE (burnt * (assets + VirtualAssets)) \div (curShares + VirtualShares)

(* Bug: the basis falls by the assets paid out, yield included. *)
PrincipalShareByValue(deposits, burnt, curShares) ==
  LET part == CalcAssetsToRedeem(burnt, TotalPoolAssets, curShares)
  IN  IF part < deposits THEN part ELSE deposits

(* The part of the principal basis that burnt shares stand for.            *)
PrincipalShare(deposits, burnt, curShares) ==
  IF curShares <= 0 \/ deposits <= 0 THEN 0
  ELSE LET part == (burnt * deposits) \div curShares
       IN  IF part < deposits THEN part ELSE deposits

------------------------------------------------------------------------------
(* The bookkeeping of one position. *)

(* Bug: an additional deposit replaces the position. *)
NewSharesReplaced(p, minted) == minted

NewShares(p, minted) == shares[p] + minted

(* Bug: every deposit counts as a new depositor. *)
IsNewDepositorAlways(p) == TRUE

IsNewDepositor(p) == shares[p] = 0

(* Bug: a closed position keeps its deposit stamp. *)
StampAfterKept(p, burnt) == depositedAt[p]

StampAfter(p, burnt) ==
  IF burnt = shares[p] THEN NoStamp ELSE depositedAt[p]

------------------------------------------------------------------------------
(* initialize, followed by allow_token: a market that takes deposits, on a *)
(* network past its first ledger.                                          *)
Init ==
  /\ idle = 0
  /\ outstanding = 0
  /\ totalShares = 0
  /\ shares = [p \in Providers |-> 0]
  /\ depositedAt = [p \in Providers |-> NoStamp]
  /\ totalDeposits = 0
  /\ depositorCount = 0
  /\ maxPoolSize = 0
  /\ tokenAllowed = TRUE
  /\ cooldown = DefaultCooldown
  /\ poolPaused = FALSE
  /\ ledger = 1

Deposit(p, amount) ==
  LET assets == TotalPoolAssets
      minted == CalcSharesToMint(amount, assets, totalShares)
  IN  /\ ~poolPaused
      /\ amount > 0
      /\ tokenAllowed
      /\ amount >= MinDeposit
      /\ maxPoolSize > 0 => totalDeposits + amount <= maxPoolSize
      /\ Fits(assets) /\ Fits(amount * (totalShares + VirtualShares))
      /\ minted > 0
      /\ idle + amount <= Supply
      /\ Fits(totalShares + minted) /\ Fits(totalDeposits + amount)
      /\ idle' = idle + amount
      /\ depositorCount' = IF IsNewDepositor(p) THEN depositorCount + 1
                                                ELSE depositorCount
      /\ shares' = [shares EXCEPT ![p] = NewShares(p, minted)]
      /\ depositedAt' = [depositedAt EXCEPT ![p] = ledger]
      /\ totalShares' = totalShares + minted
      /\ totalDeposits' = totalDeposits + amount
      /\ UNCHANGED <<outstanding, settings, ledger>>

(* redeem_shares, the common tail of both withdrawal entry points.         *)
RedeemShares(p, burnt) ==
  LET assets == TotalPoolAssets
      paid   == CalcAssetsToRedeem(burnt, assets, totalShares)
  IN  /\ burnt > 0
      /\ burnt <= shares[p]
      /\ Fits(assets) /\ Fits(burnt * (assets + VirtualAssets))
      /\ Fits(burnt * totalDeposits)
      /\ paid > 0
      /\ paid <= idle
      /\ idle' = idle - paid
      /\ shares' = [shares EXCEPT ![p] = @ - burnt]
      /\ depositedAt' = [depositedAt EXCEPT ![p] = StampAfter(p, burnt)]
      /\ depositorCount' = IF burnt = shares[p] /\ depositorCount > 0
                           THEN depositorCount - 1 ELSE depositorCount
      /\ totalShares' = totalShares - burnt
      /\ totalDeposits' =
           totalDeposits - PrincipalShare(totalDeposits, burnt, totalShares)
      /\ UNCHANGED <<outstanding, settings, ledger>>

(* Bug: the hold defers to a configured cooldown on every path. *)
HeldForMinimumDeferred(p) ==
  \/ cooldown >= MinimumHold
  \/ depositedAt[p] # NoStamp => ledger >= depositedAt[p] + MinimumHold

HeldForMinimum(p) ==
  depositedAt[p] # NoStamp => ledger >= depositedAt[p] + MinimumHold

MinimumHoldElapsed(p) == cooldown >= MinimumHold \/ HeldForMinimum(p)

CooldownElapsed(p) ==
  (cooldown # 0 /\ depositedAt[p] # NoStamp)
    => ledger >= depositedAt[p] + cooldown

Withdraw(p, burnt) ==
  /\ ~poolPaused
  /\ MinimumHoldElapsed(p)
  /\ CooldownElapsed(p)
  /\ RedeemShares(p, burnt)

EmergencyWithdraw(p, burnt) ==
  /\ HeldForMinimum(p)
  /\ RedeemShares(p, burnt)

------------------------------------------------------------------------------
(* Calls of the LoanManager. *)

Disburse(amount) ==
  /\ ~poolPaused
  /\ amount > 0
  /\ amount <= idle
  /\ Fits(outstanding + amount)
  /\ outstanding' = outstanding + amount
  /\ idle' = idle - amount
  /\ UNCHANGED <<holdings, settings, ledger>>

(* Bug: a subtraction that wraps or widens instead of saturating. *)
PlainSub(x, y) == x - y

(* i128::saturating_sub: the floor is i128::MIN. *)
SaturatingSub(x, y) == IF x - y < MinInt THEN MinInt ELSE x - y

SettleOutstanding(amount) ==
  /\ amount >= 0
  /\ outstanding' = SaturatingSub(outstanding, amount)
  /\ UNCHANGED <<idle, holdings, settings, ledger>>

AdjustOutstanding(delta) ==
  /\ delta # 0
  /\ Fits(outstanding + delta)
  /\ outstanding + delta >= 0
  /\ outstanding' = outstanding + delta
  /\ UNCHANGED <<idle, holdings, settings, ledger>>

(* A transfer of tokens to the pool's address by anyone: a repayment made  *)
(* through the LoanManager, seized collateral, or a plain donation.        *)
Receive(amount) ==
  /\ amount > 0
  /\ idle + amount <= Supply
  /\ idle' = idle + amount
  /\ UNCHANGED <<outstanding, holdings, settings, ledger>>

(* One invocation of the LoanManager that brings tokens into the pool and  *)
(* then settles principal: a final repayment, a default or liquidation     *)
(* with collateral, a refinance to a smaller principal.                    *)
ReceiveAndSettle(amount, principal) ==
  /\ amount >= 0 /\ principal >= 0
  /\ idle + amount <= Supply
  /\ idle' = idle + amount
  /\ outstanding' = SaturatingSub(outstanding, principal)
  /\ UNCHANGED <<holdings, settings, ledger>>

------------------------------------------------------------------------------
(* Calls of the admin. *)

SetMaxPoolSize(max) ==
  /\ max >= 0
  /\ maxPoolSize' = max
  /\ UNCHANGED <<idle, outstanding, holdings, tokenAllowed, cooldown,
                 poolPaused, ledger>>

SetWithdrawalCooldown(ledgers) ==
  /\ ledgers <= MaxCooldown
  /\ cooldown' = ledgers
  /\ UNCHANGED <<idle, outstanding, holdings, maxPoolSize, tokenAllowed,
                 poolPaused, ledger>>

AllowToken ==
  /\ tokenAllowed' = TRUE
  /\ UNCHANGED <<idle, outstanding, holdings, maxPoolSize, cooldown,
                 poolPaused, ledger>>

DisallowToken ==
  /\ tokenAllowed' = FALSE
  /\ UNCHANGED <<idle, outstanding, holdings, maxPoolSize, cooldown,
                 poolPaused, ledger>>

Pause ==
  /\ poolPaused' = TRUE
  /\ UNCHANGED <<idle, outstanding, holdings, maxPoolSize, tokenAllowed,
                 cooldown, ledger>>

Unpause ==
  /\ poolPaused' = FALSE
  /\ UNCHANGED <<idle, outstanding, holdings, maxPoolSize, tokenAllowed,
                 cooldown, ledger>>

(* A ledger closes. *)
CloseLedger ==
  /\ ledger < MaxLedger
  /\ ledger' = ledger + 1
  /\ UNCHANGED poolVars

------------------------------------------------------------------------------
ProviderNext ==
  \E p \in Providers :
    \/ \E amount \in Amounts : Deposit(p, amount)
    \/ \E burnt \in 1 .. shares[p] : Withdraw(p, burnt)
    \/ \E burnt \in 1 .. shares[p] : EmergencyWithdraw(p, burnt)

LoanManagerNext ==
  \E amount \in Amounts :
    \/ Disburse(amount)
    \/ SettleOutstanding(amount)
    \/ AdjustOutstanding(amount)
    \/ Receive(amount)
    \/ \E principal \in Amounts : ReceiveAndSettle(amount, principal)

AdminNext ==
  \/ \E max \in Caps : SetMaxPoolSize(max)
  \/ \E ledgers \in Cooldowns : SetWithdrawalCooldown(ledgers)
  \/ AllowToken
  \/ DisallowToken
  \/ Pause
  \/ Unpause

Next == ProviderNext \/ LoanManagerNext \/ AdminNext \/ CloseLedger

Spec == Init /\ [][Next]_vars

------------------------------------------------------------------------------
(* Every field has its type: idle tokens never exceed the supply nor turn  *)
(* negative when the pool pays out, and the outstanding counter stays an   *)
(* i128 whatever amounts the LoanManager settles.                          *)
TypeOK ==
  /\ idle \in 0 .. Supply
  /\ outstanding \in MinInt .. MaxInt
  /\ totalShares \in Nat
  /\ shares \in [Providers -> Nat]
  /\ depositedAt \in [Providers -> Nat \cup {NoStamp}]
  /\ totalDeposits \in Nat
  /\ depositorCount \in Nat
  /\ maxPoolSize \in Nat
  /\ tokenAllowed \in BOOLEAN
  /\ cooldown \in 0 .. MaxCooldown
  /\ poolPaused \in BOOLEAN
  /\ ledger \in Nat

(* One element for each share somebody holds. *)
Position(p) == {p} \X (1 .. shares[p])
ShareUnits  == UNION {Position(p) : p \in Providers}

(* TotalShares, which prices every conversion, is the number of shares the *)
(* positions hold, through any mix of deposits and partial redemptions     *)
(* (deposit and redeem_shares update the two separately).                  *)
ShareLedgerBalanced == totalShares = Cardinality(ShareUnits)

(* DepositorCount is the number of providers with a position, though       *)
(* deposit and redeem_shares only count transitions through zero.          *)
DepositorCountExact ==
  depositorCount = Cardinality({p \in Providers : shares[p] > 0})

(* A deposit stamp exists exactly as long as the position: the hold guards *)
(* let a provider without a stamp pass, so a lost stamp would lift them.   *)
StampIffShares == \A p \in Providers : depositedAt[p] # NoStamp <=> shares[p] > 0

(* The principal basis is gone exactly when the last share is: redemptions *)
(* of principal_share neither leave basis behind nor exhaust it early, so  *)
(* the MaxPoolSize ceiling is not consumed by an empty pool.               *)
BasisIffShares == totalDeposits = 0 <=> totalShares = 0

(* The books of the pool agree with each other: the share total, the       *)
(* principal basis, the number of depositors and the stamps are records of *)
(* their own, which deposit and redeem_shares write one after the other.   *)
LedgersAgree ==
  /\ TypeOK
  /\ ShareLedgerBalanced
  /\ BasisIffShares
  /\ DepositorCountExact
  /\ StampIffShares

(* Burning every share at once never pays more than the pool's assets.     *)
ClaimsCovered ==
  TotalPoolAssets >= 0 =>
    CalcAssetsToRedeem(totalShares, TotalPoolAssets, totalShares)
      <= TotalPoolAssets

(* Depositing and redeeming straight away, in any state with holders, does *)
(* not return more than was put in (deposit and redeem_shares round down). *)
RoundTripNeverProfits ==
  \A amount \in Amounts :
    LET assets == TotalPoolAssets
        minted == CalcSharesToMint(amount, assets, totalShares)
    IN  (totalShares > 0 /\ amount > 0 /\ assets >= 0 /\ minted > 0)
          => CalcAssetsToRedeem(minted, assets + amount, totalShares + minted)
               <= amount

(* No position shrinks in the ledger of its last deposit, at any cooldown  *)
(* and through either entry point, withdraw or emergency_withdraw.         *)
NoSameLedgerExit ==
  [][\A p \in Providers :
       shares'[p] < shares[p] => depositedAt[p] + MinimumHold <= ledger]_vars

(* The share price (assets + 1) / (shares + 1) of a pool with holders only *)
(* ever falls when the LoanManager writes outstanding principal off:       *)
(* deposits, redemptions, disbursements and transfers to the pool do not   *)
(* dilute the holders.                                                     *)
PriceFalls ==
  (TotalPoolAssets' + VirtualAssets) * (totalShares + VirtualShares)
    < (TotalPoolAssets + VirtualAssets) * (totalShares' + VirtualShares)

OnlyWriteOffsLowerPrice ==
  [][totalShares > 0 /\ PriceFalls => outstanding' < outstanding]_vars
==============================================================================
