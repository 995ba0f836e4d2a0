----------------------------- MODULE LoanManager -----------------------------
(***************************************************************************)
(* contracts/loan_manager composed with the pool it lends from and the NFT *)
(* flags it consults.  Every call to the pool is an action of LendingPool; *)
(* of the RemittanceNFT only what the LoanManager reads is kept: whether a *)
(* borrower's score reaches MinScore, the seized flag and the pause flag.  *)
(*                                                                         *)
(* A call is one atomic step.  A call that fails reverts with everything   *)
(* the called contracts did, so it is an action that is not enabled; the   *)
(* reports to the NFT are the exception: repay and the default pipeline    *)
(* swallow their failure, so each may or may not have taken effect.        *)
(***************************************************************************)
EXTENDS LoanMath, FiniteSets

CONSTANTS
  Borrowers,
  Principals,         \* amounts a borrower asks for (a bound on inputs)
  Payments,           \* amounts paid (a bound on inputs)
  Posted,             \* amounts posted as collateral (a bound on inputs)
  Terms,              \* terms and extensions asked for (a bound on inputs)
  Refinanced,         \* amounts a loan is refinanced to (a bound on inputs)
  QuotedRates,        \* rates the oracle answers (a bound on inputs)
  Settings,           \* values an admin sets each field to (a bound on inputs)
  Switches,           \* flags that move in an instance (a bound on inputs)
  Configured,         \* the configuration initialize writes
  MaxLoans,           \* bound on LoanCounter
  MaxExtensions,      \* MAX_EXTENSIONS
  MaxLateFeeBps,      \* MAX_LATE_FEE_CAP_BPS
  MaxBonusBps,        \* MAX_LIQUIDATION_BONUS_BPS
  MinDefaultWindow,   \* MIN_DEFAULT_WINDOW
  NoLoan              \* an absent Loan entry

CONSTANTS
  Providers, DepositAmounts, Redeemed, MinDeposit, MinimumHold, MaxCooldown,
  DefaultCooldown, Supply, MaxInt, MaxLedger, NoStamp

VARIABLES
  loans,        \* Loan(id)
  loanCounter,  \* LoanCounter
  loanCount,    \* BorrowerLoanCount(borrower)
  escrow,       \* the LoanManager's balance in the token contract
  config,       \* rates, windows, limits and thresholds the admin sets
  lmPaused,     \* Paused
  scoreOk,      \* the borrower's NFT score is at least MinScore
  seized,       \* the borrower's seized flag in the NFT
  nftPaused     \* Paused of the NFT

VARIABLES
  idle, outstanding, totalShares, shares, depositedAt, totalDeposits,
  depositorCount, maxPoolSize, tokenAllowed, cooldown, poolPaused, ledger

Pool == INSTANCE LendingPool WITH
          Amounts <- 0 .. Supply, Cooldowns <- {}, Caps <- {}

poolVars == <<idle, outstanding, totalShares, shares, depositedAt, totalDeposits,
              depositorCount, maxPoolSize, tokenAllowed, cooldown, poolPaused,
              ledger>>
loanVars == <<loans, loanCounter, loanCount, escrow>>
nftVars  == <<scoreOk, seized, nftPaused>>
lmVars   == <<loanVars, config, lmPaused, nftVars>>
vars     == <<lmVars, poolVars>>

LoanRecord ==
  [borrower : Borrowers, amount : Nat \ {0}, collateral : Nat,
   principalPaid : Nat, accruedInterest : Nat, accruedLateFee : Nat,
   rate : Nat, due : Nat, lastInterest : Nat, lastLateFee : Nat,
   status : {"Pending", "Approved", "Repaid", "Defaulted", "Liquidated",
             "Cancelled", "Rejected"},
   residual : Nat, extensions : 0 .. MaxExtensions, term : Nat]

(* The configuration: amounts are i128, all other numbers u32.             *)
ConfigRecord ==
  [lateFeeRate : Nat, threshold : Nat, bonus : Nat, maxAmount : Int,
   minRepayment : Int, maxLoans : Nat, rate : Nat, oracle : BOOLEAN,
   minRate : Nat, maxRate : Nat, minTerm : Nat, maxTerm : Nat,
   maxExtension : Nat, grace : Nat, window : Nat]

(* What an admin passes to the setters, likewise.                          *)
SettingsRecord ==
  [lateFeeRate : SUBSET Nat, threshold : SUBSET Nat, bonus : SUBSET Nat,
   maxAmount : SUBSET Int, minRepayment : SUBSET Int, maxLoans : SUBSET Nat,
   rate : SUBSET Nat, minRate : SUBSET Nat, maxRate : SUBSET Nat,
   minTerm : SUBSET Nat, maxTerm : SUBSET Nat, grace : SUBSET Nat,
   window : SUBSET Nat]

ASSUME ManagerAssumption ==
  /\ Pool!PoolAssumption
  /\ Principals \cup Payments \cup Posted \cup Refinanced \subseteq Int
  /\ DepositAmounts \subseteq Int
  /\ Terms \cup QuotedRates \subseteq Nat
  /\ Settings \in SettingsRecord
  /\ Configured \in ConfigRecord
  /\ MaxLoans \in Nat /\ MaxExtensions \in Nat
  /\ NoLoan \notin LoanRecord

LoanIds == 1 .. MaxLoans
Present == {l \in LoanIds : loans[l] # NoLoan}
Active  == {l \in Present : loans[l].status = "Approved"}

(* Tokens in nobody's contract: what borrowers and providers can pay with. *)
Circulating == Supply - idle - escrow

(* The sum of amount[l] over a set of loans, counted unit by unit.         *)
Units(S, amount) == UNION {{l} \X (1 .. amount[l]) : l \in S}
Total(S, amount) == Cardinality(Units(S, amount))
Amount           == [l \in Present |-> loans[l].amount]
Collateral       == [l \in Present |-> loans[l].collateral]

SetLoan(l, loan)      == loans' = [loans EXCEPT ![l] = loan]
CountUp(b)            == loanCount' = [loanCount EXCEPT ![b] = @ + 1]
CountDown(b)          == loanCount' =
  [loanCount EXCEPT ![b] = IF @ = 0 THEN 0 ELSE @ - 1]

(* Bug: the pause of the pool or of the NFT does not reach the manager. *)
NotPausedLocal == ~lmPaused

NotPaused == ~lmPaused /\ ~poolPaused /\ ~nftPaused

WithinDefaultWindow(loan) == ledger <= loan.due + config.window

Owed(l) == Accrue(loans[l], ledger, config.grace, config.lateFeeRate)

(* compute_interest_rate: a quote outside the bounds is replaced by the    *)
(* configured rate, which is also used when there is no oracle.            *)
RateFor(quote) ==
  IF config.oracle /\ quote >= config.minRate /\ quote <= config.maxRate
  THEN quote ELSE config.rate

(* A report to the NFT that may be refused, or move the score either way;  *)
(* in an instance without the switch "reports" it is always refused.       *)
ReportScore(b) ==
  IF "reports" \in Switches
  THEN \E ok \in BOOLEAN : scoreOk' = [scoreOk EXCEPT ![b] = ok]
  ELSE UNCHANGED scoreOk

------------------------------------------------------------------------------
Init ==
  /\ Pool!Init
  /\ loans = [l \in LoanIds |-> NoLoan]
  /\ loanCounter = 0
  /\ loanCount = [b \in Borrowers |-> 0]
  /\ escrow = 0
  /\ config = Configured
  /\ lmPaused = FALSE
  /\ scoreOk = [b \in Borrowers |-> TRUE]
  /\ seized = [b \in Borrowers |-> FALSE]
  /\ nftPaused = FALSE

RequestLoan(b, amount, term, quote) ==
  /\ NotPaused
  /\ amount > 0 /\ amount <= config.maxAmount
  /\ term # 0 /\ term >= config.minTerm /\ term <= config.maxTerm
  /\ scoreOk[b] /\ ~seized[b]
  /\ loanCount[b] < config.maxLoans
  /\ loanCounter < MaxLoans
  /\ loanCounter' = loanCounter + 1
  /\ SetLoan(loanCounter + 1,
       [borrower |-> b, amount |-> amount, collateral |-> 0, principalPaid |-> 0,
        accruedInterest |-> 0, accruedLateFee |-> 0, rate |-> RateFor(quote),
        due |-> 0, lastInterest |-> 0, lastLateFee |-> 0, status |-> "Pending",
        residual |-> 0, extensions |-> 0, term |-> term])
  /\ CountUp(b)
  /\ UNCHANGED <<escrow, config, lmPaused, nftVars, poolVars>>

ApproveLoan(l) ==
  LET loan == loans[l]
      due  == ledger + loan.term
  IN  /\ NotPaused
      /\ l \in Present /\ loan.status = "Pending"
      /\ idle >= loan.amount
      /\ SetLoan(l, [loan EXCEPT !.status = "Approved", !.due = due,
                                 !.lastInterest = ledger,
                                 !.lastLateFee = due + config.grace])
      /\ Pool!Disburse(loan.amount)
      /\ UNCHANGED <<loanCounter, loanCount, escrow, config, lmPaused, nftVars>>

RepaymentAccepted(amount, debt) ==
  /\ amount <= debt
  /\ amount = debt \/ amount >= config.minRepayment \/ debt <= config.minRepayment

(* The loan after a payment, accrual included; it completes when nothing   *)
(* is owed any more or when the debt was dust.                             *)
AfterRepayment(l, amount) ==
  LET paid == ApplyPayment(Owed(l), amount)
      dust == Debt(Owed(l)) <= config.minRepayment
  IN  IF Debt(paid) = 0 THEN [paid EXCEPT !.status = "Repaid"]
      ELSE IF dust THEN [Forgive(paid) EXCEPT !.status = "Repaid"]
      ELSE paid

(* Bug: the record keeps the collateral that was paid out. *)
ClosedWithCollateral(loan, status, collateral) ==
  [loan EXCEPT !.status = status, !.principalPaid = 0, !.accruedInterest = 0,
               !.accruedLateFee = 0, !.rate = 0, !.due = 0, !.lastInterest = 0,
               !.lastLateFee = 0, !.residual = 0, !.extensions = 0, !.term = 0]

(* A closed loan: of its figures nothing reads more than the collateral.   *)
Closed(loan, status, collateral) ==
  [loan EXCEPT !.status = status, !.collateral = collateral,
               !.principalPaid = 0, !.accruedInterest = 0, !.accruedLateFee = 0,
               !.rate = 0, !.due = 0, !.lastInterest = 0, !.lastLateFee = 0,
               !.residual = 0, !.extensions = 0, !.term = 0]

(* Bug: only what the last payment brought is retired. *)
PrincipalRetiredByPayment(loan, amount) == amount

(* What a closing loan takes off the pool's counter: its amount.           *)
PrincipalRetired(loan, amount) == loan.amount

Repay(l, amount) ==
  LET loan  == loans[l]
      after == AfterRepayment(l, amount)
  IN  /\ NotPaused
      /\ amount > 0
      /\ l \in Present /\ loan.status = "Approved"
      /\ WithinDefaultWindow(loan)
      /\ RepaymentAccepted(amount, Debt(Owed(l)))
      /\ amount <= Circulating
      /\ \/ /\ after.status = "Approved"
            /\ SetLoan(l, after)
            /\ Pool!Receive(amount)
            /\ UNCHANGED <<loanCount, escrow>>
         \/ /\ after.status = "Repaid"
            /\ CountDown(loan.borrower)
            /\ Pool!ReceiveAndSettle(amount, PrincipalRetired(after, amount))
            /\ SetLoan(l, Closed(after, "Repaid", 0))
            /\ escrow' = escrow - loan.collateral
      /\ ReportScore(loan.borrower)
      /\ UNCHANGED <<loanCounter, config, lmPaused, seized, nftPaused>>

DepositCollateral(l, amount) ==
  LET loan == loans[l]
  IN  /\ NotPaused
      /\ amount > 0
      /\ l \in Present /\ loan.status = "Approved"
      /\ ~seized[loan.borrower]
      /\ amount <= Circulating
      /\ SetLoan(l, [loan EXCEPT !.collateral = @ + amount])
      /\ escrow' = escrow + amount
      /\ UNCHANGED <<loanCounter, loanCount, config, lmPaused, nftVars, poolVars>>

ReleaseCollateral(l) ==
  LET loan == loans[l]
  IN  /\ l \in Present /\ loan.status = "Repaid"
      /\ SetLoan(l, [loan EXCEPT !.collateral = 0])
      /\ escrow' = escrow - loan.collateral
      /\ UNCHANGED <<loanCounter, loanCount, config, lmPaused, nftVars, poolVars>>

(* The collateral pays the debt; of a surplus the liquidator takes the     *)
(* bonus and the borrower the rest, so all of it leaves the escrow.        *)
Liquidate(l) ==
  LET loan      == loans[l]
      owed      == Owed(l)
      recovered == Least(loan.collateral, Debt(owed))
      bonus     == LiquidatorBonus(loan.collateral, Debt(owed), config.bonus)
      refund    == Greatest(0, loan.collateral - Debt(owed) - bonus)
      after     == IF recovered <= 0 THEN owed ELSE ApplyPayment(owed, recovered)
  IN  /\ NotPaused
      /\ l \in Present /\ loan.status = "Approved"
      /\ BelowThreshold(loan.collateral, Debt(owed), config.threshold)
      /\ SetLoan(l, Closed(after, "Liquidated", 0))
      /\ CountDown(loan.borrower)
      /\ Pool!ReceiveAndSettle(recovered, PrincipalRetired(after, recovered))
      /\ escrow' = escrow - (recovered + bonus + refund)
      /\ UNCHANGED <<loanCounter, config, lmPaused, nftVars>>

(* cancel_loan and reject_loan differ in who may call them and in the      *)
(* status they leave; neither touches the borrower's count.                *)
Withdrawn(l, status) ==
  LET loan == loans[l]
  IN  /\ l \in Present /\ loan.status = "Pending"
      /\ SetLoan(l, Closed(loan, status, 0))
      /\ escrow' = escrow - loan.collateral
      /\ UNCHANGED <<loanCounter, loanCount, config, lmPaused, nftVars, poolVars>>

CancelLoan(l) == Withdrawn(l, "Cancelled")
RejectLoan(l) == Withdrawn(l, "Rejected")

(* Bug: purging a repaid loan frees its slot a second time. *)
HoldsSlotAfterRepaid(loan) == loan.status \in {"Repaid", "Cancelled", "Rejected"}

HoldsSlot(loan) == loan.status \in {"Cancelled", "Rejected"}

PurgeLoan(l) ==
  LET loan == loans[l]
  IN  /\ l \in Present /\ loan.status \in {"Repaid", "Cancelled", "Rejected"}
      /\ SetLoan(l, NoLoan)
      /\ escrow' = escrow - loan.collateral
      /\ IF HoldsSlot(loan) THEN CountDown(loan.borrower) ELSE UNCHANGED loanCount
      /\ UNCHANGED <<loanCounter, config, lmPaused, nftVars, poolVars>>

(* The collateral handed back when a loan is refinanced to less.           *)
CollateralReturned(loan, new) ==
  LET remaining == RemainingPrincipal(loan)
  IN  IF new < remaining THEN (loan.collateral * (remaining - new)) \div remaining
                         ELSE 0

(* Bug: what was repaid before counts as excess again. *)
ExcessOfAmount(loan, new) == loan.amount - new

(* The principal a borrower hands back when a loan is refinanced to less.  *)
Excess(loan, new) == RemainingPrincipal(loan) - new

RefinanceLoan(l, new, term, quote) ==
  LET loan      == loans[l]
      remaining == RemainingPrincipal(loan)
      back      == CollateralReturned(loan, new)
      \* accrued up to now, then counted as paid: only the residual survives
      residual  == AccrueInterest(loan, ledger).residual
  IN  /\ NotPaused
      /\ l \in Present /\ loan.status = "Approved"
      /\ WithinDefaultWindow(loan)
      /\ new > 0 /\ new <= config.maxAmount
      /\ term >= config.minTerm /\ term <= config.maxTerm
      /\ scoreOk[loan.borrower]
      /\ loan.collateral >= new
      /\ \/ new > remaining /\ Pool!Disburse(new - remaining)
         \/ /\ new < remaining /\ remaining - new <= Circulating
            /\ Pool!ReceiveAndSettle(remaining - new, Excess(loan, new))
         \/ new = remaining /\ UNCHANGED poolVars
      /\ escrow' = escrow - back
      /\ SetLoan(l, [loan EXCEPT !.amount = new, !.principalPaid = 0,
                                 !.accruedInterest = 0, !.accruedLateFee = 0,
                                 !.residual = residual, !.collateral = @ - back,
                                 !.rate = RateFor(quote), !.lastInterest = ledger,
                                 !.due = ledger + term, !.lastLateFee = ledger + term])
      /\ UNCHANGED <<loanCounter, loanCount, config, lmPaused, nftVars>>

ExtendLoan(l, extra) ==
  LET loan == loans[l]
      fee  == ExtensionFee(loan)
  IN  /\ NotPaused
      /\ extra > 0 /\ extra <= config.maxExtension
      /\ l \in Present /\ loan.status = "Approved"
      /\ WithinDefaultWindow(loan)
      /\ loan.extensions < MaxExtensions
      /\ fee <= Circulating
      /\ IF fee > 0 THEN Pool!Receive(fee) ELSE UNCHANGED poolVars
      /\ SetLoan(l, [loan EXCEPT !.due = @ + extra, !.extensions = @ + 1])
      /\ UNCHANGED <<loanCounter, loanCount, escrow, config, lmPaused, nftVars>>

------------------------------------------------------------------------------
(* Bug: the status of the loan is not looked at. *)
DefaultableAny(l) == l \in Present /\ ~WithinDefaultWindow(loans[l])

Defaultable(l) ==
  l \in Present /\ loans[l].status = "Approved" /\ ~WithinDefaultWindow(loans[l])

(* check_defaults over any list of loans: the eligible ones among them are *)
(* defaulted in one call, the others skipped.  check_default is the call   *)
(* for one loan.                                                           *)
CheckDefaults(batch) ==
  LET hit       == {l \in batch : Defaultable(l)}
      proceeds  == Total(hit, Collateral)
      retired   == Total(hit, [l \in hit |-> PrincipalRetired(loans[l], 0)])
      closed(b) == Cardinality({l \in hit : loans[l].borrower = b})
      losers    == IF "reports" \in Switches
                   THEN {loans[l].borrower : l \in hit} ELSE {}
  IN  /\ NotPaused
      /\ hit # {}
      /\ loans' = [l \in LoanIds |->
                     IF l \in hit
                     THEN Closed(loans[l], "Defaulted", 0)
                     ELSE loans[l]]
      /\ loanCount' = [b \in Borrowers |->
                         Greatest(0, loanCount[b] - closed(b))]
      /\ escrow' = escrow - proceeds
      /\ Pool!ReceiveAndSettle(proceeds, retired)
      /\ \E reported \in SUBSET losers, scored \in SUBSET losers :
           /\ seized' = [b \in Borrowers |-> seized[b] \/ b \in reported]
           /\ \E ok \in [scored -> BOOLEAN] :
                scoreOk' = [b \in Borrowers |-> IF b \in scored THEN ok[b]
                                                ELSE scoreOk[b]]
      /\ UNCHANGED <<loanCounter, config, lmPaused, nftPaused>>

------------------------------------------------------------------------------
(* The admin's settings. *)

Configure(field, value) ==
  /\ config' = [config EXCEPT ![field] = value]
  /\ UNCHANGED <<loanVars, lmPaused, nftVars, poolVars>>

SetLateFeeRate(v)          == v <= MaxLateFeeBps /\ Configure("lateFeeRate", v)
SetLiquidationThreshold(v) == v >= BpsScale /\ Configure("threshold", v)
SetLiquidationBonus(v)     == v <= MaxBonusBps /\ Configure("bonus", v)
SetMaxLoanAmount(v)        == v > 0 /\ Configure("maxAmount", v)
SetMinRepaymentAmount(v)   == v >= 0 /\ Configure("minRepayment", v)
SetMaxLoansPerBorrower(v)  == v > 0 /\ Configure("maxLoans", v)
SetInterestRate(v)         == v > 0 /\ Configure("rate", v)
SetRateOracle              == Configure("oracle", TRUE)
SetMinRate(v) == v > 0 /\ v <= config.maxRate /\ Configure("minRate", v)
SetMaxRate(v) == v > 0 /\ v >= config.minRate /\ Configure("maxRate", v)
SetMinTerm(v) == v > 0 /\ v <= config.maxTerm /\ Configure("minTerm", v)

SetGracePeriod(v)   == v <= config.window /\ Configure("grace", v)
SetDefaultWindow(v) ==
  v >= MinDefaultWindow /\ v >= config.grace /\ Configure("window", v)

(* MaxTermLedgers also bounds an extension, which otherwise falls back to  *)
(* the default term.                                                       *)
SetMaxTerm(v) ==
  /\ v > 0 /\ v >= config.minTerm
  /\ config' = [config EXCEPT !.maxTerm = v, !.maxExtension = v]
  /\ UNCHANGED <<loanVars, lmPaused, nftVars, poolVars>>

PauseManager ==
  lmPaused' = TRUE /\ UNCHANGED <<loanVars, config, nftVars, poolVars>>
UnpauseManager ==
  lmPaused' = FALSE /\ UNCHANGED <<loanVars, config, nftVars, poolVars>>

------------------------------------------------------------------------------
(* The NFT moves on its own: scores change with every mint, transfer or    *)
(* reported payment, and set_min_score moves the bar; the admin lifts and  *)
(* the other minters set the seized flag; its own pause switch.            *)
ScoreMoves(b) ==
  /\ scoreOk' = [scoreOk EXCEPT ![b] = ~@]
  /\ UNCHANGED <<loanVars, config, lmPaused, seized, nftPaused, poolVars>>

SeizedFlagMoves(b) ==
  /\ seized' = [seized EXCEPT ![b] = ~@]
  /\ UNCHANGED <<loanVars, config, lmPaused, scoreOk, nftPaused, poolVars>>

NftPauseMoves ==
  /\ nftPaused' = ~nftPaused
  /\ UNCHANGED <<loanVars, config, lmPaused, scoreOk, seized, poolVars>>

(* The pool serves its providers and its own admin meanwhile.              *)
PoolMoves ==
  /\ \/ \E p \in Providers :
          \/ \E amount \in DepositAmounts :
               amount <= Circulating /\ Pool!Deposit(p, amount)
          \/ \E burnt \in Redeemed \cap (1 .. shares[p]) :
               Pool!Withdraw(p, burnt) \/ Pool!EmergencyWithdraw(p, burnt)
     \/ "pool" \in Switches /\ (Pool!Pause \/ Pool!Unpause)
     \/ Pool!CloseLedger
  /\ UNCHANGED lmVars

NftMoves ==
  \/ \E b \in Borrowers :
       \/ "score" \in Switches /\ ScoreMoves(b)
       \/ "seized" \in Switches /\ SeizedFlagMoves(b)
  \/ "nft" \in Switches /\ NftPauseMoves

LoanNext ==
  \/ \E b \in Borrowers, amount \in Principals, term \in Terms,
        quote \in QuotedRates : RequestLoan(b, amount, term, quote)
  \/ \E l \in LoanIds :
       \/ ApproveLoan(l)
       \/ \E amount \in Payments : Repay(l, amount)
       \/ \E amount \in Posted : DepositCollateral(l, amount)
       \/ ReleaseCollateral(l)
       \/ Liquidate(l)
       \/ CancelLoan(l)
       \/ RejectLoan(l)
       \/ PurgeLoan(l)
       \/ \E new \in Refinanced, term \in Terms, quote \in QuotedRates :
            RefinanceLoan(l, new, term, quote)
       \/ \E extra \in Terms : ExtendLoan(l, extra)
  \/ \E batch \in SUBSET LoanIds : CheckDefaults(batch)

AdminNext ==
  \/ \E v \in Settings.lateFeeRate : SetLateFeeRate(v)
  \/ \E v \in Settings.threshold : SetLiquidationThreshold(v)
  \/ \E v \in Settings.bonus : SetLiquidationBonus(v)
  \/ \E v \in Settings.maxAmount : SetMaxLoanAmount(v)
  \/ \E v \in Settings.minRepayment : SetMinRepaymentAmount(v)
  \/ \E v \in Settings.maxLoans : SetMaxLoansPerBorrower(v)
  \/ \E v \in Settings.rate : SetInterestRate(v)
  \/ \E v \in Settings.minRate : SetMinRate(v)
  \/ \E v \in Settings.maxRate : SetMaxRate(v)
  \/ \E v \in Settings.minTerm : SetMinTerm(v)
  \/ \E v \in Settings.maxTerm : SetMaxTerm(v)
  \/ \E v \in Settings.grace : SetGracePeriod(v)
  \/ \E v \in Settings.window : SetDefaultWindow(v)
  \/ "oracle" \in Switches /\ SetRateOracle
  \/ "manager" \in Switches /\ (PauseManager \/ UnpauseManager)

Next == LoanNext \/ AdminNext \/ NftMoves \/ PoolMoves

Spec == Init /\ [][Next]_vars
------------------------------------------------------------------------------
(* Loans and counters have their types: no subtraction of a payment went   *)
(* below zero, and the escrow was never overdrawn.                         *)
TypeOK ==
  /\ Pool!TypeOK
  /\ loans \in [LoanIds -> LoanRecord \cup {NoLoan}]
  /\ config \in ConfigRecord
  /\ loanCounter \in 0 .. MaxLoans
  /\ loanCount \in [Borrowers -> Nat]
  /\ escrow \in Nat
  /\ lmPaused \in BOOLEAN
  /\ scoreOk \in [Borrowers -> BOOLEAN]
  /\ seized \in [Borrowers -> BOOLEAN]
  /\ nftPaused \in BOOLEAN

(* The pool counts every unit lent under an open loan: no order of         *)
(* approvals, partial and final repayments, refinancings, defaults and     *)
(* liquidations retires principal twice or before its loan is closed.      *)
OutstandingCoversLoans == outstanding >= Total(Active, Amount)

(* The LoanManager's token balance is exactly the collateral on record: a  *)
(* liquidation or a refinancing never pays from another loan's collateral. *)
EscrowIsCollateral == escrow = Total(Present, Collateral)

(* BorrowerLoanCount, which caps a borrower's loans, is the number of its  *)
(* loans that hold a slot.  request_loan, repay, liquidate, the defaults   *)
(* and purge_loan each keep their part of it; a withdrawn request holds    *)
(* its slot until it is purged.                                            *)
LoanCountExact ==
  \A b \in Borrowers :
    loanCount[b] =
      Cardinality({l \in Present :
        /\ loans[l].borrower = b
        /\ loans[l].status \in {"Pending", "Approved", "Cancelled", "Rejected"}})

(* What four records say of the loans is what the loans say themselves:    *)
(* the pool's counter, the escrow and the borrowers' loan counts are moved *)
(* by every operation on a loan for its own part.                          *)
BooksBalance ==
  /\ TypeOK
  /\ OutstandingCoversLoans
  /\ EscrowIsCollateral
  /\ LoanCountExact

(* No open loan is overpaid, in any of its parts: the subtractions of      *)
(* remaining_principal and repay never underflow, however the payments     *)
(* are rounded (proportional_repayment_split).                             *)
NoPartOverpaid ==
  \A l \in Active :
    /\ loans[l].principalPaid \in 0 .. loans[l].amount
    /\ loans[l].accruedInterest >= 0
    /\ loans[l].accruedLateFee >= 0

(* Accruing interest in two steps instead of one loses at most one unit of *)
(* the fixed point, wherever the accrual is split: the residual carries    *)
(* the fraction of a token from one call to the next, so that a borrower   *)
(* who makes many small calls accrues what one who makes none accrues.     *)
InterestSurvivesSplitting ==
  LET Exact(loan) == loan.accruedInterest * Precision + loan.residual
  IN  \A l \in Active : \A t \in loans[l].lastInterest .. ledger :
        Exact(AccrueInterest(loans[l], ledger))
          - Exact(AccrueInterest(AccrueInterest(loans[l], t), ledger)) \in 0 .. 1

(* What a loan owes, and what it makes of its time. *)
DebtSound == NoPartOverpaid /\ InterestSurvivesSplitting

(* A late fee is only ever charged up to the debt cap: after a step that   *)
(* raised it the loan owes at most PenaltyMultiplier times its amount,     *)
(* however much interest accrued in the same step (accrue_late_fee).       *)
LateFeesRespectCap ==
  [][\A l \in Active :
       (l \in Active' /\ loans'[l].accruedLateFee > loans[l].accruedLateFee)
         => Debt(loans'[l]) <= PenaltyMultiplier * loans'[l].amount]_vars

(* While any of the three contracts is paused no principal moves and no    *)
(* loan opens or closes (require_not_paused cascades).                     *)
PauseFreezesLending ==
  [][lmPaused \/ poolPaused \/ nftPaused
       => outstanding' = outstanding /\ Active' = Active]_vars

(* The pool's share price falls only in a step that closes a loan: partial *)
(* repayments, refinancings, fees, deposits and redemptions do not cost    *)
(* the holders anything.                                                   *)
PriceFallsOnlyAtClose ==
  [][totalShares > 0 /\ Pool!PriceFalls => ~(Active \subseteq Active')]_vars

(* The LoanManager is a loan book: each loan is opened and closed at most  *)
(* once, and retires at its close exactly the principal it stands for.     *)
Book == INSTANCE LoanBook WITH
          Ids <- LoanIds,
          Limit <- Supply,
          Capacity <- MaxInt,
          exposure <- [l \in LoanIds |-> IF l \in Active THEN loans[l].amount ELSE 0],
          spent <- {l \in 1 .. loanCounter :
                      l \in Present => loans[l].status # "Pending"},
          deployed <- outstanding

ImplementsBook == Book!Spec
==============================================================================
