------------------------------ MODULE LoanMath ------------------------------
(***************************************************************************)
(* The arithmetic of one loan in contracts/loan_manager: accrual of        *)
(* interest and late fees, the split of a repayment, dust forgiveness, the *)
(* collateral test and the waterfall of a liquidation.  Pure operators     *)
(* over loan records; module LoanManager uses them in its actions.         *)
(*                                                                         *)
(* interest_paid and late_fee_paid are left out of the record: the         *)
(* contract adds to them and nothing reads them.                           *)
(***************************************************************************)
EXTENDS Integers

CONSTANTS
  BpsScale,           \* 10_000
  Precision,          \* 1_000_000, the fixed point of accrued interest
  PenaltyMultiplier,  \* MAX_PENALTY_MULTIPLIER
  ExtensionFeeBps     \* EXTENSION_FEE_BPS

ASSUME MathAssumption ==
  /\ BpsScale \in Nat \ {0} /\ Precision \in Nat \ {0}
  /\ PenaltyMultiplier \in Nat \ {0} /\ ExtensionFeeBps \in Nat

Least(x, y)    == IF x < y THEN x ELSE y
Greatest(x, y) == IF x < y THEN y ELSE x

RemainingPrincipal(loan) == loan.amount - loan.principalPaid
Debt(loan) == RemainingPrincipal(loan) + loan.accruedInterest + loan.accruedLateFee

------------------------------------------------------------------------------
(* Bug: the fraction of a unit left by the last accrual is dropped. *)
AccrueInterestNoResidual(loan, now) ==
  IF loan.lastInterest = 0 \/ now <= loan.lastInterest THEN loan
  ELSE IF RemainingPrincipal(loan) <= 0 THEN [loan EXCEPT !.lastInterest = now]
  ELSE LET total == (RemainingPrincipal(loan) * loan.rate
                       * (now - loan.lastInterest) * Precision)
                      \div (BpsScale * loan.term)
       IN  [loan EXCEPT !.accruedInterest = @ + total \div Precision,
                        !.lastInterest = now]

(* Interest up to ledger now, on the principal still owed; the fraction of *)
(* a unit is carried in residual.                                          *)
AccrueInterest(loan, now) ==
  IF loan.lastInterest = 0 \/ now <= loan.lastInterest THEN loan
  ELSE IF RemainingPrincipal(loan) <= 0 THEN [loan EXCEPT !.lastInterest = now]
  ELSE LET total == (RemainingPrincipal(loan) * loan.rate
                       * (now - loan.lastInterest) * Precision)
                      \div (BpsScale * loan.term)
           carried == loan.residual + (total % Precision)
       IN  [loan EXCEPT
              !.accruedInterest = @ + total \div Precision + carried \div Precision,
              !.residual = carried % Precision,
              !.lastInterest = now]

(* Bug: the cap on the fee forgets the interest already accrued. *)
FeeCapacityNoInterest(loan) ==
  PenaltyMultiplier * loan.amount - RemainingPrincipal(loan) - loan.accruedLateFee

FeeCapacity(loan) == PenaltyMultiplier * loan.amount - Debt(loan)

(* Late fees from the end of the grace period to now, on the original      *)
(* amount, as far as the debt stays under the cap.                         *)
AccrueLateFee(loan, now, grace, feeRate) ==
  LET start == Greatest(loan.lastLateFee, loan.due + grace)
      fee   == ((loan.amount * feeRate * (now - start)) \div BpsScale) \div loan.term
      charged == IF FeeCapacity(loan) <= 0 THEN 0 ELSE Least(fee, FeeCapacity(loan))
  IN  IF loan.due = 0 \/ now <= start THEN loan
      ELSE IF RemainingPrincipal(loan) <= 0 THEN [loan EXCEPT !.lastLateFee = now]
      ELSE [loan EXCEPT !.accruedLateFee = @ + charged, !.lastLateFee = now]

(* current_total_debt: interest first, then late fees.                     *)
Accrue(loan, now, grace, feeRate) ==
  AccrueLateFee(AccrueInterest(loan, now), now, grace, feeRate)

------------------------------------------------------------------------------
(* proportional_repayment_split: each of principal, interest and late fees *)
(* gets its share rounded down, and the units left over go one each to the *)
(* largest remainders, the earlier of equal ones first.  The loop of the   *)
(* contract is module RepaymentSplit, which shows that it comes to this.   *)
Split(dues, amount) ==
  LET total    == dues[1] + dues[2] + dues[3]
      scaled   == [k \in 1 .. 3 |-> amount * dues[k]]
      share    == [k \in 1 .. 3 |-> scaled[k] \div total]
      rest     == [k \in 1 .. 3 |-> scaled[k] % total]
      left     == amount - (share[1] + share[2] + share[3])
      Ahead(j, k) == rest[j] > rest[k] \/ (rest[j] = rest[k] /\ j < k)
      rank(k)  == (IF Ahead(1, k) THEN 1 ELSE 0) + (IF Ahead(2, k) THEN 1 ELSE 0)
                    + (IF Ahead(3, k) THEN 1 ELSE 0)
  IN  IF total = 0 THEN [k \in 1 .. 3 |-> 0]
      ELSE [k \in 1 .. 3 |-> share[k] + IF rank(k) < left THEN 1 ELSE 0]

(* Bug: shares follow the original principal, not what is left of it. *)
DuesOfAmount(loan) == <<loan.amount, loan.accruedInterest, loan.accruedLateFee>>

Dues(loan) == <<RemainingPrincipal(loan), loan.accruedInterest, loan.accruedLateFee>>

(* apply_debt_recovery, and the same assignments in repay.                 *)
ApplyPayment(loan, amount) ==
  LET paid == Split(Dues(loan), amount)
  IN  [loan EXCEPT !.principalPaid = @ + paid[1],
                   !.accruedInterest = @ - paid[2],
                   !.accruedLateFee = @ - paid[3]]

(* A payment that leaves dust: what is still owed is forgiven.             *)
Forgive(loan) ==
  [loan EXCEPT !.principalPaid = loan.amount, !.accruedInterest = 0,
               !.accruedLateFee = 0]

ExtensionFee(loan) == (RemainingPrincipal(loan) * ExtensionFeeBps) \div BpsScale

------------------------------------------------------------------------------
BelowThreshold(collateral, debt, threshold) ==
  /\ debt > 0
  /\ collateral <= 0 \/ collateral * BpsScale < debt * threshold

LiquidatorBonus(collateral, debt, bonusBps) ==
  IF collateral >= debt
  THEN Least((collateral * bonusBps) \div BpsScale, collateral - debt)
  ELSE 0

==============================================================================
