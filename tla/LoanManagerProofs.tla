--------------------------- MODULE LoanManagerProofs ---------------------------
(***************************************************************************)
(* Theorems about the LoanManager and the pool it lends from, for any      *)
(* borrowers, providers, numbers of loans and settings, about the loop     *)
(* that splits its payments, and about the contract that may replace its   *)
(* admin.  The parts: sums over sets of loans; the arithmetic of one loan  *)
(* (what a loan owes, how a payment is split and what it retires); what    *)
(* each operation of the pool does to the pool's own invariant; the        *)
(* inductive invariant and one lemma for each operation; the theorems;     *)
(* that every step is a step of LoanBook, and what LoanBook itself         *)
(* promises; that the contract's loop computes the split; and, last, the   *)
(* governance of the admin.                                                *)
(***************************************************************************)
EXTENDS LoanManager, RepaymentSplit, MultisigGovernance, FiniteSetTheorems, TLAPS

------------------------------------------------------------------------------
(***************************************************************************)
(* Sums over a set of loans, counted unit by unit.                         *)
(***************************************************************************)
LEMMA UnitPair ==
  ASSUME NEW S, NEW f, NEW u
  PROVE  u \in Units(S, f) <=> \E l \in S : \E i \in 1 .. f[l] : u = <<l, i>>
BY DEF Units

LEMMA TotalNat ==
  ASSUME NEW S, IsFiniteSet(S), NEW f, \A l \in S : f[l] \in Nat
  PROVE  IsFiniteSet(Units(S, f)) /\ Total(S, f) \in Nat
<1> DEFINE row    == [l \in S |-> {l} \X (1 .. f[l])]
           family == {{l} \X (1 .. f[l]) : l \in S}
<1>1. row \in Surjection(S, family)
  <2>1. row \in [S -> family]
    OBVIOUS
  <2>2. \A t \in family : \E l \in S : row[l] = t
    OBVIOUS
  <2> QED
    BY <2>1, <2>2 DEF Surjection
<1>2. IsFiniteSet(family)
  <2> HIDE DEF row, family
  <2> QED
    BY <1>1, FS_Surjection
<1>3. ASSUME NEW t \in family PROVE IsFiniteSet(t)
  <2>1. PICK l \in S : t = {l} \X (1 .. f[l])
    OBVIOUS
  <2>2. f[l] \in Int /\ 1 \in Int
    OBVIOUS
  <2>3. IsFiniteSet(1 .. f[l])
    BY <2>2, FS_Interval
  <2>4. IsFiniteSet({l})
    BY FS_Singleton
  <2> QED
    BY <2>1, <2>3, <2>4, FS_Product
<1>4. IsFiniteSet(UNION family)
  <2> HIDE DEF family
  <2> QED
    BY <1>2, <1>3, FS_UNION
<1>5. IsFiniteSet(Units(S, f))
  BY <1>4 DEF Units
<1> QED
  BY <1>5, FS_CardinalityType DEF Total

LEMMA TotalOne ==
  ASSUME NEW l, NEW f, f[l] \in Nat
  PROVE  Total({l}, f) = f[l]
<1>1. IsFiniteSet({l}) /\ Cardinality({l}) = 1
  BY FS_Singleton
<1>2. IsFiniteSet(1 .. f[l]) /\ Cardinality(1 .. f[l]) = f[l]
  <2>1. 1 \in Int /\ f[l] \in Int
    OBVIOUS
  <2>2. /\ IsFiniteSet(1 .. f[l])
        /\ Cardinality(1 .. f[l]) = IF 1 > f[l] THEN 0 ELSE f[l] - 1 + 1
    BY <2>1, FS_Interval
  <2> QED
    BY <2>2
<1>3. Cardinality({l} \X (1 .. f[l])) = 1 * f[l]
  BY <1>1, <1>2, FS_Product
<1>4. Units({l}, f) = {l} \X (1 .. f[l])
  BY DEF Units
<1>5. 1 * f[l] = f[l]
  OBVIOUS
<1> QED
  BY <1>3, <1>4, <1>5, Zenon DEF Total

(* Equal parts make equal sums.                                            *)
LEMMA TotalSame ==
  ASSUME NEW S, NEW f, NEW g, \A l \in S : f[l] = g[l]
  PROVE  Total(S, f) = Total(S, g)
BY DEF Total, Units

(* Disjoint sets of loans have disjoint units.                             *)
LEMMA TotalDisjoint ==
  ASSUME NEW S, IsFiniteSet(S), NEW T, IsFiniteSet(T), S \cap T = {},
         NEW f, \A l \in S \cup T : f[l] \in Nat
  PROVE  Total(S \cup T, f) = Total(S, f) + Total(T, f)
<1> DEFINE A == Units(S, f)
           B == Units(T, f)
<1>1. Units(S \cup T, f) = A \cup B
  BY DEF Units
<1>2. A \cap B = {}
  BY UnitPair
<1>3. /\ IsFiniteSet(A) /\ IsFiniteSet(B)
      /\ Cardinality(A) \in Nat /\ Cardinality(B) \in Nat
  BY TotalNat DEF Total
<1> HIDE DEF A, B
<1>4. Cardinality(A \cup B) = Cardinality(A) + Cardinality(B) - Cardinality(A \cap B)
  BY <1>3, FS_Union
<1>5. Cardinality(A \cup B) = Cardinality(A) + Cardinality(B)
  BY <1>2, <1>3, <1>4, FS_EmptySet
<1> QED
  BY <1>1, <1>5 DEF A, B, Total

LEMMA TotalRemove ==
  ASSUME NEW S, IsFiniteSet(S), NEW T \in SUBSET S, NEW f, \A l \in S : f[l] \in Nat
  PROVE  Total(S \ T, f) = Total(S, f) - Total(T, f)
<1>1. IsFiniteSet(T) /\ IsFiniteSet(S \ T)
  BY FS_Subset
<1>2. (S \ T) \cup T = S /\ (S \ T) \cap T = {}
  OBVIOUS
<1>3. Total((S \ T) \cup T, f) = Total(S \ T, f) + Total(T, f)
  BY <1>1, <1>2, TotalDisjoint
<1>4. Total(T, f) \in Nat /\ Total(S \ T, f) \in Nat
  BY <1>1, TotalNat
<1>5. Total(S, f) = Total(S \ T, f) + Total(T, f)
  BY <1>2, <1>3, Zenon
<1> QED
  BY <1>4, <1>5

(* One loan more.                                                          *)
LEMMA TotalAdd ==
  ASSUME NEW S, IsFiniteSet(S), NEW l, l \notin S,
         NEW f, \A k \in S \cup {l} : f[k] \in Nat
  PROVE  Total(S \cup {l}, f) = Total(S, f) + f[l]
<1>1. IsFiniteSet({l}) /\ S \cap {l} = {}
  BY FS_Singleton
<1>2. Total(S \cup {l}, f) = Total(S, f) + Total({l}, f)
  BY <1>1, TotalDisjoint
<1> QED
  BY <1>2, TotalOne

(* One loan changes its part.                                              *)
LEMMA TotalChange ==
  ASSUME NEW S, IsFiniteSet(S), NEW l \in S, NEW f, NEW g,
         \A k \in S : f[k] \in Nat /\ g[k] \in Nat,
         \A k \in S \ {l} : f[k] = g[k]
  PROVE  Total(S, g) = Total(S, f) - f[l] + g[l]
<1>1. IsFiniteSet(S \ {l})
  BY FS_Subset
<1>2. S = (S \ {l}) \cup {l} /\ l \notin S \ {l}
  OBVIOUS
<1> DEFINE R == S \ {l}
<1>3. Total(R \cup {l}, f) = Total(R, f) + f[l]
  BY <1>1, TotalAdd
<1>4. Total(R \cup {l}, g) = Total(R, g) + g[l]
  BY <1>1, TotalAdd
<1>5. Total(R, g) = Total(R, f) /\ Total(R, f) \in Nat
  BY <1>1, TotalSame, TotalNat
<1>6. f[l] \in Nat /\ g[l] \in Nat
  OBVIOUS
<1>7. S = R \cup {l}
  BY <1>2
<1> HIDE DEF R
<1> QED
  BY <1>3, <1>4, <1>5, <1>6, <1>7
------------------------------------------------------------------------------
(***************************************************************************)
(* The arithmetic of one loan.                                             *)
(***************************************************************************)

(* A loan that runs or may yet run: nothing of it is overpaid, and it has  *)
(* a term to divide by.                                                    *)
Running(loan) ==
  /\ loan \in LoanRecord
  /\ loan.principalPaid <= loan.amount
  /\ loan.term > 0

(* What neither the accrual nor a payment touches.                         *)
SameLoan(loan, other) ==
  /\ other.borrower = loan.borrower /\ other.amount = loan.amount
  /\ other.collateral = loan.collateral /\ other.status = loan.status
  /\ other.rate = loan.rate /\ other.term = loan.term
  /\ other.extensions = loan.extensions /\ other.due = loan.due

LEMMA DivNat ==
  ASSUME NEW x \in Nat, NEW y \in Nat \ {0}
  PROVE  x \div y \in Nat /\ x % y \in Nat /\ x % y < y /\ x = y * (x \div y) + (x % y)
OBVIOUS

LEMMA MulNat ==
  ASSUME NEW x \in Nat, NEW y \in Nat
  PROVE  x * y \in Nat
OBVIOUS

LEMMA MulPositive ==
  ASSUME NEW x \in Nat \ {0}, NEW y \in Nat \ {0}
  PROVE  x * y \in Nat \ {0}
OBVIOUS

(* The interest of a span of ledgers, before it is cut into whole units.   *)
InterestOf(loan, span) ==
  (RemainingPrincipal(loan) * loan.rate * span * Precision) \div (BpsScale * loan.term)

LEMMA InterestNat ==
  ASSUME NEW loan, Running(loan), NEW span \in Nat
  PROVE  /\ RemainingPrincipal(loan) \in Nat
         /\ RemainingPrincipal(loan) * loan.rate * span * Precision \in Nat
         /\ BpsScale * loan.term \in Nat \ {0}
         /\ InterestOf(loan, span) \in Nat
<1> DEFINE x == RemainingPrincipal(loan) * loan.rate * span * Precision
           y == BpsScale * loan.term
<1>1. loan.rate \in Nat /\ loan.term \in Nat \ {0} /\ RemainingPrincipal(loan) \in Nat
  BY DEF Running, LoanRecord, RemainingPrincipal
<1>2. Precision \in Nat /\ BpsScale \in Nat \ {0}
  BY MathAssumption
<1>3. x \in Nat
  <2>1. RemainingPrincipal(loan) * loan.rate \in Nat
    BY <1>1, MulNat
  <2>2. RemainingPrincipal(loan) * loan.rate * span \in Nat
    BY <2>1, MulNat
  <2> QED
    BY <2>2, <1>2, MulNat
<1>4. y \in Nat \ {0}
  BY <1>1, <1>2, MulPositive
<1>5. x \div y \in Nat
  <2> HIDE DEF x, y
  <2> QED
    BY <1>3, <1>4, DivNat
<1> QED
  BY <1>1, <1>3, <1>4, <1>5 DEF InterestOf

LEMMA AccrueInterestSound ==
  ASSUME NEW loan, Running(loan), NEW at \in Nat
  PROVE  LET after == AccrueInterest(loan, at)
         IN  /\ Running(after) /\ SameLoan(loan, after)
             /\ after.principalPaid = loan.principalPaid
             /\ after.accruedLateFee = loan.accruedLateFee
             /\ after.lastLateFee = loan.lastLateFee
<1> DEFINE after == AccrueInterest(loan, at)
           total == InterestOf(loan, at - loan.lastInterest)
           carried == loan.residual + (total % Precision)
<1>1. loan \in LoanRecord
  BY DEF Running
<1>2. CASE loan.lastInterest = 0 \/ at <= loan.lastInterest
  BY <1>2 DEF AccrueInterest, SameLoan
<1>3. CASE ~(loan.lastInterest = 0 \/ at <= loan.lastInterest) /\ RemainingPrincipal(loan) <= 0
  <2>1. after = [loan EXCEPT !.lastInterest = at]
    BY <1>3 DEF AccrueInterest
  <2> QED
    BY <1>1, <2>1 DEF SameLoan, Running, LoanRecord
<1>4. CASE ~(loan.lastInterest = 0 \/ at <= loan.lastInterest) /\ ~(RemainingPrincipal(loan) <= 0)
  <2>1. after = [loan EXCEPT
                   !.accruedInterest = @ + total \div Precision + carried \div Precision,
                   !.residual = carried % Precision,
                   !.lastInterest = at]
    BY <1>4 DEF AccrueInterest, InterestOf
  <2>2. at - loan.lastInterest \in Nat
    BY <1>1, <1>4 DEF LoanRecord
  <2>3. total \in Nat
    BY <2>2, InterestNat
  <2> HIDE DEF total
  <2>4. total \div Precision \in Nat /\ total % Precision \in Nat
    BY <2>3, DivNat, MathAssumption
  <2>5. carried \in Nat
    BY <2>4, <1>1 DEF LoanRecord
  <2> HIDE DEF carried
  <2>6. carried \div Precision \in Nat /\ carried % Precision \in Nat
    BY <2>5, DivNat, MathAssumption
  <2> DEFINE more == total \div Precision
             whole == carried \div Precision
             part == carried % Precision
  <2>7. after = [loan EXCEPT !.accruedInterest = @ + more + whole, !.residual = part,
                             !.lastInterest = at]
    BY <2>1
  <2> HIDE DEF more, whole, part, after
  <2>8. more \in Nat /\ whole \in Nat /\ part \in Nat
    BY <2>4, <2>6 DEF more, whole, part
  <2>9. after \in LoanRecord
    <3> DEFINE sum == loan.accruedInterest + more + whole
    <3>1. after = [loan EXCEPT !.accruedInterest = sum, !.residual = part,
                               !.lastInterest = at]
      BY <2>7
    <3>2. sum \in Nat
      BY <1>1, <2>8 DEF LoanRecord
    <3> HIDE DEF sum
    <3> QED
      BY <1>1, <2>8, <3>1, <3>2 DEF LoanRecord
  <2>10. /\ SameLoan(loan, after) /\ after.principalPaid = loan.principalPaid
         /\ after.accruedLateFee = loan.accruedLateFee
         /\ after.lastLateFee = loan.lastLateFee
    BY <1>1, <2>7 DEF SameLoan, LoanRecord
  <2>11. Running(after)
    BY <2>9, <2>10 DEF Running, SameLoan
  <2> QED
    BY <2>10, <2>11 DEF after
<1> QED
  BY <1>2, <1>3, <1>4

(* A late fee is charged up to the debt cap: if any is, the loan ends at   *)
(* or below the cap.                                                       *)
LEMMA AccrueLateFeeSound ==
  ASSUME NEW loan, Running(loan), NEW at \in Nat, NEW grace \in Nat, NEW feeRate \in Nat
  PROVE  LET after == AccrueLateFee(loan, at, grace, feeRate)
         IN  /\ Running(after) /\ SameLoan(loan, after)
             /\ after.principalPaid = loan.principalPaid
             /\ after.accruedInterest = loan.accruedInterest
             /\ after.accruedLateFee >= loan.accruedLateFee
             /\ after.accruedLateFee > loan.accruedLateFee
                  => Debt(after) <= PenaltyMultiplier * loan.amount
<1> DEFINE after == AccrueLateFee(loan, at, grace, feeRate)
           start == Greatest(loan.lastLateFee, loan.due + grace)
           fee   == ((loan.amount * feeRate * (at - start)) \div BpsScale) \div loan.term
           room  == FeeCapacity(loan)
           charged == IF room <= 0 THEN 0 ELSE Least(fee, room)
<1>1. /\ loan \in LoanRecord /\ loan.term \in Nat \ {0} /\ loan.amount \in Nat
      /\ loan.due \in Nat /\ loan.lastLateFee \in Nat /\ loan.accruedLateFee \in Nat
      /\ loan.accruedInterest \in Nat /\ loan.principalPaid \in Nat
  BY DEF Running, LoanRecord
<1>2. start \in Nat
  BY <1>1 DEF Greatest
<1>3. CASE loan.due = 0 \/ at <= start
  <2>1. after = loan
    BY <1>3 DEF AccrueLateFee
  <2> QED
    BY <1>1, <2>1 DEF SameLoan
<1>4. CASE ~(loan.due = 0 \/ at <= start) /\ RemainingPrincipal(loan) <= 0
  <2>1. after = [loan EXCEPT !.lastLateFee = at]
    BY <1>4 DEF AccrueLateFee
  <2> HIDE DEF after
  <2> QED
    BY <1>1, <2>1 DEF SameLoan, Running, LoanRecord, after
<1>5. CASE ~(loan.due = 0 \/ at <= start) /\ ~(RemainingPrincipal(loan) <= 0)
  <2>1. after = [loan EXCEPT !.accruedLateFee = @ + charged, !.lastLateFee = at]
    BY <1>5 DEF AccrueLateFee
  <2>2. fee \in Nat
    <3> DEFINE span == at - start
               x == loan.amount * feeRate * span
               y == x \div BpsScale
    <3>1. span \in Nat
      BY <1>2, <1>5
    <3> HIDE DEF span, start
    <3>2. loan.amount * feeRate \in Nat
      BY <1>1, MulNat
    <3>3. x \in Nat
      BY <3>1, <3>2, MulNat
    <3> HIDE DEF x
    <3>4. y \in Nat
      BY <3>3, DivNat, MathAssumption
    <3> HIDE DEF y
    <3>5. y \div loan.term \in Nat
      BY <1>1, <3>4, DivNat
    <3> QED
      BY <3>5 DEF y, x, span
  <2>3. PenaltyMultiplier * loan.amount \in Nat
    BY <1>1, MulNat, MathAssumption
  <2>4. room = PenaltyMultiplier * loan.amount - Debt(loan) /\ Debt(loan) \in Int /\ room \in Int
    BY <1>1, <2>3 DEF FeeCapacity, Debt, RemainingPrincipal
  <2> HIDE DEF fee, start, room
  <2>5. charged \in Nat /\ (charged > 0 => charged <= room)
    BY <2>2, <2>4 DEF Least
  <2> HIDE DEF charged
  <2> DEFINE sum == loan.accruedLateFee + charged
  <2>6. after = [loan EXCEPT !.accruedLateFee = sum, !.lastLateFee = at] /\ sum \in Nat
    BY <1>1, <2>1, <2>5
  <2> HIDE DEF sum, after
  <2>7. after \in LoanRecord
    BY <1>1, <2>6 DEF LoanRecord
  <2>8. /\ SameLoan(loan, after) /\ after.principalPaid = loan.principalPaid
        /\ after.accruedInterest = loan.accruedInterest
        /\ after.accruedLateFee = loan.accruedLateFee + charged
    BY <1>1, <2>6 DEF SameLoan, LoanRecord, sum
  <2>9. Running(after)
    BY <2>7, <2>8 DEF Running, SameLoan
  <2>10. Debt(after) = Debt(loan) + charged
    BY <1>1, <2>5, <2>8 DEF Debt, RemainingPrincipal, SameLoan
  <2>11. charged > 0 => Debt(after) <= PenaltyMultiplier * loan.amount
    BY <2>3, <2>4, <2>5, <2>10
  <2> QED
    BY <1>1, <2>5, <2>8, <2>9, <2>11 DEF after
<1> QED
  BY <1>3, <1>4, <1>5

LEMMA DebtNat ==
  ASSUME NEW loan, Running(loan)
  PROVE  Debt(loan) \in Nat /\ RemainingPrincipal(loan) \in Nat
BY DEF Running, LoanRecord, Debt, RemainingPrincipal

(* current_total_debt. *)
LEMMA AccrueSound ==
  ASSUME NEW loan, Running(loan), NEW at \in Nat, NEW grace \in Nat, NEW feeRate \in Nat
  PROVE  LET after == Accrue(loan, at, grace, feeRate)
         IN  /\ Running(after) /\ SameLoan(loan, after)
             /\ after.principalPaid = loan.principalPaid
             /\ after.accruedLateFee >= loan.accruedLateFee
             /\ after.accruedLateFee > loan.accruedLateFee
                  => Debt(after) <= PenaltyMultiplier * loan.amount
<1> DEFINE between == AccrueInterest(loan, at)
           after   == AccrueLateFee(between, at, grace, feeRate)
<1>1. /\ Running(between) /\ SameLoan(loan, between)
      /\ between.principalPaid = loan.principalPaid
      /\ between.accruedLateFee = loan.accruedLateFee
  BY AccrueInterestSound
<1> HIDE DEF between
<1>2. /\ Running(after) /\ SameLoan(between, after)
      /\ after.principalPaid = between.principalPaid
      /\ after.accruedLateFee >= between.accruedLateFee
      /\ after.accruedLateFee > between.accruedLateFee
           => Debt(after) <= PenaltyMultiplier * between.amount
  BY <1>1, AccrueLateFeeSound
<1>3. Accrue(loan, at, grace, feeRate) = after
  BY DEF Accrue, between
<1> HIDE DEF after
<1> QED
  BY <1>1, <1>2, <1>3 DEF SameLoan

------------------------------------------------------------------------------
(***************************************************************************)
(* The split of a payment: each part's share rounded down, and the units   *)
(* left over by rank of the remainders.                                    *)
(***************************************************************************)
LEMMA MulMono ==
  ASSUME NEW a \in Nat, NEW b \in Nat, NEW c \in Nat, a <= b
  PROVE  a * c <= b * c /\ c * a <= c * b
OBVIOUS

(* What the first loop leaves for one part.                                *)
LEMMA Rounding ==
  ASSUME NEW due \in Nat, NEW paid \in Nat, NEW total \in Nat \ {0},
         due <= total, paid <= total
  PROVE  /\ (paid * due) \div total \in 0 .. due
         /\ (paid * due) % total \in 0 .. total - 1
         /\ paid * due = total * ((paid * due) \div total) + ((paid * due) % total)
         /\ (paid * due) % total > 0 => (paid * due) \div total < due
<1> DEFINE x == paid * due
<1>1. x \in Nat /\ x <= total * due
  BY MulMono
<1>2. total * due \in Nat
  OBVIOUS
<1> HIDE DEF x
<1>3. x = total * (x \div total) + (x % total) /\ x % total \in 0 .. total - 1 /\ x \div total \in Nat
  BY <1>1
<1>4. total * (x \div total) <= total * due
  BY <1>1, <1>3, <1>2
<1>5. x \div total <= due
  <2> DEFINE q == x \div total
  <2>1. q \in Nat /\ total * q <= total * due
    BY <1>3, <1>4
  <2> HIDE DEF q
  <2>2. ~(due + 1 <= q)
    <3>1. SUFFICES ASSUME due + 1 <= q PROVE FALSE
      OBVIOUS
    <3>2. total * (due + 1) <= total * q
      BY <2>1, <3>1, MulMono
    <3>3. total * (due + 1) = total * due + total
      OBVIOUS
    <3> QED
      BY <3>2, <3>3, <2>1, <1>2
  <2> QED
    BY <2>2, <2>1 DEF q
<1>6. ASSUME x % total > 0 PROVE x \div total < due
  <2> DEFINE q == x \div total
  <2>1. total * q < total * due
    BY <1>6, <1>3, <1>1, <1>2 DEF q
  <2>2. q \in Nat
    BY <1>3
  <2> HIDE DEF q
  <2>3. ~(due <= q)
    <3>1. SUFFICES ASSUME due <= q PROVE FALSE
      OBVIOUS
    <3>2. total * due <= total * q /\ total * q \in Nat
      BY <2>2, <3>1, MulMono
    <3> QED
      BY <3>2, <2>1, <1>2
  <2> QED
    BY <2>3, <2>2 DEF q
<1> QED
  BY <1>3, <1>5, <1>6 DEF x

LEMMA Distribute ==
  ASSUME NEW a \in Nat, NEW b \in Nat, NEW c \in Nat, NEW p \in Nat
  PROVE  p * a + p * b + p * c = p * (a + b + c)
OBVIOUS

LEMMA Gather ==
  ASSUME NEW a1 \in Int, NEW a2 \in Int, NEW a3 \in Int,
         NEW b1 \in Int, NEW b2 \in Int, NEW b3 \in Int,
         NEW c1 \in Int, NEW c2 \in Int, NEW c3 \in Int,
         a1 = b1 + c1, a2 = b2 + c2, a3 = b3 + c3
  PROVE  c1 + c2 + c3 = (a1 + a2 + a3) - (b1 + b2 + b3)
OBVIOUS

(* What the first loop leaves altogether: the remainders add up to the     *)
(* units left times the total, which is why at most two units are left.    *)
LEMMA InitialRest ==
  ASSUME NEW T \in Nat \ {0}, NEW paid \in Nat, paid <= T,
         NEW d \in [Parts -> Nat], Sum(d) = T,
         NEW q \in [Parts -> Nat], NEW r \in [Parts -> 0 .. T - 1],
         \A k \in Parts : paid * d[k] = T * q[k] + r[k]
  PROVE  /\ r[1] + r[2] + r[3] = (paid - Sum(q)) * T
         /\ paid - Sum(q) \in 0 .. 2
<1> DEFINE u == paid - Sum(q)
<1>1. paid * d[1] + paid * d[2] + paid * d[3] = paid * T
  <2>1. d[1] \in Nat /\ d[2] \in Nat /\ d[3] \in Nat /\ d[1] + d[2] + d[3] = T
    BY DEF Parts, Sum
  <2>2. paid * d[1] + paid * d[2] + paid * d[3] = paid * (d[1] + d[2] + d[3])
    BY <2>1, Distribute
  <2> QED
    BY <2>1, <2>2
<1>2. q[1] \in Nat /\ q[2] \in Nat /\ q[3] \in Nat
  BY DEF Parts
<1>3. r[1] \in 0 .. T - 1 /\ r[2] \in 0 .. T - 1 /\ r[3] \in 0 .. T - 1
  BY DEF Parts
<1>4. T * q[1] + T * q[2] + T * q[3] = T * Sum(q)
  BY <1>2, Distribute DEF Sum
<1>5. /\ paid * d[1] = T * q[1] + r[1]
      /\ paid * d[2] = T * q[2] + r[2]
      /\ paid * d[3] = T * q[3] + r[3]
  BY DEF Parts
<1>6. Sum(q) \in Nat
  BY <1>2 DEF Sum
<1>7. r[1] + r[2] + r[3] = u * T
  <2>1. T * q[1] \in Int /\ T * q[2] \in Int /\ T * q[3] \in Int
    BY <1>2
  <2>2. paid * d[1] \in Int /\ paid * d[2] \in Int /\ paid * d[3] \in Int
    BY DEF Parts
  <2>3. r[1] \in Int /\ r[2] \in Int /\ r[3] \in Int
    BY <1>3
  <2>4. r[1] + r[2] + r[3] = (paid * d[1] + paid * d[2] + paid * d[3])
                               - (T * q[1] + T * q[2] + T * q[3])
    <3> DEFINE A1 == paid * d[1]
               A2 == paid * d[2]
               A3 == paid * d[3]
               B1 == T * q[1]
               B2 == T * q[2]
               B3 == T * q[3]
               C1 == r[1]
               C2 == r[2]
               C3 == r[3]
    <3>1. /\ A1 \in Int /\ A2 \in Int /\ A3 \in Int
          /\ B1 \in Int /\ B2 \in Int /\ B3 \in Int
          /\ C1 \in Int /\ C2 \in Int /\ C3 \in Int
          /\ A1 = B1 + C1 /\ A2 = B2 + C2 /\ A3 = B3 + C3
      BY <1>5, <2>1, <2>2, <2>3
    <3>2. C1 + C2 + C3 = (A1 + A2 + A3) - (B1 + B2 + B3)
      <4> HIDE DEF A1, A2, A3, B1, B2, B3, C1, C2, C3
      <4> QED
        BY <3>1, Gather
    <3> QED
      BY <3>2
  <2>5. r[1] + r[2] + r[3] = paid * T - T * Sum(q)
    BY <1>1, <1>4, <2>4
  <2>6. paid * T - T * Sum(q) = (paid - Sum(q)) * T
    BY <1>6
  <2> QED
    BY <2>5, <2>6
<1>8. u \in Int
  BY <1>6
<1>9. u \in 0 .. 2
  <2> HIDE DEF u
  <2>1. ~(u <= -1)
    <3>1. SUFFICES ASSUME u <= -1 PROVE FALSE
      OBVIOUS
    <3>2. u * T <= -T
      <4>1. -u \in Nat /\ 1 <= -u
        BY <1>8, <3>1
      <4>2. 1 * T <= (-u) * T
        BY <4>1, MulMono
      <4>3. (-u) * T = -(u * T)
        BY <1>8
      <4>4. u * T \in Int
        BY <1>8
      <4> QED
        BY <4>2, <4>3, <4>4
    <3> QED
      BY <3>2, <1>7, <1>3
  <2>2. ~(3 <= u)
    <3>1. SUFFICES ASSUME 3 <= u PROVE FALSE
      OBVIOUS
    <3>2. 3 * T <= u * T
      BY <1>8, <3>1, MulMono
    <3> QED
      BY <3>2, <1>7, <1>3
  <2> QED
    BY <2>1, <2>2, <1>8
<1> QED
  BY <1>7, <1>9

------------------------------------------------------------------------------
(***************************************************************************)
(* The closed form of LoanMath: a part's rank among the remainders decides *)
(* whether it gets one of the units left.                                  *)
(***************************************************************************)
Ahead(r, j, k) == r[j] > r[k] \/ (r[j] = r[k] /\ j < k)

Rank(r, k) == (IF Ahead(r, 1, k) THEN 1 ELSE 0) + (IF Ahead(r, 2, k) THEN 1 ELSE 0)
                + (IF Ahead(r, 3, k) THEN 1 ELSE 0)

(* Ranks are 0, 1 and 2, each once, and follow the order of remainders.    *)
LEMMA RanksDiffer ==
  ASSUME NEW r \in [Parts -> Int]
  PROVE  /\ \A k \in Parts : Rank(r, k) \in 0 .. 2
         /\ \A j, k \in Parts : Ahead(r, j, k) <=> Rank(r, j) < Rank(r, k)
         /\ \A j, k \in Parts : Rank(r, j) = Rank(r, k) => j = k
<1>1. /\ r[1] \in Int /\ r[2] \in Int /\ r[3] \in Int
      /\ \A k \in Parts : k = 1 \/ k = 2 \/ k = 3
  BY DEF Parts
<1> QED
  BY <1>1 DEF Ahead, Rank, Parts

(* With u units left, the parts of the u first ranks have a remainder.     *)
LEMMA FirstRanksPositive ==
  ASSUME NEW T \in Nat \ {0}, NEW u \in 0 .. 2, NEW r \in [Parts -> 0 .. T - 1],
         r[1] + r[2] + r[3] = u * T
  PROVE  /\ \A k \in Parts : Rank(r, k) < u => r[k] > 0
         /\ (IF Rank(r, 1) < u THEN 1 ELSE 0) + (IF Rank(r, 2) < u THEN 1 ELSE 0)
              + (IF Rank(r, 3) < u THEN 1 ELSE 0) = u
<1>1. /\ r[1] \in 0 .. T - 1 /\ r[2] \in 0 .. T - 1 /\ r[3] \in 0 .. T - 1
      /\ \A k \in Parts : k = 1 \/ k = 2 \/ k = 3
  BY DEF Parts
<1>2. CASE u = 0
  BY <1>1, <1>2 DEF Ahead, Rank, Parts
<1>3. CASE u = 1
  <2>1. r[1] + r[2] + r[3] = T
    BY <1>3
  <2> QED
    BY <1>1, <1>3, <2>1 DEF Ahead, Rank, Parts
<1>4. CASE u = 2
  <2>1. r[1] + r[2] + r[3] = T + T
    BY <1>4
  <2> QED
    BY <1>1, <1>4, <2>1 DEF Ahead, Rank, Parts
<1> QED
  BY <1>2, <1>3, <1>4

(* Each part's share rounded down, what the rounding leaves of it, and the *)
(* units left over.                                                        *)
Shares(d, paid) == [k \in Parts |-> (paid * d[k]) \div Sum(d)]
Rests(d, paid)  == [k \in Parts |-> (paid * d[k]) % Sum(d)]
Left(d, paid)   == paid - Sum(Shares(d, paid))

LEMMA SplitUnfolds ==
  ASSUME NEW d \in [Parts -> Nat], NEW paid \in Nat
  PROVE  Split(d, paid) =
           IF Sum(d) = 0 THEN [k \in Parts |-> 0]
           ELSE [k \in Parts |-> Shares(d, paid)[k]
                   + IF Rank(Rests(d, paid), k) < Left(d, paid) THEN 1 ELSE 0]
BY DEF Split, Shares, Rests, Left, Rank, Ahead, Sum, Parts

(* Shares and remainders have their bounds, and the remainders add up to   *)
(* the units left, times the debt.                                         *)
LEMMA SharesAndRests ==
  ASSUME NEW d \in [Parts -> Nat], NEW paid \in 0 .. Sum(d), Sum(d) # 0
  PROVE  LET s == Shares(d, paid)
             r == Rests(d, paid)
             u == Left(d, paid)
         IN  /\ s \in [Parts -> Nat]
             /\ r \in [Parts -> 0 .. Sum(d) - 1]
             /\ u \in 0 .. 2
             /\ r[1] + r[2] + r[3] = u * Sum(d)
             /\ \A k \in Parts : s[k] <= d[k] /\ (r[k] > 0 => s[k] < d[k])
<1> DEFINE s == Shares(d, paid)
           r == Rests(d, paid)
           T == Sum(d)
<1>1. T \in Nat \ {0} /\ paid \in Nat /\ paid <= T
  BY DEF Sum, Parts
<1>2. ASSUME NEW k \in Parts
      PROVE  /\ s[k] \in 0 .. d[k] /\ r[k] \in 0 .. T - 1
             /\ paid * d[k] = T * s[k] + r[k]
             /\ r[k] > 0 => s[k] < d[k]
  <2>1. d[k] \in Nat /\ d[k] <= T
    BY DEF Sum, Parts
  <2>2. s[k] = (paid * d[k]) \div T /\ r[k] = (paid * d[k]) % T
    BY DEF Shares, Rests
  <2> HIDE DEF s, r, T
  <2>3. /\ (paid * d[k]) \div T \in 0 .. d[k]
        /\ (paid * d[k]) % T \in 0 .. T - 1
        /\ paid * d[k] = T * ((paid * d[k]) \div T) + ((paid * d[k]) % T)
        /\ (paid * d[k]) % T > 0 => (paid * d[k]) \div T < d[k]
    BY <1>1, <2>1, Rounding
  <2> QED
    BY <2>2, <2>3, Zenon
<1>3. s \in [Parts -> Nat] /\ r \in [Parts -> 0 .. T - 1]
  <2>1. \A k \in Parts : s[k] \in Nat
    BY <1>2
  <2> QED
    BY <1>2, <2>1 DEF Shares, Rests
<1>4. r[1] + r[2] + r[3] = (paid - Sum(s)) * T /\ paid - Sum(s) \in 0 .. 2
  <2>1. Sum(d) = T
    OBVIOUS
  <2> HIDE DEF s, r, T
  <2> QED
    BY <1>1, <1>2, <1>3, <2>1, InitialRest
<1> QED
  BY <1>2, <1>3, <1>4 DEF Left

(* The closed form, for debts of any size: no part gets more than is owed  *)
(* of it, and what the parts get is the payment.                           *)
LEMMA SplitParts ==
  ASSUME NEW d \in [Parts -> Nat], NEW paid \in 0 .. Sum(d)
  PROVE  /\ \A k \in Parts : Split(d, paid)[k] \in 0 .. d[k]
         /\ Sum(Split(d, paid)) = paid
<1>1. d[1] \in Nat /\ d[2] \in Nat /\ d[3] \in Nat /\ paid \in Nat
  BY DEF Parts, Sum
<1>2. CASE Sum(d) = 0
  BY <1>1, <1>2, SplitUnfolds DEF Sum, Parts
<1>3. CASE Sum(d) # 0
  <2> DEFINE s == Shares(d, paid)
             r == Rests(d, paid)
             u == Left(d, paid)
             T == Sum(d)
             e == [k \in Parts |-> IF Rank(r, k) < u THEN 1 ELSE 0]
  <2>1. Split(d, paid) = [k \in Parts |-> s[k] + e[k]]
    BY <1>1, <1>3, SplitUnfolds
  <2>2. /\ s \in [Parts -> Nat] /\ r \in [Parts -> 0 .. T - 1] /\ u \in 0 .. 2
        /\ r[1] + r[2] + r[3] = u * T
        /\ \A k \in Parts : s[k] <= d[k] /\ (r[k] > 0 => s[k] < d[k])
    BY <1>3, SharesAndRests
  <2>3. u = paid - (s[1] + s[2] + s[3])
    BY DEF Left, Sum
  <2>4. T \in Nat \ {0}
    BY <1>1, <1>3 DEF Sum
  <2> HIDE DEF s, r, u, T
  <2>5. /\ \A k \in Parts : e[k] \in 0 .. 1 /\ (e[k] = 1 => r[k] > 0)
        /\ e[1] + e[2] + e[3] = u
    <3>1. /\ \A k \in Parts : Rank(r, k) < u => r[k] > 0
          /\ (IF Rank(r, 1) < u THEN 1 ELSE 0) + (IF Rank(r, 2) < u THEN 1 ELSE 0)
               + (IF Rank(r, 3) < u THEN 1 ELSE 0) = u
      BY <2>2, <2>4, FirstRanksPositive
    <3> QED
      BY <3>1 DEF Parts
  <2> HIDE DEF e
  <2>6. ASSUME NEW k \in Parts PROVE s[k] + e[k] \in 0 .. d[k]
    <3>1. s[k] \in Nat /\ e[k] \in 0 .. 1 /\ d[k] \in Nat /\ s[k] <= d[k]
          /\ (e[k] = 1 => s[k] < d[k])
      BY <2>2, <2>5
    <3> QED
      BY <3>1
  <2>7. (s[1] + e[1]) + (s[2] + e[2]) + (s[3] + e[3]) = paid
    <3>1. /\ s[1] \in Nat /\ s[2] \in Nat /\ s[3] \in Nat
          /\ e[1] \in 0 .. 1 /\ e[2] \in 0 .. 1 /\ e[3] \in 0 .. 1
      BY <2>2, <2>5 DEF Parts
    <3> QED
      BY <3>1, <1>1, <2>3, <2>5
  <2> QED
    BY <2>1, <2>6, <2>7 DEF Sum, Parts
<1> QED
  BY <1>2, <1>3

LEMMA SplitBounds ==
  ASSUME NEW d \in [1 .. 3 -> Nat], NEW paid \in Nat, paid <= d[1] + d[2] + d[3]
  PROVE  /\ \A k \in 1 .. 3 : Split(d, paid)[k] \in 0 .. d[k]
         /\ Split(d, paid)[1] + Split(d, paid)[2] + Split(d, paid)[3] = paid
<1>1. d \in [Parts -> Nat] /\ paid \in 0 .. Sum(d)
  BY DEF Parts, Sum
<1>2. /\ \A k \in Parts : Split(d, paid)[k] \in 0 .. d[k]
      /\ Sum(Split(d, paid)) = paid
  BY <1>1, SplitParts
<1> QED
  BY <1>2 DEF Parts, Sum

------------------------------------------------------------------------------
(***************************************************************************)
(* What a payment retires.                                                 *)
(***************************************************************************)
(* A payment of at most the debt lowers the debt by what was paid, and no  *)
(* part of it below zero.                                                  *)
LEMMA ApplyPaymentSound ==
  ASSUME NEW loan, Running(loan), NEW paid \in 0 .. Debt(loan)
  PROVE  LET after == ApplyPayment(loan, paid)
         IN  /\ Running(after) /\ SameLoan(loan, after)
             /\ after.accruedLateFee <= loan.accruedLateFee
             /\ Debt(after) = Debt(loan) - paid
<1> DEFINE d == Dues(loan)
           s == Split(d, paid)
           after == ApplyPayment(loan, paid)
<1>1. /\ loan \in LoanRecord /\ loan.principalPaid \in Nat /\ loan.amount \in Nat
      /\ loan.accruedInterest \in Nat /\ loan.accruedLateFee \in Nat
      /\ loan.principalPaid <= loan.amount
      /\ RemainingPrincipal(loan) \in Nat /\ Debt(loan) \in Nat
  BY DebtNat DEF Running, LoanRecord
<1>2. /\ d[1] = RemainingPrincipal(loan) /\ d[2] = loan.accruedInterest
      /\ d[3] = loan.accruedLateFee /\ d \in [1 .. 3 -> Nat]
  BY <1>1 DEF Dues
<1> HIDE DEF d
<1>3. paid \in Nat /\ paid <= d[1] + d[2] + d[3]
  BY <1>1, <1>2 DEF Debt
<1>4. /\ \A k \in 1 .. 3 : s[k] \in 0 .. d[k]
      /\ s[1] + s[2] + s[3] = paid
  BY <1>2, <1>3, SplitBounds
<1> HIDE DEF s
<1>5. /\ s[1] \in 0 .. RemainingPrincipal(loan) /\ s[2] \in 0 .. loan.accruedInterest
      /\ s[3] \in 0 .. loan.accruedLateFee
  BY <1>2, <1>4
<1> DEFINE a == loan.principalPaid + s[1]
           b == loan.accruedInterest - s[2]
           c == loan.accruedLateFee - s[3]
<1>6. after = [loan EXCEPT !.principalPaid = a, !.accruedInterest = b,
                           !.accruedLateFee = c]
  BY DEF ApplyPayment, s, d
<1>7. /\ a \in Nat /\ a <= loan.amount /\ b \in Nat /\ c \in Nat /\ c <= loan.accruedLateFee
      /\ loan.amount - a + b + c = Debt(loan) - paid
  BY <1>1, <1>4, <1>5 DEF RemainingPrincipal, Debt
<1> HIDE DEF a, b, c, after
<1>8. after \in LoanRecord
  BY <1>1, <1>6, <1>7 DEF LoanRecord
<1>9. /\ SameLoan(loan, after) /\ after.principalPaid = a
      /\ after.accruedInterest = b /\ after.accruedLateFee = c
  BY <1>1, <1>6 DEF SameLoan, LoanRecord
<1>10. Debt(after) = Debt(loan) - paid
  BY <1>7, <1>9 DEF Debt, RemainingPrincipal, SameLoan
<1>11. Running(after)
  BY <1>7, <1>8, <1>9 DEF Running, SameLoan
<1> QED
  BY <1>7, <1>9, <1>10, <1>11 DEF after

(***************************************************************************)
(* Interest accrued in two steps.                                          *)
(***************************************************************************)
Exact(loan) == loan.accruedInterest * Precision + loan.residual

LEMMA FloorSum ==
  ASSUME NEW a \in Nat, NEW b \in Nat, NEW y \in Nat \ {0}
  PROVE  (a + b) \div y - (a \div y) - (b \div y) \in 0 .. 1
<1> DEFINE p == a \div y
           q == b \div y
           s == (a + b) \div y
<1>1. /\ p \in Nat /\ a % y \in Nat /\ a % y < y /\ a = y * p + (a % y)
      /\ q \in Nat /\ b % y \in Nat /\ b % y < y /\ b = y * q + (b % y)
  BY DivNat
<1>2. s \in Nat /\ (a + b) % y \in Nat /\ (a + b) % y < y /\ a + b = y * s + ((a + b) % y)
  BY DivNat
<1> DEFINE i == a % y
           j == b % y
           k == (a + b) % y
           d == s - p - q
<1>3. y * s - y * p - y * q = i + j - k
  <2>1. y * s \in Int /\ y * p \in Int /\ y * q \in Int
    BY <1>1, <1>2
  <2> HIDE DEF p, q, s
  <2> QED
    BY <1>1, <1>2, <2>1
<1>4. y * s - y * p - y * q = y * d
  <2> HIDE DEF p, q, s
  <2> QED
    BY <1>1, <1>2
<1>5. i \in Nat /\ i < y /\ j \in Nat /\ j < y /\ k \in Nat /\ k < y /\ d \in Int
  BY <1>1, <1>2
<1> HIDE DEF i, j, k, d, p, q, s
<1>6. y * d = i + j - k
  BY <1>3, <1>4
<1>7. ~(d <= -1)
  <2> SUFFICES ASSUME d <= -1 PROVE FALSE
    OBVIOUS
  <2>1. y * (-d) >= y
    <3>1. y * 1 <= y * (-d)
      BY <1>5
    <3> QED
      BY <3>1
  <2>2. y * (-d) = -(y * d) /\ y * d \in Int
    BY <1>5
  <2> QED
    BY <1>5, <1>6, <2>1, <2>2
<1>8. ~(2 <= d)
  <2> SUFFICES ASSUME 2 <= d PROVE FALSE
    OBVIOUS
  <2>1. y * 2 <= y * d
    BY <1>5
  <2>2. y * 2 = y + y
    OBVIOUS
  <2> QED
    BY <1>5, <1>6, <2>1, <2>2
<1>9. d \in 0 .. 1
  BY <1>5, <1>7, <1>8
<1> QED
  BY <1>9 DEF d, s, p, q

LEMMA SpansAdd ==
  ASSUME NEW c \in Nat, NEW s \in Nat, NEW t \in Nat, NEW p \in Nat
  PROVE  c * (s + t) * p = c * s * p + c * t * p
OBVIOUS

(* What a running loan accrues over two spans together and one by one.     *)
LEMMA InterestSplits ==
  ASSUME NEW loan, Running(loan), NEW s \in Nat, NEW t \in Nat
  PROVE  InterestOf(loan, s + t) - InterestOf(loan, s) - InterestOf(loan, t) \in 0 .. 1
<1> DEFINE c == RemainingPrincipal(loan) * loan.rate
           y == BpsScale * loan.term
           a == c * s * Precision
           b == c * t * Precision
<1>1. c \in Nat /\ Precision \in Nat
  BY DebtNat, MulNat, MathAssumption DEF Running, LoanRecord
<1>2. a \in Nat /\ b \in Nat /\ y \in Nat \ {0}
  BY InterestNat
<1>3. c * (s + t) * Precision = a + b
  <2> HIDE DEF c
  <2> QED
    BY <1>1, SpansAdd
<1>4. /\ InterestOf(loan, s) = a \div y /\ InterestOf(loan, t) = b \div y
      /\ InterestOf(loan, s + t) = (a + b) \div y
  <2>1. InterestOf(loan, s + t) = (c * (s + t) * Precision) \div y
    BY DEF InterestOf
  <2> QED
    BY <1>3, <2>1, Zenon DEF InterestOf
<1> HIDE DEF a, b, y
<1> QED
  BY <1>2, <1>4, FloorSum

(* An accrual adds exactly its span's interest to the fixed point.         *)
LEMMA AccrualExact ==
  ASSUME NEW loan, Running(loan), NEW at \in Nat, loan.lastInterest # 0,
         loan.lastInterest < at
  PROVE  LET after == AccrueInterest(loan, at)
         IN  /\ Exact(after) = Exact(loan) + InterestOf(loan, at - loan.lastInterest)
             /\ after.lastInterest = at
<1> DEFINE after == AccrueInterest(loan, at)
           span  == at - loan.lastInterest
           total == InterestOf(loan, span)
           carried == loan.residual + (total % Precision)
<1>1. /\ loan \in LoanRecord /\ loan.residual \in Nat /\ loan.accruedInterest \in Nat
      /\ loan.lastInterest \in Nat
  BY DEF Running, LoanRecord
<1>2. span \in Nat
  BY <1>1
<1>3. total \in Nat /\ RemainingPrincipal(loan) \in Nat
  BY <1>2, InterestNat
<1>4. CASE RemainingPrincipal(loan) <= 0
  <2>1. after = [loan EXCEPT !.lastInterest = at]
    BY <1>1, <1>4 DEF AccrueInterest
  <2>2. total = 0
    <3>1. RemainingPrincipal(loan) = 0
      BY <1>3, <1>4
    <3> DEFINE y == BpsScale * loan.term
               r == loan.rate
    <3>2. y \in Nat \ {0}
      BY <1>2, InterestNat
    <3>3. r \in Nat /\ Precision \in Nat
      BY MathAssumption DEF Running, LoanRecord
    <3>4. total = (0 * r * span * Precision) \div y
      BY <3>1 DEF InterestOf
    <3> HIDE DEF y, total, span, r
    <3>5. 0 * r * span * Precision = 0
      BY <1>2, <3>3
    <3>6. 0 \div y = 0
      BY <3>2
    <3> QED
      BY <3>4, <3>5, <3>6
  <2>3. Exact(after) = Exact(loan) /\ after.lastInterest = at
    BY <1>1, <2>1 DEF Exact, LoanRecord
  <2>4. Exact(loan) \in Int
    BY <1>1, MathAssumption DEF Exact
  <2> HIDE DEF total, after
  <2>5. Exact(after) = Exact(loan) + total
    BY <2>2, <2>3, <2>4
  <2> QED
    BY <2>3, <2>5 DEF total, after
<1>5. CASE ~(RemainingPrincipal(loan) <= 0)
  <2> DEFINE more == total \div Precision
             whole == carried \div Precision
             part == carried % Precision
             sum  == loan.accruedInterest + more + whole
  <2>1. after = [loan EXCEPT !.accruedInterest = sum, !.residual = part,
                             !.lastInterest = at]
    BY <1>1, <1>5 DEF AccrueInterest, InterestOf
  <2>2. Exact(after) = sum * Precision + part /\ after.lastInterest = at
    <3> HIDE DEF sum, part
    <3> QED
      BY <1>1, <2>1 DEF Exact, LoanRecord
  <2>3. Precision \in Nat \ {0}
    BY MathAssumption
  <2> HIDE DEF total
  <2>4. /\ more \in Nat /\ total % Precision \in Nat
        /\ total = Precision * more + (total % Precision)
    BY <1>3, <2>3, DivNat
  <2>5. carried \in Nat
    BY <1>1, <2>4
  <2>6. whole \in Nat /\ part \in Nat /\ carried = Precision * whole + part
    <3> HIDE DEF carried
    <3> QED
      BY <2>3, <2>5, DivNat
  <2>7. sum * Precision + part
          = loan.accruedInterest * Precision + loan.residual + total
    <3> DEFINE f == total % Precision
               u == loan.accruedInterest
               w == loan.residual
    <3>1. /\ u \in Nat /\ w \in Nat /\ f \in Nat
          /\ total = Precision * more + f /\ w + f = Precision * whole + part
      BY <1>1, <2>4, <2>6
    <3> HIDE DEF f, u, w, more, whole, part
    <3>2. (u + more + whole) * Precision
            = u * Precision + Precision * more + Precision * whole
      BY <2>3, <2>4, <2>6, <3>1
    <3>3. u * Precision \in Int /\ Precision * more \in Int /\ Precision * whole \in Int
      BY <2>3, <2>4, <2>6, <3>1
    <3>4. (u + more + whole) * Precision + part = u * Precision + w + total
      <4> DEFINE x == u * Precision
                 y == Precision * more
                 z == Precision * whole
                 v == (u + more + whole) * Precision
      <4>1. /\ x \in Int /\ y \in Int /\ z \in Int /\ v = x + y + z
            /\ total = y + f /\ w + f = z + part
        BY <3>1, <3>2, <3>3
      <4>2. f \in Int /\ w \in Int /\ part \in Int
        BY <2>6, <3>1
      <4> HIDE DEF x, y, z, v
      <4>3. v + part = x + w + total
        BY <4>1, <4>2
      <4> QED
        BY <4>3 DEF v, x
    <3> QED
      BY <3>4 DEF u, w
  <2> HIDE DEF after
  <2>8. Exact(after) = Exact(loan) + total
    BY <2>2, <2>7 DEF Exact
  <2> QED
    BY <2>2, <2>8 DEF after, total
<1> QED
  BY <1>4, <1>5

(* The fixed point loses at most one unit to an accrual in between.        *)
LEMMA SplittingLosesLittle ==
  ASSUME NEW loan, Running(loan), NEW at \in Nat, NEW t \in loan.lastInterest .. at
  PROVE  Exact(AccrueInterest(loan, at))
           - Exact(AccrueInterest(AccrueInterest(loan, t), at)) \in 0 .. 1
<1> DEFINE once  == AccrueInterest(loan, at)
           first == AccrueInterest(loan, t)
           twice == AccrueInterest(first, at)
           last  == loan.lastInterest
<1>1. last \in Nat /\ t \in Nat /\ last <= t /\ t <= at
  BY DEF Running, LoanRecord
<1>2. Running(first) /\ Running(once) /\ Running(twice)
  BY <1>1, AccrueInterestSound
<1>3. ASSUME NEW other, Running(other) PROVE Exact(other) \in Int
  BY <1>3, MathAssumption DEF Exact, Running, LoanRecord
<1>4. CASE last = 0
  <2>1. first = loan
    BY <1>4 DEF AccrueInterest
  <2>2. twice = once
    BY <2>1
  <2>3. Exact(once) - Exact(twice) \in 0 .. 1
    <3> HIDE DEF once, twice
    <3> QED
      BY <1>2, <1>3, <2>2
  <2> QED
    BY <2>3
<1>5. CASE t = last
  <2>1. first = loan
    BY <1>1, <1>5 DEF AccrueInterest
  <2>2. twice = once
    BY <2>1
  <2>3. Exact(once) - Exact(twice) \in 0 .. 1
    <3> HIDE DEF once, twice
    <3> QED
      BY <1>2, <1>3, <2>2
  <2> QED
    BY <2>3
<1>6. CASE last # 0 /\ last < t
  <2>1. /\ Exact(first) = Exact(loan) + InterestOf(loan, t - last)
        /\ first.lastInterest = t
    BY <1>1, <1>6, AccrualExact
  <2>2. Exact(once) = Exact(loan) + InterestOf(loan, at - last)
    BY <1>1, <1>6, AccrualExact
  <2>3. CASE t = at
    <3>1. twice = once
      BY <2>1, <2>3 DEF AccrueInterest
    <3>2. Exact(once) - Exact(twice) \in 0 .. 1
      <4> HIDE DEF once, twice
      <4> QED
        BY <1>2, <1>3, <3>1
    <3> QED
      BY <3>2
  <2>4. CASE t < at
    <3> DEFINE s1 == t - last
               s2 == at - t
    <3>1. Exact(twice) = Exact(first) + InterestOf(first, s2)
      <4>1. first.lastInterest # 0 /\ first.lastInterest < at
        BY <1>1, <1>6, <2>1, <2>4
      <4> HIDE DEF first
      <4>2. Exact(twice) = Exact(first) + InterestOf(first, at - first.lastInterest)
        BY <1>2, <4>1, AccrualExact
      <4> QED
        BY <2>1, <4>2
    <3>2. InterestOf(first, s2) = InterestOf(loan, s2)
      <4>1. SameLoan(loan, first) /\ first.principalPaid = loan.principalPaid
        BY <1>1, AccrueInterestSound
      <4> HIDE DEF first
      <4> QED
        BY <4>1 DEF InterestOf, RemainingPrincipal, SameLoan
    <3>3. s1 \in Nat /\ s2 \in Nat /\ at - last = s1 + s2
      BY <1>1, <2>4
    <3> HIDE DEF s1, s2, once, first, twice, last
    <3>4. InterestOf(loan, s1 + s2) - InterestOf(loan, s1) - InterestOf(loan, s2) \in 0 .. 1
      BY <3>3, InterestSplits
    <3>5. /\ InterestOf(loan, s1 + s2) \in Int /\ InterestOf(loan, s1) \in Int
          /\ InterestOf(loan, s2) \in Int /\ Exact(loan) \in Int
      BY <1>3, <3>3, InterestNat
    <3>6. /\ Exact(once) = Exact(loan) + InterestOf(loan, s1 + s2)
          /\ Exact(twice) = (Exact(loan) + InterestOf(loan, s1)) + InterestOf(loan, s2)
      BY <2>1, <2>2, <3>1, <3>2, <3>3 DEF s1
    <3>7. Exact(once) - Exact(twice) \in 0 .. 1
      BY <3>4, <3>5, <3>6
    <3> QED
      BY <3>7 DEF once, first, twice
  <2> QED
    BY <1>1, <2>3, <2>4
<1> QED
  BY <1>1, <1>4, <1>5, <1>6

------------------------------------------------------------------------------
(***************************************************************************)
(* The pool underneath.  What LendingPoolProofs proves of a step holds of  *)
(* the same step here; the calls of the LoanManager are looked at again,   *)
(* because what they retire is bounded by no input.                        *)
(***************************************************************************)
PoolProofs == INSTANCE LendingPoolProofs WITH
                Amounts <- 0 .. Supply, Cooldowns <- {}, Caps <- {}

PoolInv == PoolProofs!ShareInv

(* The two instances say the same.                                         *)
LEMMA SamePool ==
  /\ Pool!Init <=> PoolProofs!Init
  /\ Pool!TypeOK <=> PoolProofs!TypeOK
  /\ Pool!PriceFalls <=> PoolProofs!PriceFalls
  /\ \A p, amount : Pool!Deposit(p, amount) <=> PoolProofs!Deposit(p, amount)
  /\ \A p, burnt : Pool!RedeemShares(p, burnt) <=> PoolProofs!RedeemShares(p, burnt)
<1>1. Pool!Init <=> PoolProofs!Init
  BY DEF Pool!Init, PoolProofs!Init
<1>2. Pool!TypeOK <=> PoolProofs!TypeOK
  BY DEF Pool!TypeOK, PoolProofs!TypeOK, Pool!MinInt, PoolProofs!MinInt
<1>3. Pool!PriceFalls <=> PoolProofs!PriceFalls
  BY DEF Pool!PriceFalls, PoolProofs!PriceFalls, Pool!TotalPoolAssets,
         PoolProofs!TotalPoolAssets, Pool!VirtualAssets, PoolProofs!VirtualAssets,
         Pool!VirtualShares, PoolProofs!VirtualShares
<1>4. ASSUME NEW p, NEW amount
      PROVE  Pool!Deposit(p, amount) <=> PoolProofs!Deposit(p, amount)
  BY DEF Pool!Deposit, PoolProofs!Deposit, Pool!TotalPoolAssets,
         PoolProofs!TotalPoolAssets, Pool!CalcSharesToMint,
         PoolProofs!CalcSharesToMint, Pool!VirtualAssets, PoolProofs!VirtualAssets,
         Pool!VirtualShares, PoolProofs!VirtualShares, Pool!Fits, PoolProofs!Fits,
         Pool!MinInt, PoolProofs!MinInt, Pool!IsNewDepositor,
         PoolProofs!IsNewDepositor, Pool!NewShares, PoolProofs!NewShares,
         Pool!settings, PoolProofs!settings
<1>5. ASSUME NEW p, NEW burnt
      PROVE  Pool!RedeemShares(p, burnt) <=> PoolProofs!RedeemShares(p, burnt)
  BY DEF Pool!RedeemShares, PoolProofs!RedeemShares, Pool!TotalPoolAssets,
         PoolProofs!TotalPoolAssets, Pool!CalcAssetsToRedeem,
         PoolProofs!CalcAssetsToRedeem, Pool!VirtualAssets,
         PoolProofs!VirtualAssets, Pool!VirtualShares, PoolProofs!VirtualShares,
         Pool!Fits, PoolProofs!Fits, Pool!MinInt, PoolProofs!MinInt,
         Pool!StampAfter, PoolProofs!StampAfter, Pool!PrincipalShare,
         PoolProofs!PrincipalShare, Pool!settings, PoolProofs!settings
<1> QED
  BY <1>1, <1>2, <1>3, <1>4, <1>5

LEMMA PoolFacts ==
  ASSUME PoolInv
  PROVE  /\ Pool!TypeOK
         /\ idle \in 0 .. Supply /\ outstanding \in -MaxInt - 1 .. MaxInt
         /\ totalShares \in Nat /\ shares \in [Providers -> Nat] /\ ledger \in Nat
         /\ Supply \in Nat /\ MaxInt \in Nat /\ Supply <= MaxInt
<1>1. PoolProofs!TypeOK
  BY DEF PoolInv, PoolProofs!ShareInv
<1>2. Supply \in Nat /\ MaxInt \in Nat /\ Supply <= MaxInt
  BY ManagerAssumption DEF Pool!PoolAssumption
<1> QED
  BY <1>1, <1>2, SamePool DEF PoolProofs!TypeOK, PoolProofs!MinInt

LEMMA PoolFinite ==
  /\ PoolProofs!IsFiniteSet(Providers)
  /\ IsFiniteSet(Providers)
<1>1. Pool!IsFiniteSet(Providers)
  BY ManagerAssumption DEF Pool!PoolAssumption
<1> QED
  BY <1>1 DEF Pool!IsFiniteSet, PoolProofs!IsFiniteSet, IsFiniteSet

LEMMA PoolInvInit == Pool!Init => PoolInv
  BY ManagerAssumption, PoolFinite, SamePool, PoolProofs!ShareInvInit
  DEF PoolInv, Pool!PoolAssumption

LEMMA PoolInvDeposit ==
  ASSUME PoolInv, NEW p \in Providers, NEW amount \in 0 .. Supply,
         Pool!Deposit(p, amount)
  PROVE  PoolInv'
  BY ManagerAssumption, PoolFinite, SamePool, PoolProofs!ShareInvDeposit
  DEF PoolInv, Pool!PoolAssumption

LEMMA PoolInvRedeem ==
  ASSUME PoolInv, NEW p \in Providers, NEW burnt \in Nat, Pool!RedeemShares(p, burnt)
  PROVE  PoolInv'
  BY ManagerAssumption, PoolFinite, SamePool, PoolProofs!ShareInvRedeem
  DEF PoolInv, Pool!PoolAssumption

(* A step that leaves the holdings alone.                                  *)
LEMMA PoolInvKept ==
  ASSUME PoolInv,
         UNCHANGED <<totalShares, shares, depositedAt, totalDeposits, depositorCount,
                     maxPoolSize, tokenAllowed, cooldown>>,
         idle' \in 0 .. Supply, outstanding' \in -MaxInt - 1 .. MaxInt,
         poolPaused' \in BOOLEAN, ledger' \in Nat
  PROVE  PoolInv'
<1>1. PoolProofs!TypeOK'
  BY DEF PoolInv, PoolProofs!ShareInv, PoolProofs!TypeOK, PoolProofs!MinInt
<1>2. PoolProofs!ShareUnits' = PoolProofs!ShareUnits
  BY DEF PoolProofs!ShareUnits, PoolProofs!Position
<1>3. PoolProofs!IsFiniteSet(PoolProofs!ShareUnits') /\ PoolProofs!ShareLedgerBalanced'
  BY <1>2, Zenon DEF PoolInv, PoolProofs!ShareInv, PoolProofs!ShareLedgerBalanced
<1> QED
  BY <1>1, <1>3 DEF PoolInv, PoolProofs!ShareInv

LEMMA PoolInvDisburse ==
  ASSUME PoolInv, NEW amount \in Int, Pool!Disburse(amount)
  PROVE  /\ PoolInv'
         /\ idle' = idle - amount /\ outstanding' = outstanding + amount
         /\ ledger' = ledger /\ totalShares' = totalShares
         /\ ~poolPaused /\ poolPaused' = poolPaused /\ idle - amount >= 0
         /\ outstanding + amount <= MaxInt
<1>1. /\ idle' = idle - amount /\ outstanding' = outstanding + amount
      /\ amount > 0 /\ amount <= idle /\ outstanding + amount \in -MaxInt - 1 .. MaxInt
      /\ ~poolPaused
      /\ UNCHANGED <<totalShares, shares, depositedAt, totalDeposits, depositorCount,
                     maxPoolSize, tokenAllowed, cooldown, poolPaused, ledger>>
  BY DEF Pool!Disburse, Pool!Fits, Pool!MinInt, Pool!holdings, Pool!settings
<1>2. /\ idle \in 0 .. Supply /\ ledger \in Nat /\ Supply \in Nat
      /\ poolPaused \in BOOLEAN
  BY PoolFacts DEF Pool!TypeOK
<1>3. idle' \in 0 .. Supply /\ outstanding' \in -MaxInt - 1 .. MaxInt
  BY <1>1, <1>2
<1>4. PoolInv'
  BY <1>1, <1>2, <1>3, PoolInvKept
<1> QED
  BY <1>1, <1>2, <1>4, PoolFacts

LEMMA PoolInvReceive ==
  ASSUME PoolInv, NEW amount \in Int, Pool!Receive(amount)
  PROVE  /\ PoolInv'
         /\ idle' = idle + amount /\ outstanding' = outstanding
         /\ ledger' = ledger /\ totalShares' = totalShares /\ poolPaused' = poolPaused
         /\ amount > 0
<1>1. /\ idle' = idle + amount /\ amount > 0 /\ idle + amount <= Supply
      /\ UNCHANGED <<outstanding, totalShares, shares, depositedAt, totalDeposits,
                     depositorCount, maxPoolSize, tokenAllowed, cooldown, poolPaused,
                     ledger>>
  BY DEF Pool!Receive, Pool!holdings, Pool!settings
<1>2. /\ idle \in 0 .. Supply /\ ledger \in Nat /\ Supply \in Nat
      /\ poolPaused \in BOOLEAN /\ outstanding \in -MaxInt - 1 .. MaxInt
  BY PoolFacts DEF Pool!TypeOK
<1>3. idle' \in 0 .. Supply
  BY <1>1, <1>2
<1>4. PoolInv'
  BY <1>1, <1>2, <1>3, PoolInvKept
<1> QED
  BY <1>1, <1>2, <1>4

(* The counter saturates, so what it falls by is at most the principal.    *)
LEMMA PoolInvSettle ==
  ASSUME PoolInv, NEW amount \in Int, NEW principal \in Int,
         Pool!ReceiveAndSettle(amount, principal)
  PROVE  /\ PoolInv'
         /\ idle' = idle + amount /\ amount >= 0 /\ principal >= 0
         /\ outstanding' >= outstanding - principal
         /\ outstanding - principal >= -MaxInt - 1 => outstanding' = outstanding - principal
         /\ ledger' = ledger /\ totalShares' = totalShares /\ poolPaused' = poolPaused
<1>1. /\ idle' = idle + amount /\ amount >= 0 /\ principal >= 0 /\ idle + amount <= Supply
      /\ outstanding' = IF outstanding - principal < -MaxInt - 1 THEN -MaxInt - 1
                                                              ELSE outstanding - principal
      /\ UNCHANGED <<totalShares, shares, depositedAt, totalDeposits,
                     depositorCount, maxPoolSize, tokenAllowed, cooldown, poolPaused,
                     ledger>>
  BY DEF Pool!ReceiveAndSettle, Pool!SaturatingSub, Pool!MinInt, Pool!holdings, Pool!settings
<1>2. /\ idle \in 0 .. Supply /\ ledger \in Nat /\ Supply \in Nat /\ MaxInt \in Nat
      /\ poolPaused \in BOOLEAN /\ outstanding \in -MaxInt - 1 .. MaxInt
  BY PoolFacts DEF Pool!TypeOK
<1>3. idle' \in 0 .. Supply /\ outstanding' \in -MaxInt - 1 .. MaxInt
  BY <1>1, <1>2
<1>4. PoolInv'
  BY <1>1, <1>2, <1>3, PoolInvKept
<1> QED
  BY <1>1, <1>2, <1>4

(* The calls of the pool's providers, of its admin, and time.              *)
LEMMA PoolInvMoves ==
  ASSUME PoolInv, PoolMoves, escrow \in Nat
  PROVE  /\ PoolInv'
         /\ outstanding' = outstanding
         /\ ledger' >= ledger
         /\ idle' + escrow <= Supply \/ idle' <= idle
<1>0. /\ idle \in 0 .. Supply /\ outstanding \in -MaxInt - 1 .. MaxInt
      /\ shares \in [Providers -> Nat] /\ ledger \in Nat
      /\ poolPaused \in BOOLEAN /\ Supply \in Nat
  BY PoolFacts DEF Pool!TypeOK
<1>1. ASSUME NEW p \in Providers, NEW amount \in DepositAmounts,
             amount <= Circulating, Pool!Deposit(p, amount)
      PROVE  /\ PoolInv' /\ outstanding' = outstanding /\ ledger' = ledger
             /\ idle' + escrow <= Supply
  <2>1. /\ amount \in Int /\ amount > 0 /\ idle + amount <= Supply
        /\ idle' = idle + amount /\ outstanding' = outstanding /\ ledger' = ledger
    BY <1>1, ManagerAssumption DEF Pool!Deposit
  <2>2. amount \in 0 .. Supply
    BY <2>1, <1>0
  <2>3. idle' + escrow <= Supply
    BY <1>0, <1>1, <2>1 DEF Circulating
  <2> QED
    BY <1>1, <2>1, <2>2, <2>3, PoolInvDeposit
<1>2. ASSUME NEW p \in Providers, NEW burnt \in 1 .. shares[p],
             Pool!RedeemShares(p, burnt)
      PROVE  /\ PoolInv' /\ outstanding' = outstanding /\ ledger' = ledger
             /\ idle' <= idle
  <2>1. burnt \in Nat
    BY <1>0
  <2>2. PoolInv'
    BY <1>2, <2>1, PoolInvRedeem
  <2>3. outstanding' = outstanding /\ ledger' = ledger
    BY <1>2 DEF Pool!RedeemShares
  <2>4. Pool!CalcAssetsToRedeem(burnt, idle + outstanding, totalShares) \in Int
    <3>1. totalShares \in Nat
      BY PoolFacts
    <3>2. burnt * (idle + outstanding + 1) \in Int /\ totalShares + 1 \in Nat \ {0}
      BY <1>0, <2>1, <3>1
    <3>3. (burnt * (idle + outstanding + 1)) \div (totalShares + 1) \in Int
      BY <3>2
    <3> QED
      BY <3>3 DEF Pool!CalcAssetsToRedeem, Pool!VirtualAssets, Pool!VirtualShares
  <2>5. /\ idle' = idle - Pool!CalcAssetsToRedeem(burnt, idle + outstanding, totalShares)
        /\ Pool!CalcAssetsToRedeem(burnt, idle + outstanding, totalShares) > 0
    BY <1>2 DEF Pool!RedeemShares, Pool!TotalPoolAssets
  <2>6. idle' <= idle
    <3> HIDE DEF Pool!CalcAssetsToRedeem
    <3> QED
      BY <2>4, <2>5, <1>0
  <2> QED
    BY <2>2, <2>3, <2>6
<1>3. CASE Pool!Pause \/ Pool!Unpause
  <2>1. /\ UNCHANGED <<idle, outstanding, totalShares, shares, depositedAt,
                       totalDeposits, depositorCount, maxPoolSize, tokenAllowed,
                       cooldown, ledger>>
        /\ poolPaused' \in BOOLEAN
    BY <1>3 DEF Pool!Pause, Pool!Unpause, Pool!holdings
  <2> QED
    BY <2>1, <1>0, PoolInvKept
<1>4. CASE Pool!CloseLedger
  <2>1. /\ UNCHANGED <<idle, outstanding, totalShares, shares, depositedAt,
                       totalDeposits, depositorCount, maxPoolSize, tokenAllowed,
                       cooldown, poolPaused>>
        /\ ledger' = ledger + 1
    BY <1>4 DEF Pool!CloseLedger, Pool!poolVars, Pool!holdings, Pool!settings
  <2> QED
    BY <2>1, <1>0, PoolInvKept
<1>5. ASSUME NEW p \in Providers, NEW burnt \in Redeemed \cap (1 .. shares[p]),
             Pool!Withdraw(p, burnt) \/ Pool!EmergencyWithdraw(p, burnt)
      PROVE  /\ PoolInv' /\ outstanding' = outstanding /\ ledger' = ledger
             /\ idle' <= idle
  BY <1>2, <1>5 DEF Pool!Withdraw, Pool!EmergencyWithdraw
<1>6. ledger' = ledger => ledger' >= ledger
  BY <1>0
<1> QED
  BY <1>0, <1>1, <1>3, <1>4, <1>5, <1>6 DEF PoolMoves

------------------------------------------------------------------------------
(***************************************************************************)
(* The inductive invariant.  BooksBalance alone is not inductive: an id    *)
(* that was not given out holds no loan (or a request could overwrite      *)
(* one), the tokens of the two contracts are part of the supply, and a     *)
(* loan that is not closed has a term and has not been overpaid.           *)
(***************************************************************************)
LoansTyped ==
  /\ loans \in [LoanIds -> LoanRecord \cup {NoLoan}]
  /\ config \in ConfigRecord
  /\ loanCounter \in 0 .. MaxLoans
  /\ loanCount \in [Borrowers -> Nat]
  /\ escrow \in Nat
  /\ lmPaused \in BOOLEAN
  /\ scoreOk \in [Borrowers -> BOOLEAN]
  /\ seized \in [Borrowers -> BOOLEAN]
  /\ nftPaused \in BOOLEAN

FreshIds == \A l \in LoanIds : l > loanCounter => loans[l] = NoLoan

TokensConserved == idle + escrow <= Supply

Sound(loan) ==
  loan.status \in {"Pending", "Approved"}
    => /\ Running(loan)
       /\ loan.status = "Approved" => loan.amount <= Supply

LiveLoans == \A l \in Present : Sound(loans[l])

LoanInv ==
  /\ LoansTyped
  /\ FreshIds
  /\ LiveLoans
  /\ EscrowIsCollateral
  /\ LoanCountExact

ManagerInv ==
  /\ PoolInv
  /\ LoanInv
  /\ TokensConserved
  /\ OutstandingCoversLoans

------------------------------------------------------------------------------
(* The loans that hold a slot of a borrower's count.                       *)
TakesSlot(loan) == loan.status \in {"Pending", "Approved", "Cancelled", "Rejected"}
SlotsOf(b) == {l \in Present : loans[l].borrower = b /\ TakesSlot(loans[l])}

(* What a loan adds to the principal of the open ones.                     *)
Lending(loan) == IF loan.status = "Approved" THEN loan.amount ELSE 0

LEMMA CountIsSlots ==
  LoanCountExact <=> \A b \in Borrowers : loanCount[b] = Cardinality(SlotsOf(b))
BY DEF LoanCountExact, SlotsOf, TakesSlot

LEMMA LoanFields ==
  ASSUME NEW loan \in LoanRecord
  PROVE  /\ loan.borrower \in Borrowers /\ loan.amount \in Nat \ {0}
         /\ loan.collateral \in Nat /\ loan.principalPaid \in Nat
         /\ loan.accruedInterest \in Nat /\ loan.accruedLateFee \in Nat
         /\ loan.rate \in Nat /\ loan.due \in Nat /\ loan.lastInterest \in Nat
         /\ loan.lastLateFee \in Nat /\ loan.residual \in Nat
         /\ loan.extensions \in 0 .. MaxExtensions /\ loan.term \in Nat
         /\ loan # NoLoan
BY ManagerAssumption DEF LoanRecord

LEMMA IdsFinite ==
  /\ IsFiniteSet(LoanIds) /\ IsFiniteSet(Present) /\ IsFiniteSet(Active)
  /\ \A b : IsFiniteSet(SlotsOf(b))
  /\ Active \subseteq Present /\ Present \subseteq LoanIds
<1>1. IsFiniteSet(LoanIds)
  <2>1. MaxLoans \in Int /\ 1 \in Int
    BY ManagerAssumption
  <2> QED
    BY <2>1, FS_Interval DEF LoanIds
<1>2. Active \subseteq Present /\ Present \subseteq LoanIds
  BY DEF Active, Present
<1>3. \A b : SlotsOf(b) \subseteq LoanIds
  BY <1>2 DEF SlotsOf
<1> QED
  BY <1>1, <1>2, <1>3, FS_Subset

LEMMA PresentLoans ==
  ASSUME LoansTyped, NEW l \in Present
  PROVE  /\ l \in LoanIds /\ loans[l] \in LoanRecord
         /\ Amount[l] = loans[l].amount /\ Collateral[l] = loans[l].collateral
         /\ Amount[l] \in Nat /\ Collateral[l] \in Nat
         /\ l \in Active <=> loans[l].status = "Approved"
<1>1. l \in LoanIds /\ loans[l] \in LoanRecord
  BY DEF LoansTyped, Present
<1> QED
  BY <1>1, LoanFields DEF Amount, Collateral, Active

LEMMA TotalsNat ==
  ASSUME LoansTyped
  PROVE  /\ Total(Present, Collateral) \in Nat
         /\ Total(Active, Amount) \in Nat
         /\ \A l \in Present : loans[l].collateral <= Total(Present, Collateral)
         /\ \A l \in Active : loans[l].amount <= Total(Active, Amount)
<1>1. /\ \A l \in Present : Collateral[l] \in Nat /\ Collateral[l] = loans[l].collateral
      /\ \A l \in Active : Amount[l] \in Nat /\ Amount[l] = loans[l].amount
  BY PresentLoans, IdsFinite
<1>2. Total(Present, Collateral) \in Nat /\ Total(Active, Amount) \in Nat
  BY <1>1, IdsFinite, TotalNat
<1>3. ASSUME NEW S, IsFiniteSet(S), NEW f, \A k \in S : f[k] \in Nat, NEW l \in S
      PROVE  f[l] <= Total(S, f)
  <2>1. IsFiniteSet({l}) /\ IsFiniteSet(S \ {l}) /\ {l} \in SUBSET S
    BY <1>3, FS_Singleton, FS_Subset
  <2>2. Total(S \ {l}, f) = Total(S, f) - Total({l}, f)
    BY <1>3, <2>1, TotalRemove
  <2>3. Total({l}, f) = f[l]
    BY <1>3, TotalOne
  <2>4. Total(S \ {l}, f) \in Nat /\ Total(S, f) \in Nat
    BY <1>3, <2>1, TotalNat
  <2> QED
    BY <2>2, <2>3, <2>4, <1>3
<1> QED
  BY <1>1, <1>2, <1>3, IdsFinite

------------------------------------------------------------------------------
(***************************************************************************)
(* A step that writes one loan: what it does to the sums and to the slots. *)
(***************************************************************************)
LEMMA LoanReplaced ==
  ASSUME LoansTyped, NEW l \in Present, NEW new \in LoanRecord, SetLoan(l, new)
  PROVE  /\ loans' \in [LoanIds -> LoanRecord \cup {NoLoan}]
         /\ loans'[l] = new /\ \A k \in LoanIds \ {l} : loans'[k] = loans[k]
         /\ Present' = Present
         /\ Active' = IF new.status = "Approved" THEN Active \cup {l} ELSE Active \ {l}
         /\ Total(Present', Collateral')
              = Total(Present, Collateral) - loans[l].collateral + new.collateral
         /\ Total(Active', Amount')
              = Total(Active, Amount) - Lending(loans[l]) + Lending(new)
<1>1. l \in LoanIds /\ loans[l] \in LoanRecord
  BY PresentLoans
<1>2. new # NoLoan
  BY LoanFields
<1>3. /\ loans' \in [LoanIds -> LoanRecord \cup {NoLoan}]
      /\ loans'[l] = new /\ \A k \in LoanIds \ {l} : loans'[k] = loans[k]
  BY <1>1 DEF LoansTyped, SetLoan
<1>4. Present' = Present
  BY <1>1, <1>2, <1>3 DEF Present
<1>5. Active' = IF new.status = "Approved" THEN Active \cup {l} ELSE Active \ {l}
  BY <1>1, <1>3, <1>4, IdsFinite DEF Active
<1>6. /\ \A k \in Present : Collateral'[k] = loans'[k].collateral
      /\ \A k \in Present : Amount'[k] = loans'[k].amount
  BY <1>4 DEF Collateral, Amount
<1>7. /\ \A k \in Present : Collateral[k] \in Nat /\ Collateral[k] = loans[k].collateral
      /\ \A k \in Present : Amount[k] \in Nat /\ Amount[k] = loans[k].amount
  BY PresentLoans
<1>8. new.collateral \in Nat /\ new.amount \in Nat
  BY LoanFields
<1>9. /\ \A k \in Present \ {l} : Collateral'[k] = Collateral[k]
      /\ \A k \in Present \ {l} : Amount'[k] = Amount[k]
      /\ Collateral'[l] = new.collateral /\ Amount'[l] = new.amount
  BY <1>3, <1>6, <1>7, IdsFinite
<1>10. Total(Present, Collateral') = Total(Present, Collateral) - Collateral[l] + Collateral'[l]
  <2>1. /\ \A k \in Present : Collateral[k] \in Nat /\ Collateral'[k] \in Nat
        /\ \A k \in Present \ {l} : Collateral[k] = Collateral'[k]
    BY <1>7, <1>8, <1>9
  <2> QED
    BY <2>1, IdsFinite, TotalChange
<1> DEFINE others == Active \ {l}
<1>11. IsFiniteSet(others) /\ l \notin others /\ others \subseteq Present
  BY IdsFinite, FS_Subset
<1>12. Total(others, Amount') = Total(others, Amount)
  <2>1. \A k \in others : Amount'[k] = Amount[k]
    BY <1>9, <1>11
  <2> QED
    BY <2>1, TotalSame
<1>13. Total(others, Amount) \in Nat
  <2>1. \A k \in others : Amount[k] \in Nat
    BY <1>7, <1>11
  <2> QED
    BY <2>1, <1>11, TotalNat
<1>14. Total(Active, Amount) = Total(others, Amount) + Lending(loans[l])
  <2>1. CASE loans[l].status = "Approved"
    <3>1. Active = others \cup {l}
      BY <2>1 DEF Active
    <3>2. \A k \in others \cup {l} : Amount[k] \in Nat
      BY <1>7, <1>11
    <3>3. Total(others \cup {l}, Amount) = Total(others, Amount) + Amount[l]
      <4> HIDE DEF others
      <4> QED
        BY <1>11, <3>2, TotalAdd
    <3>4. Total(Active, Amount) = Total(others, Amount) + Amount[l]
      <4> HIDE DEF others
      <4> QED
        BY <3>1, <3>3, Zenon
    <3> QED
      BY <2>1, <3>4, <1>7 DEF Lending
  <2>2. CASE loans[l].status # "Approved"
    <3>1. Active = others
      BY <2>2 DEF Active
    <3>2. Total(Active, Amount) = Total(others, Amount)
      <4> HIDE DEF others
      <4> QED
        BY <3>1, Zenon
    <3> QED
      BY <2>2, <3>2, <1>13 DEF Lending
  <2> QED
    BY <2>1, <2>2
<1>15. Total(Active', Amount') = Total(others, Amount') + Lending(new)
  <2>1. CASE new.status = "Approved"
    <3>1. Active' = others \cup {l}
      BY <2>1, <1>5
    <3>2. \A k \in others \cup {l} : Amount'[k] \in Nat
      BY <1>7, <1>8, <1>9, <1>11
    <3>3. Total(others \cup {l}, Amount') = Total(others, Amount') + Amount'[l]
      <4> HIDE DEF others
      <4> QED
        BY <1>11, <3>2, TotalAdd
    <3>4. Total(Active', Amount') = Total(others, Amount') + Amount'[l]
      <4> HIDE DEF others
      <4> QED
        BY <3>1, <3>3, Zenon
    <3> QED
      BY <2>1, <3>4, <1>9 DEF Lending
  <2>2. CASE new.status # "Approved"
    <3>1. Active' = others
      BY <2>2, <1>5
    <3>2. Total(Active', Amount') = Total(others, Amount')
      <4> HIDE DEF others
      <4> QED
        BY <3>1, Zenon
    <3> QED
      BY <2>2, <3>2, <1>12, <1>13 DEF Lending
  <2> QED
    BY <2>1, <2>2
<1>16. Lending(loans[l]) \in Nat /\ Lending(new) \in Nat
  BY <1>7, <1>8 DEF Lending
<1>17. Total(Active', Amount') = Total(Active, Amount) - Lending(loans[l]) + Lending(new)
  <2> HIDE DEF others
  <2> QED
    BY <1>12, <1>13, <1>14, <1>15, <1>16
<1>18. Total(Present', Collateral')
         = Total(Present, Collateral) - loans[l].collateral + new.collateral
  <2>1. Total(Present', Collateral') = Total(Present, Collateral')
    BY <1>4, Zenon
  <2> QED
    BY <2>1, <1>7, <1>9, <1>10
<1> QED
  BY <1>3, <1>4, <1>5, <1>17, <1>18

LEMMA SlotsReplaced ==
  ASSUME LoansTyped, NEW l \in Present, NEW new \in LoanRecord, SetLoan(l, new),
         new.borrower = loans[l].borrower, NEW b
  PROVE  SlotsOf(b)' = IF b = new.borrower /\ TakesSlot(new) THEN SlotsOf(b) \cup {l}
                                                            ELSE SlotsOf(b) \ {l}
<1>1. /\ l \in Present' /\ Present' = Present /\ Present \subseteq LoanIds
      /\ loans'[l] = new /\ \A k \in LoanIds \ {l} : loans'[k] = loans[k]
  BY LoanReplaced, IdsFinite
<1>2. SlotsOf(b)' = {k \in Present : loans'[k].borrower = b /\ TakesSlot(loans'[k])}
  BY <1>1 DEF SlotsOf, TakesSlot
<1>3. \A k \in Present \ {l} : loans'[k] = loans[k]
  BY <1>1
<1> QED
  BY <1>1, <1>2, <1>3 DEF SlotsOf

(* A step that frees no slot and takes none.                               *)
LEMMA SlotKept ==
  ASSUME LoansTyped, LoanCountExact, NEW l \in Present, NEW new \in LoanRecord,
         SetLoan(l, new), new.borrower = loans[l].borrower,
         TakesSlot(new) <=> TakesSlot(loans[l]), loanCount' = loanCount
  PROVE  LoanCountExact'
<1>1. ASSUME NEW b \in Borrowers
      PROVE  loanCount'[b] = Cardinality(SlotsOf(b)')
  <2>1. SlotsOf(b)' = IF b = new.borrower /\ TakesSlot(new) THEN SlotsOf(b) \cup {l}
                                                           ELSE SlotsOf(b) \ {l}
    BY SlotsReplaced
  <2>2. l \in SlotsOf(b) <=> b = new.borrower /\ TakesSlot(new)
    BY DEF SlotsOf
  <2>3. SlotsOf(b)' = SlotsOf(b)
    BY <2>1, <2>2
  <2>4. loanCount[b] = Cardinality(SlotsOf(b))
    BY CountIsSlots
  <2> QED
    BY <2>3, <2>4, Zenon
<1> QED
  BY <1>1 DEF LoanCountExact, SlotsOf, TakesSlot

(* A step that frees the loan's slot and counts it down.                   *)
LEMMA CountedDown ==
  ASSUME LoansTyped, LoanCountExact, NEW l \in Present, TakesSlot(loans[l]),
         \A b \in Borrowers : SlotsOf(b)' = SlotsOf(b) \ {l},
         CountDown(loans[l].borrower)
  PROVE  LoanCountExact' /\ loanCount' \in [Borrowers -> Nat]
<1> DEFINE owner == loans[l].borrower
<1>1. owner \in Borrowers /\ loanCount \in [Borrowers -> Nat]
  BY PresentLoans, LoanFields DEF LoansTyped
<1>2. ASSUME NEW b \in Borrowers
      PROVE  loanCount'[b] = Cardinality(SlotsOf(b)') /\ loanCount'[b] \in Nat
  <2>1. SlotsOf(b)' = SlotsOf(b) \ {l}
    OBVIOUS
  <2>2. loanCount[b] = Cardinality(SlotsOf(b)) /\ loanCount[b] \in Nat
    BY <1>1, CountIsSlots
  <2>3. CASE b # owner
    <3>1. l \notin SlotsOf(b)
      BY <2>3 DEF SlotsOf
    <3>2. SlotsOf(b)' = SlotsOf(b)
      BY <2>1, <3>1
    <3>3. loanCount'[b] = loanCount[b]
      BY <1>1, <2>3 DEF CountDown
    <3> QED
      BY <2>2, <3>2, <3>3, Zenon
  <2>4. CASE b = owner
    <3>1. l \in SlotsOf(b)
      BY <2>4 DEF SlotsOf
    <3>2. Cardinality(SlotsOf(b) \ {l}) = Cardinality(SlotsOf(b)) - 1
      <4>1. Cardinality(SlotsOf(b) \ {l})
              = IF l \in SlotsOf(b) THEN Cardinality(SlotsOf(b)) - 1
                                    ELSE Cardinality(SlotsOf(b))
        BY IdsFinite, FS_RemoveElement
      <4> QED
        BY <3>1, <4>1, Zenon
    <3>3. Cardinality(SlotsOf(b) \ {l}) \in Nat
      <4>1. IsFiniteSet(SlotsOf(b)) /\ SlotsOf(b) \ {l} \subseteq SlotsOf(b)
        BY IdsFinite
      <4> QED
        BY <4>1, FS_Subset, FS_CardinalityType
    <3>4. loanCount'[b] = IF loanCount[b] = 0 THEN 0 ELSE loanCount[b] - 1
      BY <1>1, <2>4 DEF CountDown
    <3>5. loanCount'[b] = Cardinality(SlotsOf(b) \ {l})
      BY <2>2, <3>2, <3>3, <3>4
    <3> QED
      BY <2>1, <3>3, <3>5, Zenon
  <2> QED
    BY <2>3, <2>4
<1>3. loanCount' \in [Borrowers -> Nat]
  <2>1. loanCount' = [loanCount EXCEPT ![owner] = IF @ = 0 THEN 0 ELSE @ - 1]
    BY DEF CountDown
  <2>2. loanCount' = [b \in Borrowers |-> loanCount'[b]]
    BY <1>1, <2>1
  <2> QED
    BY <1>2, <2>2
<1>4. LoanCountExact'
  <2>1. \A b \in Borrowers : loanCount'[b] = Cardinality(SlotsOf(b)')
    BY <1>2
  <2> QED
    BY <2>1 DEF LoanCountExact, SlotsOf, TakesSlot
<1> QED
  BY <1>3, <1>4

LEMMA SlotFreed ==
  ASSUME LoansTyped, LoanCountExact, NEW l \in Present, NEW new \in LoanRecord,
         SetLoan(l, new), new.borrower = loans[l].borrower,
         TakesSlot(loans[l]), ~TakesSlot(new), CountDown(loans[l].borrower)
  PROVE  LoanCountExact' /\ loanCount' \in [Borrowers -> Nat]
<1>1. \A b \in Borrowers : SlotsOf(b)' = SlotsOf(b) \ {l}
  BY SlotsReplaced
<1> QED
  BY <1>1, CountedDown

(* The loans' half of the invariant, after a step that writes one loan.    *)
LEMMA OneLoanKeeps ==
  ASSUME LoanInv, NEW l \in Present, NEW new \in LoanRecord, SetLoan(l, new),
         new.borrower = loans[l].borrower, Sound(new),
         escrow' = escrow - loans[l].collateral + new.collateral,
         \/ (TakesSlot(new) <=> TakesSlot(loans[l])) /\ loanCount' = loanCount
         \/ TakesSlot(loans[l]) /\ ~TakesSlot(new) /\ CountDown(loans[l].borrower),
         UNCHANGED <<loanCounter, config, lmPaused>>,
         scoreOk' \in [Borrowers -> BOOLEAN], seized' \in [Borrowers -> BOOLEAN],
         nftPaused' \in BOOLEAN
  PROVE  LoanInv'
<1>1. LoansTyped /\ LoanCountExact
  BY DEF LoanInv
<1>2. /\ loans' \in [LoanIds -> LoanRecord \cup {NoLoan}]
      /\ loans'[l] = new /\ \A k \in LoanIds \ {l} : loans'[k] = loans[k]
      /\ Present' = Present /\ Present \subseteq LoanIds
  BY <1>1, LoanReplaced, IdsFinite
<1>3. LoanCountExact' /\ loanCount' \in [Borrowers -> Nat]
  BY <1>1, SlotKept, SlotFreed DEF LoansTyped
<1>4. escrow' = Total(Present', Collateral') /\ escrow' \in Nat
  <2>1. /\ escrow = Total(Present, Collateral) /\ escrow \in Nat
        /\ loans[l].collateral \in Nat /\ new.collateral \in Nat
        /\ loans[l].collateral <= escrow
    BY <1>1, TotalsNat, PresentLoans, LoanFields DEF LoanInv, EscrowIsCollateral, LoansTyped
  <2>2. Total(Present', Collateral')
          = Total(Present, Collateral) - loans[l].collateral + new.collateral
    BY <1>1, LoanReplaced
  <2> QED
    BY <2>1, <2>2
<1>5. EscrowIsCollateral'
  BY <1>4 DEF EscrowIsCollateral
<1>6. LoansTyped'
  BY <1>1, <1>2, <1>3, <1>4 DEF LoansTyped
<1>7. FreshIds'
  <2>1. loanCounter' = loanCounter /\ l <= loanCounter
    BY <1>1 DEF LoanInv, FreshIds, LoansTyped, Present, LoanIds
  <2> QED
    BY <1>2, <2>1 DEF LoanInv, FreshIds, LoansTyped, LoanIds
<1>8. LiveLoans'
  BY <1>2 DEF LoanInv, LiveLoans, Sound
<1> QED
  BY <1>3, <1>5, <1>6, <1>7, <1>8 DEF LoanInv

(* The counter still covers the open loans if it moved by no less than     *)
(* what the loan lends.                                                    *)
LEMMA OneLoanCovers ==
  ASSUME ManagerInv, NEW l \in Present, NEW new \in LoanRecord, SetLoan(l, new),
         outstanding' \in Int,
         outstanding' >= outstanding - Lending(loans[l]) + Lending(new)
  PROVE  OutstandingCoversLoans'
<1>1. LoansTyped /\ outstanding >= Total(Active, Amount) /\ outstanding \in Int
  BY PoolFacts DEF ManagerInv, LoanInv, OutstandingCoversLoans
<1>2. Total(Active', Amount') = Total(Active, Amount) - Lending(loans[l]) + Lending(new)
  BY <1>1, LoanReplaced
<1>3. Total(Active, Amount) \in Nat /\ Lending(loans[l]) \in Nat /\ Lending(new) \in Nat
  BY <1>1, TotalsNat, PresentLoans, LoanFields DEF Lending
<1>4. outstanding' >= Total(Active', Amount')
  BY <1>1, <1>2, <1>3
<1> QED
  BY <1>4 DEF OutstandingCoversLoans

(* What the invariant says of numbers, in one place.                       *)
LEMMA ManagerFacts ==
  ASSUME ManagerInv
  PROVE  /\ LoansTyped /\ PoolInv /\ LoanInv
         /\ idle \in 0 .. Supply /\ escrow \in Nat /\ idle + escrow <= Supply
         /\ outstanding \in Nat /\ outstanding <= MaxInt
         /\ outstanding >= Total(Active, Amount)
         /\ \A l \in Present : loans[l].collateral <= escrow
         /\ \A l \in Active : loans[l].amount <= outstanding
         /\ Supply \in Nat /\ MaxInt \in Nat /\ Supply <= MaxInt /\ ledger \in Nat
<1>1. LoansTyped /\ PoolInv /\ LoanInv /\ escrow \in Nat /\ idle + escrow <= Supply
  BY DEF ManagerInv, LoanInv, LoansTyped, TokensConserved
<1>2. escrow = Total(Present, Collateral) /\ outstanding >= Total(Active, Amount)
  BY DEF ManagerInv, LoanInv, EscrowIsCollateral, OutstandingCoversLoans
<1>3. /\ Total(Active, Amount) \in Nat
      /\ \A l \in Present : loans[l].collateral <= escrow
      /\ \A l \in Active : loans[l].amount <= Total(Active, Amount)
  BY <1>1, <1>2, TotalsNat
<1>4. \A l \in Active : loans[l].amount \in Nat
  BY <1>1, PresentLoans, LoanFields, IdsFinite
<1> QED
  BY <1>1, <1>2, <1>3, <1>4, PoolFacts

LEMMA ConfigFields ==
  ASSUME LoansTyped
  PROVE  /\ config.lateFeeRate \in Nat /\ config.threshold \in Nat /\ config.bonus \in Nat
         /\ config.maxAmount \in Int /\ config.minRepayment \in Int
         /\ config.maxLoans \in Nat /\ config.rate \in Nat /\ config.oracle \in BOOLEAN
         /\ config.minRate \in Nat /\ config.maxRate \in Nat /\ config.minTerm \in Nat
         /\ config.maxTerm \in Nat /\ config.maxExtension \in Nat
         /\ config.grace \in Nat /\ config.window \in Nat
BY DEF LoansTyped, ConfigRecord

LEMMA RunningFields ==
  ASSUME LoanInv, NEW l \in Present, loans[l].status \in {"Pending", "Approved"}
  PROVE  /\ Running(loans[l]) /\ loans[l] \in LoanRecord
         /\ loans[l].principalPaid <= loans[l].amount /\ loans[l].term > 0
         /\ loans[l].status = "Approved" => loans[l].amount <= Supply
BY DEF LoanInv, LiveLoans, Sound, Running

------------------------------------------------------------------------------
(***************************************************************************)
(* The operations on one loan.                                             *)
(***************************************************************************)
(* A step that writes one loan and gives out no id.                        *)
Wrote(l, loan) ==
  l \in Present /\ loan \in LoanRecord /\ SetLoan(l, loan) /\ loanCounter' = loanCounter

LEMMA ApproveKeeps ==
  ASSUME ManagerInv, NEW l \in LoanIds, ApproveLoan(l)
  PROVE  /\ ManagerInv' /\ loans[l].status = "Pending"
         /\ \E rec : /\ Wrote(l, rec) /\ rec.status = "Approved"
                     /\ rec.amount = loans[l].amount
         /\ loans[l].amount \in 1 .. Supply
         /\ outstanding' = outstanding + loans[l].amount /\ outstanding' <= MaxInt
         /\ idle' + outstanding' = idle + outstanding
<1> DEFINE loan == loans[l]
           due  == ledger + loan.term
           late == due + config.grace
           new  == [loan EXCEPT !.status = "Approved", !.due = due,
                                !.lastInterest = ledger, !.lastLateFee = late]
<1>1. /\ l \in Present /\ loan.status = "Pending" /\ idle >= loan.amount
      /\ SetLoan(l, new) /\ Pool!Disburse(loan.amount)
      /\ UNCHANGED <<loanCounter, loanCount, escrow, config, lmPaused, nftVars>>
  BY DEF ApproveLoan
<1>2. /\ LoanInv /\ LoansTyped /\ PoolInv /\ Running(loan) /\ loan \in LoanRecord
      /\ ledger \in Nat
  BY <1>1, ManagerFacts, RunningFields
<1>3. due \in Nat /\ late \in Nat /\ loan.amount \in Nat \ {0} /\ loan.collateral \in Nat
  BY <1>2, LoanFields, ConfigFields
<1>4. /\ new \in LoanRecord /\ new.status = "Approved" /\ new.borrower = loan.borrower
      /\ new.amount = loan.amount /\ new.collateral = loan.collateral
      /\ new.principalPaid = loan.principalPaid /\ new.term = loan.term
  <2> HIDE DEF due, late
  <2> QED
    BY <1>2, <1>3 DEF LoanRecord
<1> HIDE DEF new, late, due
<1>5. loan.amount <= Supply
  BY <1>1, <1>3, ManagerFacts
<1>6. Sound(new)
  BY <1>2, <1>4, <1>5 DEF Sound, Running
<1>7. LoanInv'
  <2>1. /\ escrow' = escrow - loan.collateral + new.collateral
        /\ TakesSlot(new) <=> TakesSlot(loan)
    BY <1>1, <1>3, <1>4, ManagerFacts DEF TakesSlot
  <2> QED
    BY <1>1, <1>2, <1>4, <1>6, <2>1, OneLoanKeeps DEF LoansTyped, nftVars
<1>8. /\ PoolInv' /\ idle' = idle - loan.amount
      /\ outstanding' = outstanding + loan.amount /\ outstanding + loan.amount <= MaxInt
  BY <1>1, <1>2, <1>3, PoolInvDisburse
<1>9. Lending(loan) = 0 /\ Lending(new) = loan.amount
  BY <1>1, <1>4 DEF Lending
<1>10. /\ outstanding' \in Int
       /\ outstanding' >= outstanding - Lending(loan) + Lending(new)
  BY <1>3, <1>8, <1>9, ManagerFacts
<1>11. OutstandingCoversLoans'
  BY <1>1, <1>4, <1>10, OneLoanCovers
<1>12. TokensConserved'
  BY <1>1, <1>3, <1>8, ManagerFacts DEF TokensConserved
<1> QED
  <2>1. ManagerInv'
    BY <1>7, <1>8, <1>11, <1>12 DEF ManagerInv
  <2>2. Wrote(l, new)
    BY <1>1, <1>4 DEF Wrote
  <2>3. /\ loan.amount \in 1 .. Supply /\ outstanding' <= MaxInt
        /\ idle' + outstanding' = idle + outstanding
    BY <1>3, <1>5, <1>8, ManagerFacts
  <2> QED
    BY <1>1, <1>4, <1>8, <2>1, <2>2, <2>3

LEMMA PoolUnchanged ==
  ASSUME PoolInv, UNCHANGED poolVars
  PROVE  PoolInv' /\ UNCHANGED <<idle, outstanding, totalShares, ledger, poolPaused>>
<1>1. UNCHANGED <<idle, outstanding, totalShares, shares, depositedAt, totalDeposits,
                  depositorCount, maxPoolSize, tokenAllowed, cooldown, poolPaused, ledger>>
  BY DEF poolVars
<1>2. idle \in 0 .. Supply /\ outstanding \in -MaxInt - 1 .. MaxInt /\ ledger \in Nat
      /\ poolPaused \in BOOLEAN
  BY PoolFacts DEF Pool!TypeOK
<1> QED
  BY <1>1, <1>2, PoolInvKept

LEMMA DepositCollateralKeeps ==
  ASSUME ManagerInv, NEW l \in LoanIds, NEW amount \in Posted, DepositCollateral(l, amount)
  PROVE  /\ ManagerInv' /\ l \in Active
         /\ \E rec : /\ Wrote(l, rec) /\ rec.status = "Approved"
                     /\ rec.amount = loans[l].amount
                     /\ rec.accruedLateFee = loans[l].accruedLateFee
         /\ outstanding' = outstanding /\ idle' >= idle
<1> DEFINE loan == loans[l]
           sum  == loan.collateral + amount
           new  == [loan EXCEPT !.collateral = sum]
<1>1. /\ amount > 0 /\ l \in Present /\ loan.status = "Approved"
      /\ amount <= Circulating
      /\ SetLoan(l, new) /\ escrow' = escrow + amount
      /\ UNCHANGED <<loanCounter, loanCount, config, lmPaused, nftVars, poolVars>>
  BY DEF DepositCollateral
<1>2. /\ LoanInv /\ LoansTyped /\ PoolInv /\ Running(loan) /\ loan \in LoanRecord
      /\ loan.amount <= Supply
  BY <1>1, ManagerFacts, RunningFields
<1>3. amount \in Nat /\ sum \in Nat /\ loan.amount \in Nat \ {0} /\ loan.collateral \in Nat
  BY <1>1, <1>2, LoanFields, ManagerAssumption
<1>4. /\ new \in LoanRecord /\ new.status = "Approved" /\ new.borrower = loan.borrower
      /\ new.amount = loan.amount /\ new.collateral = sum
      /\ new.principalPaid = loan.principalPaid /\ new.term = loan.term
      /\ new.accruedLateFee = loan.accruedLateFee
  <2> HIDE DEF sum
  <2> QED
    BY <1>1, <1>2, <1>3 DEF LoanRecord
<1> HIDE DEF new
<1>5. Sound(new)
  BY <1>2, <1>4 DEF Sound, Running
<1>6. LoanInv'
  <2>1. /\ escrow' = escrow - loan.collateral + new.collateral
        /\ TakesSlot(new) <=> TakesSlot(loan)
    BY <1>1, <1>3, <1>4, ManagerFacts DEF TakesSlot
  <2> QED
    BY <1>1, <1>2, <1>4, <1>5, <2>1, OneLoanKeeps DEF LoansTyped, nftVars
<1>7. PoolInv' /\ idle' = idle /\ outstanding' = outstanding
  BY <1>1, <1>2, PoolUnchanged
<1>8. Lending(loan) = Lending(new) /\ Lending(loan) \in Nat
  BY <1>1, <1>3, <1>4 DEF Lending
<1>9. OutstandingCoversLoans'
  <2>1. /\ outstanding' \in Int
        /\ outstanding' >= outstanding - Lending(loan) + Lending(new)
    BY <1>7, <1>8, ManagerFacts
  <2> QED
    BY <1>1, <1>4, <2>1, OneLoanCovers
<1>10. TokensConserved'
  BY <1>1, <1>3, <1>7, ManagerFacts DEF TokensConserved, Circulating
<1> QED
  <2>1. ManagerInv' /\ l \in Active
    BY <1>1, <1>6, <1>7, <1>9, <1>10 DEF ManagerInv, Active
  <2>2. Wrote(l, new) /\ idle' >= idle
    BY <1>1, <1>4, <1>7, ManagerFacts DEF Wrote
  <2> QED
    BY <1>4, <1>7, <2>1, <2>2

LEMMA ExtendKeeps ==
  ASSUME ManagerInv, NEW l \in LoanIds, NEW extra \in Terms, ExtendLoan(l, extra)
  PROVE  /\ ManagerInv' /\ l \in Active
         /\ \E rec : /\ Wrote(l, rec) /\ rec.status = "Approved"
                     /\ rec.amount = loans[l].amount
                     /\ rec.accruedLateFee = loans[l].accruedLateFee
         /\ outstanding' = outstanding /\ idle' >= idle
<1> DEFINE loan  == loans[l]
           fee   == ExtensionFee(loan)
           later == loan.due + extra
           times == loan.extensions + 1
           new   == [loan EXCEPT !.due = later, !.extensions = times]
<1>1. /\ l \in Present /\ loan.status = "Approved" /\ loan.extensions < MaxExtensions
      /\ fee <= Circulating
      /\ IF fee > 0 THEN Pool!Receive(fee) ELSE UNCHANGED poolVars
      /\ SetLoan(l, new)
      /\ UNCHANGED <<loanCounter, loanCount, escrow, config, lmPaused, nftVars>>
  BY DEF ExtendLoan
<1>2. /\ LoanInv /\ LoansTyped /\ PoolInv /\ Running(loan) /\ loan \in LoanRecord
      /\ loan.amount <= Supply
  BY <1>1, ManagerFacts, RunningFields
<1>3. later \in Nat /\ times \in 0 .. MaxExtensions /\ loan.amount \in Nat \ {0}
      /\ loan.collateral \in Nat
  <2>1. extra \in Nat
    BY ManagerAssumption
  <2>2. loan.extensions \in 0 .. MaxExtensions /\ loan.due \in Nat /\ MaxExtensions \in Nat
        /\ loan.amount \in Nat \ {0} /\ loan.collateral \in Nat
    BY <1>2, LoanFields, ManagerAssumption
  <2> QED
    BY <1>1, <2>1, <2>2
<1>4. fee \in Int
  <2>1. RemainingPrincipal(loan) \in Nat
    BY <1>2, DebtNat
  <2>2. BpsScale \in Nat \ {0} /\ ExtensionFeeBps \in Nat
    BY MathAssumption
  <2>3. RemainingPrincipal(loan) * ExtensionFeeBps \in Nat
    BY <2>1, <2>2, MulNat
  <2>4. (RemainingPrincipal(loan) * ExtensionFeeBps) \div BpsScale \in Nat
    BY <2>2, <2>3, DivNat
  <2> QED
    BY <2>4 DEF ExtensionFee
<1> HIDE DEF fee
<1>5. /\ new \in LoanRecord /\ new.status = "Approved" /\ new.borrower = loan.borrower
      /\ new.amount = loan.amount /\ new.collateral = loan.collateral
      /\ new.principalPaid = loan.principalPaid /\ new.term = loan.term
      /\ new.accruedLateFee = loan.accruedLateFee
  <2> HIDE DEF later, times
  <2> QED
    BY <1>1, <1>2, <1>3 DEF LoanRecord
<1> HIDE DEF new, later, times
<1>6. Sound(new)
  BY <1>2, <1>5 DEF Sound, Running
<1>7. LoanInv'
  <2>1. /\ escrow' = escrow - loan.collateral + new.collateral
        /\ TakesSlot(new) <=> TakesSlot(loan)
    BY <1>1, <1>3, <1>5, ManagerFacts DEF TakesSlot
  <2> QED
    BY <1>1, <1>2, <1>5, <1>6, <2>1, OneLoanKeeps DEF LoansTyped, nftVars
<1>8. /\ PoolInv' /\ outstanding' = outstanding
      /\ idle' = idle + (IF fee > 0 THEN fee ELSE 0)
  <2>1. CASE fee > 0
    <3>1. PoolInv' /\ outstanding' = outstanding /\ idle' = idle + fee
      BY <1>1, <1>2, <1>4, <2>1, PoolInvReceive
    <3> QED
      BY <2>1, <3>1
  <2>2. CASE ~(fee > 0)
    <3>1. UNCHANGED poolVars
      BY <1>1, <2>2
    <3>2. PoolInv' /\ outstanding' = outstanding /\ idle' = idle
      BY <1>2, <3>1, PoolUnchanged
    <3>3. idle \in 0 .. Supply
      BY ManagerFacts
    <3> QED
      BY <2>2, <3>2, <3>3
  <2> QED
    BY <2>1, <2>2
<1>9. Lending(loan) = Lending(new) /\ Lending(loan) \in Nat
  BY <1>1, <1>3, <1>5 DEF Lending
<1>10. OutstandingCoversLoans'
  <2>1. /\ outstanding' \in Int
        /\ outstanding' >= outstanding - Lending(loan) + Lending(new)
    BY <1>8, <1>9, ManagerFacts
  <2> QED
    BY <1>1, <1>5, <2>1, OneLoanCovers
<1>11. TokensConserved' /\ idle' >= idle
  BY <1>1, <1>4, <1>8, ManagerFacts DEF TokensConserved, Circulating
<1> QED
  <2>1. ManagerInv' /\ l \in Active
    BY <1>1, <1>7, <1>8, <1>10, <1>11 DEF ManagerInv, Active
  <2>2. Wrote(l, new)
    BY <1>1, <1>5 DEF Wrote
  <2> QED
    BY <1>5, <1>8, <1>11, <2>1, <2>2

------------------------------------------------------------------------------
(* A loan that is over: its figures are cleared.                           *)
LEMMA ClosedRecord ==
  ASSUME NEW loan \in LoanRecord,
         NEW status \in {"Repaid", "Defaulted", "Liquidated", "Cancelled", "Rejected"}
  PROVE  LET new == Closed(loan, status, 0)
         IN  /\ new \in LoanRecord /\ new.status = status /\ new.collateral = 0
             /\ new.borrower = loan.borrower /\ new.amount = loan.amount
             /\ Sound(new) /\ Lending(new) = 0
             /\ TakesSlot(new) <=> status \in {"Cancelled", "Rejected"}
<1> DEFINE new == Closed(loan, status, 0)
<1>1. 0 \in Nat /\ 0 \in 0 .. MaxExtensions
  BY ManagerAssumption
<1>2. /\ new \in LoanRecord /\ new.status = status /\ new.collateral = 0
      /\ new.borrower = loan.borrower /\ new.amount = loan.amount
  BY <1>1 DEF LoanRecord, Closed
<1> HIDE DEF new
<1>3. /\ Sound(new) /\ Lending(new) = 0
      /\ TakesSlot(new) <=> status \in {"Cancelled", "Rejected"}
  BY <1>2 DEF Sound, Lending, TakesSlot
<1> QED
  BY <1>2, <1>3 DEF new

(* Collateral leaves the escrow while the pool stands still.               *)
LEMMA PaidFromEscrow ==
  ASSUME ManagerInv, NEW l \in Present, UNCHANGED poolVars,
         escrow' = escrow - loans[l].collateral
  PROVE  /\ PoolInv' /\ TokensConserved' /\ outstanding' = outstanding /\ idle' = idle
<1>1. PoolInv' /\ idle' = idle /\ outstanding' = outstanding
  BY ManagerFacts, PoolUnchanged
<1>2. loans[l].collateral \in Nat
  BY ManagerFacts, PresentLoans, LoanFields
<1>3. TokensConserved'
  BY <1>1, <1>2, ManagerFacts DEF TokensConserved
<1> QED
  BY <1>1, <1>3

LEMMA ReleaseKeeps ==
  ASSUME ManagerInv, NEW l \in LoanIds, ReleaseCollateral(l)
  PROVE  /\ ManagerInv' /\ loans[l].status # "Approved"
         /\ \E rec : Wrote(l, rec) /\ rec.status \notin {"Pending", "Approved"}
         /\ outstanding' = outstanding /\ idle' = idle
<1> DEFINE loan == loans[l]
           new  == [loan EXCEPT !.collateral = 0]
<1>1. /\ l \in Present /\ loan.status = "Repaid"
      /\ SetLoan(l, new) /\ escrow' = escrow - loan.collateral
      /\ UNCHANGED <<loanCounter, loanCount, config, lmPaused, nftVars, poolVars>>
  BY DEF ReleaseCollateral
<1>2. LoanInv /\ LoansTyped /\ loan \in LoanRecord /\ loan.collateral \in Nat
  BY <1>1, ManagerFacts, PresentLoans, LoanFields
<1>3. /\ new \in LoanRecord /\ new.status = "Repaid" /\ new.borrower = loan.borrower
      /\ new.collateral = 0
  BY <1>1, <1>2 DEF LoanRecord
<1> HIDE DEF new
<1>4. Sound(new) /\ Lending(new) = 0 /\ Lending(loan) = 0
  BY <1>1, <1>3 DEF Sound, Lending
<1>5. LoanInv'
  <2>1. /\ escrow' = escrow - loan.collateral + new.collateral
        /\ TakesSlot(new) <=> TakesSlot(loan)
    BY <1>1, <1>2, <1>3, ManagerFacts DEF TakesSlot
  <2> QED
    BY <1>1, <1>2, <1>3, <1>4, <2>1, OneLoanKeeps DEF LoansTyped, nftVars
<1>6. PoolInv' /\ TokensConserved' /\ outstanding' = outstanding /\ idle' = idle
  BY <1>1, PaidFromEscrow
<1>7. OutstandingCoversLoans'
  <2>1. /\ outstanding' \in Int
        /\ outstanding' >= outstanding - Lending(loan) + Lending(new)
    BY <1>4, <1>6, ManagerFacts
  <2> QED
    BY <1>1, <1>3, <2>1, OneLoanCovers
<1> QED
  <2>1. ManagerInv'
    BY <1>5, <1>6, <1>7 DEF ManagerInv
  <2>2. Wrote(l, new)
    BY <1>1, <1>3 DEF Wrote
  <2> QED
    BY <1>1, <1>3, <1>6, <2>1, <2>2

LEMMA WithdrawnKeeps ==
  ASSUME ManagerInv, NEW l \in LoanIds, NEW status \in {"Cancelled", "Rejected"},
         Withdrawn(l, status)
  PROVE  /\ ManagerInv' /\ loans[l].status = "Pending"
         /\ \E rec : Wrote(l, rec) /\ rec.status \notin {"Pending", "Approved"}
         /\ outstanding' = outstanding /\ idle' = idle
<1> DEFINE loan == loans[l]
           new  == Closed(loan, status, 0)
<1>1. /\ l \in Present /\ loan.status = "Pending"
      /\ SetLoan(l, new) /\ escrow' = escrow - loan.collateral
      /\ UNCHANGED <<loanCounter, loanCount, config, lmPaused, nftVars, poolVars>>
  BY DEF Withdrawn
<1>2. LoanInv /\ LoansTyped /\ loan \in LoanRecord /\ loan.collateral \in Nat
  BY <1>1, ManagerFacts, PresentLoans, LoanFields
<1>3. /\ new \in LoanRecord /\ new.borrower = loan.borrower /\ new.collateral = 0
      /\ new.status = status /\ Sound(new) /\ Lending(new) = 0 /\ TakesSlot(new)
  BY <1>2, ClosedRecord
<1> HIDE DEF new
<1>4. Lending(loan) = 0
  BY <1>1 DEF Lending
<1>5. LoanInv'
  <2>1. /\ escrow' = escrow - loan.collateral + new.collateral
        /\ TakesSlot(new) <=> TakesSlot(loan)
    BY <1>1, <1>2, <1>3, ManagerFacts DEF TakesSlot
  <2> QED
    BY <1>1, <1>2, <1>3, <2>1, OneLoanKeeps DEF LoansTyped, nftVars
<1>6. PoolInv' /\ TokensConserved' /\ outstanding' = outstanding /\ idle' = idle
  BY <1>1, PaidFromEscrow
<1>7. OutstandingCoversLoans'
  <2>1. /\ outstanding' \in Int
        /\ outstanding' >= outstanding - Lending(loan) + Lending(new)
    BY <1>3, <1>4, <1>6, ManagerFacts
  <2> QED
    BY <1>1, <1>3, <2>1, OneLoanCovers
<1> QED
  <2>1. ManagerInv'
    BY <1>5, <1>6, <1>7 DEF ManagerInv
  <2>2. Wrote(l, new)
    BY <1>1, <1>3 DEF Wrote
  <2> QED
    BY <1>1, <1>3, <1>6, <2>1, <2>2

(* A loan that runs is closed: repaid or liquidated.                       *)
LEMMA CloseOneKeeps ==
  ASSUME ManagerInv, NEW l \in Active, NEW after \in LoanRecord,
         after.borrower = loans[l].borrower, after.amount = loans[l].amount,
         NEW status \in {"Repaid", "Liquidated"}, NEW paid \in Int,
         SetLoan(l, Closed(after, status, 0)), CountDown(loans[l].borrower),
         Pool!ReceiveAndSettle(paid, after.amount),
         escrow' = escrow - loans[l].collateral,
         idle + paid + escrow - loans[l].collateral <= Supply,
         UNCHANGED <<loanCounter, config, lmPaused>>,
         scoreOk' \in [Borrowers -> BOOLEAN], seized' \in [Borrowers -> BOOLEAN],
         nftPaused' \in BOOLEAN
  PROVE  /\ ManagerInv'
         /\ outstanding' = outstanding - loans[l].amount
         /\ idle' = idle + paid
<1> DEFINE loan == loans[l]
           new  == Closed(after, status, 0)
<1>1. /\ l \in Present /\ loan.status = "Approved" /\ LoanInv /\ LoansTyped
      /\ PoolInv /\ loan \in LoanRecord
  BY ManagerFacts, IdsFinite, PresentLoans
<1>2. loan.collateral \in Nat /\ loan.amount \in Nat \ {0}
  BY <1>1, LoanFields
<1>3. /\ new \in LoanRecord /\ new.borrower = loan.borrower /\ new.collateral = 0
      /\ Sound(new) /\ Lending(new) = 0 /\ ~TakesSlot(new)
  BY ClosedRecord
<1> HIDE DEF new
<1>4. SetLoan(l, new)
  BY DEF new
<1>5. Lending(loan) = loan.amount /\ TakesSlot(loan)
  BY <1>1 DEF Lending, TakesSlot
<1>6. LoanInv'
  <2>1. escrow' = escrow - loan.collateral + new.collateral
    BY <1>2, <1>3, ManagerFacts
  <2> QED
    BY <1>1, <1>3, <1>4, <1>5, <2>1, OneLoanKeeps
<1>7. /\ PoolInv' /\ idle' = idle + paid /\ outstanding' >= outstanding - loan.amount
      /\ outstanding - loan.amount >= -MaxInt - 1 => outstanding' = outstanding - loan.amount
  BY <1>1, <1>2, PoolInvSettle
<1>8. outstanding' = outstanding - loan.amount
  BY <1>2, <1>7, ManagerFacts
<1>9. OutstandingCoversLoans'
  <2>1. /\ outstanding' \in Int
        /\ outstanding' >= outstanding - Lending(loan) + Lending(new)
    BY <1>2, <1>3, <1>5, <1>8, ManagerFacts
  <2> QED
    BY <1>1, <1>3, <1>4, <2>1, OneLoanCovers
<1>10. TokensConserved'
  BY <1>2, <1>7, ManagerFacts DEF TokensConserved
<1> QED
  BY <1>6, <1>7, <1>8, <1>9, <1>10 DEF ManagerInv

(* What a loan owes at the moment.                                         *)
LEMMA OwedSound ==
  ASSUME ManagerInv, NEW l \in Active
  PROVE  /\ l \in Present /\ loans[l].status = "Approved" /\ loans[l] \in LoanRecord
         /\ Running(Owed(l)) /\ SameLoan(loans[l], Owed(l))
         /\ Debt(Owed(l)) \in Nat
         /\ Owed(l).accruedLateFee >= loans[l].accruedLateFee
         /\ Owed(l).accruedLateFee > loans[l].accruedLateFee
              => Debt(Owed(l)) <= PenaltyMultiplier * loans[l].amount
<1>1. /\ l \in Present /\ loans[l].status = "Approved" /\ LoanInv /\ LoansTyped
      /\ ledger \in Nat
  BY ManagerFacts, IdsFinite, PresentLoans
<1>2. Running(loans[l]) /\ loans[l] \in LoanRecord
  BY <1>1, RunningFields
<1>3. config.grace \in Nat /\ config.lateFeeRate \in Nat
  BY <1>1, ConfigFields
<1>4. /\ Running(Owed(l)) /\ SameLoan(loans[l], Owed(l))
      /\ Owed(l).accruedLateFee >= loans[l].accruedLateFee
      /\ Owed(l).accruedLateFee > loans[l].accruedLateFee
           => Debt(Owed(l)) <= PenaltyMultiplier * loans[l].amount
  BY <1>1, <1>2, <1>3, AccrueSound DEF Owed
<1> QED
  BY <1>1, <1>2, <1>4, DebtNat

(* A payment of at most the debt: the loan runs on, under the fee cap if   *)
(* it was charged a fee, or is repaid.                                     *)
LEMMA RepaymentSound ==
  ASSUME ManagerInv, NEW l \in Active, NEW amount \in 0 .. Debt(Owed(l))
  PROVE  LET after == AfterRepayment(l, amount)
         IN  /\ after \in LoanRecord
             /\ after.borrower = loans[l].borrower /\ after.amount = loans[l].amount
             /\ after.collateral = loans[l].collateral
             /\ after.status = "Approved"
                  => /\ Running(after)
                     /\ after.accruedLateFee > loans[l].accruedLateFee
                          => Debt(after) <= PenaltyMultiplier * loans[l].amount
<1> DEFINE loan == loans[l]
           owed == Owed(l)
           paid == ApplyPayment(owed, amount)
           after == AfterRepayment(l, amount)
<1>1. /\ Running(owed) /\ SameLoan(loan, owed) /\ Debt(owed) \in Nat /\ loan \in LoanRecord
      /\ owed.accruedLateFee >= loan.accruedLateFee
      /\ owed.accruedLateFee > loan.accruedLateFee
           => Debt(owed) <= PenaltyMultiplier * loan.amount
  BY OwedSound
<1>2. /\ Running(paid) /\ SameLoan(owed, paid)
      /\ paid.accruedLateFee <= owed.accruedLateFee
      /\ Debt(paid) = Debt(owed) - amount
  BY <1>1, ApplyPaymentSound
<1>3. after = IF Debt(paid) = 0 THEN [paid EXCEPT !.status = "Repaid"]
              ELSE IF Debt(owed) <= config.minRepayment
                   THEN [Forgive(paid) EXCEPT !.status = "Repaid"]
              ELSE paid
  BY DEF AfterRepayment
<1> HIDE DEF after, paid, owed
<1>4. /\ paid \in LoanRecord /\ paid.borrower = loan.borrower /\ paid.amount = loan.amount
      /\ paid.collateral = loan.collateral /\ paid.amount \in Nat /\ owed \in LoanRecord
  BY <1>1, <1>2, LoanFields DEF SameLoan, Running
<1>5. CASE after = paid
  <2>1. /\ loan.accruedLateFee \in Nat /\ owed.accruedLateFee \in Nat
        /\ paid.accruedLateFee \in Nat /\ loan.amount \in Nat
    BY <1>1, <1>4, LoanFields
  <2>2. PenaltyMultiplier * loan.amount \in Nat
    BY <2>1, MulNat, MathAssumption
  <2>3. paid.accruedLateFee > loan.accruedLateFee
          => Debt(paid) <= PenaltyMultiplier * loan.amount
    BY <1>1, <1>2, <2>1, <2>2
  <2> QED
    BY <1>2, <1>4, <1>5, <2>3 DEF after
<1>6. CASE after = [paid EXCEPT !.status = "Repaid"]
  <2>1. /\ after \in LoanRecord /\ after.borrower = loan.borrower
        /\ after.amount = loan.amount /\ after.collateral = loan.collateral
        /\ after.status # "Approved"
    BY <1>4, <1>6 DEF LoanRecord
  <2> QED
    BY <2>1 DEF after
<1>7. CASE after = [Forgive(paid) EXCEPT !.status = "Repaid"]
  <2>1. /\ after \in LoanRecord /\ after.borrower = loan.borrower
        /\ after.amount = loan.amount /\ after.collateral = loan.collateral
        /\ after.status # "Approved"
    BY <1>4, <1>7 DEF LoanRecord, Forgive
  <2> QED
    BY <2>1 DEF after
<1> QED
  BY <1>3, <1>5, <1>6, <1>7

LEMMA ScoreReported ==
  ASSUME LoansTyped, NEW b, ReportScore(b)
  PROVE  scoreOk' \in [Borrowers -> BOOLEAN]
BY DEF LoansTyped, ReportScore

LEMMA RepayKeeps ==
  ASSUME ManagerInv, NEW l \in LoanIds, NEW amount \in Payments, Repay(l, amount)
  PROVE  /\ ManagerInv' /\ l \in Active
         /\ \E rec :
              /\ Wrote(l, rec)
              /\ \/ /\ rec.status = "Approved" /\ rec.amount = loans[l].amount
                    /\ rec.accruedLateFee > loans[l].accruedLateFee
                         => Debt(rec) <= PenaltyMultiplier * loans[l].amount
                    /\ outstanding' = outstanding /\ idle' >= idle
                 \/ /\ rec.status = "Repaid"
                    /\ outstanding' = outstanding - loans[l].amount
<1> DEFINE loan  == loans[l]
           after == AfterRepayment(l, amount)
<1>1. /\ amount > 0 /\ l \in Present /\ loan.status = "Approved"
      /\ amount <= Debt(Owed(l)) /\ amount <= Circulating
      /\ \/ /\ after.status = "Approved"
            /\ SetLoan(l, after) /\ Pool!Receive(amount)
            /\ UNCHANGED <<loanCount, escrow>>
         \/ /\ CountDown(loan.borrower)
            /\ Pool!ReceiveAndSettle(amount, after.amount)
            /\ SetLoan(l, Closed(after, "Repaid", 0))
            /\ escrow' = escrow - loan.collateral
      /\ ReportScore(loan.borrower)
      /\ UNCHANGED <<loanCounter, config, lmPaused, seized, nftPaused>>
  BY DEF Repay, RepaymentAccepted, PrincipalRetired
<1>2. amount \in Int /\ l \in Active
  BY <1>1, ManagerAssumption DEF Active
<1>3. LoanInv /\ LoansTyped /\ PoolInv /\ loan \in LoanRecord /\ loan.collateral \in Nat
      /\ loan.amount \in Nat \ {0} /\ loan.amount <= Supply
  BY <1>1, ManagerFacts, RunningFields, LoanFields
<1>4. /\ scoreOk' \in [Borrowers -> BOOLEAN] /\ seized' \in [Borrowers -> BOOLEAN]
      /\ nftPaused' \in BOOLEAN
  BY <1>1, <1>3, ScoreReported DEF LoansTyped
<1>5. amount \in 0 .. Debt(Owed(l))
  BY <1>1, <1>2, OwedSound
<1>6. /\ after \in LoanRecord /\ after.borrower = loan.borrower
      /\ after.amount = loan.amount /\ after.collateral = loan.collateral
      /\ after.status = "Approved"
           => /\ Running(after)
              /\ after.accruedLateFee > loan.accruedLateFee
                   => Debt(after) <= PenaltyMultiplier * loan.amount
  BY <1>2, <1>5, RepaymentSound
<1> HIDE DEF after
<1>7. CASE /\ after.status = "Approved"
           /\ SetLoan(l, after) /\ Pool!Receive(amount)
           /\ UNCHANGED <<loanCount, escrow>>
  <2>1. Sound(after) /\ Lending(after) = Lending(loan) /\ Lending(loan) \in Nat
        /\ TakesSlot(after) /\ TakesSlot(loan)
    BY <1>1, <1>3, <1>6, <1>7 DEF Sound, Lending, TakesSlot
  <2>2. LoanInv'
    <3>1. escrow' = escrow - loan.collateral + after.collateral
      BY <1>3, <1>6, <1>7, ManagerFacts
    <3> QED
      BY <1>1, <1>3, <1>4, <1>6, <1>7, <2>1, <3>1, OneLoanKeeps
  <2>3. PoolInv' /\ idle' = idle + amount /\ outstanding' = outstanding
    BY <1>2, <1>3, <1>7, PoolInvReceive
  <2>4. OutstandingCoversLoans'
    <3>1. /\ outstanding' \in Int
          /\ outstanding' >= outstanding - Lending(loan) + Lending(after)
      BY <2>1, <2>3, ManagerFacts
    <3> QED
      BY <1>1, <1>6, <1>7, <3>1, OneLoanCovers
  <2>5. TokensConserved' /\ idle' >= idle
    BY <1>1, <1>2, <1>7, <2>3, ManagerFacts DEF TokensConserved, Circulating
  <2>6. ManagerInv'
    BY <2>2, <2>3, <2>4, <2>5 DEF ManagerInv
  <2>7. Wrote(l, after)
    BY <1>1, <1>6, <1>7 DEF Wrote
  <2> QED
    BY <1>2, <1>6, <1>7, <2>3, <2>5, <2>6, <2>7, Zenon
<1>8. CASE /\ CountDown(loan.borrower)
           /\ Pool!ReceiveAndSettle(amount, after.amount)
           /\ SetLoan(l, Closed(after, "Repaid", 0))
           /\ escrow' = escrow - loan.collateral
  <2>1. idle + amount + escrow - loan.collateral <= Supply
    BY <1>1, <1>2, <1>3, ManagerFacts DEF Circulating
  <2>2. ManagerInv' /\ outstanding' = outstanding - loan.amount
    BY <1>1, <1>2, <1>4, <1>6, <1>8, <2>1, CloseOneKeeps
  <2>3. /\ Closed(after, "Repaid", 0) \in LoanRecord
        /\ Closed(after, "Repaid", 0).status = "Repaid"
    BY <1>6, ClosedRecord
  <2>4. Wrote(l, Closed(after, "Repaid", 0))
    BY <1>1, <1>8, <2>3 DEF Wrote
  <2> QED
    BY <1>2, <1>8, <2>2, <2>3, <2>4, Zenon
<1> QED
  BY <1>1, <1>7, <1>8 DEF after

(* What a liquidation pays out of the collateral is the collateral.        *)
LEMMA CollateralSpent ==
  ASSUME NEW collateral \in Nat, NEW debt \in Nat, NEW bonusBps \in Nat
  PROVE  LET recovered == Least(collateral, debt)
             bonus     == LiquidatorBonus(collateral, debt, bonusBps)
             refund    == Greatest(0, collateral - debt - bonus)
         IN  /\ recovered \in 0 .. debt /\ recovered <= collateral
             /\ recovered + bonus + refund = collateral
<1> DEFINE part == (collateral * bonusBps) \div BpsScale
<1>1. part \in Nat
  BY MulNat, DivNat, MathAssumption
<1> HIDE DEF part
<1>2. LiquidatorBonus(collateral, debt, bonusBps)
        = IF collateral >= debt
          THEN (IF part < collateral - debt THEN part ELSE collateral - debt) ELSE 0
  BY DEF LiquidatorBonus, Least, part
<1> QED
  BY <1>1, <1>2 DEF Least, Greatest

LEMMA LiquidateKeeps ==
  ASSUME ManagerInv, NEW l \in LoanIds, Liquidate(l)
  PROVE  /\ ManagerInv' /\ l \in Active
         /\ \E rec : Wrote(l, rec) /\ rec.status = "Liquidated"
         /\ outstanding' = outstanding - loans[l].amount
<1> DEFINE loan      == loans[l]
           owed      == Owed(l)
           recovered == Least(loan.collateral, Debt(owed))
           bonus     == LiquidatorBonus(loan.collateral, Debt(owed), config.bonus)
           refund    == Greatest(0, loan.collateral - Debt(owed) - bonus)
           after     == IF recovered <= 0 THEN owed ELSE ApplyPayment(owed, recovered)
<1>1. /\ l \in Present /\ loan.status = "Approved"
      /\ SetLoan(l, Closed(after, "Liquidated", 0))
      /\ CountDown(loan.borrower)
      /\ Pool!ReceiveAndSettle(recovered, after.amount)
      /\ escrow' = escrow - (recovered + bonus + refund)
      /\ UNCHANGED <<loanCounter, config, lmPaused, nftVars>>
  BY DEF Liquidate, PrincipalRetired
<1>2. l \in Active
  BY <1>1 DEF Active
<1>3. LoanInv /\ LoansTyped /\ loan \in LoanRecord /\ loan.collateral \in Nat
  BY <1>1, ManagerFacts, RunningFields, LoanFields
<1>4. Running(owed) /\ SameLoan(loan, owed) /\ Debt(owed) \in Nat
  BY <1>2, OwedSound
<1>5. config.bonus \in Nat
  BY <1>3, ConfigFields
<1>6. /\ recovered \in 0 .. Debt(owed) /\ recovered <= loan.collateral
      /\ recovered + bonus + refund = loan.collateral
  <2> DEFINE debt == Debt(owed)
             bps  == config.bonus
             held == loan.collateral
  <2>1. debt \in Nat /\ bps \in Nat /\ held \in Nat
    BY <1>3, <1>4, <1>5
  <2> HIDE DEF debt, bps, held
  <2>2. /\ Least(held, debt) \in 0 .. debt /\ Least(held, debt) <= held
        /\ Least(held, debt) + LiquidatorBonus(held, debt, bps)
             + Greatest(0, held - debt - LiquidatorBonus(held, debt, bps)) = held
    BY <2>1, CollateralSpent
  <2> QED
    BY <2>2 DEF debt, bps, held
<1> HIDE DEF recovered, bonus, refund, owed
<1>7. after \in LoanRecord /\ after.borrower = loan.borrower /\ after.amount = loan.amount
  <2>1. owed \in LoanRecord /\ owed.borrower = loan.borrower /\ owed.amount = loan.amount
    BY <1>4 DEF Running, SameLoan
  <2>2. /\ Running(ApplyPayment(owed, recovered))
        /\ SameLoan(owed, ApplyPayment(owed, recovered))
    BY <1>4, <1>6, ApplyPaymentSound
  <2> QED
    BY <2>1, <2>2 DEF Running, SameLoan
<1> HIDE DEF after
<1>8. escrow' = escrow - loan.collateral
  BY <1>1, <1>6, Zenon
<1>9. recovered \in Int /\ idle + recovered + escrow - loan.collateral <= Supply
  BY <1>3, <1>4, <1>6, ManagerFacts
<1>10. /\ scoreOk' \in [Borrowers -> BOOLEAN] /\ seized' \in [Borrowers -> BOOLEAN]
       /\ nftPaused' \in BOOLEAN /\ UNCHANGED <<loanCounter, config, lmPaused>>
  BY <1>1, <1>3 DEF LoansTyped, nftVars
<1>11. ManagerInv' /\ outstanding' = outstanding - loan.amount
  BY <1>1, <1>2, <1>7, <1>8, <1>9, <1>10, CloseOneKeeps
<1>12. /\ Closed(after, "Liquidated", 0) \in LoanRecord
       /\ Closed(after, "Liquidated", 0).status = "Liquidated"
  BY <1>7, ClosedRecord
<1>13. Wrote(l, Closed(after, "Liquidated", 0))
  BY <1>1, <1>12 DEF Wrote
<1> QED
  BY <1>2, <1>11, <1>12, <1>13

LEMMA ReturnedBound ==
  ASSUME NEW loan \in LoanRecord, Running(loan), NEW new \in Nat \ {0}
  PROVE  CollateralReturned(loan, new) \in 0 .. loan.collateral
<1> DEFINE held      == loan.collateral
           remaining == RemainingPrincipal(loan)
           part      == (held * (remaining - new)) \div remaining
<1>1. held \in Nat /\ remaining \in Nat
  BY LoanFields, DebtNat
<1> HIDE DEF held, remaining
<1>2. CASE new < remaining
  <2>1. remaining - new \in Nat /\ remaining \in Nat \ {0} /\ remaining - new <= remaining
    BY <1>1, <1>2
  <2>2. held * (remaining - new) \in Nat /\ held * (remaining - new) <= held * remaining
    BY <1>1, <2>1
  <2>3. part \in Nat /\ remaining * part <= held * (remaining - new)
    BY <2>1, <2>2, DivNat
  <2>4. part <= held
    <3> SUFFICES ASSUME part >= held + 1 PROVE FALSE
      BY <1>1, <2>3
    <3>1. remaining * part >= remaining * (held + 1)
      <4> HIDE DEF part
      <4> QED
        BY <1>1, <2>3
    <3>2. remaining * (held + 1) = held * remaining + remaining
      BY <1>1
    <3>3. remaining * part \in Nat /\ held * remaining \in Nat
      <4> HIDE DEF part
      <4> QED
        BY <1>1, <2>3, MulNat
    <3> HIDE DEF part
    <3> QED
      BY <1>1, <2>1, <2>2, <2>3, <3>1, <3>2, <3>3
  <2>5. CollateralReturned(loan, new) = part
    BY <1>2 DEF CollateralReturned, part, held, remaining
  <2> QED
    BY <1>1, <2>3, <2>4, <2>5 DEF held
<1>3. CASE ~(new < remaining)
  <2>1. CollateralReturned(loan, new) = 0
    BY <1>3 DEF CollateralReturned, remaining
  <2> QED
    BY <1>1, <2>1 DEF held
<1> QED
  BY <1>2, <1>3

LEMMA RateNat ==
  ASSUME LoansTyped, NEW quote \in QuotedRates
  PROVE  RateFor(quote) \in Nat
<1>1. quote \in Nat
  BY ManagerAssumption
<1> QED
  BY <1>1, ConfigFields DEF RateFor

(* The pool's part of a refinancing.                                       *)
LEMMA RefinanceMoves ==
  ASSUME ManagerInv, NEW l \in Active, NEW new \in Nat \ {0},
         LET remaining == RemainingPrincipal(loans[l])
         IN  \/ new > remaining /\ Pool!Disburse(new - remaining)
             \/ /\ new < remaining /\ remaining - new <= Circulating
                /\ Pool!ReceiveAndSettle(remaining - new, Excess(loans[l], new))
             \/ new = remaining /\ UNCHANGED poolVars
  PROVE  /\ PoolInv' /\ idle' + escrow <= Supply
         /\ idle' + outstanding' = idle + outstanding /\ idle' \in Int
         /\ outstanding' \in (outstanding + new - loans[l].amount) .. (outstanding + new)
         /\ outstanding' <= MaxInt
<1> DEFINE loan == loans[l]
           remaining == RemainingPrincipal(loan)
<1>1. /\ l \in Present /\ loan.status = "Approved" /\ LoanInv /\ LoansTyped /\ PoolInv
  BY ManagerFacts, IdsFinite, PresentLoans
<1>2. /\ remaining \in Nat /\ remaining <= loan.amount /\ loan.amount \in Nat
      /\ loan.amount <= outstanding
  <2>1. Running(loan) /\ loan \in LoanRecord
    BY <1>1, RunningFields
  <2>2. loan.principalPaid \in Nat /\ loan.amount \in Nat /\ loan.principalPaid <= loan.amount
    BY <2>1, LoanFields DEF Running
  <2> QED
    BY <2>2, ManagerFacts DEF RemainingPrincipal
<1>3. Excess(loan, new) = remaining - new
  BY DEF Excess
<1> HIDE DEF remaining
<1>4. CASE new > remaining /\ Pool!Disburse(new - remaining)
  <2> DEFINE more == new - remaining
  <2>1. more \in Int /\ Pool!Disburse(more)
    BY <1>2, <1>4
  <2> HIDE DEF more
  <2>2. /\ PoolInv' /\ idle' = idle - more /\ outstanding' = outstanding + more
        /\ outstanding + more <= MaxInt
    BY <1>1, <2>1, PoolInvDisburse
  <2> QED
    BY <1>2, <1>4, <2>2, ManagerFacts DEF more
<1>5. CASE /\ new < remaining /\ remaining - new <= Circulating
           /\ Pool!ReceiveAndSettle(remaining - new, Excess(loan, new))
  <2> DEFINE less == remaining - new
  <2>1. less \in Int /\ Pool!ReceiveAndSettle(less, less) /\ less <= Circulating
    BY <1>2, <1>3, <1>5
  <2> HIDE DEF less
  <2>2. /\ PoolInv' /\ idle' = idle + less
        /\ outstanding - less >= -MaxInt - 1 => outstanding' = outstanding - less
    BY <1>1, <2>1, PoolInvSettle
  <2>3. outstanding - less \in Nat /\ less \in Nat
    BY <1>2, <1>5, ManagerFacts DEF less
  <2>4. outstanding' = outstanding - less
    BY <2>1, <2>2, <2>3, ManagerFacts
  <2> QED
    BY <1>2, <1>5, <2>1, <2>2, <2>3, <2>4, ManagerFacts DEF less, Circulating
<1>6. CASE new = remaining /\ UNCHANGED poolVars
  <2>1. PoolInv' /\ idle' = idle /\ outstanding' = outstanding
    BY <1>1, <1>6, PoolUnchanged
  <2> QED
    BY <1>2, <1>6, <2>1, ManagerFacts
<1> QED
  BY <1>4, <1>5, <1>6 DEF remaining

LEMMA RefinanceKeeps ==
  ASSUME ManagerInv, NEW l \in LoanIds, NEW new \in Refinanced, NEW term \in Terms,
         NEW quote \in QuotedRates, RefinanceLoan(l, new, term, quote)
  PROVE  /\ ManagerInv' /\ l \in Active /\ new \in 1 .. Supply
         /\ \E rec : /\ Wrote(l, rec) /\ rec.status = "Approved" /\ rec.amount = new
                     /\ rec.accruedLateFee = 0
         /\ idle' + outstanding' = idle + outstanding
         /\ outstanding' \in (outstanding + new - loans[l].amount) .. (outstanding + new)
         /\ outstanding' <= MaxInt
<1> DEFINE loan      == loans[l]
           back      == CollateralReturned(loan, new)
           kept      == loan.collateral - back
           residual  == AccrueInterest(loan, ledger).residual
           due       == ledger + term
           rate      == RateFor(quote)
           rec       == [loan EXCEPT !.amount = new, !.principalPaid = 0,
                                     !.accruedInterest = 0, !.accruedLateFee = 0,
                                     !.residual = residual, !.collateral = kept,
                                     !.rate = rate, !.lastInterest = ledger,
                                     !.due = due, !.lastLateFee = due]
<1>1. /\ l \in Present /\ loan.status = "Approved" /\ new > 0 /\ loan.collateral >= new
      /\ escrow' = escrow - back
      /\ UNCHANGED <<loanCounter, loanCount, config, lmPaused, nftVars>>
  BY DEF RefinanceLoan
<1>2. SetLoan(l, rec)
  BY DEF RefinanceLoan
<1>3. l \in Active /\ new \in Nat \ {0}
  BY <1>1, ManagerAssumption DEF Active
<1>4. LoanInv /\ LoansTyped /\ loan \in LoanRecord /\ loan.collateral \in Nat
      /\ Running(loan) /\ loan.amount \in Nat \ {0}
  BY <1>1, ManagerFacts, RunningFields, LoanFields
<1>5. /\ PoolInv' /\ idle' + escrow <= Supply
      /\ idle' + outstanding' = idle + outstanding /\ idle' \in Int
      /\ outstanding' \in (outstanding + new - loan.amount) .. (outstanding + new)
      /\ outstanding' <= MaxInt
  <2>1. LET remaining == RemainingPrincipal(loan)
        IN  \/ new > remaining /\ Pool!Disburse(new - remaining)
            \/ /\ new < remaining /\ remaining - new <= Circulating
               /\ Pool!ReceiveAndSettle(remaining - new, Excess(loan, new))
            \/ new = remaining /\ UNCHANGED poolVars
    BY DEF RefinanceLoan
  <2> QED
    BY <1>3, <2>1, RefinanceMoves
<1>6. back \in 0 .. loan.collateral
  BY <1>3, <1>4, ReturnedBound
<1>7. residual \in Nat
  <2>1. ledger \in Nat
    BY ManagerFacts
  <2>2. Running(AccrueInterest(loan, ledger))
    BY <1>4, <2>1, AccrueInterestSound
  <2>3. AccrueInterest(loan, ledger) \in LoanRecord
    BY <2>2 DEF Running
  <2> QED
    BY <2>3, LoanFields
<1>8. kept \in Nat /\ due \in Nat /\ rate \in Nat /\ ledger \in Nat
  <2>1. term \in Nat /\ ledger \in Nat
    BY ManagerAssumption, ManagerFacts
  <2> HIDE DEF back
  <2> QED
    BY <1>4, <1>6, <2>1, RateNat
<1> HIDE DEF back, kept, residual, due, rate
<1>9. /\ rec \in LoanRecord /\ rec.status = "Approved" /\ rec.borrower = loan.borrower
      /\ rec.amount = new /\ rec.collateral = kept /\ rec.principalPaid = 0
      /\ rec.term = loan.term /\ rec.accruedLateFee = 0
  BY <1>1, <1>3, <1>4, <1>7, <1>8 DEF LoanRecord
<1> HIDE DEF rec
<1>10. new \in 1 .. Supply
  BY <1>1, <1>3, <1>4, ManagerFacts
<1>11. Sound(rec) /\ Lending(rec) = new /\ Lending(loan) = loan.amount
       /\ (TakesSlot(rec) <=> TakesSlot(loan))
  BY <1>1, <1>3, <1>4, <1>9, <1>10 DEF Sound, Running, Lending, TakesSlot
<1>12. LoanInv'
  <2>1. escrow' = escrow - loan.collateral + rec.collateral
    BY <1>1, <1>4, <1>6, <1>9, ManagerFacts DEF kept
  <2> QED
    BY <1>1, <1>2, <1>4, <1>9, <1>11, <2>1, OneLoanKeeps DEF LoansTyped, nftVars
<1>13. OutstandingCoversLoans'
  <2>1. /\ outstanding' \in Int
        /\ outstanding' >= outstanding - Lending(loan) + Lending(rec)
    BY <1>3, <1>4, <1>5, <1>11, ManagerFacts
  <2> QED
    BY <1>1, <1>2, <1>9, <2>1, OneLoanCovers
<1>14. TokensConserved'
  BY <1>1, <1>5, <1>6, <1>4, ManagerFacts DEF TokensConserved
<1>15. Wrote(l, rec)
  BY <1>1, <1>2, <1>9 DEF Wrote
<1> QED
  BY <1>3, <1>5, <1>9, <1>10, <1>12, <1>13, <1>14, <1>15 DEF ManagerInv

LEMMA PurgeKeeps ==
  ASSUME ManagerInv, NEW l \in LoanIds, PurgeLoan(l)
  PROVE  /\ ManagerInv' /\ Active' = Active /\ UNCHANGED <<idle, outstanding>>
         /\ \A k \in Active : loans'[k] = loans[k]
<1> DEFINE loan == loans[l]
<1>1. /\ l \in Present /\ loan.status \in {"Repaid", "Cancelled", "Rejected"}
      /\ SetLoan(l, NoLoan) /\ escrow' = escrow - loan.collateral
      /\ IF HoldsSlot(loan) THEN CountDown(loan.borrower) ELSE UNCHANGED loanCount
      /\ UNCHANGED <<loanCounter, config, lmPaused, nftVars, poolVars>>
  BY DEF PurgeLoan
<1>2. /\ LoanInv /\ LoansTyped /\ loan \in LoanRecord /\ loan.collateral \in Nat
      /\ l \in LoanIds /\ LoanCountExact
  BY <1>1, ManagerFacts, PresentLoans, LoanFields DEF LoanInv
<1>3. /\ loans' \in [LoanIds -> LoanRecord \cup {NoLoan}]
      /\ loans'[l] = NoLoan /\ \A k \in LoanIds \ {l} : loans'[k] = loans[k]
  BY <1>1, <1>2 DEF LoansTyped, SetLoan
<1>4. Present' = Present \ {l}
  BY <1>3 DEF Present
<1>5. Active' = Active /\ Active \subseteq Present'
  BY <1>1, <1>3, <1>4, IdsFinite DEF Active
<1>6. Total(Present', Collateral') = escrow - loan.collateral
  <2> DEFINE others == Present \ {l}
  <2>1. \A k \in others : Collateral'[k] = Collateral[k]
    BY <1>3, <1>4, IdsFinite DEF Collateral
  <2>2. \A k \in Present : Collateral[k] \in Nat
    BY <1>2, PresentLoans
  <2>3. Total(others, Collateral') = Total(others, Collateral)
    BY <2>1, TotalSame
  <2>4. Total(Present \ {l}, Collateral) = Total(Present, Collateral) - Total({l}, Collateral)
    BY <1>1, <2>2, IdsFinite, TotalRemove
  <2>5. Total({l}, Collateral) = Collateral[l]
    BY <1>1, <2>2, TotalOne
  <2>6. Collateral[l] = loan.collateral /\ escrow = Total(Present, Collateral)
    BY <1>1, <1>2, PresentLoans DEF LoanInv, EscrowIsCollateral
  <2>7. Total(Present', Collateral') = Total(others, Collateral')
    BY <1>4, Zenon
  <2> QED
    BY <2>3, <2>4, <2>5, <2>6, <2>7
<1>7. escrow' \in Nat /\ EscrowIsCollateral'
  BY <1>1, <1>2, <1>6, ManagerFacts DEF EscrowIsCollateral
<1>8. LoanCountExact' /\ loanCount' \in [Borrowers -> Nat]
  <2>1. \A b \in Borrowers : SlotsOf(b)' = SlotsOf(b) \ {l}
    <3>1. ASSUME NEW b \in Borrowers
          PROVE  SlotsOf(b)' = {k \in Present' : loans'[k].borrower = b /\ TakesSlot(loans'[k])}
      BY DEF SlotsOf, TakesSlot
    <3>2. \A k \in Present' : loans'[k] = loans[k]
      BY <1>3, <1>4, IdsFinite
    <3> QED
      BY <1>4, <3>1, <3>2 DEF SlotsOf
  <2>2. CASE HoldsSlot(loan)
    <3>1. TakesSlot(loan) /\ CountDown(loan.borrower)
      BY <1>1, <2>2 DEF HoldsSlot, TakesSlot
    <3> QED
      BY <1>1, <1>2, <2>1, <3>1, CountedDown
  <2>3. CASE ~HoldsSlot(loan)
    <3>1. loanCount' = loanCount /\ ~TakesSlot(loan)
      BY <1>1, <2>3 DEF HoldsSlot, TakesSlot
    <3>2. ASSUME NEW b \in Borrowers
          PROVE  loanCount'[b] = Cardinality(SlotsOf(b)')
      <4>1. SlotsOf(b)' = SlotsOf(b)
        BY <2>1, <3>1 DEF SlotsOf
      <4>2. loanCount[b] = Cardinality(SlotsOf(b))
        BY <1>2, CountIsSlots
      <4> QED
        BY <3>1, <4>1, <4>2, Zenon
    <3> QED
      BY <1>2, <3>1, <3>2 DEF LoanCountExact, SlotsOf, TakesSlot, LoansTyped
  <2> QED
    BY <2>2, <2>3
<1>9. LoansTyped'
  BY <1>1, <1>2, <1>3, <1>7, <1>8 DEF LoansTyped, nftVars
<1>10. FreshIds' /\ LiveLoans'
  BY <1>1, <1>2, <1>3, <1>4 DEF LoanInv, FreshIds, LiveLoans, Sound, LoansTyped, Present
<1>11. PoolInv' /\ TokensConserved' /\ outstanding' = outstanding /\ idle' = idle
  BY <1>1, PaidFromEscrow
<1>12. \A k \in Active : loans'[k] = loans[k]
  BY <1>1, <1>3, IdsFinite DEF Active
<1>13. OutstandingCoversLoans'
  <2>1. \A k \in Active : Amount'[k] = Amount[k]
    BY <1>5, <1>12, IdsFinite DEF Amount
  <2>2. Total(Active, Amount') = Total(Active, Amount)
    BY <2>1, TotalSame
  <2>3. outstanding >= Total(Active, Amount)
    BY ManagerFacts
  <2>4. outstanding' >= Total(Active', Amount')
    BY <1>5, <1>11, <2>2, <2>3, Zenon
  <2> QED
    BY <2>4 DEF OutstandingCoversLoans
<1> QED
  BY <1>5, <1>7, <1>8, <1>9, <1>10, <1>11, <1>12, <1>13 DEF ManagerInv, LoanInv

LEMMA RequestKeeps ==
  ASSUME ManagerInv, NEW b \in Borrowers, NEW amount \in Principals, NEW term \in Terms,
         NEW quote \in QuotedRates, RequestLoan(b, amount, term, quote)
  PROVE  /\ ManagerInv' /\ Active' = Active /\ UNCHANGED <<idle, outstanding>>
         /\ \A k \in Active : loans'[k] = loans[k]
<1> DEFINE l    == loanCounter + 1
           rate == RateFor(quote)
           new  == [borrower |-> b, amount |-> amount, collateral |-> 0,
                    principalPaid |-> 0, accruedInterest |-> 0, accruedLateFee |-> 0,
                    rate |-> rate, due |-> 0, lastInterest |-> 0, lastLateFee |-> 0,
                    status |-> "Pending", residual |-> 0, extensions |-> 0,
                    term |-> term]
<1>1. /\ amount > 0 /\ term # 0 /\ loanCounter < MaxLoans
      /\ loanCounter' = loanCounter + 1
      /\ SetLoan(l, new) /\ CountUp(b)
      /\ UNCHANGED <<escrow, config, lmPaused, nftVars, poolVars>>
  BY DEF RequestLoan
<1>2. LoanInv /\ LoansTyped /\ LoanCountExact /\ loanCounter \in Nat
  BY ManagerFacts DEF LoanInv, LoansTyped
<1>3. l \in LoanIds /\ l \notin Present /\ loans[l] = NoLoan
  <2>1. l \in LoanIds /\ l > loanCounter
    BY <1>1, <1>2, ManagerAssumption DEF LoanIds
  <2>2. loans[l] = NoLoan
    BY <1>2, <2>1 DEF LoanInv, FreshIds
  <2> QED
    BY <2>1, <2>2 DEF Present
<1>4. /\ new \in LoanRecord /\ new.status = "Pending" /\ new.borrower = b
      /\ new.collateral = 0 /\ Running(new)
  <2>1. amount \in Nat \ {0} /\ term \in Nat \ {0} /\ rate \in Nat
    BY <1>1, <1>2, ManagerAssumption, RateNat
  <2>2. 0 \in 0 .. MaxExtensions
    BY ManagerAssumption
  <2> HIDE DEF rate
  <2> QED
    BY <2>1, <2>2 DEF LoanRecord, Running
<1> HIDE DEF new
<1>5. /\ loans' \in [LoanIds -> LoanRecord \cup {NoLoan}]
      /\ loans'[l] = new /\ \A k \in LoanIds \ {l} : loans'[k] = loans[k]
  BY <1>1, <1>2, <1>3, <1>4 DEF LoansTyped, SetLoan
<1>6. Present' = Present \cup {l} /\ \A k \in Present : k # l /\ loans'[k] = loans[k]
  BY <1>3, <1>4, <1>5, LoanFields, IdsFinite DEF Present
<1>7. Active' = Active
  BY <1>4, <1>5, <1>6, IdsFinite DEF Active
<1>8. Total(Present', Collateral') = escrow
  <2>1. \A k \in Present : Collateral'[k] = Collateral[k] /\ Collateral[k] \in Nat
    BY <1>2, <1>6, PresentLoans DEF Collateral
  <2>2. Collateral'[l] = 0
    BY <1>4, <1>5, <1>6 DEF Collateral
  <2>3. Total(Present, Collateral') = Total(Present, Collateral)
    BY <2>1, TotalSame
  <2>4. Total(Present \cup {l}, Collateral') = Total(Present, Collateral') + Collateral'[l]
    <3>1. \A k \in Present \cup {l} : Collateral'[k] \in Nat
      BY <2>1, <2>2
    <3> HIDE DEF l
    <3> QED
      BY <1>3, <3>1, IdsFinite, TotalAdd
  <2>5. escrow = Total(Present, Collateral) /\ escrow \in Nat
    BY <1>2 DEF LoanInv, EscrowIsCollateral, LoansTyped
  <2>6. Total(Present', Collateral') = Total(Present \cup {l}, Collateral')
    BY <1>6, Zenon
  <2> HIDE DEF l
  <2> QED
    BY <2>2, <2>3, <2>4, <2>5, <2>6
<1>9. EscrowIsCollateral'
  BY <1>1, <1>8 DEF EscrowIsCollateral
<1>10. LoanCountExact' /\ loanCount' \in [Borrowers -> Nat]
  <2>1. ASSUME NEW c \in Borrowers
        PROVE  /\ c # b => SlotsOf(c)' = SlotsOf(c)
               /\ c = b => SlotsOf(c)' = SlotsOf(c) \cup {l}
    <3>1. SlotsOf(c)' = {k \in Present' : loans'[k].borrower = c /\ TakesSlot(loans'[k])}
      BY DEF SlotsOf, TakesSlot
    <3>2. TakesSlot(new)
      BY <1>4 DEF TakesSlot
    <3> HIDE DEF l
    <3> QED
      BY <1>4, <1>5, <1>6, <3>1, <3>2 DEF SlotsOf
  <2>2. ASSUME NEW c \in Borrowers
        PROVE  loanCount'[c] = Cardinality(SlotsOf(c)') /\ loanCount'[c] \in Nat
    <3>1. loanCount[c] = Cardinality(SlotsOf(c)) /\ loanCount[c] \in Nat
      BY <1>2, CountIsSlots DEF LoansTyped
    <3>2. CASE c # b
      <4>1. loanCount'[c] = loanCount[c] /\ SlotsOf(c)' = SlotsOf(c)
        BY <1>1, <1>2, <2>1, <3>2 DEF CountUp, LoansTyped
      <4> QED
        BY <3>1, <4>1, Zenon
    <3>3. CASE c = b
      <4>1. loanCount'[c] = loanCount[c] + 1 /\ SlotsOf(c)' = SlotsOf(c) \cup {l}
        BY <1>1, <1>2, <2>1, <3>3 DEF CountUp, LoansTyped
      <4>2. l \notin SlotsOf(c)
        BY <1>3 DEF SlotsOf
      <4>3. Cardinality(SlotsOf(c) \cup {l}) = Cardinality(SlotsOf(c)) + 1
        <5> HIDE DEF l
        <5>1. Cardinality(SlotsOf(c) \cup {l})
                = IF l \in SlotsOf(c) THEN Cardinality(SlotsOf(c))
                                      ELSE Cardinality(SlotsOf(c)) + 1
          BY IdsFinite, FS_AddElement
        <5> QED
          BY <4>2, <5>1, Zenon
      <4>4. loanCount'[c] = Cardinality(SlotsOf(c)')
        BY <3>1, <4>1, <4>3, Zenon
      <4> QED
        BY <3>1, <4>1, <4>4
    <3> QED
      BY <3>2, <3>3
  <2>3. loanCount' = [c \in Borrowers |-> loanCount'[c]]
    BY <1>1, <1>2 DEF CountUp, LoansTyped
  <2>4. loanCount' \in [Borrowers -> Nat]
    BY <2>2, <2>3
  <2>5. \A c \in Borrowers : loanCount'[c] = Cardinality(SlotsOf(c)')
    BY <2>2
  <2> QED
    BY <2>4, <2>5 DEF LoanCountExact, SlotsOf, TakesSlot
<1>11. LoansTyped'
  <2>1. loanCounter' \in 0 .. MaxLoans
    BY <1>1, <1>2, ManagerAssumption DEF LoansTyped
  <2> QED
    BY <1>1, <1>2, <1>5, <1>10, <2>1 DEF LoansTyped, nftVars
<1>12. FreshIds' /\ LiveLoans'
  <2>1. FreshIds'
    BY <1>1, <1>2, <1>5 DEF LoanInv, FreshIds, LoanIds
  <2>2. Sound(new) /\ \A k \in Present : Sound(loans[k])
    BY <1>2, <1>4 DEF LoanInv, LiveLoans, Sound
  <2>3. \A k \in Present' : Sound(loans'[k])
    <3> HIDE DEF l
    <3> QED
      BY <1>5, <1>6, <2>2
  <2> QED
    BY <2>1, <2>3 DEF LiveLoans, Sound
<1>13. PoolInv' /\ outstanding' = outstanding /\ idle' = idle
  BY <1>1, ManagerFacts, PoolUnchanged
<1>14. TokensConserved'
  BY <1>1, <1>13, ManagerFacts DEF TokensConserved
<1>15. \A k \in Active : loans'[k] = loans[k]
  BY <1>6, IdsFinite
<1>16. OutstandingCoversLoans'
  <2>1. \A k \in Active : Amount'[k] = Amount[k]
    BY <1>6, <1>15, IdsFinite DEF Amount
  <2>2. Total(Active, Amount') = Total(Active, Amount)
    BY <2>1, TotalSame
  <2>3. outstanding >= Total(Active, Amount)
    BY ManagerFacts
  <2>4. outstanding' >= Total(Active', Amount')
    BY <1>7, <1>13, <2>2, <2>3, Zenon
  <2> QED
    BY <2>4 DEF OutstandingCoversLoans
<1> QED
  BY <1>7, <1>9, <1>10, <1>11, <1>12, <1>13, <1>14, <1>15, <1>16 DEF ManagerInv, LoanInv

Hit(batch) == {l \in batch : Defaultable(l)}

LEMMA DefaultsKeep ==
  ASSUME ManagerInv, NEW batch \in SUBSET LoanIds, CheckDefaults(batch)
  PROVE  /\ ManagerInv'
         /\ Hit(batch) # {} /\ Hit(batch) \subseteq Active
         /\ Active' = Active \ Hit(batch)
         /\ \A k \in LoanIds \ Hit(batch) : loans'[k] = loans[k]
         /\ \A k \in Hit(batch) : loans'[k] # NoLoan /\ loans'[k].status = "Defaulted"
         /\ loanCounter' = loanCounter
         /\ outstanding' = outstanding - Total(Hit(batch), Amount)
<1> DEFINE hit      == Hit(batch)
           proceeds == Total(hit, Collateral)
           Retired  == [l \in hit |-> PrincipalRetired(loans[l], 0)]
           closed(b) == Cardinality({l \in hit : loans[l].borrower = b})
<1>1. /\ hit # {}
      /\ loans' = [l \in LoanIds |->
                     IF l \in hit THEN Closed(loans[l], "Defaulted", 0) ELSE loans[l]]
      /\ loanCount' = [b \in Borrowers |-> Greatest(0, loanCount[b] - closed(b))]
      /\ escrow' = escrow - proceeds
      /\ Pool!ReceiveAndSettle(proceeds, Total(hit, Retired))
      /\ UNCHANGED <<loanCounter, config, lmPaused, nftPaused>>
  BY DEF CheckDefaults, Hit
<1>2. scoreOk' \in [Borrowers -> BOOLEAN] /\ seized' \in [Borrowers -> BOOLEAN]
  <2>1. scoreOk \in [Borrowers -> BOOLEAN] /\ seized \in [Borrowers -> BOOLEAN]
    BY DEF ManagerInv, LoanInv, LoansTyped
  <2> DEFINE losers == IF "reports" \in Switches
                       THEN {loans[l].borrower : l \in Hit(batch)} ELSE {}
  <2>2. PICK reported \in SUBSET losers, scored \in SUBSET losers :
          /\ seized' = [b \in Borrowers |-> seized[b] \/ b \in reported]
          /\ \E ok \in [scored -> BOOLEAN] :
               scoreOk' = [b \in Borrowers |-> IF b \in scored THEN ok[b] ELSE scoreOk[b]]
    BY DEF CheckDefaults, Hit
  <2> HIDE DEF losers
  <2> QED
    BY <2>1, <2>2
<1>3. LoanInv /\ LoansTyped /\ PoolInv
  BY ManagerFacts
<1>4. hit \subseteq Active /\ Active \subseteq Present /\ Present \subseteq LoanIds
      /\ IsFiniteSet(hit)
  <2>1. hit \subseteq Active
    BY DEF Hit, Defaultable, Active
  <2> QED
    BY <2>1, IdsFinite, FS_Subset
<1> HIDE DEF hit
<1>5. ASSUME NEW k \in hit
      PROVE  /\ loans'[k] \in LoanRecord /\ loans'[k] # NoLoan
             /\ loans'[k].status = "Defaulted" /\ loans'[k].collateral = 0
             /\ Sound(loans'[k]) /\ ~TakesSlot(loans'[k])
  <2>1. loans'[k] = Closed(loans[k], "Defaulted", 0) /\ loans[k] \in LoanRecord
    BY <1>1, <1>3, <1>4, PresentLoans
  <2>2. /\ Closed(loans[k], "Defaulted", 0) \in LoanRecord
        /\ Closed(loans[k], "Defaulted", 0).status = "Defaulted"
        /\ Closed(loans[k], "Defaulted", 0).collateral = 0
        /\ Sound(Closed(loans[k], "Defaulted", 0))
        /\ ~TakesSlot(Closed(loans[k], "Defaulted", 0))
    BY <2>1, ClosedRecord
  <2>3. /\ loans'[k] \in LoanRecord /\ loans'[k].status = "Defaulted"
        /\ loans'[k].collateral = 0 /\ Sound(loans'[k]) /\ ~TakesSlot(loans'[k])
    BY <2>1, <2>2, Zenon
  <2> QED
    BY <2>3, LoanFields
<1>6. \A k \in LoanIds \ hit : loans'[k] = loans[k]
  BY <1>1
<1>7. Present' = Present
  BY <1>4, <1>5, <1>6 DEF Present
<1>8. Active' = Active \ hit
  BY <1>4, <1>5, <1>6, <1>7 DEF Active
<1>9. /\ \A k \in Present : Collateral[k] \in Nat /\ Amount[k] \in Nat
      /\ \A k \in Present : Amount[k] = loans[k].amount
  BY <1>3, PresentLoans
<1>10. proceeds \in Nat /\ Total(hit, Amount) \in Nat
  <2>1. \A k \in hit : Collateral[k] \in Nat /\ Amount[k] \in Nat
    BY <1>4, <1>9
  <2> QED
    BY <2>1, <1>4, TotalNat
<1>11. Total(hit, Retired) = Total(hit, Amount)
  <2>1. \A k \in hit : Retired[k] = Amount[k]
    BY <1>4, <1>9 DEF PrincipalRetired
  <2> HIDE DEF Retired
  <2> QED
    BY <2>1, TotalSame
<1>12. /\ Total(Present \ hit, Collateral) = escrow - proceeds
       /\ Total(Present \ hit, Collateral) \in Nat
  <2>1. hit \in SUBSET Present /\ \A k \in Present : Collateral[k] \in Nat
    BY <1>4, <1>9
  <2>2. Total(Present \ hit, Collateral) = Total(Present, Collateral) - proceeds
    BY <2>1, IdsFinite, TotalRemove
  <2>3. IsFiniteSet(Present \ hit) /\ \A k \in Present \ hit : Collateral[k] \in Nat
    BY <2>1, IdsFinite, FS_Subset
  <2>4. Total(Present \ hit, Collateral) \in Nat
    BY <2>3, TotalNat
  <2> QED
    BY <1>3, <2>2, <2>4 DEF LoanInv, EscrowIsCollateral
<1>13. Total(Present', Collateral') = Total(Present \ hit, Collateral)
  <2> DEFINE rest == Present \ hit
  <2>1. \A k \in rest : Collateral'[k] = Collateral[k]
    BY <1>4, <1>6, <1>7 DEF Collateral
  <2>2. \A k \in hit : Collateral'[k] = 0
    BY <1>4, <1>5, <1>7 DEF Collateral
  <2>3. /\ IsFiniteSet(rest) /\ rest \cap hit = {} /\ rest \cup hit = Present
        /\ \A k \in rest \cup hit : Collateral'[k] \in Nat
    BY <1>4, <1>9, <2>1, <2>2, IdsFinite, FS_Subset
  <2>4. Total(rest, Collateral') = Total(rest, Collateral)
    BY <2>1, TotalSame
  <2>5. Total(hit, Collateral') = 0
    <3>1. Units(hit, Collateral') = {}
      BY <2>2 DEF Units
    <3> QED
      BY <3>1, FS_EmptySet DEF Total
  <2> HIDE DEF rest
  <2>6. Total(rest \cup hit, Collateral') = Total(rest, Collateral') + Total(hit, Collateral')
    BY <1>4, <2>3, TotalDisjoint
  <2>7. Total(Present', Collateral') = Total(rest \cup hit, Collateral')
    BY <1>7, <2>3, Zenon
  <2>8. Total(rest, Collateral) \in Nat
    BY <1>12 DEF rest
  <2>9. Total(Present', Collateral') = Total(rest, Collateral)
    BY <2>4, <2>5, <2>6, <2>7, <2>8
  <2> QED
    BY <2>9 DEF rest
<1>14. escrow' \in Nat /\ EscrowIsCollateral'
  <2>1. escrow' = Total(Present', Collateral') /\ escrow' \in Nat
    BY <1>1, <1>12, <1>13, Zenon
  <2> QED
    BY <2>1 DEF EscrowIsCollateral
<1> HIDE DEF proceeds, Retired
<1>15. /\ PoolInv' /\ idle' = idle + proceeds
       /\ outstanding - Total(hit, Amount) >= -MaxInt - 1
            => outstanding' = outstanding - Total(hit, Amount)
  <2>1. Pool!ReceiveAndSettle(proceeds, Total(hit, Amount))
    BY <1>1, <1>11, Zenon
  <2>2. proceeds \in Int /\ Total(hit, Amount) \in Int
    BY <1>10
  <2> QED
    BY <1>3, <2>1, <2>2, PoolInvSettle
<1>16. /\ Total(Active \ hit, Amount) = Total(Active, Amount) - Total(hit, Amount)
       /\ Total(Active \ hit, Amount) \in Nat
  <2>1. hit \in SUBSET Active /\ \A k \in Active : Amount[k] \in Nat
    BY <1>4, <1>9
  <2>2. Total(Active \ hit, Amount) = Total(Active, Amount) - Total(hit, Amount)
    BY <2>1, IdsFinite, TotalRemove
  <2>3. IsFiniteSet(Active \ hit) /\ \A k \in Active \ hit : Amount[k] \in Nat
    BY <2>1, IdsFinite, FS_Subset
  <2> QED
    BY <2>2, <2>3, TotalNat
<1>17. outstanding' = outstanding - Total(hit, Amount)
  <2>1. Total(Active, Amount) \in Nat
    BY <1>3, TotalsNat
  <2> QED
    BY <1>10, <1>15, <1>16, <2>1, ManagerFacts
<1>18. OutstandingCoversLoans'
  <2>1. \A k \in Active \ hit : Amount'[k] = Amount[k]
    BY <1>4, <1>6, <1>7 DEF Amount
  <2>2. Total(Active \ hit, Amount') = Total(Active \ hit, Amount)
    BY <2>1, TotalSame
  <2>3. Total(Active', Amount') = Total(Active \ hit, Amount')
    BY <1>8, Zenon
  <2>4. Total(Active, Amount) \in Nat
    BY <1>3, TotalsNat
  <2>5. outstanding' >= Total(Active', Amount')
    BY <1>10, <1>16, <1>17, <2>2, <2>3, <2>4, ManagerFacts
  <2> QED
    BY <2>5 DEF OutstandingCoversLoans
<1>19. TokensConserved'
  BY <1>1, <1>10, <1>15, ManagerFacts DEF TokensConserved
<1>20. LoanCountExact' /\ loanCount' \in [Borrowers -> Nat]
  <2>1. ASSUME NEW b \in Borrowers
        PROVE  SlotsOf(b)' = SlotsOf(b) \ hit
    <3>1. SlotsOf(b)' = {k \in Present : loans'[k].borrower = b /\ TakesSlot(loans'[k])}
      BY <1>7 DEF SlotsOf, TakesSlot
    <3> QED
      BY <1>4, <1>5, <1>6, <3>1 DEF SlotsOf
  <2>2. ASSUME NEW b \in Borrowers
        PROVE  loanCount'[b] = Cardinality(SlotsOf(b)') /\ loanCount'[b] \in Nat
    <3>1. loanCount[b] = Cardinality(SlotsOf(b)) /\ loanCount[b] \in Nat
      BY <1>3, CountIsSlots DEF LoanInv, LoansTyped
    <3>2. {l \in hit : loans[l].borrower = b} = SlotsOf(b) \cap hit
      BY <1>4 DEF SlotsOf, TakesSlot, Active
    <3>3. closed(b) = Cardinality(SlotsOf(b) \cap hit)
      BY <3>2, Zenon
    <3>4. Cardinality(SlotsOf(b) \ hit) = Cardinality(SlotsOf(b)) - Cardinality(SlotsOf(b) \cap hit)
      BY IdsFinite, FS_Difference
    <3>5. Cardinality(SlotsOf(b) \ hit) \in Nat /\ Cardinality(SlotsOf(b) \cap hit) \in Nat
      <4>1. IsFiniteSet(SlotsOf(b) \ hit) /\ IsFiniteSet(SlotsOf(b) \cap hit)
        BY IdsFinite, FS_Subset
      <4> QED
        BY <4>1, FS_CardinalityType
    <3>6. loanCount'[b] = Greatest(0, loanCount[b] - closed(b))
      BY <1>1
    <3> HIDE DEF closed
    <3>7. loanCount'[b] = Cardinality(SlotsOf(b) \ hit)
      BY <3>1, <3>3, <3>4, <3>5, <3>6 DEF Greatest
    <3> QED
      BY <2>1, <3>5, <3>7, Zenon
  <2>3. loanCount' = [b \in Borrowers |-> loanCount'[b]]
    <3> HIDE DEF closed
    <3> QED
      BY <1>1
  <2>4. loanCount' \in [Borrowers -> Nat]
    BY <2>2, <2>3
  <2>5. \A b \in Borrowers : loanCount'[b] = Cardinality(SlotsOf(b)')
    BY <2>2
  <2> QED
    BY <2>4, <2>5 DEF LoanCountExact, SlotsOf, TakesSlot
<1>21. loans' \in [LoanIds -> LoanRecord \cup {NoLoan}]
  <2>1. \A k \in LoanIds : loans'[k] \in LoanRecord \cup {NoLoan}
    BY <1>3, <1>5, <1>6 DEF LoansTyped
  <2>2. loans' = [k \in LoanIds |-> loans'[k]]
    BY <1>1
  <2> QED
    BY <2>1, <2>2
<1>22. LoansTyped'
  BY <1>1, <1>2, <1>3, <1>14, <1>20, <1>21 DEF LoansTyped
<1>23. FreshIds'
  <2>1. \A k \in hit : k <= loanCounter
    BY <1>3, <1>4 DEF LoanInv, FreshIds, LoansTyped, Present, LoanIds
  <2> QED
    BY <1>1, <1>3, <1>6, <2>1 DEF LoanInv, FreshIds, LoansTyped, LoanIds
<1>24. LiveLoans'
  <2>1. \A k \in Present : Sound(loans'[k])
    BY <1>3, <1>4, <1>5, <1>6 DEF LoanInv, LiveLoans
  <2> QED
    BY <1>7, <2>1 DEF LiveLoans, Sound
<1>25. ManagerInv'
  BY <1>14, <1>15, <1>18, <1>19, <1>20, <1>22, <1>23, <1>24 DEF ManagerInv, LoanInv
<1> QED
  BY <1>1, <1>4, <1>5, <1>6, <1>8, <1>17, <1>25 DEF hit

------------------------------------------------------------------------------
(***************************************************************************)
(* The steps that leave the loans alone.                                   *)
(***************************************************************************)
LEMMA LoansUntouched ==
  ASSUME LoanInv, UNCHANGED loanVars, config' \in ConfigRecord, lmPaused' \in BOOLEAN,
         scoreOk' \in [Borrowers -> BOOLEAN], seized' \in [Borrowers -> BOOLEAN],
         nftPaused' \in BOOLEAN
  PROVE  /\ LoanInv' /\ Active' = Active /\ Total(Active, Amount)' = Total(Active, Amount)
         /\ UNCHANGED <<loans, loanCounter, escrow>>
<1>1. /\ loans' = loans /\ loanCounter' = loanCounter /\ loanCount' = loanCount
      /\ escrow' = escrow
  BY DEF loanVars
<1>2. Present' = Present /\ Active' = Active
  BY <1>1 DEF Present, Active
<1>3. Amount' = Amount /\ Collateral' = Collateral
  BY <1>1, <1>2 DEF Amount, Collateral
<1>4. LoansTyped' /\ FreshIds' /\ LiveLoans'
  BY <1>1, <1>2 DEF LoanInv, LoansTyped, FreshIds, LiveLoans, Sound
<1>5. EscrowIsCollateral'
  <2>1. escrow' = Total(Present', Collateral')
    BY <1>1, <1>2, <1>3 DEF LoanInv, EscrowIsCollateral
  <2> QED
    BY <2>1 DEF EscrowIsCollateral
<1>6. LoanCountExact'
  BY <1>1, <1>2 DEF LoanInv, LoanCountExact
<1>7. Total(Active, Amount)' = Total(Active, Amount)
  BY <1>2, <1>3, Zenon
<1> QED
  BY <1>1, <1>2, <1>4, <1>5, <1>6, <1>7 DEF LoanInv

LEMMA SettingsTyped ==
  /\ Settings.lateFeeRate \subseteq Nat /\ Settings.threshold \subseteq Nat
  /\ Settings.bonus \subseteq Nat /\ Settings.maxAmount \subseteq Int
  /\ Settings.minRepayment \subseteq Int /\ Settings.maxLoans \subseteq Nat
  /\ Settings.rate \subseteq Nat /\ Settings.minRate \subseteq Nat
  /\ Settings.maxRate \subseteq Nat /\ Settings.minTerm \subseteq Nat
  /\ Settings.maxTerm \subseteq Nat /\ Settings.grace \subseteq Nat
  /\ Settings.window \subseteq Nat
<1>1. Settings \in SettingsRecord
  BY ManagerAssumption
<1> QED
  BY <1>1 DEF SettingsRecord

LEMMA AdminTyped ==
  ASSUME LoansTyped, AdminNext
  PROVE  /\ config' \in ConfigRecord /\ lmPaused' \in BOOLEAN
         /\ UNCHANGED <<loanVars, nftVars, poolVars>>
<1>1. config \in ConfigRecord /\ lmPaused \in BOOLEAN
  BY DEF LoansTyped
<1>2. ASSUME NEW v \in Nat,
             NEW f \in {"lateFeeRate", "threshold", "bonus", "maxLoans", "rate",
                        "minRate", "maxRate", "minTerm", "grace", "window"},
             Configure(f, v)
      PROVE  /\ config' \in ConfigRecord /\ lmPaused' \in BOOLEAN
             /\ UNCHANGED <<loanVars, nftVars, poolVars>>
  <2>1. config' = [config EXCEPT ![f] = v] /\ UNCHANGED <<loanVars, lmPaused, nftVars, poolVars>>
    BY <1>2 DEF Configure
  <2>2. config' \in ConfigRecord
    BY <1>1, <1>2, <2>1 DEF ConfigRecord
  <2> QED
    BY <1>1, <2>1, <2>2
<1>3. ASSUME NEW v \in Int, NEW f \in {"maxAmount", "minRepayment"}, Configure(f, v)
      PROVE  /\ config' \in ConfigRecord /\ lmPaused' \in BOOLEAN
             /\ UNCHANGED <<loanVars, nftVars, poolVars>>
  <2>1. config' = [config EXCEPT ![f] = v] /\ UNCHANGED <<loanVars, lmPaused, nftVars, poolVars>>
    BY <1>3 DEF Configure
  <2>2. config' \in ConfigRecord
    BY <1>1, <1>3, <2>1 DEF ConfigRecord
  <2> QED
    BY <1>1, <2>1, <2>2
<1>4. CASE SetRateOracle
  <2>1. config' = [config EXCEPT !["oracle"] = TRUE]
        /\ UNCHANGED <<loanVars, lmPaused, nftVars, poolVars>>
    BY <1>4 DEF SetRateOracle, Configure
  <2>2. config' \in ConfigRecord
    BY <1>1, <2>1 DEF ConfigRecord
  <2> QED
    BY <1>1, <2>1, <2>2
<1>5. ASSUME NEW v \in Nat, SetMaxTerm(v)
      PROVE  /\ config' \in ConfigRecord /\ lmPaused' \in BOOLEAN
             /\ UNCHANGED <<loanVars, nftVars, poolVars>>
  BY <1>1, <1>5 DEF SetMaxTerm, ConfigRecord
<1>6. CASE PauseManager \/ UnpauseManager
  BY <1>1, <1>6 DEF PauseManager, UnpauseManager
<1>7. ASSUME NEW v \in Settings.lateFeeRate, SetLateFeeRate(v) PROVE Configure("lateFeeRate", v)
  BY <1>7 DEF SetLateFeeRate
<1>8. ASSUME NEW v \in Settings.threshold, SetLiquidationThreshold(v)
      PROVE  Configure("threshold", v)
  BY <1>8 DEF SetLiquidationThreshold
<1>9. ASSUME NEW v \in Settings.bonus, SetLiquidationBonus(v) PROVE Configure("bonus", v)
  BY <1>9 DEF SetLiquidationBonus
<1>10. ASSUME NEW v \in Settings.maxAmount, SetMaxLoanAmount(v)
       PROVE  Configure("maxAmount", v)
  BY <1>10 DEF SetMaxLoanAmount
<1>11. ASSUME NEW v \in Settings.minRepayment, SetMinRepaymentAmount(v)
       PROVE  Configure("minRepayment", v)
  BY <1>11 DEF SetMinRepaymentAmount
<1>12. ASSUME NEW v \in Settings.maxLoans, SetMaxLoansPerBorrower(v)
       PROVE  Configure("maxLoans", v)
  BY <1>12 DEF SetMaxLoansPerBorrower
<1>13. ASSUME NEW v \in Settings.rate, SetInterestRate(v) PROVE Configure("rate", v)
  BY <1>13 DEF SetInterestRate
<1>14. ASSUME NEW v \in Settings.minRate, SetMinRate(v) PROVE Configure("minRate", v)
  BY <1>14 DEF SetMinRate
<1>15. ASSUME NEW v \in Settings.maxRate, SetMaxRate(v) PROVE Configure("maxRate", v)
  BY <1>15 DEF SetMaxRate
<1>16. ASSUME NEW v \in Settings.minTerm, SetMinTerm(v) PROVE Configure("minTerm", v)
  BY <1>16 DEF SetMinTerm
<1>17. ASSUME NEW v \in Settings.grace, SetGracePeriod(v) PROVE Configure("grace", v)
  BY <1>17 DEF SetGracePeriod
<1>18. ASSUME NEW v \in Settings.window, SetDefaultWindow(v) PROVE Configure("window", v)
  BY <1>18 DEF SetDefaultWindow
<1>19. CASE \/ \E v \in Settings.lateFeeRate : SetLateFeeRate(v)
            \/ \E v \in Settings.threshold : SetLiquidationThreshold(v)
            \/ \E v \in Settings.bonus : SetLiquidationBonus(v)
            \/ \E v \in Settings.maxLoans : SetMaxLoansPerBorrower(v)
            \/ \E v \in Settings.rate : SetInterestRate(v)
  BY <1>2, <1>7, <1>8, <1>9, <1>12, <1>13, <1>19, SettingsTyped
<1>20. CASE \/ \E v \in Settings.minRate : SetMinRate(v)
            \/ \E v \in Settings.maxRate : SetMaxRate(v)
            \/ \E v \in Settings.minTerm : SetMinTerm(v)
            \/ \E v \in Settings.grace : SetGracePeriod(v)
            \/ \E v \in Settings.window : SetDefaultWindow(v)
  BY <1>2, <1>14, <1>15, <1>16, <1>17, <1>18, <1>20, SettingsTyped
<1>21. CASE \/ \E v \in Settings.maxAmount : SetMaxLoanAmount(v)
            \/ \E v \in Settings.minRepayment : SetMinRepaymentAmount(v)
  BY <1>3, <1>10, <1>11, <1>21, SettingsTyped
<1>22. CASE \E v \in Settings.maxTerm : SetMaxTerm(v)
  BY <1>5, <1>22, SettingsTyped
<1> QED
  BY <1>4, <1>6, <1>19, <1>20, <1>21, <1>22 DEF AdminNext

(* The admin's calls, the moves of the NFT and those of the pool.          *)
LEMMA AroundKeeps ==
  ASSUME ManagerInv, AdminNext \/ NftMoves \/ PoolMoves \/ UNCHANGED vars
  PROVE  /\ ManagerInv' /\ Active' = Active /\ outstanding' = outstanding
         /\ UNCHANGED <<loans, loanCounter>>
         /\ ~PoolMoves => idle' = idle /\ UNCHANGED poolVars
<1>1. LoanInv /\ LoansTyped /\ PoolInv
  BY ManagerFacts
<1>2. CASE AdminNext \/ NftMoves \/ UNCHANGED vars
  <2>1. /\ UNCHANGED <<loanVars, poolVars>>
        /\ config' \in ConfigRecord /\ lmPaused' \in BOOLEAN
        /\ scoreOk' \in [Borrowers -> BOOLEAN] /\ seized' \in [Borrowers -> BOOLEAN]
        /\ nftPaused' \in BOOLEAN
    <3>1. CASE AdminNext
      BY <1>1, <3>1, AdminTyped DEF LoansTyped, nftVars
    <3>2. CASE NftMoves
      BY <1>1, <3>2 DEF NftMoves, ScoreMoves, SeizedFlagMoves, NftPauseMoves, LoansTyped
    <3>3. CASE UNCHANGED vars
      BY <1>1, <3>3 DEF vars, lmVars, nftVars, LoansTyped
    <3> QED
      BY <1>2, <3>1, <3>2, <3>3
  <2>2. /\ LoanInv' /\ Active' = Active /\ Total(Active, Amount)' = Total(Active, Amount)
        /\ UNCHANGED <<loans, loanCounter, escrow>>
    BY <1>1, <2>1, LoansUntouched
  <2>3. PoolInv' /\ idle' = idle /\ outstanding' = outstanding
    BY <1>1, <2>1, PoolUnchanged
  <2>4. TokensConserved' /\ OutstandingCoversLoans'
    BY <2>2, <2>3 DEF ManagerInv, TokensConserved, OutstandingCoversLoans
  <2> QED
    BY <2>1, <2>2, <2>3, <2>4 DEF ManagerInv
<1>3. CASE PoolMoves
  <2>1. UNCHANGED <<loanVars, config, lmPaused, nftVars>>
    BY <1>3 DEF PoolMoves, lmVars
  <2>2. /\ LoanInv' /\ Active' = Active /\ Total(Active, Amount)' = Total(Active, Amount)
        /\ UNCHANGED <<loans, loanCounter, escrow>>
    BY <1>1, <2>1, LoansUntouched DEF LoansTyped, nftVars
  <2>3. /\ PoolInv' /\ outstanding' = outstanding
        /\ idle' + escrow <= Supply \/ idle' <= idle
    BY <1>1, <1>3, ManagerFacts, PoolInvMoves
  <2>4. idle' \in Int
    <3>1. PoolProofs!TypeOK'
      BY <2>3 DEF PoolInv, PoolProofs!ShareInv
    <3> QED
      BY <3>1 DEF PoolProofs!TypeOK
  <2>5. TokensConserved' /\ OutstandingCoversLoans'
    BY <2>2, <2>3, <2>4, ManagerFacts DEF ManagerInv, TokensConserved, OutstandingCoversLoans
  <2> QED
    BY <1>3, <2>2, <2>3, <2>5 DEF ManagerInv
<1> QED
  BY <1>2, <1>3

------------------------------------------------------------------------------
LEMMA ManagerInit == Init => ManagerInv
<1> SUFFICES ASSUME Init PROVE ManagerInv
  OBVIOUS
<1>1. PoolInv /\ idle = 0 /\ outstanding = 0
  BY PoolInvInit DEF Init, Pool!Init
<1>2. Present = {} /\ Active = {}
  BY DEF Init, Present, Active
<1>3. Total(Present, Collateral) = 0 /\ Total(Active, Amount) = 0
  BY <1>2, FS_EmptySet DEF Total, Units
<1>4. LoansTyped
  <2>1. /\ loans \in [LoanIds -> LoanRecord \cup {NoLoan}] /\ config \in ConfigRecord
        /\ loanCounter \in 0 .. MaxLoans /\ loanCount \in [Borrowers -> Nat]
        /\ escrow \in Nat
    BY ManagerAssumption DEF Init
  <2>2. /\ lmPaused \in BOOLEAN /\ scoreOk \in [Borrowers -> BOOLEAN]
        /\ seized \in [Borrowers -> BOOLEAN] /\ nftPaused \in BOOLEAN
    BY Zenon DEF Init
  <2> QED
    BY <2>1, <2>2 DEF LoansTyped
<1>5. FreshIds /\ LiveLoans
  BY <1>2 DEF Init, FreshIds, LiveLoans
<1>6. EscrowIsCollateral /\ OutstandingCoversLoans /\ TokensConserved
  <2>1. Supply \in Nat
    BY <1>1, PoolFacts
  <2> QED
    BY <1>1, <1>3, <2>1
    DEF Init, EscrowIsCollateral, OutstandingCoversLoans, TokensConserved
<1>7. LoanCountExact
  <2>1. \A b : SlotsOf(b) = {}
    BY <1>2 DEF SlotsOf
  <2>2. \A b : Cardinality(SlotsOf(b)) = 0
    BY <2>1, FS_EmptySet
  <2> QED
    BY <2>2, CountIsSlots DEF Init
<1> QED
  BY <1>1, <1>4, <1>5, <1>6, <1>7 DEF ManagerInv, LoanInv

(* The steps of the loans, as the cases of the proofs below.               *)
LEMMA LoanSteps ==
  ASSUME LoanNext
  PROVE  \/ \E b \in Borrowers, amount \in Principals, term \in Terms, quote \in QuotedRates :
              RequestLoan(b, amount, term, quote)
         \/ \E l \in LoanIds :
              \/ ApproveLoan(l)
              \/ \E amount \in Payments : Repay(l, amount)
              \/ \E amount \in Posted : DepositCollateral(l, amount)
              \/ ReleaseCollateral(l)
              \/ Liquidate(l)
              \/ \E status \in {"Cancelled", "Rejected"} : Withdrawn(l, status)
              \/ PurgeLoan(l)
              \/ \E new \in Refinanced, term \in Terms, quote \in QuotedRates :
                   RefinanceLoan(l, new, term, quote)
              \/ \E extra \in Terms : ExtendLoan(l, extra)
         \/ \E batch \in SUBSET LoanIds : CheckDefaults(batch)
BY DEF LoanNext, CancelLoan, RejectLoan

LEMMA ManagerStep == ManagerInv /\ [Next]_vars => ManagerInv'
<1> SUFFICES ASSUME ManagerInv, [Next]_vars PROVE ManagerInv'
  OBVIOUS
<1>1. CASE LoanNext
  BY <1>1, LoanSteps, RequestKeeps, ApproveKeeps, RepayKeeps, DepositCollateralKeeps,
     ReleaseKeeps, LiquidateKeeps, WithdrawnKeeps, PurgeKeeps, RefinanceKeeps,
     ExtendKeeps, DefaultsKeep
<1>2. CASE AdminNext \/ NftMoves \/ PoolMoves \/ UNCHANGED vars
  BY <1>2, AroundKeeps
<1> QED
  BY <1>1, <1>2 DEF Next

LEMMA ManagerAlways == Spec => []ManagerInv
BY ManagerInit, ManagerStep, PTL DEF Spec

(* The books balance, for any number of borrowers, loans and amounts: the  *)
(* pool's counter covers the principal of the open loans, the escrow is    *)
(* the collateral on record and every borrower's count is that of its      *)
(* loans, after every operation on a loan (loan_manager/src/lib.rs).       *)
THEOREM LoanBooksBalance == Spec => []BooksBalance
<1>1. ManagerInv => BooksBalance
  <2> SUFFICES ASSUME ManagerInv PROVE BooksBalance
    OBVIOUS
  <2>1. Pool!TypeOK
    BY ManagerFacts, PoolFacts
  <2> QED
    BY <2>1 DEF ManagerInv, LoanInv, LoansTyped, BooksBalance, TypeOK
<1> QED
  BY <1>1, ManagerAlways, PTL

(* No open loan is overpaid in any part, and accruing its interest in two  *)
(* steps loses at most one unit of the fixed point, whatever the rates,    *)
(* the payments and their rounding (accrue_interest, repay,                *)
(* proportional_repayment_split).                                          *)
THEOREM DebtsSound == Spec => []DebtSound
<1>1. ManagerInv => DebtSound
  <2> SUFFICES ASSUME ManagerInv PROVE DebtSound
    OBVIOUS
  <2>1. ASSUME NEW l \in Active
        PROVE  Running(loans[l]) /\ loans[l] \in LoanRecord
    BY ManagerFacts, OwedSound, RunningFields
  <2>2. NoPartOverpaid
    <3>1. ASSUME NEW l \in Active
          PROVE  /\ loans[l].principalPaid \in 0 .. loans[l].amount
                 /\ loans[l].accruedInterest >= 0 /\ loans[l].accruedLateFee >= 0
      <4>1. /\ loans[l].principalPaid \in Nat /\ loans[l].amount \in Nat
            /\ loans[l].accruedInterest \in Nat /\ loans[l].accruedLateFee \in Nat
            /\ loans[l].principalPaid <= loans[l].amount
        BY <2>1, LoanFields DEF Running
      <4> QED
        BY <4>1
    <3> QED
      BY <3>1 DEF NoPartOverpaid
  <2>3. InterestSurvivesSplitting
    <3>1. ASSUME NEW l \in Active, NEW t \in loans[l].lastInterest .. ledger
          PROVE  Exact(AccrueInterest(loans[l], ledger))
                   - Exact(AccrueInterest(AccrueInterest(loans[l], t), ledger)) \in 0 .. 1
      <4>1. ledger \in Nat
        BY ManagerFacts
      <4> QED
        BY <2>1, <4>1, SplittingLosesLittle
    <3> QED
      BY <3>1 DEF InterestSurvivesSplitting, Exact
  <2> QED
    BY <2>2, <2>3 DEF DebtSound
<1> QED
  BY <1>1, ManagerAlways, PTL

------------------------------------------------------------------------------
(***************************************************************************)
(* What a step may never do.                                               *)
(***************************************************************************)
LEMMA WroteOne ==
  ASSUME ManagerInv, NEW l, NEW rec, Wrote(l, rec)
  PROVE  /\ l \in Present /\ l \in LoanIds /\ loans'[l] = rec
         /\ \A k \in LoanIds \ {l} : loans'[k] = loans[k]
         /\ Present' = Present
         /\ Active' = IF rec.status = "Approved" THEN Active \cup {l} ELSE Active \ {l}
<1>1. l \in Present /\ rec \in LoanRecord /\ SetLoan(l, rec) /\ LoansTyped
  BY ManagerFacts DEF Wrote
<1> QED
  BY <1>1, LoanReplaced, IdsFinite

LEMMA FeeStep ==
  ASSUME ManagerInv, [Next]_vars, NEW k \in Active, k \in Active',
         loans'[k].accruedLateFee > loans[k].accruedLateFee
  PROVE  Debt(loans'[k]) <= PenaltyMultiplier * loans'[k].amount
<1>1. /\ k \in LoanIds /\ loans[k] \in LoanRecord /\ loans[k].accruedLateFee \in Nat
      /\ loans[k].status = "Approved"
  BY OwedSound, IdsFinite, LoanFields
<1>2. CASE loans'[k] = loans[k]
  BY <1>1, <1>2
<1>3. ASSUME NEW l, NEW rec, Wrote(l, rec)
      PROVE  loans'[k] = loans[k] \/ (k = l /\ loans'[k] = rec)
  BY <1>1, <1>3, WroteOne
<1>4. ASSUME NEW l, NEW rec, Wrote(l, rec), rec.status # "Approved"
      PROVE  k # l
  BY <1>4, WroteOne
<1>5. ASSUME NEW l \in LoanIds, ApproveLoan(l) PROVE loans'[k] = loans[k]
  <2>1. PICK rec : Wrote(l, rec)
    BY <1>5, ApproveKeeps
  <2>2. l # k
    BY <1>1, <1>5, ApproveKeeps
  <2> QED
    BY <1>3, <2>1, <2>2
<1>6. ASSUME NEW l \in LoanIds, NEW amount \in Payments, Repay(l, amount)
      PROVE  loans'[k] = loans[k] \/ Debt(loans'[k]) <= PenaltyMultiplier * loans'[k].amount
  <2>1. PICK rec : /\ Wrote(l, rec)
                   /\ \/ /\ rec.status = "Approved" /\ rec.amount = loans[l].amount
                         /\ rec.accruedLateFee > loans[l].accruedLateFee
                              => Debt(rec) <= PenaltyMultiplier * loans[l].amount
                      \/ rec.status = "Repaid"
    BY <1>6, RepayKeeps
  <2>2. CASE rec.status = "Repaid"
    BY <1>3, <1>4, <2>1, <2>2
  <2>3. CASE /\ rec.status = "Approved" /\ rec.amount = loans[l].amount
             /\ rec.accruedLateFee > loans[l].accruedLateFee
                  => Debt(rec) <= PenaltyMultiplier * loans[l].amount
    BY <1>3, <2>1, <2>3
  <2> QED
    BY <2>1, <2>2, <2>3
<1>7. ASSUME NEW l \in LoanIds, NEW rec, Wrote(l, rec),
             rec.accruedLateFee = loans[l].accruedLateFee
      PROVE  loans'[k] = loans[k]
  BY <1>1, <1>3, <1>7
<1>8. ASSUME NEW l \in LoanIds, NEW rec, Wrote(l, rec), rec.accruedLateFee = 0
      PROVE  loans'[k] = loans[k]
  BY <1>1, <1>3, <1>8
<1>9. ASSUME NEW l \in LoanIds,
             \/ \E amount \in Posted : DepositCollateral(l, amount)
             \/ \E extra \in Terms : ExtendLoan(l, extra)
             \/ ReleaseCollateral(l)
             \/ Liquidate(l)
             \/ \E status \in {"Cancelled", "Rejected"} : Withdrawn(l, status)
             \/ PurgeLoan(l)
             \/ \E new \in Refinanced, term \in Terms, quote \in QuotedRates :
                   RefinanceLoan(l, new, term, quote)
      PROVE  loans'[k] = loans[k]
  <2>1. CASE \/ \E amount \in Posted : DepositCollateral(l, amount)
             \/ \E extra \in Terms : ExtendLoan(l, extra)
    <3>1. PICK rec : Wrote(l, rec) /\ rec.accruedLateFee = loans[l].accruedLateFee
      BY <2>1, DepositCollateralKeeps, ExtendKeeps
    <3> QED
      BY <3>1, <1>7
  <2>2. CASE \/ ReleaseCollateral(l) \/ Liquidate(l)
             \/ \E status \in {"Cancelled", "Rejected"} : Withdrawn(l, status)
    <3>1. PICK rec : Wrote(l, rec) /\ rec.status # "Approved"
      BY <2>2, ReleaseKeeps, LiquidateKeeps, WithdrawnKeeps
    <3> QED
      BY <3>1, <1>3, <1>4
  <2>3. CASE PurgeLoan(l)
    BY <2>3, PurgeKeeps
  <2>4. CASE \E new \in Refinanced, term \in Terms, quote \in QuotedRates :
                RefinanceLoan(l, new, term, quote)
    <3>1. PICK rec : Wrote(l, rec) /\ rec.accruedLateFee = 0
      BY <2>4, RefinanceKeeps
    <3> QED
      BY <3>1, <1>8
  <2> QED
    BY <1>9, <2>1, <2>2, <2>3, <2>4
<1>10. ASSUME NEW b \in Borrowers, NEW amount \in Principals, NEW term \in Terms,
              NEW quote \in QuotedRates, RequestLoan(b, amount, term, quote)
       PROVE  loans'[k] = loans[k]
  BY <1>10, RequestKeeps
<1>11. ASSUME NEW batch \in SUBSET LoanIds, CheckDefaults(batch)
       PROVE  loans'[k] = loans[k]
  BY <1>1, <1>11, DefaultsKeep
<1>12. CASE AdminNext \/ NftMoves \/ PoolMoves \/ UNCHANGED vars
  BY <1>2, <1>12, AroundKeeps
<1>13. CASE LoanNext
  BY <1>2, <1>5, <1>6, <1>9, <1>10, <1>11, <1>13, LoanSteps
<1> QED
  BY <1>12, <1>13 DEF Next

(* A step that raises a loan's late fee leaves its debt at or below        *)
(* PenaltyMultiplier times its amount, for any rates, grace and payments   *)
(* (accrue_late_fee).                                                      *)
THEOREM FeesUnderCap == Spec => LateFeesRespectCap
<1>1. ManagerInv /\ [Next]_vars
        => [\A l \in Active :
              (l \in Active' /\ loans'[l].accruedLateFee > loans[l].accruedLateFee)
                => Debt(loans'[l]) <= PenaltyMultiplier * loans'[l].amount]_vars
  BY FeeStep
<1> QED
  BY <1>1, ManagerAlways, PTL DEF Spec, LateFeesRespectCap

LEMMA PausedStep ==
  ASSUME ManagerInv, [Next]_vars, lmPaused \/ poolPaused \/ nftPaused
  PROVE  outstanding' = outstanding /\ Active' = Active
<1>1. ~NotPaused
  BY DEF NotPaused
<1>2. CASE AdminNext \/ NftMoves \/ PoolMoves \/ UNCHANGED vars
  BY <1>2, AroundKeeps
<1>3. ASSUME NEW l \in LoanIds, NEW rec, Wrote(l, rec), rec.status # "Approved",
             loans[l].status # "Approved"
      PROVE  Active' = Active
  <2>1. l \notin Active
    BY <1>3 DEF Active
  <2> QED
    BY <1>3, <2>1, WroteOne
<1>4. ASSUME NEW l \in LoanIds, ReleaseCollateral(l)
      PROVE  outstanding' = outstanding /\ Active' = Active
  <2>1. PICK rec : Wrote(l, rec) /\ rec.status # "Approved"
    BY <1>4, ReleaseKeeps
  <2> QED
    BY <1>3, <1>4, <2>1, ReleaseKeeps
<1>5. ASSUME NEW l \in LoanIds, NEW status \in {"Cancelled", "Rejected"}, Withdrawn(l, status)
      PROVE  outstanding' = outstanding /\ Active' = Active
  <2>1. /\ loans[l].status # "Approved" /\ outstanding' = outstanding
        /\ \E rec : Wrote(l, rec) /\ rec.status # "Approved"
    BY <1>5, WithdrawnKeeps
  <2> QED
    BY <1>3, <2>1
<1>6. CASE LoanNext
  <2>1. ASSUME NEW b \in Borrowers, NEW amount \in Principals, NEW term \in Terms,
               NEW quote \in QuotedRates
        PROVE  ~RequestLoan(b, amount, term, quote)
    BY <1>1 DEF RequestLoan
  <2>2. ASSUME NEW l \in LoanIds
        PROVE  /\ ~ApproveLoan(l) /\ ~Liquidate(l)
               /\ \A amount : ~Repay(l, amount) /\ ~DepositCollateral(l, amount)
               /\ \A new, term, quote : ~RefinanceLoan(l, new, term, quote)
               /\ \A extra : ~ExtendLoan(l, extra)
    BY <1>1 DEF ApproveLoan, Liquidate, Repay, DepositCollateral, RefinanceLoan, ExtendLoan
  <2>3. ASSUME NEW batch PROVE ~CheckDefaults(batch)
    BY <1>1 DEF CheckDefaults
  <2> QED
    BY <1>4, <1>5, <1>6, <2>1, <2>2, <2>3, LoanSteps, PurgeKeeps
<1> QED
  BY <1>2, <1>6 DEF Next

(* While any of the three contracts is paused no principal moves and no    *)
(* loan opens or closes (require_not_paused and the pause cascade).        *)
THEOREM PauseFreezes == Spec => PauseFreezesLending
<1>1. ManagerInv /\ [Next]_vars
        => [lmPaused \/ poolPaused \/ nftPaused
              => outstanding' = outstanding /\ Active' = Active]_vars
  BY PausedStep
<1> QED
  BY <1>1, ManagerAlways, PTL DEF Spec, PauseFreezesLending

------------------------------------------------------------------------------
(* Only the pool's own calls change the number of shares.                  *)
LEMMA SharesKept ==
  ASSUME LoanNext \/ AdminNext \/ NftMoves \/ UNCHANGED vars
  PROVE  totalShares' = totalShares
<1>1. /\ \A amount : Pool!Disburse(amount) => totalShares' = totalShares
      /\ \A amount : Pool!Receive(amount) => totalShares' = totalShares
      /\ \A amount, principal :
           Pool!ReceiveAndSettle(amount, principal) => totalShares' = totalShares
      /\ UNCHANGED poolVars => totalShares' = totalShares
  BY DEF Pool!Disburse, Pool!Receive, Pool!ReceiveAndSettle, Pool!holdings, poolVars
<1>2. CASE LoanNext
  <2>1. ASSUME NEW b, NEW amount, NEW term, NEW quote, RequestLoan(b, amount, term, quote)
        PROVE  totalShares' = totalShares
    BY <1>1, <2>1 DEF RequestLoan
  <2>2. ASSUME NEW l, \/ ApproveLoan(l) \/ ReleaseCollateral(l) \/ Liquidate(l)
                      \/ PurgeLoan(l)
        PROVE  totalShares' = totalShares
    BY <1>1, <2>2 DEF ApproveLoan, ReleaseCollateral, Liquidate, PurgeLoan
  <2>3. ASSUME NEW l, NEW amount, Repay(l, amount) \/ DepositCollateral(l, amount)
                                  \/ ExtendLoan(l, amount) \/ Withdrawn(l, amount)
        PROVE  totalShares' = totalShares
    BY <1>1, <2>3 DEF Repay, DepositCollateral, ExtendLoan, Withdrawn
  <2>4. ASSUME NEW l, NEW new, NEW term, NEW quote, RefinanceLoan(l, new, term, quote)
        PROVE  totalShares' = totalShares
    BY <1>1, <2>4 DEF RefinanceLoan
  <2>5. ASSUME NEW batch, CheckDefaults(batch)
        PROVE  totalShares' = totalShares
    BY <1>1, <2>5 DEF CheckDefaults
  <2> QED
    BY <1>2, <2>1, <2>2, <2>3, <2>4, <2>5, LoanSteps
<1>3. CASE AdminNext \/ NftMoves \/ UNCHANGED vars
  BY <1>1, <1>3 DEF AdminNext, NftMoves, vars, ScoreMoves, SeizedFlagMoves, NftPauseMoves,
     Configure, SetLateFeeRate, SetLiquidationThreshold, SetLiquidationBonus,
     SetMaxLoanAmount, SetMinRepaymentAmount, SetMaxLoansPerBorrower, SetInterestRate,
     SetRateOracle, SetMinRate, SetMaxRate, SetMinTerm, SetMaxTerm, SetGracePeriod,
     SetDefaultWindow, PauseManager, UnpauseManager
<1> QED
  BY <1>2, <1>3

LEMMA PriceOrder ==
  ASSUME NEW i \in Int, NEW o \in Int, NEW j \in Int, NEW q \in Int, NEW s \in Nat,
         i + o <= j + q
  PROVE  ~((j + q + 1) * (s + 1) < (i + o + 1) * (s + 1))
<1> DEFINE before == i + o + 1
           after  == j + q + 1
           cur    == s + 1
<1>1. before \in Int /\ after \in Int /\ cur \in Nat /\ before <= after
  OBVIOUS
<1> HIDE DEF before, after, cur
<1>2. before * cur <= after * cur /\ before * cur \in Int /\ after * cur \in Int
  BY <1>1
<1>3. ~(after * cur < before * cur)
  BY <1>2
<1> QED
  BY <1>3 DEF before, after, cur

LEMMA SumOrder ==
  ASSUME NEW i \in Int, NEW o \in Int, NEW j \in Int, NEW q \in Int,
         j + q = i + o \/ (q = o /\ j >= i)
  PROVE  i + o <= j + q
OBVIOUS

LEMMA PriceStands ==
  ASSUME totalShares \in Nat, totalShares' = totalShares, idle \in Int, idle' \in Int,
         outstanding \in Int, outstanding' \in Int,
         idle + outstanding <= idle' + outstanding'
  PROVE  ~Pool!PriceFalls
<1>1. Pool!PriceFalls <=> (idle' + outstanding' + 1) * (totalShares + 1)
                            < (idle + outstanding + 1) * (totalShares + 1)
  BY DEF Pool!PriceFalls, Pool!TotalPoolAssets, Pool!VirtualAssets, Pool!VirtualShares
<1> QED
  BY <1>1, PriceOrder

(* What the pool's providers and its admin do never costs the holders.     *)
LEMMA PoolMovesKeepPrice ==
  ASSUME ManagerInv, PoolMoves, totalShares > 0
  PROVE  ~Pool!PriceFalls
<1>0. /\ PoolInv /\ PoolProofs!ShareInv /\ idle \in Int /\ outstanding \in Int
      /\ totalShares \in Nat /\ Supply \in Nat
  BY ManagerFacts, PoolFacts DEF PoolInv
<1>1. ASSUME NEW p \in Providers, NEW amount \in DepositAmounts, amount <= Circulating,
             Pool!Deposit(p, amount)
      PROVE  ~Pool!PriceFalls
  <2>1. amount \in 0 .. Supply
    <3>1. amount \in Int /\ amount > 0 /\ idle + amount <= Supply /\ idle \in 0 .. Supply
      BY <1>1, ManagerAssumption, ManagerFacts DEF Pool!Deposit
    <3> QED
      BY <1>0, <3>1
  <2> QED
    BY <1>0, <1>1, <2>1, ManagerAssumption, PoolFinite, SamePool,
       PoolProofs!DepositKeepsPrice DEF Pool!PoolAssumption
<1>2. ASSUME NEW p \in Providers, NEW burnt \in 1 .. shares[p],
             Pool!RedeemShares(p, burnt)
      PROVE  ~Pool!PriceFalls
  BY <1>0, <1>2, ManagerAssumption, PoolFinite, SamePool,
     PoolProofs!RedeemKeepsPrice DEF Pool!PoolAssumption
<1>3. ASSUME NEW p \in Providers, NEW burnt \in Redeemed \cap (1 .. shares[p]),
             Pool!Withdraw(p, burnt) \/ Pool!EmergencyWithdraw(p, burnt)
      PROVE  ~Pool!PriceFalls
  BY <1>2, <1>3 DEF Pool!Withdraw, Pool!EmergencyWithdraw
<1>4. CASE Pool!Pause \/ Pool!Unpause \/ Pool!CloseLedger
  <2>1. UNCHANGED <<idle, outstanding, totalShares>>
    BY <1>4 DEF Pool!Pause, Pool!Unpause, Pool!CloseLedger, Pool!poolVars, Pool!holdings
  <2>2. idle + outstanding <= idle' + outstanding'
    BY <1>0, <2>1
  <2> QED
    BY <1>0, <2>1, <2>2, PriceStands
<1> QED
  BY <1>1, <1>3, <1>4 DEF PoolMoves

LEMMA PriceStep ==
  ASSUME ManagerInv, [Next]_vars, totalShares > 0, Active \subseteq Active'
  PROVE  ~Pool!PriceFalls
<1>1. /\ totalShares \in Nat /\ idle \in Int /\ outstanding \in Int
      /\ \A l \in Active : l \in LoanIds
  BY ManagerFacts, PoolFacts, IdsFinite
<1>2. ASSUME LoanNext \/ AdminNext \/ NftMoves \/ UNCHANGED vars
      PROVE  totalShares' = totalShares /\ idle' \in Int /\ outstanding' \in Int
  <2>1. ManagerInv'
    BY ManagerStep
  <2>2. PoolProofs!TypeOK'
    BY <2>1 DEF ManagerInv, PoolInv, PoolProofs!ShareInv
  <2>3. idle' \in 0 .. Supply /\ outstanding' \in -MaxInt - 1 .. MaxInt
    BY <2>2 DEF PoolProofs!TypeOK, PoolProofs!MinInt
  <2> QED
    BY <1>2, <2>3, SharesKept
<1>3. ASSUME LoanNext \/ AdminNext \/ NftMoves \/ UNCHANGED vars,
             idle + outstanding <= idle' + outstanding'
      PROVE  ~Pool!PriceFalls
  BY <1>1, <1>2, <1>3, PriceStands
<1>4. ASSUME NEW l \in Active, NEW rec, Wrote(l, rec), rec.status # "Approved"
      PROVE  FALSE
  BY <1>4, WroteOne
<1>5. ASSUME NEW l \in LoanIds, LoanNext,
             \/ ApproveLoan(l)
             \/ \E amount \in Payments : Repay(l, amount)
             \/ \E amount \in Posted : DepositCollateral(l, amount)
             \/ ReleaseCollateral(l)
             \/ Liquidate(l)
             \/ \E status \in {"Cancelled", "Rejected"} : Withdrawn(l, status)
             \/ PurgeLoan(l)
             \/ \E new \in Refinanced, term \in Terms, quote \in QuotedRates :
                   RefinanceLoan(l, new, term, quote)
             \/ \E extra \in Terms : ExtendLoan(l, extra)
      PROVE  idle + outstanding <= idle' + outstanding'
  <2>0. idle' \in Int /\ outstanding' \in Int
    BY <1>2, <1>5
  <2>1. CASE ApproveLoan(l)
    <3>1. idle' + outstanding' = idle + outstanding
      BY <2>1, ApproveKeeps
    <3> QED
      BY <1>1, <2>0, <3>1, SumOrder
  <2>2. ASSUME NEW amount \in Payments, Repay(l, amount)
        PROVE  idle + outstanding <= idle' + outstanding'
    <3>1. /\ l \in Active
          /\ \E rec : /\ Wrote(l, rec)
                      /\ \/ outstanding' = outstanding /\ idle' >= idle
                         \/ rec.status = "Repaid"
      BY <2>2, RepayKeeps
    <3>2. outstanding' = outstanding /\ idle' >= idle
      BY <1>4, <3>1
    <3> QED
      BY <1>1, <2>0, <3>2, SumOrder
  <2>3. CASE \/ \E amount \in Posted : DepositCollateral(l, amount)
             \/ \E extra \in Terms : ExtendLoan(l, extra)
    <3>1. outstanding' = outstanding /\ idle' >= idle
      BY <2>3, DepositCollateralKeeps, ExtendKeeps
    <3> QED
      BY <1>1, <2>0, <3>1, SumOrder
  <2>4. CASE \/ ReleaseCollateral(l)
             \/ \E status \in {"Cancelled", "Rejected"} : Withdrawn(l, status)
             \/ PurgeLoan(l)
    <3>1. idle' = idle /\ outstanding' = outstanding
      BY <2>4, ReleaseKeeps, WithdrawnKeeps, PurgeKeeps
    <3> QED
      BY <1>1, <3>1
  <2>5. ~Liquidate(l)
    <3> SUFFICES ASSUME Liquidate(l) PROVE FALSE
      OBVIOUS
    <3>1. l \in Active /\ \E rec : Wrote(l, rec) /\ rec.status # "Approved"
      BY LiquidateKeeps
    <3> QED
      BY <1>4, <3>1
  <2>6. CASE \E new \in Refinanced, term \in Terms, quote \in QuotedRates :
               RefinanceLoan(l, new, term, quote)
    <3>1. idle' + outstanding' = idle + outstanding
      BY <2>6, RefinanceKeeps
    <3> QED
      BY <1>1, <2>0, <3>1, SumOrder
  <2> QED
    BY <1>5, <2>1, <2>2, <2>3, <2>4, <2>5, <2>6
<1>6. CASE LoanNext
  <2>1. ASSUME NEW b \in Borrowers, NEW amount \in Principals, NEW term \in Terms,
               NEW quote \in QuotedRates, RequestLoan(b, amount, term, quote)
        PROVE  idle + outstanding <= idle' + outstanding'
    <3>1. idle' = idle /\ outstanding' = outstanding
      BY <2>1, RequestKeeps
    <3> QED
      BY <1>1, <3>1
  <2>2. ASSUME NEW batch \in SUBSET LoanIds PROVE ~CheckDefaults(batch)
    <3> SUFFICES ASSUME CheckDefaults(batch) PROVE FALSE
      OBVIOUS
    <3>1. Hit(batch) # {} /\ Hit(batch) \subseteq Active /\ Active' = Active \ Hit(batch)
      BY DefaultsKeep
    <3> QED
      BY <3>1
  <2>3. idle + outstanding <= idle' + outstanding'
    BY <1>5, <1>6, <2>1, <2>2, LoanSteps
  <2> QED
    BY <1>3, <1>6, <2>3
<1>7. CASE PoolMoves
  BY <1>7, PoolMovesKeepPrice
<1>8. CASE (AdminNext \/ NftMoves \/ UNCHANGED vars) /\ ~PoolMoves
  <2>1. idle' = idle /\ outstanding' = outstanding
    BY <1>8, AroundKeeps
  <2>2. idle + outstanding <= idle' + outstanding'
    BY <1>1, <2>1
  <2> QED
    BY <1>3, <1>8, <2>2
<1> QED
  BY <1>6, <1>7, <1>8 DEF Next

(* The share price falls only in a step that closes a loan: neither a      *)
(* partial repayment nor a refinancing, a fee, an approval, a deposit or a *)
(* redemption costs the holders anything.                                  *)
THEOREM PriceFallsAtClose == Spec => PriceFallsOnlyAtClose
<1>1. ManagerInv /\ [Next]_vars
        => [totalShares > 0 /\ Pool!PriceFalls => ~(Active \subseteq Active')]_vars
  BY PriceStep
<1> QED
  BY <1>1, ManagerAlways, PTL DEF Spec, PriceFallsOnlyAtClose

------------------------------------------------------------------------------
(***************************************************************************)
(* The refinement: every step is a step of LoanBook or changes nothing it  *)
(* speaks of.                                                              *)
(***************************************************************************)
Exposure == [l \in LoanIds |-> IF l \in Active THEN loans[l].amount ELSE 0]
Spent    == {l \in 1 .. loanCounter : l \in Present => loans[l].status # "Pending"}

LEMMA BookVars ==
  ASSUME Exposure' = Exposure, Spent' = Spent, outstanding' = outstanding
  PROVE  UNCHANGED Book!vars
BY DEF Book!vars, Exposure, Spent

LEMMA BookInit == Init => Book!Init
<1> SUFFICES ASSUME Init PROVE Book!Init
  OBVIOUS
<1>1. Active = {} /\ loanCounter = 0 /\ outstanding = 0
  BY DEF Init, Pool!Init, Active, Present
<1>2. Exposure = [l \in LoanIds |-> 0] /\ Spent = {}
  BY <1>1 DEF Exposure, Spent
<1> QED
  BY <1>1, <1>2 DEF Book!Init, Exposure, Spent

LEMMA ExposureOf ==
  ASSUME ManagerInv, NEW l \in Present
  PROVE  /\ l \in LoanIds /\ l \in 1 .. loanCounter
         /\ Exposure[l] = Lending(loans[l])
         /\ l \in Spent <=> loans[l].status # "Pending"
<1>1. l \in LoanIds /\ loans[l] # NoLoan /\ LoansTyped /\ FreshIds
  BY ManagerFacts DEF Present, LoanInv
<1>2. l \in 1 .. loanCounter
  BY <1>1, ManagerAssumption DEF LoansTyped, FreshIds, LoanIds
<1>3. l \in Active <=> loans[l].status = "Approved"
  BY <1>1, PresentLoans
<1> QED
  BY <1>1, <1>2, <1>3 DEF Exposure, Lending, Spent

(* What a step that writes one loan is to the book.                        *)
LEMMA WroteBook ==
  ASSUME ManagerInv, NEW l, NEW rec, Wrote(l, rec)
  PROVE  /\ Exposure' = [Exposure EXCEPT ![l] = Lending(rec)]
         /\ rec.status # "Pending" => Spent' = Spent \cup {l}
<1>1. /\ l \in Present /\ l \in LoanIds /\ loans'[l] = rec
      /\ \A k \in LoanIds \ {l} : loans'[k] = loans[k]
      /\ Present' = Present
      /\ Active' = IF rec.status = "Approved" THEN Active \cup {l} ELSE Active \ {l}
  BY WroteOne
<1>2. loanCounter' = loanCounter /\ l \in 1 .. loanCounter
  BY <1>1, ExposureOf DEF Wrote
<1>3. Exposure' = [k \in LoanIds |-> IF k \in Active' THEN loans'[k].amount ELSE 0]
  BY DEF Exposure
<1>4. Exposure' = [Exposure EXCEPT ![l] = Lending(rec)]
  BY <1>1, <1>3 DEF Exposure, Lending
<1>5. Spent' = {k \in 1 .. loanCounter : k \in Present => loans'[k].status # "Pending"}
  BY <1>1, <1>2 DEF Spent
<1>6. \A k \in Present : k # l => loans'[k] = loans[k]
  BY <1>1, IdsFinite
<1>7. rec.status # "Pending" => Spent' = Spent \cup {l}
  BY <1>1, <1>2, <1>5, <1>6 DEF Spent
<1> QED
  BY <1>4, <1>7

LEMMA ApproveGrants ==
  ASSUME ManagerInv, NEW l \in LoanIds, ApproveLoan(l)
  PROVE  Book!Grant(l)
<1>1. PICK rec : Wrote(l, rec) /\ rec.status = "Approved" /\ rec.amount = loans[l].amount
  BY ApproveKeeps
<1>2. /\ loans[l].status = "Pending" /\ loans[l].amount \in 1 .. Supply
      /\ outstanding' = outstanding + loans[l].amount /\ outstanding' <= MaxInt
  BY ApproveKeeps
<1>3. l \in Present
  BY <1>1 DEF Wrote
<1>4. l \notin Spent
  BY <1>2, <1>3, ExposureOf
<1>5. /\ Exposure' = [Exposure EXCEPT ![l] = loans[l].amount]
      /\ Spent' = Spent \cup {l}
  BY <1>1, WroteBook DEF Lending
<1> QED
  BY <1>2, <1>4, <1>5 DEF Book!Grant, Exposure, Spent

LEMMA WithdrawnWithdraws ==
  ASSUME ManagerInv, NEW l \in LoanIds, NEW status \in {"Cancelled", "Rejected"},
         Withdrawn(l, status)
  PROVE  Book!Withdraw(l)
<1>1. PICK rec : Wrote(l, rec) /\ rec.status \notin {"Pending", "Approved"}
  BY WithdrawnKeeps
<1>2. loans[l].status = "Pending" /\ outstanding' = outstanding
  BY WithdrawnKeeps
<1>3. l \in Present
  BY <1>1 DEF Wrote
<1>4. l \notin Spent /\ Exposure[l] = 0
  BY <1>2, <1>3, ExposureOf DEF Lending
<1>5. Exposure' = [Exposure EXCEPT ![l] = 0] /\ Spent' = Spent \cup {l}
  BY <1>1, WroteBook DEF Lending
<1>6. Exposure' = Exposure
  BY <1>4, <1>5 DEF Exposure
<1> QED
  BY <1>2, <1>4, <1>5, <1>6 DEF Book!Withdraw, Exposure, Spent

LEMMA RefinanceRewrites ==
  ASSUME ManagerInv, NEW l \in LoanIds, NEW new \in Refinanced, NEW term \in Terms,
         NEW quote \in QuotedRates, RefinanceLoan(l, new, term, quote)
  PROVE  Book!Rewrite(l)
<1>1. PICK rec : Wrote(l, rec) /\ rec.status = "Approved" /\ rec.amount = new
  BY RefinanceKeeps
<1>2. /\ l \in Active /\ new \in 1 .. Supply
      /\ outstanding' \in (outstanding + new - loans[l].amount) .. (outstanding + new)
      /\ outstanding' <= MaxInt
  BY RefinanceKeeps
<1>3. l \in Present /\ loans[l].status = "Approved" /\ loans[l].amount \in Nat \ {0}
  BY <1>2, OwedSound, LoanFields
<1>4. Exposure[l] = loans[l].amount /\ Exposure[l] > 0 /\ l \in Spent
  BY <1>3, ExposureOf DEF Lending
<1>5. Exposure' = [Exposure EXCEPT ![l] = new] /\ Spent' = Spent
  BY <1>1, <1>4, WroteBook DEF Lending
<1>6. outstanding' \in (outstanding + new - Exposure[l]) .. (outstanding + new)
  BY <1>2, <1>4
<1> QED
  BY <1>2, <1>4, <1>5, <1>6 DEF Book!Rewrite, Book!Open, Exposure, Spent

LEMMA BookCardinality == ASSUME NEW S PROVE Book!Cardinality(S) = Cardinality(S)
BY DEF Book!Cardinality, Cardinality

LEMMA BookLent ==
  ASSUME ManagerInv, NEW S \in SUBSET Active
  PROVE  Book!Lent(S) = Total(S, Amount)
<1>1. Book!Lent(S) = Total(S, Exposure)
  <2>1. Book!Lent(S) = Book!Cardinality(UNION {{l} \X (1 .. Exposure[l]) : l \in S})
    BY DEF Book!Lent, Exposure
  <2>2. Book!Lent(S) = Cardinality(UNION {{l} \X (1 .. Exposure[l]) : l \in S})
    BY <2>1, BookCardinality
  <2> QED
    BY <2>2 DEF Total, Units
<1>2. \A l \in S : Exposure[l] = Amount[l]
  <2>1. ASSUME NEW l \in S PROVE Exposure[l] = Amount[l]
    <3>1. l \in Active /\ l \in LoanIds /\ Amount[l] = loans[l].amount
      BY ManagerFacts, IdsFinite, PresentLoans
    <3> QED
      BY <3>1 DEF Exposure
  <2> QED
    BY <2>1
<1>3. Total(S, Exposure) = Total(S, Amount)
  BY <1>2, TotalSame
<1> QED
  BY <1>1, <1>3

(* Closing some of the open loans.                                         *)
LEMMA ClosesBook ==
  ASSUME ManagerInv, NEW S \in SUBSET Active, S # {},
         Exposure' = [k \in LoanIds |-> IF k \in S THEN 0 ELSE Exposure[k]],
         Spent' = Spent, outstanding' = outstanding - Total(S, Amount)
  PROVE  /\ S \in SUBSET Book!Open
         /\ Book!Close(S)
<1>1. ASSUME NEW k \in S PROVE k \in LoanIds /\ Exposure[k] > 0
  <2>1. k \in Present /\ loans[k].status = "Approved" /\ loans[k].amount \in Nat \ {0}
    BY OwedSound, LoanFields
  <2> QED
    BY <2>1, ExposureOf DEF Lending
<1>2. S \in SUBSET Book!Open
  BY <1>1 DEF Book!Open, Exposure
<1>3. Book!Lent(S) = Total(S, Amount)
  BY BookLent
<1> QED
  BY <1>2, <1>3 DEF Book!Close, Exposure, Spent

LEMMA WroteCloses ==
  ASSUME ManagerInv, NEW l \in Active, NEW rec, Wrote(l, rec),
         rec.status \notin {"Pending", "Approved"},
         outstanding' = outstanding - loans[l].amount
  PROVE  {l} \in SUBSET Book!Open /\ Book!Close({l})
<1>1. l \in Present /\ loans[l].status = "Approved" /\ l \in LoanIds
  BY OwedSound, IdsFinite
<1>2. Exposure' = [Exposure EXCEPT ![l] = 0] /\ Spent' = Spent \cup {l} /\ l \in Spent
  BY <1>1, WroteBook, ExposureOf DEF Lending
<1>3. Exposure' = [k \in LoanIds |-> IF k \in {l} THEN 0 ELSE Exposure[k]] /\ Spent' = Spent
  BY <1>1, <1>2 DEF Exposure
<1>4. Total({l}, Amount) = loans[l].amount
  <2>1. Amount[l] \in Nat /\ Amount[l] = loans[l].amount
    BY <1>1, ManagerFacts, PresentLoans
  <2> QED
    BY <2>1, TotalOne
<1>5. {l} \in SUBSET Active /\ {l} # {} /\ outstanding' = outstanding - Total({l}, Amount)
  BY <1>4
<1> QED
  BY <1>3, <1>5, ClosesBook

LEMMA DefaultsClose ==
  ASSUME ManagerInv, NEW batch \in SUBSET LoanIds, CheckDefaults(batch)
  PROVE  \E S \in SUBSET Book!Open : Book!Close(S)
<1> DEFINE hit == Hit(batch)
<1>1. /\ hit # {} /\ hit \subseteq Active /\ Active' = Active \ hit
      /\ \A k \in LoanIds \ hit : loans'[k] = loans[k]
      /\ \A k \in hit : loans'[k] # NoLoan /\ loans'[k].status = "Defaulted"
      /\ loanCounter' = loanCounter
      /\ outstanding' = outstanding - Total(hit, Amount)
  BY DefaultsKeep
<1> HIDE DEF hit
<1>2. Exposure' = [k \in LoanIds |-> IF k \in hit THEN 0 ELSE Exposure[k]]
  <2>1. Exposure' = [k \in LoanIds |-> IF k \in Active' THEN loans'[k].amount ELSE 0]
    BY DEF Exposure
  <2> QED
    BY <1>1, <2>1 DEF Exposure
<1>3. Spent' = Spent
  <2>1. \A k \in hit : k \in LoanIds /\ loans[k] # NoLoan /\ loans[k].status = "Approved"
    BY <1>1 DEF Active, Present
  <2>2. Spent' = {k \in 1 .. loanCounter : k \in Present' => loans'[k].status # "Pending"}
    BY <1>1 DEF Spent
  <2>3. \A k : (k \in Present' => loans'[k].status # "Pending")
                 <=> (k \in Present => loans[k].status # "Pending")
    BY <1>1, <2>1 DEF Present
  <2> QED
    BY <2>2, <2>3 DEF Spent
<1>4. PICK S : S = hit
  OBVIOUS
<1>5. /\ S \in SUBSET Active /\ S # {} /\ outstanding' = outstanding - Total(S, Amount)
      /\ Exposure' = [k \in LoanIds |-> IF k \in S THEN 0 ELSE Exposure[k]]
  BY <1>1, <1>2, <1>4
<1> QED
  BY <1>3, <1>5, ClosesBook

(* A loan that runs on unchanged, in all the book speaks of.               *)
LEMMA WroteStutters ==
  ASSUME ManagerInv, NEW l, NEW rec, Wrote(l, rec), loans[l].status # "Pending",
         rec.status # "Pending", Lending(rec) = Lending(loans[l]),
         outstanding' = outstanding
  PROVE  UNCHANGED Book!vars
<1>1. l \in Present
  BY DEF Wrote
<1>2. Exposure' = [Exposure EXCEPT ![l] = Exposure[l]] /\ Spent' = Spent
  BY <1>1, WroteBook, ExposureOf
<1>3. Exposure' = Exposure
  BY <1>2 DEF Exposure
<1> QED
  BY <1>2, <1>3, BookVars

LEMMA RequestStutters ==
  ASSUME ManagerInv, NEW b \in Borrowers, NEW amount \in Principals, NEW term \in Terms,
         NEW quote \in QuotedRates, RequestLoan(b, amount, term, quote)
  PROVE  UNCHANGED Book!vars
<1>1. /\ Active' = Active /\ outstanding' = outstanding
      /\ \A k \in Active : loans'[k] = loans[k]
  BY RequestKeeps
<1>2. Exposure' = Exposure
  BY <1>1 DEF Exposure
<1>3. LoansTyped /\ loanCounter \in Nat /\ loanCounter < MaxLoans
      /\ loanCounter' = loanCounter + 1
  BY ManagerFacts DEF LoansTyped, RequestLoan
<1> DEFINE l == loanCounter + 1
<1>4. l \in LoanIds /\ loans'[l].status = "Pending" /\ loans'[l] # NoLoan
      /\ \A k \in LoanIds \ {l} : loans'[k] = loans[k]
  <2> DEFINE new == [borrower |-> b, amount |-> amount, collateral |-> 0,
                    principalPaid |-> 0, accruedInterest |-> 0, accruedLateFee |-> 0,
                    rate |-> RateFor(quote), due |-> 0, lastInterest |-> 0,
                    lastLateFee |-> 0, status |-> "Pending", residual |-> 0,
                    extensions |-> 0, term |-> term]
  <2>1. SetLoan(l, new) /\ new.status = "Pending"
    BY DEF RequestLoan
  <2> HIDE DEF new
  <2>2. l \in LoanIds
    BY <1>3, ManagerAssumption DEF LoanIds
  <2>3. loans'[l] = new /\ \A k \in LoanIds \ {l} : loans'[k] = loans[k]
    BY <1>3, <2>1, <2>2 DEF SetLoan, LoansTyped
  <2>4. loans' \in [LoanIds -> LoanRecord \cup {NoLoan}]
    BY RequestKeeps DEF ManagerInv, LoanInv, LoansTyped
  <2>5. loans'[l] # NoLoan
    <3>1. ManagerInv' /\ loanCounter' = l
      BY <1>3, RequestKeeps
    <3>2. new \in LoanRecord
      <4>1. amount \in Nat \ {0} /\ term \in Nat /\ RateFor(quote) \in Nat
        <5>1. amount > 0 /\ amount \in Int /\ term \in Nat
          BY ManagerAssumption DEF RequestLoan
        <5> QED
          BY <1>3, <5>1, RateNat
      <4>2. 0 \in 0 .. MaxExtensions
        BY ManagerAssumption
      <4> QED
        BY <4>1, <4>2 DEF LoanRecord, new
    <3> QED
      BY <2>3, <3>2, LoanFields
  <2> QED
    BY <2>1, <2>2, <2>3, <2>5
<1>5. \A k \in 1 .. loanCounter : k # l /\ k \in LoanIds
  BY <1>3, ManagerAssumption DEF LoanIds
<1>6. Spent' = {k \in 1 .. l : k \in Present' => loans'[k].status # "Pending"}
  BY <1>3 DEF Spent
<1>7. l \in Present' /\ \A k \in 1 .. loanCounter : (k \in Present' <=> k \in Present)
                                                      /\ loans'[k] = loans[k]
  BY <1>4, <1>5 DEF Present
<1>8. 1 .. l = (1 .. loanCounter) \cup {l}
  BY <1>3
<1> HIDE DEF l
<1>9. Spent' = Spent
  BY <1>4, <1>6, <1>7, <1>8 DEF Spent
<1> QED
  BY <1>1, <1>2, <1>9, BookVars

LEMMA PurgeStutters ==
  ASSUME ManagerInv, NEW l \in LoanIds, PurgeLoan(l)
  PROVE  UNCHANGED Book!vars
<1>1. /\ Active' = Active /\ outstanding' = outstanding
      /\ \A k \in Active : loans'[k] = loans[k]
  BY PurgeKeeps
<1>2. Exposure' = Exposure
  BY <1>1 DEF Exposure
<1>3. /\ l \in Present /\ loans[l].status # "Pending" /\ SetLoan(l, NoLoan)
      /\ loanCounter' = loanCounter /\ LoansTyped
  BY ManagerFacts DEF PurgeLoan
<1>4. loans'[l] = NoLoan /\ \A k \in LoanIds \ {l} : loans'[k] = loans[k]
  BY <1>3 DEF SetLoan, LoansTyped
<1>5. \A k : (k \in Present' => loans'[k].status # "Pending")
               <=> (k \in Present => loans[k].status # "Pending")
  BY <1>3, <1>4 DEF Present
<1>6. Spent' = Spent
  BY <1>3, <1>5 DEF Spent
<1> QED
  BY <1>1, <1>2, <1>6, BookVars

LEMMA BookNext == ManagerInv /\ [Next]_vars => [Book!Next]_(Book!vars)
<1> SUFFICES ASSUME ManagerInv, [Next]_vars PROVE Book!Next \/ UNCHANGED Book!vars
  OBVIOUS
<1>1. CASE AdminNext \/ NftMoves \/ PoolMoves \/ UNCHANGED vars
  <2>1. loans' = loans /\ loanCounter' = loanCounter /\ outstanding' = outstanding
        /\ Active' = Active
    BY <1>1, AroundKeeps
  <2>2. Exposure' = Exposure /\ Spent' = Spent
    BY <2>1 DEF Exposure, Spent, Present
  <2> QED
    BY <2>1, <2>2, BookVars
<1>2. ASSUME NEW l \in LoanIds, ApproveLoan(l) PROVE Book!Next
  BY <1>2, ApproveGrants DEF Book!Next
<1>3. ASSUME NEW l \in LoanIds, NEW status \in {"Cancelled", "Rejected"}, Withdrawn(l, status)
      PROVE  Book!Next
  BY <1>3, WithdrawnWithdraws DEF Book!Next
<1>4. ASSUME NEW l \in LoanIds, NEW new \in Refinanced, NEW term \in Terms,
             NEW quote \in QuotedRates, RefinanceLoan(l, new, term, quote)
      PROVE  Book!Next
  BY <1>4, RefinanceRewrites DEF Book!Next
<1>5. ASSUME NEW l \in LoanIds, NEW amount \in Payments, Repay(l, amount)
      PROVE  Book!Next \/ UNCHANGED Book!vars
  <2>1. l \in Active /\ loans[l].status = "Approved"
    BY <1>5, RepayKeeps, OwedSound
  <2>2. PICK rec : /\ Wrote(l, rec)
                   /\ \/ /\ rec.status = "Approved" /\ rec.amount = loans[l].amount
                         /\ outstanding' = outstanding
                      \/ /\ rec.status = "Repaid"
                         /\ outstanding' = outstanding - loans[l].amount
    BY <1>5, RepayKeeps
  <2>3. CASE rec.status = "Approved" /\ rec.amount = loans[l].amount
             /\ outstanding' = outstanding
    <3>1. Lending(rec) = Lending(loans[l])
      BY <2>1, <2>3 DEF Lending
    <3> QED
      BY <2>1, <2>2, <2>3, <3>1, WroteStutters
  <2>4. CASE rec.status = "Repaid" /\ outstanding' = outstanding - loans[l].amount
    <3>1. {l} \in SUBSET Book!Open /\ Book!Close({l})
      BY <2>1, <2>2, <2>4, WroteCloses
    <3> QED
      BY <3>1 DEF Book!Next
  <2> QED
    BY <2>2, <2>3, <2>4
<1>6. ASSUME NEW l \in LoanIds, Liquidate(l) PROVE Book!Next
  <2>1. l \in Active /\ outstanding' = outstanding - loans[l].amount
    BY <1>6, LiquidateKeeps
  <2>2. PICK rec : Wrote(l, rec) /\ rec.status = "Liquidated"
    BY <1>6, LiquidateKeeps
  <2>3. {l} \in SUBSET Book!Open /\ Book!Close({l})
    BY <2>1, <2>2, WroteCloses
  <2> QED
    BY <2>3 DEF Book!Next
<1>7. ASSUME NEW batch \in SUBSET LoanIds, CheckDefaults(batch) PROVE Book!Next
  BY <1>7, DefaultsClose DEF Book!Next
<1>8. ASSUME NEW l \in LoanIds,
             \/ \E amount \in Posted : DepositCollateral(l, amount)
             \/ \E extra \in Terms : ExtendLoan(l, extra)
      PROVE  UNCHANGED Book!vars
  <2>1. l \in Active /\ outstanding' = outstanding /\ loans[l].status = "Approved"
    BY <1>8, DepositCollateralKeeps, ExtendKeeps, OwedSound
  <2>2. PICK rec : Wrote(l, rec) /\ rec.status = "Approved" /\ rec.amount = loans[l].amount
    BY <1>8, DepositCollateralKeeps, ExtendKeeps
  <2>3. Lending(rec) = Lending(loans[l])
    BY <2>1, <2>2 DEF Lending
  <2> QED
    BY <2>1, <2>2, <2>3, WroteStutters
<1>9. ASSUME NEW l \in LoanIds, ReleaseCollateral(l) PROVE UNCHANGED Book!vars
  <2>1. loans[l].status = "Repaid" /\ outstanding' = outstanding
    BY <1>9, ReleaseKeeps DEF ReleaseCollateral
  <2>2. PICK rec : Wrote(l, rec) /\ rec.status \notin {"Pending", "Approved"}
    BY <1>9, ReleaseKeeps
  <2>3. Lending(rec) = Lending(loans[l])
    BY <2>1, <2>2 DEF Lending
  <2> QED
    BY <2>1, <2>2, <2>3, WroteStutters
<1>10. CASE LoanNext
  BY <1>2, <1>3, <1>4, <1>5, <1>6, <1>7, <1>8, <1>9, <1>10, LoanSteps, RequestStutters,
     PurgeStutters
<1> QED
  BY <1>1, <1>10 DEF Next

(* The LoanManager implements the loan book: from the first state on every *)
(* operation opens, withdraws, rewrites or closes loans as LoanBook says,  *)
(* or changes nothing that LoanBook speaks of.                             *)
THEOREM LoansImplementBook == Spec => ImplementsBook
<1>1. Init => Book!Init
  BY BookInit
<1>2. ManagerInv /\ [Next]_vars => [Book!Next]_(Book!vars)
  BY BookNext
<1> QED
  BY <1>1, <1>2, ManagerAlways, PTL DEF Spec, ImplementsBook, Book!Spec

------------------------------------------------------------------------------
(***************************************************************************)
(* The promise itself, apart from LoanManager: for any finite set of loans *)
(* and any limits, what LoanBook states of its counter holds of it.        *)
(***************************************************************************)
CONSTANTS Ids, Limit, Capacity
VARIABLES exposure, spent, deployed

AnyBook == INSTANCE LoanBook

(* Finitely many loans, each for a natural number of units.                *)
BookParameters == IsFiniteSet(Ids) /\ Limit \in Nat /\ Capacity \in Nat

Exposures == [Ids -> 0 .. Limit]

BookTyped ==
  /\ exposure \in Exposures
  /\ spent \subseteq Ids
  /\ deployed \in Int

(* A loan that is open was entered among the spent ones.                   *)
OpenIsSpent == \A l \in Ids : exposure[l] > 0 => l \in spent

BookInv == BookTyped /\ OpenIsSpent /\ AnyBook!DeployedCoversOpenLoans

LEMMA LentIsTotal ==
  ASSUME NEW S
  PROVE  AnyBook!Lent(S) = Total(S, exposure)
BY DEF AnyBook!Lent, AnyBook!Cardinality, Total, Units, Cardinality

LEMMA ExposedNat ==
  ASSUME BookParameters, NEW e \in Exposures, NEW S \in SUBSET Ids
  PROVE  IsFiniteSet(S) /\ (\A l \in S : e[l] \in Nat) /\ Total(S, e) \in Nat
<1>1. IsFiniteSet(S)
  BY FS_Subset DEF BookParameters
<1>2. \A l \in S : e[l] \in Nat
  BY DEF Exposures, BookParameters
<1> QED
  BY <1>1, <1>2, TotalNat

(* What giving one loan another principal does to the sum.                 *)
LEMMA ExposureReplaced ==
  ASSUME BookParameters, NEW e \in Exposures, NEW l \in Ids, NEW n \in 0 .. Limit,
         NEW f, f = [e EXCEPT ![l] = n]
  PROVE  f \in Exposures /\ Total(Ids, f) = Total(Ids, e) - e[l] + n
<1>1. f \in Exposures /\ f[l] = n /\ (\A k \in Ids \ {l} : e[k] = f[k])
  BY DEF Exposures
<1>2. \A k \in Ids : e[k] \in Nat /\ f[k] \in Nat
  BY <1>1, ExposedNat
<1>3. ASSUME NEW g, \A k \in Ids : g[k] \in Nat, \A k \in Ids \ {l} : e[k] = g[k]
      PROVE  Total(Ids, g) = Total(Ids, e) - e[l] + g[l]
  BY <1>2, <1>3, TotalChange DEF BookParameters
<1>4. Total(Ids, f) = Total(Ids, e) - e[l] + f[l]
  BY <1>1, <1>2, <1>3
<1> QED
  BY <1>1, <1>4

LEMMA BookStarts == ASSUME BookParameters PROVE AnyBook!Init => BookInv
<1> SUFFICES ASSUME AnyBook!Init PROVE BookInv
  OBVIOUS
<1>1. BookTyped /\ OpenIsSpent
  BY DEF AnyBook!Init, BookTyped, OpenIsSpent, Exposures, BookParameters
<1>2. Units(Ids, exposure) = {}
  BY DEF AnyBook!Init, Units
<1>3. AnyBook!DeployedCoversOpenLoans
  BY <1>2, LentIsTotal, FS_EmptySet DEF AnyBook!DeployedCoversOpenLoans, Total, AnyBook!Init
<1> QED
  BY <1>1, <1>3 DEF BookInv

(* After a step that gives one loan another principal and moves the        *)
(* counter by at least as much, the counter still covers the loans.        *)
LEMMA ReplaceCovers ==
  ASSUME BookParameters, BookInv, NEW l \in Ids, NEW n \in 0 .. Limit,
         exposure' = [exposure EXCEPT ![l] = n],
         deployed' \in Int, deployed' >= deployed + n - exposure[l]
  PROVE  AnyBook!DeployedCoversOpenLoans'
<1>1. exposure \in Exposures /\ exposure' \in Exposures /\ deployed \in Int
  BY DEF BookInv, BookTyped, Exposures
<1>2. Total(Ids, exposure') = Total(Ids, exposure) - exposure[l] + n
  BY <1>1, ExposureReplaced
<1>3. exposure[l] \in Int /\ n \in Int /\ Total(Ids, exposure) \in Int
  BY <1>1, ExposedNat DEF Exposures, BookParameters
<1>4. deployed >= Total(Ids, exposure)
  BY LentIsTotal DEF BookInv, AnyBook!DeployedCoversOpenLoans
<1>5. deployed' >= Total(Ids, exposure')
  BY <1>1, <1>2, <1>3, <1>4
<1>6. AnyBook!Lent(Ids)' = Total(Ids, exposure')
  BY DEF AnyBook!Lent, AnyBook!Cardinality, Total, Units, Cardinality
<1> QED
  BY <1>5, <1>6 DEF AnyBook!DeployedCoversOpenLoans

LEMMA GrantKeepsBook ==
  ASSUME BookParameters, BookInv, NEW l \in Ids, AnyBook!Grant(l)
  PROVE  BookInv' /\ AnyBook!NoneReopened
<1>1. PICK n \in 1 .. Limit :
        /\ exposure' = [exposure EXCEPT ![l] = n]
        /\ deployed' = deployed + n
  BY DEF AnyBook!Grant
<1>2. l \notin spent /\ spent' = spent \cup {l}
  BY DEF AnyBook!Grant
<1>3. exposure \in Exposures /\ spent \subseteq Ids /\ deployed \in Int
  BY DEF BookInv, BookTyped
<1>4. n \in 0 .. Limit /\ n \in Int /\ exposure[l] \in Nat
  BY <1>3 DEF Exposures, BookParameters
<1>5. exposure' \in Exposures
  BY <1>1, <1>3, <1>4 DEF Exposures
<1>6. deployed' \in Int /\ deployed' >= deployed + n - exposure[l]
  BY <1>1, <1>3, <1>4
<1>7. BookTyped'
  BY <1>2, <1>3, <1>5, <1>6 DEF BookTyped
<1>8. OpenIsSpent'
  BY <1>1, <1>2, <1>3 DEF OpenIsSpent, BookInv, Exposures
<1>9. AnyBook!DeployedCoversOpenLoans'
  BY <1>1, <1>4, <1>6, ReplaceCovers
<1>10. AnyBook!NoneReopened
  BY <1>1, <1>2, <1>3 DEF AnyBook!NoneReopened, Exposures
<1> QED
  BY <1>7, <1>8, <1>9, <1>10 DEF BookInv

LEMMA RewriteKeepsBook ==
  ASSUME BookParameters, BookInv, NEW l \in Ids, AnyBook!Rewrite(l)
  PROVE  BookInv' /\ AnyBook!NoneReopened
<1>1. PICK n \in 1 .. Limit :
        /\ exposure' = [exposure EXCEPT ![l] = n]
        /\ deployed' \in (deployed + n - exposure[l]) .. (deployed + n)
  BY DEF AnyBook!Rewrite
<1>2. exposure[l] > 0 /\ spent' = spent
  BY DEF AnyBook!Rewrite, AnyBook!Open
<1>3. exposure \in Exposures /\ spent \subseteq Ids /\ deployed \in Int
  BY DEF BookInv, BookTyped
<1>4. n \in 0 .. Limit /\ n \in Int /\ exposure[l] \in Nat
  BY <1>3 DEF Exposures, BookParameters
<1>5. exposure' \in Exposures
  BY <1>1, <1>3, <1>4 DEF Exposures
<1>6. deployed' \in Int /\ deployed' >= deployed + n - exposure[l]
  BY <1>1, <1>3, <1>4
<1>7. BookTyped'
  BY <1>2, <1>3, <1>5, <1>6 DEF BookTyped
<1>8. OpenIsSpent'
  BY <1>1, <1>2, <1>3 DEF OpenIsSpent, BookInv, Exposures
<1>9. AnyBook!DeployedCoversOpenLoans'
  BY <1>1, <1>4, <1>6, ReplaceCovers
<1>10. AnyBook!NoneReopened
  BY <1>1, <1>2, <1>3, <1>4 DEF AnyBook!NoneReopened, Exposures
<1> QED
  BY <1>7, <1>8, <1>9, <1>10 DEF BookInv

LEMMA CloseKeepsBook ==
  ASSUME BookParameters, BookInv, NEW S \in SUBSET AnyBook!Open, AnyBook!Close(S)
  PROVE  BookInv' /\ AnyBook!NoneReopened
<1>1. /\ exposure' = [k \in Ids |-> IF k \in S THEN 0 ELSE exposure[k]]
      /\ deployed' = deployed - AnyBook!Lent(S)
      /\ spent' = spent
  BY DEF AnyBook!Close
<1>2. exposure \in Exposures /\ spent \subseteq Ids /\ deployed \in Int
  BY DEF BookInv, BookTyped
<1>3. S \subseteq Ids
  BY DEF AnyBook!Open
<1>4. exposure' \in Exposures
  BY <1>1, <1>2 DEF Exposures, BookParameters
<1>5. Total(Ids, exposure') = Total(Ids \ S, exposure)
  <2>1. \A k \in Ids : 1 .. exposure'[k] = IF k \in S THEN {} ELSE 1 .. exposure[k]
    BY <1>1
  <2>2. Units(Ids, exposure') = Units(Ids \ S, exposure)
    BY <2>1, <1>3 DEF Units
  <2> QED
    BY <2>2 DEF Total
<1>6. /\ Total(S, exposure) \in Int
      /\ Total(Ids \ S, exposure) \in Int
  BY <1>2, <1>3, ExposedNat
<1>7. Total(Ids, exposure)
        = Total(S, exposure) + Total(Ids \ S, exposure)
  BY <1>2, <1>3, <1>6, ExposedNat, TotalRemove
<1>8. deployed >= Total(Ids, exposure)
  BY LentIsTotal DEF BookInv, AnyBook!DeployedCoversOpenLoans
<1>9. AnyBook!Lent(S) = Total(S, exposure)
  BY <1>3, LentIsTotal
<1>10. deployed' \in Int /\ deployed' >= Total(Ids, exposure')
  BY <1>1, <1>2, <1>5, <1>6, <1>7, <1>8, <1>9
<1>11. AnyBook!DeployedCoversOpenLoans'
  <2>1. AnyBook!Lent(Ids)' = Total(Ids, exposure')
    BY DEF AnyBook!Lent, AnyBook!Cardinality, Total, Units, Cardinality
  <2> QED
    BY <1>10, <2>1 DEF AnyBook!DeployedCoversOpenLoans
<1>12. OpenIsSpent'
  BY <1>1 DEF OpenIsSpent, BookInv
<1>13. AnyBook!NoneReopened
  BY <1>1, <1>2 DEF AnyBook!NoneReopened
<1> QED
  BY <1>1, <1>2, <1>4, <1>10, <1>11, <1>12, <1>13 DEF BookInv, BookTyped

LEMMA WithdrawKeepsBook ==
  ASSUME BookInv, NEW l \in Ids, AnyBook!Withdraw(l)
  PROVE  BookInv' /\ AnyBook!NoneReopened
<1>1. exposure' = exposure /\ deployed' = deployed /\ spent' = spent \cup {l}
  BY DEF AnyBook!Withdraw
<1>2. BookTyped' /\ OpenIsSpent'
  BY <1>1 DEF BookInv, BookTyped, OpenIsSpent
<1>3. AnyBook!DeployedCoversOpenLoans'
  BY <1>1 DEF BookInv, AnyBook!DeployedCoversOpenLoans, AnyBook!Lent
<1> QED
  BY <1>1, <1>2, <1>3 DEF BookInv, AnyBook!NoneReopened

LEMMA BookStep ==
  ASSUME BookParameters, BookInv, [AnyBook!Next]_(AnyBook!vars)
  PROVE  /\ BookInv'
         /\ [AnyBook!NoneReopened]_(AnyBook!vars)
<1>1. ASSUME NEW l \in Ids, AnyBook!Grant(l) PROVE BookInv' /\ AnyBook!NoneReopened
  BY <1>1, GrantKeepsBook
<1>2. ASSUME NEW l \in Ids, AnyBook!Withdraw(l) PROVE BookInv' /\ AnyBook!NoneReopened
  BY <1>2, WithdrawKeepsBook
<1>3. ASSUME NEW l \in Ids, AnyBook!Rewrite(l) PROVE BookInv' /\ AnyBook!NoneReopened
  BY <1>3, RewriteKeepsBook
<1>4. ASSUME NEW S \in SUBSET AnyBook!Open, AnyBook!Close(S) PROVE BookInv' /\ AnyBook!NoneReopened
  BY <1>4, CloseKeepsBook
<1>5. CASE UNCHANGED AnyBook!vars
  BY <1>5 DEF BookInv, BookTyped, OpenIsSpent, AnyBook!DeployedCoversOpenLoans, AnyBook!Lent, AnyBook!vars
<1>6. CASE AnyBook!Next
  BY <1>6, <1>1, <1>2, <1>3, <1>4 DEF AnyBook!Next
<1> QED
  BY <1>5, <1>6

------------------------------------------------------------------------------
(* The counter the pool is settled against covers the principal of every   *)
(* open loan, whatever the order of grants, refinancings and closings: the *)
(* subtraction in settle_outstanding cannot fall short.                    *)
THEOREM BookCovers ==
  ASSUME BookParameters
  PROVE  AnyBook!Spec => []AnyBook!DeployedCoversOpenLoans
<1>1. AnyBook!Init => BookInv
  BY BookStarts
<1>2. BookInv /\ [AnyBook!Next]_(AnyBook!vars) => BookInv'
  BY BookStep
<1>3. BookInv => AnyBook!DeployedCoversOpenLoans
  BY DEF BookInv
<1> QED
  BY <1>1, <1>2, <1>3, PTL DEF AnyBook!Spec

(* A loan id that was used is never lent under again.                      *)
THEOREM BookOpensOnce ==
  ASSUME BookParameters
  PROVE  AnyBook!Spec => AnyBook!OpenOnce
<1>1. AnyBook!Init => BookInv
  BY BookStarts
<1>2. BookInv /\ [AnyBook!Next]_(AnyBook!vars)
        => /\ BookInv'
           /\ [AnyBook!NoneReopened]_(AnyBook!vars)
  BY BookStep
<1> QED
  BY <1>1, <1>2, PTL DEF AnyBook!Spec, AnyBook!OpenOnce

------------------------------------------------------------------------------
(***************************************************************************)
(* The loop of proportional_repayment_split, for debts of any size.  The   *)
(* point of its inductive invariant is that the remainders still in the    *)
(* race always add up to at least the units left times the total debt, and *)
(* each is less than the total: so while units are left somebody has a     *)
(* positive remainder, and whoever has one was rounded down below what it  *)
(* is owed.                                                                *)
(***************************************************************************)
Positive(k) == IF remainders[k] > 0 THEN remainders[k] ELSE 0

Typed ==
  /\ dues \in [Parts -> Nat]
  /\ splitAmount \in 0 .. Sum(dues)
  /\ payments \in [Parts -> Nat]
  /\ remainders \in [Parts -> Int]
  /\ unallocated \in Nat

RestCovers ==
  /\ \A k \in Parts : remainders[k] < Sum(dues) \/ remainders[k] = -1
  /\ \A k \in Parts : remainders[k] > 0 => payments[k] < dues[k]
  /\ Positive(1) + Positive(2) + Positive(3) >= unallocated * Sum(dues)

SplitInv == Typed /\ SplitIsExact /\ RestCovers

LEMMA SplitInit == LoopInit => SplitInv
<1> SUFFICES ASSUME LoopInit PROVE SplitInv
  OBVIOUS
<1> DEFINE T == Sum(dues)
<1>1. dues \in [Parts -> Nat] /\ T \in Nat /\ splitAmount \in Nat /\ splitAmount <= T
  <2>1. dues \in [Parts -> 0 .. MaxDue] /\ splitAmount \in 0 .. T
    BY DEF LoopInit
  <2>2. dues \in [Parts -> Nat]
    BY <2>1, SplitAssumption
  <2>3. T \in Nat
    BY <2>2 DEF Parts, Sum
  <2> QED
    BY <2>1, <2>2, <2>3
<1>2. CASE T = 0
  <2>1. dues = [k \in Parts |-> 0]
    BY <1>1, <1>2 DEF Parts, Sum
  <2>2. payments = [k \in Parts |-> 0] /\ remainders = [k \in Parts |-> -1]
    BY <1>2 DEF LoopInit
  <2>3. splitAmount = 0 /\ Sum(payments) = 0
    BY <1>1, <1>2, <2>2 DEF Parts, Sum
  <2>4. unallocated = 0
    BY <2>3 DEF LoopInit
  <2> QED
    BY <1>1, <1>2, <2>1, <2>2, <2>3, <2>4
    DEF SplitInv, Typed, SplitIsExact, RestCovers, Positive, Parts, Sum
<1>3. CASE T # 0
  <2> DEFINE q == payments
             r == [k \in Parts |-> (splitAmount * dues[k]) % T]
  <2>1. /\ q = [k \in Parts |-> (splitAmount * dues[k]) \div T]
        /\ remainders = [k \in Parts |-> IF dues[k] = 0 THEN -1 ELSE r[k]]
    BY <1>3 DEF LoopInit, Share
  <2>2. ASSUME NEW k \in Parts
        PROVE  /\ q[k] \in 0 .. dues[k]
               /\ r[k] \in 0 .. T - 1
               /\ splitAmount * dues[k] = T * q[k] + r[k]
               /\ r[k] > 0 => q[k] < dues[k]
    <3>1. dues[k] \in Nat /\ dues[k] <= T
      BY <1>1 DEF Parts, Sum
    <3> HIDE DEF T
    <3> QED
      BY <3>1, <1>1, <1>3, <2>1, Rounding
  <2>3. q \in [Parts -> Nat] /\ r \in [Parts -> 0 .. T - 1]
    <3>1. \A k \in Parts : q[k] \in Nat
      BY <2>2, <1>1
    <3> QED
      BY <3>1, <2>1, <2>2
  <2>4. /\ r[1] + r[2] + r[3] = (splitAmount - Sum(q)) * T
        /\ splitAmount - Sum(q) \in 0 .. 2
    <3> HIDE DEF T, q, r
    <3>1. Sum(dues) = T
      BY DEF T
    <3> QED
      BY <1>1, <1>3, <2>2, <2>3, <3>1, InitialRest
  <2>5. unallocated = splitAmount - Sum(q)
    BY DEF LoopInit
  <2>6. ASSUME NEW k \in Parts
        PROVE  Positive(k) = r[k] /\ (remainders[k] < T \/ remainders[k] = -1)
               /\ remainders[k] \in Int /\ (remainders[k] > 0 => q[k] < dues[k])
    <3>1. CASE dues[k] = 0
      <4>1. q[k] = 0 /\ r[k] = 0
        BY <3>1, <2>2, <1>3, <1>1
      <4> QED
        BY <4>1, <3>1, <2>1 DEF Positive
    <3>2. CASE dues[k] # 0
      <4>1. remainders[k] = r[k]
        BY <3>2, <2>1
      <4>2. r[k] \in 0 .. T - 1
        BY <2>2
      <4> HIDE DEF r, T, q
      <4> QED
        BY <4>1, <4>2, <2>2, <1>1 DEF Positive
    <3> QED
      BY <3>1, <3>2
  <2>7. Typed
    <3>1. remainders \in [Parts -> Int]
      BY <2>1, <2>6
    <3> QED
      BY <3>1, <1>1, <2>3, <2>4, <2>5 DEF Typed
  <2>8. SplitIsExact
    <3>1. Sum(q) \in Nat
      BY <2>3 DEF Sum, Parts
    <3> QED
      BY <3>1, <1>1, <2>2, <2>4, <2>5 DEF SplitIsExact
  <2>9. RestCovers
    <3>1. Positive(1) = r[1] /\ Positive(2) = r[2] /\ Positive(3) = r[3]
      BY <2>6 DEF Parts
    <3>2. Positive(1) + Positive(2) + Positive(3) = unallocated * T
      BY <3>1, <2>4, <2>5
    <3>3. unallocated * T \in Int
      BY <2>4, <2>5, <1>1
    <3> QED
      BY <3>2, <3>3, <2>6 DEF RestCovers
  <2> QED
    BY <2>7, <2>8, <2>9 DEF SplitInv
<1> QED
  BY <1>2, <1>3

(* A turn of the loop takes one remainder, less than the total, out of the *)
(* race, and one unit off what is left.                                    *)
LEMMA TurnArithmetic ==
  ASSUME NEW T \in Nat \ {0}, NEW u \in Nat \ {0}, NEW rest \in Int,
         NEW taken \in Int, rest >= u * T, taken <= T
  PROVE  rest - taken >= (u - 1) * T
<1>1. (u - 1) * T = u * T - T /\ u * T \in Int
  OBVIOUS
<1> DEFINE x == u * T
           y == (u - 1) * T
<1>2. x \in Int /\ y = x - T /\ rest >= x
  BY <1>1
<1> HIDE DEF x, y
<1>3. rest - taken >= y
  BY <1>2
<1> QED
  BY <1>3 DEF y

LEMMA SplitStep ==
  ASSUME SplitInv, NEW k \in Parts, Give(k)
  PROVE  SplitInv'
<1> DEFINE T == Sum(dues)
<1> USE DEF SplitInv
<1>1. /\ dues[k] > payments[k] /\ remainders[k] >= 0 /\ unallocated > 0
      /\ payments' = [payments EXCEPT ![k] = @ + 1]
      /\ remainders' = [remainders EXCEPT ![k] = -1]
      /\ unallocated' = unallocated - 1
      /\ dues' = dues /\ splitAmount' = splitAmount
  BY DEF Give, Selected, Candidate
<1>2. /\ dues[1] \in Nat /\ dues[2] \in Nat /\ dues[3] \in Nat
      /\ payments[1] \in Nat /\ payments[2] \in Nat /\ payments[3] \in Nat
      /\ remainders[1] \in Int /\ remainders[2] \in Int /\ remainders[3] \in Int
      /\ k = 1 \/ k = 2 \/ k = 3
  BY DEF Typed, Parts
<1>3. T \in Nat \ {0} /\ T' = T
  BY <1>1, <1>2 DEF Sum
<1>4. Typed'
  BY <1>1, <1>2 DEF Typed, Parts
<1>5. SplitIsExact'
  <2>1. \A j \in Parts : payments'[j] \in 0 .. dues'[j]
    BY <1>1 DEF SplitIsExact, Typed
  <2>2. Sum(payments') = Sum(payments) + 1
    BY <1>1, <1>2 DEF Typed, Sum, Parts
  <2>3. Sum(payments) \in Nat /\ splitAmount \in Nat /\ unallocated \in Nat
    BY <1>2 DEF Typed, Sum
  <2>4. Sum(payments') + unallocated' = splitAmount' /\ unallocated' \in 0 .. 2
    BY <1>1, <2>2, <2>3 DEF SplitIsExact
  <2> QED
    BY <2>1, <2>4 DEF SplitIsExact
<1>6. RestCovers'
  <2>1. \A j \in Parts : remainders'[j] < T' \/ remainders'[j] = -1
    BY <1>1, <1>3 DEF RestCovers, Typed
  <2>2. \A j \in Parts : remainders'[j] > 0 => payments'[j] < dues'[j]
    BY <1>1 DEF RestCovers, Typed
  <2>3. Positive(1) \in Nat /\ Positive(2) \in Nat /\ Positive(3) \in Nat
    BY <1>2 DEF Positive
  <2>4. Positive(k) <= T
    BY <1>1, <1>2, <1>3 DEF RestCovers, Positive, Typed
  <2>5. /\ Positive(1)' = (IF k = 1 THEN 0 ELSE Positive(1))
        /\ Positive(2)' = (IF k = 2 THEN 0 ELSE Positive(2))
        /\ Positive(3)' = (IF k = 3 THEN 0 ELSE Positive(3))
    BY <1>1 DEF Positive, Typed, Parts
  <2>6. Positive(1)' + Positive(2)' + Positive(3)'
          = (Positive(1) + Positive(2) + Positive(3)) - Positive(k)
    <3>1. CASE k = 1
      BY <3>1, <2>3, <2>5
    <3>2. CASE k = 2
      BY <3>2, <2>3, <2>5
    <3>3. CASE k = 3
      BY <3>3, <2>3, <2>5
    <3> QED
      BY <3>1, <3>2, <3>3, <1>2
  <2>7. (Positive(1) + Positive(2) + Positive(3)) - Positive(k)
          >= (unallocated - 1) * T
    <3> DEFINE rest  == Positive(1) + Positive(2) + Positive(3)
               taken == Positive(k)
    <3>1. rest \in Int /\ rest >= unallocated * T
      BY <2>3 DEF RestCovers
    <3>2. taken \in Int /\ taken <= T
      BY <2>3, <2>4, <1>2
    <3>3. unallocated \in Nat \ {0}
      BY <1>1 DEF Typed
    <3> HIDE DEF rest, taken, T
    <3>4. rest - taken >= (unallocated - 1) * T
      BY <3>1, <3>2, <3>3, <1>3, TurnArithmetic
    <3> QED
      BY <3>4 DEF rest, taken, T
  <2>8. (Positive(1) + Positive(2) + Positive(3) >= unallocated * Sum(dues))'
    BY <1>1, <2>6, <2>7
  <2> QED
    BY <2>1, <2>2, <2>8 DEF RestCovers
<1> QED
  BY <1>4, <1>5, <1>6

LEMMA SplitNext == SplitInv /\ [LoopNext]_loopVars => SplitInv'
<1> SUFFICES ASSUME SplitInv, [LoopNext]_loopVars PROVE SplitInv'
  OBVIOUS
<1>1. CASE LoopNext
  BY <1>1, SplitStep DEF LoopNext
<1>2. CASE UNCHANGED loopVars
  BY <1>2 DEF loopVars, SplitInv, Typed, SplitIsExact, RestCovers, Positive
<1> QED
  BY <1>1, <1>2

(* Whoever has a positive remainder can take a unit, and while units are   *)
(* left somebody has one.                                                  *)
LEMMA SomebodyCanTake == SplitInv => NeverExhausted
<1> SUFFICES ASSUME SplitInv, unallocated > 0 PROVE \E k \in Parts : Candidate(k)
  BY DEF NeverExhausted
<1> USE DEF SplitInv
<1> DEFINE T == Sum(dues)
<1>1. T \in Nat \ {0}
  <2>1. /\ dues[1] \in Nat /\ dues[2] \in Nat /\ dues[3] \in Nat
        /\ payments[1] \in 0 .. dues[1] /\ payments[2] \in 0 .. dues[2]
        /\ payments[3] \in 0 .. dues[3]
    BY DEF Typed, SplitIsExact, Parts
  <2>2. CASE T = 0
    <3>1. dues[1] = 0 /\ dues[2] = 0 /\ dues[3] = 0
      <4>1. dues[1] + dues[2] + dues[3] = 0
        BY <2>2 DEF Sum
      <4>2. dues[1] \in Nat /\ dues[2] \in Nat /\ dues[3] \in Nat
        BY <2>1
      <4> QED
        BY <4>1, <4>2
    <3>2. Sum(payments) = 0
      BY <2>1, <3>1 DEF Sum
    <3>3. splitAmount = 0 /\ unallocated \in Nat
      BY <2>2 DEF Typed
    <3>4. FALSE
      BY <3>2, <3>3 DEF SplitIsExact
    <3> QED
      BY <3>4
  <2> QED
    BY <2>1, <2>2 DEF Sum
<1>2. Positive(1) + Positive(2) + Positive(3) > 0
  <2> DEFINE rest == Positive(1) + Positive(2) + Positive(3)
  <2>1. rest \in Int /\ rest >= unallocated * T /\ unallocated \in Nat \ {0}
    BY DEF RestCovers, Positive, Typed, Parts
  <2>2. 1 * T <= unallocated * T /\ unallocated * T \in Int
    BY <1>1, <2>1, MulMono
  <2> HIDE DEF rest, T
  <2>3. rest > 0
    BY <1>1, <2>1, <2>2
  <2> QED
    BY <2>3 DEF rest
<1>3. PICK k \in Parts : remainders[k] > 0
  BY <1>2 DEF Positive, Parts, Typed
<1> QED
  BY <1>3 DEF Candidate, RestCovers, Typed

------------------------------------------------------------------------------
(***************************************************************************)
(* The loop computes the closed form: after g turns exactly the parts of   *)
(* the first g ranks have had their unit, because the candidate with the   *)
(* largest remainder is always the one of the next rank.                   *)
(***************************************************************************)
Turns    == Left(dues, splitAmount) - unallocated
Given(k) == Rank(Rests(dues, splitAmount), k) < Turns

RankedSoFar ==
  Sum(dues) # 0 =>
    /\ Turns \in Nat
    /\ payments = [k \in Parts |-> Shares(dues, splitAmount)[k] + IF Given(k) THEN 1 ELSE 0]
    /\ remainders = [k \in Parts |-> IF dues[k] = 0 \/ Given(k) THEN -1
                                     ELSE Rests(dues, splitAmount)[k]]

LEMMA RankedInit == LoopInit => RankedSoFar
<1> SUFFICES ASSUME LoopInit, Sum(dues) # 0
             PROVE  /\ Turns \in Nat
                    /\ payments = [k \in Parts |-> Shares(dues, splitAmount)[k]
                                                   + IF Given(k) THEN 1 ELSE 0]
                    /\ remainders = [k \in Parts |-> IF dues[k] = 0 \/ Given(k) THEN -1
                                                     ELSE Rests(dues, splitAmount)[k]]
  BY DEF RankedSoFar
<1>1. dues \in [Parts -> Nat] /\ splitAmount \in 0 .. Sum(dues)
  BY SplitAssumption DEF LoopInit
<1>2. /\ payments = Shares(dues, splitAmount)
      /\ unallocated = Left(dues, splitAmount)
      /\ remainders = [k \in Parts |-> IF dues[k] = 0 THEN -1
                                       ELSE Rests(dues, splitAmount)[k]]
  BY DEF LoopInit, Share, Shares, Rests, Left
<1>3. /\ Left(dues, splitAmount) \in 0 .. 2
      /\ Shares(dues, splitAmount) \in [Parts -> Nat]
      /\ Rests(dues, splitAmount) \in [Parts -> 0 .. Sum(dues) - 1]
  BY <1>1, SharesAndRests
<1>4. Turns = 0
  BY <1>2, <1>3 DEF Turns
<1>5. Rests(dues, splitAmount) \in [Parts -> Int]
  BY <1>3
<1>6. \A k \in Parts : ~Given(k)
  BY <1>4, <1>5, RanksDiffer DEF Given
<1>7. payments = [k \in Parts |-> Shares(dues, splitAmount)[k] + IF Given(k) THEN 1 ELSE 0]
  <2>1. payments \in [Parts -> Nat]
    BY <1>2, <1>3
  <2>2. \A k \in Parts :
          payments[k] = Shares(dues, splitAmount)[k] + IF Given(k) THEN 1 ELSE 0
    BY <1>2, <1>3, <1>6
  <2> HIDE DEF RankedSoFar
  <2> QED
    BY <2>1, <2>2
<1> QED
  BY <1>2, <1>4, <1>6, <1>7

LEMMA RankedStep ==
  ASSUME SplitInv, RankedSoFar, NEW k \in Parts, Give(k)
  PROVE  RankedSoFar'
<1> SUFFICES ASSUME Sum(dues) # 0
             PROVE  /\ Turns' \in Nat
                    /\ payments' = [j \in Parts |-> Shares(dues, splitAmount)[j]
                                                   + IF Given(j)' THEN 1 ELSE 0]
                    /\ remainders' = [j \in Parts |-> IF dues[j] = 0 \/ Given(j)' THEN -1
                                                      ELSE Rests(dues, splitAmount)[j]]
  BY DEF RankedSoFar, Give
<1> DEFINE s == Shares(dues, splitAmount)
           r == Rests(dues, splitAmount)
           u == Left(dues, splitAmount)
           g == Turns
<1>1. /\ dues \in [Parts -> Nat] /\ splitAmount \in 0 .. Sum(dues)
      /\ unallocated \in Nat /\ unallocated > 0
      /\ Sum(dues) \in Nat \ {0}
  BY DEF SplitInv, Typed, Give, Sum, Parts
<1>2. /\ s \in [Parts -> Nat] /\ r \in [Parts -> 0 .. Sum(dues) - 1] /\ u \in 0 .. 2
      /\ r[1] + r[2] + r[3] = u * Sum(dues)
      /\ \A j \in Parts : s[j] <= dues[j] /\ (r[j] > 0 => s[j] < dues[j])
  BY <1>1, SharesAndRests
<1>3. /\ g \in Nat /\ g = u - unallocated
      /\ payments = [j \in Parts |-> s[j] + IF Rank(r, j) < g THEN 1 ELSE 0]
      /\ remainders = [j \in Parts |-> IF dues[j] = 0 \/ Rank(r, j) < g THEN -1 ELSE r[j]]
  BY DEF RankedSoFar, Turns, Given
<1>4. /\ dues[k] > payments[k] /\ remainders[k] >= 0
      /\ \A j \in Parts : (dues[j] > payments[j] /\ remainders[j] >= 0) =>
           \/ remainders[j] < remainders[k]
           \/ remainders[j] = remainders[k] /\ k <= j
      /\ payments' = [payments EXCEPT ![k] = @ + 1]
      /\ remainders' = [remainders EXCEPT ![k] = -1]
      /\ unallocated' = unallocated - 1
      /\ dues' = dues /\ splitAmount' = splitAmount
  BY DEF Give, Selected, Candidate
<1>5. Turns' = g + 1 /\ \A j \in Parts : Given(j)' <=> Rank(r, j) < g + 1
  <2>1. Left(dues, splitAmount)' = u /\ Rests(dues, splitAmount)' = r
    BY <1>4 DEF Left, Rests, Shares
  <2>2. Turns' = g + 1
    BY <2>1, <1>1, <1>2, <1>3, <1>4 DEF Turns
  <2> HIDE DEF g, r, u
  <2> QED
    BY <2>1, <2>2 DEF Given
<1> HIDE DEF s, r, u, g
<1>6. g < u /\ u \in Int /\ g \in 0 .. 1
  BY <1>1, <1>2, <1>3
<1>7. /\ r \in [Parts -> Int]
      /\ \A j \in Parts : Rank(r, j) \in 0 .. 2
      /\ \A i, j \in Parts : Ahead(r, i, j) <=> Rank(r, i) < Rank(r, j)
      /\ \A i, j \in Parts : Rank(r, i) = Rank(r, j) => i = j
  <2>1. r \in [Parts -> Int]
    BY <1>2
  <2> QED
    BY <2>1, RanksDiffer
<1>8. \A j \in Parts : Rank(r, j) < u => r[j] > 0
  BY <1>1, <1>2, FirstRanksPositive
<1>9. Rank(r, k) = g
  <2>1. ~(Rank(r, k) < g)
    BY <1>3, <1>4
  <2>2. PICK j \in Parts : Rank(r, j) = g
    <3>1. /\ Rank(r, 1) \in 0 .. 2 /\ Rank(r, 2) \in 0 .. 2 /\ Rank(r, 3) \in 0 .. 2
          /\ Rank(r, 1) # Rank(r, 2) /\ Rank(r, 1) # Rank(r, 3) /\ Rank(r, 2) # Rank(r, 3)
      BY <1>7 DEF Parts
    <3>2. g = Rank(r, 1) \/ g = Rank(r, 2) \/ g = Rank(r, 3)
      BY <3>1, <1>6
    <3> QED
      BY <3>2 DEF Parts
  <2>3. r[j] > 0 /\ s[j] < dues[j]
    BY <2>2, <1>2, <1>6, <1>8
  <2>4. payments[j] = s[j] /\ remainders[j] = r[j]
    <3>1. ~(Rank(r, j) < g) /\ dues[j] # 0
      BY <2>2, <2>3, <1>1, <1>2, <1>6
    <3> QED
      BY <3>1, <1>2, <1>3
  <2>5. remainders[k] = r[k]
    BY <1>3, <1>4
  <2>6. r[j] < r[k] \/ (r[j] = r[k] /\ k <= j)
    <3>1. dues[j] > payments[j] /\ remainders[j] >= 0
      BY <2>3, <2>4, <1>1, <1>2
    <3> QED
      BY <3>1, <2>4, <2>5, <1>4
  <2>7. Ahead(r, k, j) \/ k = j
    BY <2>6, <1>7 DEF Ahead, Parts
  <2> QED
    BY <2>1, <2>2, <2>7, <1>6, <1>7
<1>10. \A j \in Parts : Rank(r, j) < g + 1 <=> (Rank(r, j) < g \/ j = k)
  BY <1>6, <1>7, <1>9
<1>11. payments' = [j \in Parts |-> s[j] + IF Given(j)' THEN 1 ELSE 0]
  <2>1. ~(Rank(r, k) < g)
    BY <1>6, <1>9
  <2>2. ASSUME NEW j \in Parts
        PROVE  payments'[j] = s[j] + IF Rank(r, j) < g + 1 THEN 1 ELSE 0
    <3>1. s[j] \in Nat
      BY <1>2
    <3>2. payments'[j] = IF j = k THEN payments[j] + 1 ELSE payments[j]
      BY <1>3, <1>4
    <3>3. payments[j] = s[j] + IF Rank(r, j) < g THEN 1 ELSE 0
      BY <1>3
    <3> QED
      BY <2>1, <3>1, <3>2, <3>3, <1>10
  <2>3. payments' = [j \in Parts |-> payments'[j]]
    BY <1>3, <1>4
  <2> QED
    BY <2>2, <2>3, <1>5
<1>12. remainders' = [j \in Parts |-> IF dues[j] = 0 \/ Given(j)' THEN -1 ELSE r[j]]
  <2>1. ASSUME NEW j \in Parts
        PROVE  remainders'[j] = IF dues[j] = 0 \/ Rank(r, j) < g + 1 THEN -1 ELSE r[j]
    BY <1>3, <1>4, <1>10
  <2>2. remainders' = [j \in Parts |-> remainders'[j]]
    BY <1>3, <1>4
  <2> QED
    BY <2>1, <2>2, <1>5
<1>13. Turns' \in Nat
  BY <1>5, <1>6
<1> QED
  BY <1>11, <1>12, <1>13 DEF s, r

LEMMA LoopStep == SplitInv /\ RankedSoFar /\ [LoopNext]_loopVars => RankedSoFar'
<1> SUFFICES ASSUME SplitInv, RankedSoFar, [LoopNext]_loopVars PROVE RankedSoFar'
  OBVIOUS
<1>1. CASE LoopNext
  BY <1>1, RankedStep DEF LoopNext
<1>2. CASE UNCHANGED loopVars
  BY <1>2 DEF loopVars, RankedSoFar, Turns, Given, Left, Rests, Shares
<1> QED
  BY <1>1, <1>2

LEMMA RankedComputes == SplitInv /\ RankedSoFar => ComputesSplit
<1> SUFFICES ASSUME SplitInv, RankedSoFar, unallocated = 0
             PROVE  payments = Split(dues, splitAmount)
  BY DEF ComputesSplit
<1>1. dues \in [Parts -> Nat] /\ splitAmount \in Nat /\ payments \in [Parts -> Nat]
  <2>1. Sum(dues) \in Nat
    BY DEF SplitInv, Typed, Sum, Parts
  <2> QED
    BY <2>1 DEF SplitInv, Typed
<1>2. CASE Sum(dues) = 0
  <2>1. \A k \in Parts : dues[k] = 0
    <3>1. dues[1] \in Nat /\ dues[2] \in Nat /\ dues[3] \in Nat
          /\ dues[1] + dues[2] + dues[3] = 0
      BY <1>1, <1>2 DEF Parts, Sum
    <3>2. dues[1] = 0 /\ dues[2] = 0 /\ dues[3] = 0
      BY <3>1
    <3> QED
      BY <3>2 DEF Parts
  <2>2. \A k \in Parts : payments[k] = 0
    BY <2>1, <1>1 DEF SplitInv, SplitIsExact
  <2>3. payments = [k \in Parts |-> 0]
    BY <2>2, <1>1
  <2> QED
    BY <2>3, <1>1, <1>2, SplitUnfolds
<1>3. CASE Sum(dues) # 0
  <2>1. Left(dues, splitAmount) \in 0 .. 2
    BY <1>3, SharesAndRests DEF SplitInv, Typed
  <2>2. Turns = Left(dues, splitAmount)
    BY <2>1 DEF Turns
  <2> QED
    BY <2>2, <1>1, <1>3, SplitUnfolds DEF RankedSoFar, Given
<1> QED
  BY <1>2, <1>3

------------------------------------------------------------------------------
(* proportional_repayment_split, for debts of any size: no part is paid    *)
(* more than is owed of it and not a unit of the payment is lost.          *)
THEOREM NothingLost == LoopSpec => []SplitIsExact
<1>1. SplitInv => SplitIsExact
  BY DEF SplitInv
<1> QED
  BY <1>1, SplitInit, SplitNext, PTL DEF LoopSpec

(* The expect on the selected part never panics, for debts of any size.    *)
THEOREM AllocationNeverExhausted == LoopSpec => []NeverExhausted
<1> QED
  BY SomebodyCanTake, SplitInit, SplitNext, PTL DEF LoopSpec

(* Both at once, for every debt and every payment towards it. *)
THEOREM SplitIsSound == LoopSpec => []SplitSound
<1> QED
  BY NothingLost, AllocationNeverExhausted, PTL DEF SplitSound

(* When the loop ends it has computed the closed form that apply_debt_recovery *)
(* is modelled with, for every debt and every payment towards it.          *)
THEOREM LoopComputesSplit == LoopSpec => []ComputesSplit
<1>1. LoopSpec => [](SplitInv /\ RankedSoFar)
  BY SplitInit, SplitNext, RankedInit, LoopStep, PTL DEF LoopSpec
<1> QED
  BY <1>1, RankedComputes, PTL

------------------------------------------------------------------------------
(***************************************************************************)
(* MultisigGovernance, which may replace the admin of the manager, for any *)
(* number of people, any times and any quorum.  Three facts carry its      *)
(* theorems: the approvals of a proposal are calls made for its id, ids    *)
(* are never used twice because all that ended are at most the counter,    *)
(* and the timelock leaves a window.                                       *)
(***************************************************************************)
Approved ==
  pending # NoTransfer => \A p \in pending.approvals : <<pending.id, p>> \in calls

Timed ==
  pending # NoTransfer =>
    /\ pending.executableAfter >= pending.proposedAt + MinTimelock
    /\ pending.executableAfter + MinTimelock <= pending.proposedAt + Ttl

IdsUsed ==
  /\ ended \subseteq 0 .. proposalCount
  /\ pending # NoTransfer => pending.id <= proposalCount
  /\ NoSecondLife

GovInv == GovernanceTypeOK /\ Approved /\ Timed /\ IdsUsed

LEMMA NoTransferIsNone == NoTransfer \notin Transfer
<1>1. Transfer \subseteq [id : Nat, proposedAdmin : People, signers : SUBSET People,
                          threshold : Nat, executableAfter : Nat, proposedAt : Nat,
                          approvals : SUBSET People, status : {"Active", "Cancelled"}]
  BY GovernanceAssumption DEF Transfer
<1> QED
  BY <1>1, GovernanceAssumption

LEMMA GovInit == GovernanceInit => GovInv
BY GovernanceAssumption
DEF GovernanceInit, Target!Init, GovInv, GovernanceTypeOK, Approved, Timed, IdsUsed, NoSecondLife, IsActive

LEMMA GovPropose ==
  ASSUME GovInv, NEW new \in People, NEW signers \in SUBSET People,
         NEW threshold \in Int, NEW delay \in Int,
         ProposeAdminTransfer(new, signers, threshold, delay)
  PROVE  GovInv'
<1> DEFINE p == [id |-> proposalCount + 1, proposedAdmin |-> new, signers |-> signers,
                 threshold |-> threshold, executableAfter |-> now + delay,
                 proposedAt |-> now, approvals |-> {}, status |-> "Active"]
<1>1. /\ pending' = p /\ proposalCount' = proposalCount + 1
      /\ proposalCount < MaxProposals
      /\ threshold >= 1 /\ threshold <= Cardinality(signers)
      /\ delay >= MinTimelock /\ delay <= Ttl - MinTimelock
      /\ UNCHANGED <<govAdmin, lastCancelledAt, calls, ended, now, targetVars>>
  BY DEF ProposeAdminTransfer, NextId, FirstApprovals, MaxTimelock
<1>2. Cardinality(signers) \in Nat
  BY GovernanceAssumption, FS_Subset, FS_CardinalityType
<1>3. p \in Transfer
  BY <1>1, <1>2, GovernanceAssumption DEF GovInv, GovernanceTypeOK, Transfer
<1>4. pending' # NoTransfer
  BY <1>1, <1>3, NoTransferIsNone
<1>5. GovernanceTypeOK'
  BY <1>1, <1>2, <1>3, GovernanceAssumption DEF GovInv, GovernanceTypeOK, targetVars
<1>6. Approved'
  BY <1>1 DEF Approved
<1>7. Timed'
  BY <1>1, GovernanceAssumption DEF GovInv, Timed, GovernanceTypeOK
<1>8. IdsUsed'
  BY <1>1, GovernanceAssumption DEF GovInv, IdsUsed, NoSecondLife, IsActive, GovernanceTypeOK
<1> QED
  BY <1>5, <1>6, <1>7, <1>8 DEF GovInv

LEMMA GovApprove ==
  ASSUME GovInv, NEW signer \in People, ApproveTransfer(signer)
  PROVE  GovInv'
<1>1. /\ pending # NoTransfer /\ pending.status = "Active" /\ signer \in pending.signers
      /\ pending' = [pending EXCEPT !.approvals = @ \cup {signer}]
      /\ calls' = calls \cup {<<pending.id, signer>>}
      /\ UNCHANGED <<govAdmin, lastCancelledAt, proposalCount, ended, now, targetVars>>
  BY DEF ApproveTransfer, IsActive
<1>2. pending \in Transfer
  BY <1>1 DEF GovInv, GovernanceTypeOK
<1>3. /\ pending' \in Transfer
      /\ pending'.id = pending.id /\ pending'.signers = pending.signers
      /\ pending'.threshold = pending.threshold /\ pending'.status = pending.status
      /\ pending'.executableAfter = pending.executableAfter
      /\ pending'.proposedAt = pending.proposedAt
      /\ pending'.approvals = pending.approvals \cup {signer}
  BY <1>1, <1>2 DEF Transfer
<1>4. GovernanceTypeOK'
  BY <1>1, <1>2, <1>3 DEF GovInv, GovernanceTypeOK, targetVars, Transfer
<1>5. Approved'
  BY <1>1, <1>3 DEF GovInv, Approved
<1>6. Timed'
  BY <1>1, <1>3 DEF GovInv, Timed
<1>7. IdsUsed'
  BY <1>1, <1>3 DEF GovInv, IdsUsed, NoSecondLife, IsActive
<1> QED
  BY <1>4, <1>5, <1>6, <1>7 DEF GovInv

LEMMA GovCancel ==
  ASSUME GovInv, Cancel
  PROVE  GovInv'
<1>1. /\ pending # NoTransfer /\ pending.status = "Active"
      /\ pending' = [pending EXCEPT !.status = "Cancelled"]
      /\ lastCancelledAt' = now
      /\ ended' = ended \cup {pending.id}
      /\ UNCHANGED <<govAdmin, proposalCount, calls, now, targetVars>>
  BY DEF Cancel, IsActive
<1>2. pending \in Transfer
  BY <1>1 DEF GovInv, GovernanceTypeOK
<1>3. /\ pending' \in Transfer
      /\ pending'.id = pending.id /\ pending'.signers = pending.signers
      /\ pending'.threshold = pending.threshold /\ pending'.status = "Cancelled"
      /\ pending'.executableAfter = pending.executableAfter
      /\ pending'.proposedAt = pending.proposedAt
      /\ pending'.approvals = pending.approvals
  BY <1>1, <1>2 DEF Transfer
<1>4. GovernanceTypeOK'
  BY <1>1, <1>2, <1>3 DEF GovInv, GovernanceTypeOK, targetVars, Transfer
<1>5. Approved' /\ Timed'
  BY <1>1, <1>3 DEF GovInv, Approved, Timed
<1>6. IdsUsed'
  BY <1>1, <1>2, <1>3 DEF GovInv, IdsUsed, NoSecondLife, IsActive, GovernanceTypeOK, Transfer
<1> QED
  BY <1>4, <1>5, <1>6 DEF GovInv

LEMMA GovEnd ==
  ASSUME GovInv, FinalizeAdminTransfer \/ ExpireProposal
  PROVE  GovInv'
<1>1. /\ pending \in Transfer /\ pending' = NoTransfer
      /\ ended' = ended \cup {pending.id}
      /\ UNCHANGED <<proposalCount, calls, now>>
  BY DEF FinalizeAdminTransfer, ExpireProposal, IsActive, GovInv, GovernanceTypeOK
<1>a. /\ pending.id \in 0 .. MaxProposals /\ pending.id <= proposalCount
      /\ pending.proposedAdmin \in People /\ pending # NoTransfer
  BY <1>1, NoTransferIsNone DEF GovInv, IdsUsed, Transfer
<1>2. GovernanceTypeOK'
  <2>1. CASE FinalizeAdminTransfer
    <3>1. /\ admin' = pending.proposedAdmin /\ govAdmin' = pending.proposedAdmin
          /\ proposed' = NoOne /\ governance' = governance /\ lastCancelledAt' = now
      BY <2>1
      DEF FinalizeAdminTransfer, Target!SetAdmin, Target!ProposalAfterSetAdmin
    <3>2. now \in Nat /\ ended' \subseteq 0 .. MaxProposals
      <4>1. now \in Nat
        BY GovernanceAssumption DEF GovInv, GovernanceTypeOK
      <4>2. ended \subseteq 0 .. MaxProposals
        BY Zenon DEF GovInv, GovernanceTypeOK
      <4> QED
        BY <4>1, <4>2, <1>1, <1>a
    <3>3. /\ govAdmin' \in People /\ pending' \in Transfer \cup {NoTransfer}
          /\ lastCancelledAt' \in Nat \cup {NoTime}
          /\ admin' \in People /\ proposed' \in People \cup {NoOne}
          /\ governance' \in People \cup {Gov, NoOne}
      BY <1>1, <1>a, <3>1, <3>2 DEF GovInv, GovernanceTypeOK
    <3>4. /\ proposalCount' \in 0 .. MaxProposals /\ now' \in 0 .. MaxTime
          /\ calls' \subseteq (0 .. MaxProposals) \X People
      BY <1>1, Zenon DEF GovInv, GovernanceTypeOK
    <3> QED
      BY <1>1, <3>2, <3>3, <3>4 DEF GovernanceTypeOK
  <2>2. CASE ExpireProposal
    BY <1>1, <1>a, <2>2 DEF ExpireProposal, GovInv, GovernanceTypeOK, targetVars
  <2> QED
    BY <2>1, <2>2
<1>3. Approved' /\ Timed'
  BY <1>1 DEF Approved, Timed
<1>4. IdsUsed'
  <2>1. ~IsActive'
    BY <1>1 DEF IsActive
  <2>2. ended \subseteq 0 .. proposalCount /\ proposalCount' = proposalCount
    BY <1>1 DEF GovInv, IdsUsed
  <2>3. pending.id \in 0 .. proposalCount
    BY <1>a DEF GovInv, GovernanceTypeOK
  <2>4. ended' \subseteq 0 .. proposalCount'
    BY <1>1, <2>2, <2>3
  <2> QED
    BY <1>1, <2>1, <2>4 DEF IdsUsed, NoSecondLife
<1> QED
  BY <1>2, <1>3, <1>4 DEF GovInv

LEMMA GovNext == GovInv /\ [GovernanceNext]_governanceVars => GovInv'
<1> SUFFICES ASSUME GovInv, [GovernanceNext]_governanceVars PROVE GovInv'
  OBVIOUS
<1>1. ASSUME NEW new \in People, NEW signers \in SUBSET People,
             NEW threshold \in 0 .. Cardinality(People) + 1, NEW delay \in 0 .. Ttl,
             ProposeAdminTransfer(new, signers, threshold, delay)
      PROVE  GovInv'
  BY <1>1, GovPropose
<1>2. ASSUME NEW signer \in People, ApproveTransfer(signer) PROVE GovInv'
  BY <1>2, GovApprove
<1>3. CASE Cancel \/ \E id \in 1 .. MaxProposals : EmergencyCancelProposal(id)
  BY <1>3, GovCancel DEF EmergencyCancelProposal
<1>4. CASE FinalizeAdminTransfer \/ ExpireProposal
  BY <1>4, GovEnd
<1>5. CASE TargetMoves
  <2>1. UNCHANGED <<govAdmin, pending, lastCancelledAt, proposalCount, calls, ended, now>>
    BY <1>5 DEF TargetMoves, govVars
  <2>2. GovernanceTypeOK'
    BY <1>5, <2>1
    DEF TargetMoves, Target!ProposeAdmin, Target!AcceptAdmin, Target!SetGovernance,
        Target!SetAdmin, Target!ProposalAfterSetAdmin, GovInv, GovernanceTypeOK
  <2> QED
    BY <2>1, <2>2 DEF GovInv, Approved, Timed, IdsUsed, NoSecondLife, IsActive
<1>6. CASE Tick
  BY <1>6, GovernanceAssumption
  DEF Tick, govVars, targetVars, GovInv, GovernanceTypeOK, Approved, Timed, IdsUsed,
      NoSecondLife, IsActive
<1>7. CASE UNCHANGED governanceVars
  BY <1>7
  DEF governanceVars, govVars, targetVars, GovInv, GovernanceTypeOK, Approved, Timed, IdsUsed,
      NoSecondLife, IsActive
<1> QED
  BY <1>1, <1>2, <1>3, <1>4, <1>5, <1>6, <1>7 DEF GovernanceNext

------------------------------------------------------------------------------
(* Every stored proposal is well formed: its quorum consists of its own    *)
(* signers, who suffice to reach the threshold.                            *)
THEOREM GovTypeCorrect == GovernanceSpec => []GovernanceTypeOK
<1>1. GovInv => GovernanceTypeOK
  BY DEF GovInv
<1> QED
  BY <1>1, GovInit, GovNext, PTL DEF GovernanceSpec

(* A proposal that ended is never open again, under any id.                *)
THEOREM EndedForGood == GovernanceSpec => []NoSecondLife
<1>1. GovInv => NoSecondLife
  BY DEF GovInv, IdsUsed
<1> QED
  BY <1>1, GovInit, GovNext, PTL DEF GovernanceSpec

(* Whatever the timelock, a proposal can be finalized for a while before   *)
(* it expires.                                                             *)
THEOREM WindowStaysUsable == GovernanceSpec => []UsableWindow
<1>1. GovInv => UsableWindow
  BY DEF GovInv, Timed, UsableWindow, IsActive, Expiry
<1> QED
  BY <1>1, GovInit, GovNext, PTL DEF GovernanceSpec

(* The admin of the governance contract and of its target changes only by  *)
(* a quorum of the signers of the very proposal, after its timelock.       *)
LEMMA QuorumStep ==
  ASSUME GovInv, [GovernanceNext]_governanceVars, govAdmin' # govAdmin
  PROVE  /\ IsActive
         /\ Cardinality(Supporters(pending.id) \cap pending.signers) >= pending.threshold
         /\ now \in pending.proposedAt + MinTimelock .. Expiry - 1
         /\ admin' = govAdmin'
<1>1. FinalizeAdminTransfer
  BY DEF GovernanceNext, ProposeAdminTransfer, ApproveTransfer, Cancel, EmergencyCancelProposal,
         ExpireProposal, TargetMoves, Tick, governanceVars, govVars
<1>2. /\ IsActive /\ now >= pending.executableAfter /\ now < Expiry
      /\ Cardinality(pending.approvals) >= pending.threshold
      /\ admin' = govAdmin'
  BY <1>1 DEF FinalizeAdminTransfer, Target!SetAdmin
<1>3. pending \in Transfer /\ pending.approvals \subseteq pending.signers
  BY <1>2 DEF GovInv, GovernanceTypeOK, IsActive
<1>4. pending.approvals \subseteq Supporters(pending.id) \cap pending.signers
  BY <1>2, <1>3 DEF GovInv, Approved, IsActive, Supporters, Transfer
<1>5. /\ IsFiniteSet(Supporters(pending.id) \cap pending.signers)
      /\ IsFiniteSet(pending.approvals)
  BY <1>3, <1>4, GovernanceAssumption, FS_Subset DEF Supporters, Transfer
<1>6. /\ Cardinality(pending.approvals) \in Nat
      /\ Cardinality(Supporters(pending.id) \cap pending.signers) \in Nat
      /\ Cardinality(pending.approvals)
           <= Cardinality(Supporters(pending.id) \cap pending.signers)
  BY <1>4, <1>5, FS_Subset, FS_CardinalityType
<1>7. now \in pending.proposedAt + MinTimelock .. Expiry - 1
  BY <1>2, <1>3, GovernanceAssumption
  DEF GovInv, Timed, IsActive, Expiry, GovernanceTypeOK, Transfer
<1>8. pending.threshold \in Nat
  BY <1>3 DEF Transfer
<1> QED
  BY <1>2, <1>6, <1>7, <1>8

THEOREM QuorumRules == GovernanceSpec => AdminChangesByQuorum
<1>1. GovInv /\ [GovernanceNext]_governanceVars =>
        [govAdmin' # govAdmin =>
           /\ IsActive
           /\ Cardinality(Supporters(pending.id) \cap pending.signers) >= pending.threshold
           /\ now \in pending.proposedAt + MinTimelock .. Expiry - 1
           /\ admin' = govAdmin']_governanceVars
  BY QuorumStep
<1> QED
  BY <1>1, GovInit, GovNext, PTL DEF GovernanceSpec, AdminChangesByQuorum

------------------------------------------------------------------------------
(* No proposal of an earlier admin can be accepted, however the admin and  *)
(* the governance address changed.                                         *)
THEOREM ProposalsAreCurrent == GovernanceSpec => []ProposalFromCurrentAdmin
<1>1. GovernanceInit => ProposalFromCurrentAdmin
  BY DEF GovernanceInit, Target!Init, ProposalFromCurrentAdmin, Target!ProposalFromCurrentAdmin
<1>2. ProposalFromCurrentAdmin /\ [GovernanceNext]_governanceVars => ProposalFromCurrentAdmin'
  BY DEF GovernanceNext, ProposeAdminTransfer, ApproveTransfer, FinalizeAdminTransfer, Cancel,
         EmergencyCancelProposal, ExpireProposal, TargetMoves, Tick, governanceVars, govVars,
         targetVars, ProposalFromCurrentAdmin, Target!ProposalFromCurrentAdmin,
         Target!ProposeAdmin, Target!AcceptAdmin, Target!SetGovernance,
         Target!SetAdmin, Target!ProposalAfterSetAdmin
<1> QED
  BY <1>1, <1>2, PTL DEF GovernanceSpec
(* The four at once, for any number of people, proposals and any length of *)
(* time.                                                                   *)
THEOREM ProposalsStaySound == GovernanceSpec => []ProposalsSound
<1> QED
  BY GovTypeCorrect, EndedForGood, WindowStaysUsable, ProposalsAreCurrent, PTL
     DEF ProposalsSound
==============================================================================
