---------------------------- MODULE RepaymentSplit ----------------------------
(***************************************************************************)
(* proportional_repayment_split of contracts/loan_manager as the loop it   *)
(* is: shares rounded down first, then the units left over handed out one  *)
(* by one to the largest remainder.  A turn of the loop that finds nobody  *)
(* to give to panics ("repayment allocation exhausted") and so blocks the  *)
(* repayment of the loan.                                                  *)
(*                                                                         *)
(* Callers pay at most what is owed: repay refuses more, and a liquidation *)
(* recovers at most the debt.                                              *)
(***************************************************************************)
EXTENDS LoanMath

CONSTANTS MaxDue  \* bound on each part of a debt

ASSUME SplitAssumption == MaxDue \in Nat

VARIABLES
  dues,         \* principal, interest and late fees owed
  splitAmount,  \* the payment
  payments,     \* what each part gets
  remainders,   \* what rounding left of each share; -1: out of the race
  unallocated   \* units still to hand out

loopVars == <<dues, splitAmount, payments, remainders, unallocated>>

Parts  == 1 .. 3
Sum(f) == f[1] + f[2] + f[3]

(* Bug: shares are rounded up. *)
ShareUp(due, paid, total) == (paid * due + total - 1) \div total

Share(due, paid, total) == (paid * due) \div total

(* The first loop: a part nothing is owed of stays out of the race.        *)
LoopInit ==
  /\ dues \in [Parts -> 0 .. MaxDue]
  /\ splitAmount \in 0 .. Sum(dues)
  /\ IF Sum(dues) = 0
     THEN payments = [k \in Parts |-> 0] /\ remainders = [k \in Parts |-> -1]
     ELSE /\ payments = [k \in Parts |-> Share(dues[k], splitAmount, Sum(dues))]
          /\ remainders = [k \in Parts |-> IF dues[k] = 0 THEN -1
                                           ELSE (splitAmount * dues[k]) % Sum(dues)]
  /\ unallocated = splitAmount - Sum(payments)

(* Bug: off by one, the last unit a part is owed cannot be given. *)
CandidateEarly(k) == dues[k] > payments[k] + 1 /\ remainders[k] >= 0

Candidate(k) == dues[k] > payments[k] /\ remainders[k] >= 0

(* Bug: of equal remainders the last part is served first. *)
SelectedLast(k) ==
  /\ Candidate(k)
  /\ \A j \in Parts : Candidate(j) =>
       \/ remainders[j] < remainders[k]
       \/ remainders[j] = remainders[k] /\ j <= k

(* The first of the candidates with the largest remainder.                 *)
Selected(k) ==
  /\ Candidate(k)
  /\ \A j \in Parts : Candidate(j) =>
       \/ remainders[j] < remainders[k]
       \/ remainders[j] = remainders[k] /\ k <= j

Give(k) ==
  /\ unallocated > 0
  /\ Selected(k)
  /\ payments' = [payments EXCEPT ![k] = @ + 1]
  /\ remainders' = [remainders EXCEPT ![k] = -1]
  /\ unallocated' = unallocated - 1
  /\ UNCHANGED <<dues, splitAmount>>

LoopNext == \E k \in Parts : Give(k)

LoopSpec == LoopInit /\ [][LoopNext]_loopVars
------------------------------------------------------------------------------
(* At every turn no part gets more than is owed of it and what is handed   *)
(* out and what is left make up the payment, with at most two units left:  *)
(* repay's subtractions cannot underflow and no token is lost.             *)
SplitIsExact ==
  /\ \A k \in Parts : payments[k] \in 0 .. dues[k]
  /\ Sum(payments) + unallocated = splitAmount
  /\ unallocated \in 0 .. 2

(* While units are left somebody can still take one: the expect that would *)
(* block a repayment never panics.                                         *)
NeverExhausted == unallocated > 0 => \E k \in Parts : Candidate(k)

(* Both at every turn of the loop. *)
SplitSound == SplitIsExact /\ NeverExhausted

(* The loop computes the closed form the LoanManager is modelled with.     *)
ComputesSplit == unallocated = 0 => payments = Split(dues, splitAmount)
==============================================================================
