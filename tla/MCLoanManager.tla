---------------------------- MODULE MCLoanManager ----------------------------
(* Configurations of the LoanManager for model checking: basis points keep *)
(* their scale, ledgers and amounts are small.                             *)
EXTENDS LoanManager, TLC

CONSTANTS b1, b2, p1

NoSettings ==
  [f \in DOMAIN Configured \ {"oracle", "maxExtension"} |-> {}]

(* A single loan without collateral is explored under every setting and    *)
(* under every switch, but not under both at once: no property ties one    *)
(* to the other.                                                           *)
(* Two loans with collateral run under what initialize left, and one that  *)
(* is refinanced as well.                                                  *)
NeverRefinanced == \A l \in Present : loans[l].amount \in Principals

SimpleLoan == loanCounter <= 1 /\ escrow = 0 /\ NeverRefinanced

NoSwitchThrown ==
  /\ ~lmPaused /\ ~poolPaused /\ ~nftPaused
  /\ \A b \in Borrowers : scoreOk[b]

Explored ==
  \/ SimpleLoan /\ config = Configured
  \/ SimpleLoan /\ NoSwitchThrown /\ ledger <= 1
  \/ /\ config = Configured /\ NoSwitchThrown
     /\ NeverRefinanced \/ (loanCounter <= 1 /\ outstanding <= Supply /\ ledger <= 2)

MCNext == Next /\ Explored'

MCSpec == Init /\ [][MCNext]_vars

(* Books: no interest worth a unit, so that many loans fit.                *)
BooksConfigured ==
  [lateFeeRate |-> 500, threshold |-> 30000, bonus |-> 2000, maxAmount |-> 4,
   minRepayment |-> 1, maxLoans |-> 2, rate |-> 1, oracle |-> FALSE,
   minRate |-> 1, maxRate |-> 100000, minTerm |-> 0, maxTerm |-> 10,
   maxExtension |-> 2, grace |-> 1, window |-> 1]

(* Debt: interest and late fees worth units within a few ledgers, at rates *)
(* the oracle quotes, one of them high enough to reach the debt cap.       *)
DebtConfigured ==
  [BooksConfigured EXCEPT !.lateFeeRate = 2500, !.rate = 3000, !.oracle = TRUE,
                          !.maxLoans = 1, !.grace = 0, !.window = 3]

(* Every setting moves under a running loan, the pairs that bound each     *)
(* other through several values, the rest to a value of its own.           *)
AdminConfigured ==
  [BooksConfigured EXCEPT !.maxTerm = 2, !.minRate = 2, !.maxRate = 2]

AdminSettings ==
  [lateFeeRate |-> {500, 2600}, threshold |-> {30000, 9999}, bonus |-> {2000, 2100},
   maxAmount |-> {0, 4}, minRepayment |-> {1}, maxLoans |-> {0, 2}, rate |-> {0, 1},
   minRate |-> {1, 3}, maxRate |-> {1, 2}, minTerm |-> {1, 3}, maxTerm |-> {1, 2},
   grace |-> {0, 2}, window |-> {1, 2}]
==============================================================================
