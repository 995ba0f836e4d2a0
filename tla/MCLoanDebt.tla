------------------------------ MODULE MCLoanDebt ------------------------------
(* What a repayment does to a debt, at its two levels: a loan in the whole *)
(* contract, whose payments are split by the closed form, and the loop of  *)
(* the code that splits one, from every debt and payment up to the bound.  *)
(* Either is explored while the other stands still.                        *)
EXTENDS MCLoanManager, RepaymentSplit

DebtInit == Init /\ LoopInit

DebtNext ==
  \/ Sum(dues) = 0 /\ MCNext /\ UNCHANGED loopVars
  \/ LoopNext /\ UNCHANGED vars

DebtSpec == DebtInit /\ [][DebtNext]_<<vars, loopVars>>
==============================================================================
