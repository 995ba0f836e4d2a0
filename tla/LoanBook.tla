------------------------------- MODULE LoanBook -------------------------------
(***************************************************************************)
(* What the LoanManager promises the lenders, without schedules, interest  *)
(* or collateral: a loan is opened at most once, with the pool's counter   *)
(* rising by its principal; while open it may be rewritten to another      *)
(* principal; it is closed at most once, with all of its principal leaving *)
(* the counter.  LoanManager implements this (its property ImplementsBook).*)
(***************************************************************************)
EXTENDS Integers, FiniteSets

CONSTANTS
  Ids,      \* loans
  Limit,    \* the most a loan can be for
  Capacity  \* the most the counter can hold

VARIABLES
  exposure,  \* principal lent under each loan, 0 while it is not open
  spent,     \* loans that were opened, or withdrawn before
  deployed   \* the principal the pool counts as lent

vars == <<exposure, spent, deployed>>

Open == {l \in Ids : exposure[l] > 0}

(* Principal lent under a set of loans, counted unit by unit.              *)
Lent(S) == Cardinality(UNION {{l} \X (1 .. exposure[l]) : l \in S})

Init ==
  /\ exposure = [l \in Ids |-> 0]
  /\ spent = {}
  /\ deployed = 0

Grant(l) ==
  /\ l \notin spent
  /\ \E principal \in 1 .. Limit :
       /\ deployed + principal <= Capacity
       /\ exposure' = [exposure EXCEPT ![l] = principal]
       /\ deployed' = deployed + principal
  /\ spent' = spent \cup {l}

Withdraw(l) ==
  /\ l \notin spent
  /\ spent' = spent \cup {l}
  /\ UNCHANGED <<exposure, deployed>>

(* A new principal for an open loan.  What was repaid of the old one may   *)
(* stay counted, so the counter lands anywhere between the exact value and *)
(* that of a second loan.                                                  *)
Rewrite(l) ==
  /\ l \in Open
  /\ \E principal \in 1 .. Limit :
       /\ exposure' = [exposure EXCEPT ![l] = principal]
       /\ deployed' \in (deployed + principal - exposure[l]) .. (deployed + principal)
       /\ deployed' <= Capacity
  /\ UNCHANGED spent

Close(S) ==
  /\ S # {} /\ S \subseteq Open
  /\ exposure' = [l \in Ids |-> IF l \in S THEN 0 ELSE exposure[l]]
  /\ deployed' = deployed - Lent(S)
  /\ UNCHANGED spent

Next ==
  \/ \E l \in Ids : Grant(l) \/ Withdraw(l) \/ Rewrite(l)
  \/ \E S \in SUBSET Open : Close(S)

Spec == Init /\ [][Next]_vars

TypeOK ==
  /\ exposure \in [Ids -> Nat]
  /\ spent \subseteq Ids
  /\ deployed \in Int

(* The counter never falls below the principal of the open loans, and so   *)
(* never below zero, in any order of grants, rewrites and closings.        *)
DeployedCoversOpenLoans == deployed >= Lent(Ids)

(* No loan is lent under again once it was opened and closed, or withdrawn. *)
NoneReopened == \A l \in spent : exposure[l] = 0 => exposure'[l] = 0
OpenOnce == [][NoneReopened]_vars
==============================================================================
