---------------------------- MODULE MCEventIndexer ----------------------------
(* Two ledgers of events: in the first two repayments of one loan, which   *)
(* share a slot of the table, and a liquidation, whose event names no      *)
(* borrower; in the second a default the parser of the first release       *)
(* cannot read and an event that is of no interest.                        *)
EXTENDS EventIndexer

MCChain ==
  << [kind |-> "LoanRepaid", loan |-> 1, ledger |-> 1, parse |-> "ok"],
     [kind |-> "LoanRepaid", loan |-> 1, ledger |-> 1, parse |-> "ok"],
     [kind |-> "CollateralLiquidated", loan |-> 3, ledger |-> 1, parse |-> "ok"],
     [kind |-> "LoanDefaulted", loan |-> 2, ledger |-> 2, parse |-> "throws"],
     [kind |-> "Paused", loan |-> 0, ledger |-> 2, parse |-> "null"] >>

MCRanges == {<<1, 2>>}
==============================================================================
