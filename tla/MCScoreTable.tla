----------------------------- MODULE MCScoreTable -----------------------------
(* A repayment that takes its loan off the list, as any repayment does, a  *)
(* further one of the same loan, worth more on the chain, and a default.   *)
(* Deltas are configured, here so that two repayments of a chunk, or one   *)
(* default, go beyond what the statement can add.                          *)
EXTENDS ScoreTable

MCMoves ==
  { [table |-> 200, chain |-> 15, ends |-> TRUE],
    [table |-> 200, chain |-> 90, ends |-> FALSE],
    [table |-> -250, chain |-> -50, ends |-> TRUE] }
==============================================================================
