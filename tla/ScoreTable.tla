------------------------------ MODULE ScoreTable ------------------------------
(***************************************************************************)
(* The scores table of the backend and everything that writes it: the      *)
(* indexer's transaction (services/scoresService.ts), the score endpoint   *)
(* (controllers/scoreController.ts) and the job that compares it with the  *)
(* chain (services/scoreReconciliationService.ts); with the cache that     *)
(* readers fill and writers clear.                                         *)
(*                                                                         *)
(* The model follows one borrower; the writers treat several alike.  A     *)
(* step is one statement or one call; a row that a transaction has written *)
(* is locked until it ends, and readers see the row as last committed.     *)
(***************************************************************************)
EXTENDS Integers, Sequences

CONSTANTS
  Readers,      \* requests that read the score
  Moves,        \* what an event does: to the chain's score, to the table's,
                \* and whether it takes a loan from those listed as active
  Threshold,    \* SCORE_RECONCILIATION_AUTOCORRECT_THRESHOLD
  AutoCorrect,  \* SCORE_RECONCILIATION_AUTOCORRECT_ENABLED
  MaxBorrowers, \* SCORE_RECONCILIATION_MAX_BORROWERS_PER_RUN
  NoScore,      \* no row, nothing in the cache
  MaxEvents,    \* bound on events
  MaxLoans,     \* bound on loans
  MaxAhead,     \* bound on the borrowers listed before this one
  MaxUpdates,   \* bound on requests to the score endpoint
  MaxFailures   \* bound on failed calls

MinScore == 300
MaxScore == 850
StartScore == 500

ASSUME ScoreAssumption ==
  /\ \A m \in Moves : m.table \in Int /\ m.chain \in Int /\ m.ends \in BOOLEAN
  /\ Threshold \in Nat /\ AutoCorrect \in BOOLEAN
  /\ MaxBorrowers \in Nat \ {0} /\ MaxAhead \in Nat
  /\ NoScore \notin Int

VARIABLES
  chain,   \* the score on the chain
  emitted, \* events still to be indexed
  open,    \* loans approved without an event that takes them off the list
  loans,   \* the active loans as listed: without such an event indexed
  ahead,   \* other borrowers with active loans and a lower address
  table,   \* current_score, as committed
  cache,   \* score:userId:<user>
  bulk,    \* the indexer's transaction
  update,  \* the request to the score endpoint
  reader,  \* the memory of each reader
  job,     \* the memory of the reconciliation job
  events, approvals, updates, failures

scoreVars == <<chain, emitted, open, loans, table, cache, bulk, update, reader, job,
               events, approvals, updates, failures, ahead>>

(* The chunk's events so far, what they come to for the table and for the  *)
(* list, and the score the statement has left in the row.                  *)
NoBulk == [at |-> "idle", size |-> 0, delta |-> 0, ended |-> 0, value |-> NoScore]
NoJob  == [at |-> "idle", read |-> NoScore, found |-> NoScore]

Failure == failures < MaxFailures /\ failures' = failures + 1

ScoreInit ==
  /\ chain = StartScore
  /\ emitted = <<>>
  /\ open = 0 /\ loans = 0 /\ ahead = 0
  /\ table = NoScore
  /\ cache = NoScore
  /\ bulk = NoBulk
  /\ update = "idle"
  /\ reader = [r \in Readers |-> NoScore]
  /\ job = NoJob
  /\ events = 0 /\ approvals = 0 /\ updates = 0 /\ failures = 0

------------------------------------------------------------------------------
AtMost(x, y)  == IF x < y THEN x ELSE y
AtLeast(x, y) == IF x > y THEN x ELSE y

Clamp(score) == AtMost(MaxScore, AtLeast(MinScore, score))

(* What a reader makes of the row.                                         *)
Score(row) == IF row = NoScore THEN StartScore ELSE row

(* Bug: the delta of an existing row is not freed of the start score. *)
UpsertedRaw(row, delta) ==
  IF row = NoScore THEN Clamp(StartScore + delta)
  ELSE Clamp(row + Clamp(StartScore + delta))

(* The bulk statement inserts the clamped sum of start score and delta, or *)
(* on conflict adds to the row what that sum is over the start score.      *)
Upserted(row, delta) ==
  IF row = NoScore THEN Clamp(StartScore + delta)
  ELSE Clamp(row + Clamp(StartScore + delta) - StartScore)

Locked == bulk.at \in {"written", "cleared"}

------------------------------------------------------------------------------
(* The chain, and the indexer's transaction over a chunk of its events.    *)

(* The RemittanceNFT keeps the score between 0 and its maximum.            *)
Emit(move) ==
  /\ events < MaxEvents
  /\ move.ends => open > 0
  /\ open' = IF move.ends THEN open - 1 ELSE open
  /\ events' = events + 1
  /\ chain' = AtMost(MaxScore, AtLeast(0, chain + move.chain))
  /\ emitted' = Append(emitted, move)
  /\ UNCHANGED <<loans, table, cache, bulk, update, reader, job, approvals, updates,
                 failures, ahead>>

Approve ==
  /\ approvals < MaxLoans
  /\ approvals' = approvals + 1
  /\ open' = open + 1
  /\ loans' = loans + 1
  /\ UNCHANGED <<chain, emitted, table, cache, bulk, update, reader, job, events,
                 updates, failures, ahead>>

(* Loans of other borrowers are approved, repaid and defaulted.            *)
OthersMove ==
  /\ ahead' \in (0 .. MaxAhead) \ {ahead}
  /\ UNCHANGED <<chain, emitted, open, loans, table, cache, bulk, update, reader, job,
                 events, approvals, updates, failures>>

(* storeEvents adds up the deltas of the chunk as it inserts the events.   *)
BulkInsert ==
  LET move == emitted[bulk.size + 1]
  IN  /\ bulk.at \in {"idle", "inserting"}
      /\ bulk.size < Len(emitted)
      /\ bulk' = [bulk EXCEPT !.at = "inserting", !.size = @ + 1,
                              !.delta = @ + move.table,
                              !.ended = IF move.ends THEN @ + 1 ELSE @]
      /\ UNCHANGED <<chain, emitted, open, loans, table, cache, update, reader, job,
                     events, approvals, updates, failures, ahead>>

(* updateUserScoresBulk within the transaction that stores the chunk.      *)
BulkWrite ==
  /\ bulk.at = "inserting"
  /\ bulk.size > 0
  /\ bulk' = [bulk EXCEPT !.at = "written", !.value = Upserted(table, bulk.delta)]
  /\ UNCHANGED <<chain, emitted, open, loans, table, cache, update, reader, job,
                 events, approvals, updates, failures, ahead>>

(* The cache is cleared while the transaction is still open.               *)
BulkClear ==
  /\ bulk.at = "written"
  /\ bulk' = [bulk EXCEPT !.at = "cleared"]
  /\ \/ cache' = NoScore /\ UNCHANGED failures
     \/ UNCHANGED cache /\ Failure
  /\ UNCHANGED <<chain, emitted, open, loans, table, update, reader, job,
                 events, approvals, updates, ahead>>

BulkCommit ==
  /\ bulk.at = "cleared"
  /\ table' = bulk.value
  /\ loans' = loans - bulk.ended
  /\ emitted' = SubSeq(emitted, bulk.size + 1, Len(emitted))
  /\ bulk' = NoBulk
  /\ UNCHANGED <<chain, open, cache, update, reader, job, events, approvals, updates,
                 failures, ahead>>

(* The transaction fails.  withTransaction tries it again after a transient *)
(* error, with the deltas that the failed attempt has added up already.    *)
BulkRollBack ==
  /\ bulk.at # "idle"
  /\ Failure
  /\ \/ bulk' = NoBulk
     \/ bulk' = [NoBulk EXCEPT !.at = "inserting", !.delta = bulk.delta]
  /\ UNCHANGED <<chain, emitted, open, loans, table, cache, update, reader, job,
                 events, approvals, updates, ahead>>

------------------------------------------------------------------------------
(* The endpoints.                                                          *)

(* getScore: what is not in the cache is read from the table ...           *)
Read(r) ==
  /\ reader[r] = NoScore
  /\ cache = NoScore
  /\ reader' = [reader EXCEPT ![r] = Score(table)]
  /\ UNCHANGED <<chain, emitted, open, loans, table, cache, bulk, update, job,
                 events, approvals, updates, failures, ahead>>

(* ... and stored, unless the cache does not answer.                       *)
Fill(r) ==
  /\ reader[r] # NoScore
  /\ \/ cache' = reader[r] /\ UNCHANGED failures
     \/ UNCHANGED cache /\ Failure
  /\ reader' = [reader EXCEPT ![r] = NoScore]
  /\ UNCHANGED <<chain, emitted, open, loans, table, bulk, update, job,
                 events, approvals, updates, ahead>>

(* Bug: the cache keeps its values for ever. *)
ExpiresNever == FALSE

Expires == cache # NoScore

Expire ==
  /\ Expires
  /\ cache' = NoScore
  /\ UNCHANGED <<chain, emitted, open, loans, table, bulk, update, reader, job,
                 events, approvals, updates, failures, ahead>>

OnTimeDelta == 15
LateDelta   == -30

(* updateScore: a delta for a repayment on time or late; a new row takes   *)
(* it unclamped.                                                           *)
Update(delta) ==
  /\ update = "idle" /\ ~Locked
  /\ updates < MaxUpdates
  /\ updates' = updates + 1
  /\ table' = IF table = NoScore THEN StartScore + delta ELSE Clamp(table + delta)
  /\ update' = "written"
  /\ UNCHANGED <<chain, emitted, open, loans, cache, bulk, reader, job, events,
                 approvals, failures, ahead>>

UpdateClear ==
  /\ update = "written"
  /\ \/ cache' = NoScore /\ UNCHANGED failures
     \/ UNCHANGED cache /\ Failure
  /\ update' = "idle"
  /\ UNCHANGED <<chain, emitted, open, loans, table, bulk, reader, job, events,
                 approvals, updates, ahead>>

------------------------------------------------------------------------------
(* reconcileActiveBorrowerScores.                                          *)

(* fetchActiveBorrowerScores takes the active borrowers in the order of    *)
(* their addresses, and of those no more than a run may have.              *)
Listed == loans > 0 /\ ahead < MaxBorrowers

JobRead ==
  /\ job.at = "idle"
  /\ Listed
  /\ job' = [NoJob EXCEPT !.at = "asking", !.read = table]
  /\ UNCHANGED <<chain, emitted, open, loans, table, cache, bulk, update, reader,
                 events, approvals, updates, failures, ahead>>

Distance(x, y) == IF x < y THEN y - x ELSE x - y

(* Bug: a borrower without a row is not corrected, nor is one too high. *)
CorrectsLow(read, found) == read # NoScore /\ found - read >= Threshold

Corrects(read, found) ==
  /\ AutoCorrect
  /\ \/ read = NoScore
     \/ read # NoScore /\ read # found /\ Distance(read, found) >= Threshold

(* getOnChainCreditScore, which takes an RPC error for the start score or, *)
(* if it does not know the error, throws.                                  *)
JobAsk ==
  /\ job.at = "asking"
  /\ \/ \E found \in {chain, StartScore} :
          /\ IF found = chain THEN UNCHANGED failures ELSE Failure
          /\ job' = IF Corrects(job.read, found)
                    THEN [job EXCEPT !.at = "writing", !.found = found] ELSE NoJob
     \/ job' = NoJob /\ Failure
  /\ UNCHANGED <<chain, emitted, open, loans, table, cache, bulk, update, reader,
                 events, approvals, updates, ahead>>

(* setAbsoluteUserScoresBulk                                               *)
JobWrite ==
  /\ job.at = "writing" /\ ~Locked
  /\ \/ table' = job.found /\ job' = [job EXCEPT !.at = "written"] /\ UNCHANGED failures
     \/ UNCHANGED table /\ job' = NoJob /\ Failure
  /\ UNCHANGED <<chain, emitted, open, loans, cache, bulk, update, reader,
                 events, approvals, updates, ahead>>

JobClear ==
  /\ job.at = "written"
  /\ \/ cache' = NoScore /\ UNCHANGED failures
     \/ UNCHANGED cache /\ Failure
  /\ job' = NoJob
  /\ UNCHANGED <<chain, emitted, open, loans, table, bulk, update, reader,
                 events, approvals, updates, ahead>>

BulkStep == BulkInsert \/ BulkWrite \/ BulkClear \/ BulkCommit
Job      == JobRead \/ JobAsk \/ JobWrite \/ JobClear

ScoreNext ==
  \/ \E m \in Moves : Emit(m)
  \/ Approve \/ OthersMove
  \/ BulkStep \/ BulkRollBack
  \/ \E r \in Readers : Read(r) \/ Fill(r)
  \/ Expire
  \/ \E delta \in {OnTimeDelta, LateDelta} : Update(delta)
  \/ UpdateClear
  \/ Job

(* The indexer and the job run again and again, a reader that has read     *)
(* goes on, and what is in the cache expires.                              *)
ScoreFairness ==
  /\ WF_scoreVars(BulkStep) /\ WF_scoreVars(UpdateClear)
  /\ WF_scoreVars(Expire) /\ WF_scoreVars(Job)
  /\ \A r \in Readers : WF_scoreVars(Fill(r))

ScoreSpec == ScoreInit /\ [][ScoreNext]_scoreVars

FairScoreSpec == ScoreSpec /\ ScoreFairness
------------------------------------------------------------------------------
Scores == 0 .. MaxScore

ScoreTypeOK ==
  /\ chain \in Scores
  /\ emitted \in Seq(Moves)
  /\ open \in Nat /\ loans \in Int /\ ahead \in Nat
  /\ table \in Scores \cup {NoScore} /\ cache \in Scores \cup {NoScore}
  /\ bulk \in [at : {"idle", "inserting", "written", "cleared"}, size : Nat,
               delta : Int, ended : Nat, value : Scores \cup {NoScore}]
  /\ bulk.size <= Len(emitted)
  /\ bulk.at = "idle" => bulk = NoBulk
  /\ update \in {"idle", "written"}
  /\ reader \in [Readers -> Scores \cup {NoScore}]
  /\ job \in [at : {"idle", "asking", "writing", "written"},
              read : Scores \cup {NoScore}, found : Scores \cup {NoScore}]
  /\ job.at = "writing" => job.found # NoScore

(* How far the deltas of a chunk lie outside what a score can move from    *)
(* the start score: the detour over it drops that much of them.            *)
Excess(delta) ==
  CASE delta > MaxScore - StartScore -> delta - (MaxScore - StartScore)
    [] delta < MinScore - StartScore -> delta - (MinScore - StartScore)
    [] OTHER -> 0

(* What the indexer commits is the score as it is at the commit, moved by  *)
(* the deltas of the chunk and clamped: no request or job gets in between  *)
(* the statement and the commit.  Of the deltas what lies beyond -200 and  *)
(* 350 is lost and nothing else, and so the score of a borrower who has    *)
(* one may end up short of where its events, one by one, would take it.    *)
BulkAddsDeltas ==
  [][BulkCommit => table' = Clamp(Score(table) + bulk.delta - Excess(bulk.delta))]_scoreVars

(* What readers are told comes right in the end, however reads, clears and *)
(* commits passed each other.                                              *)
CacheComesRight == <>[](cache \in {NoScore, Score(table)})

(* Where the job may correct (SCORE_RECONCILIATION_AUTOCORRECT_ENABLED,    *)
(* which is off unless it is set), a borrower who stays within the list of *)
(* its runs comes within the threshold of the score on the chain in the    *)
(* end, whatever was counted twice or written over.  A borrower whom       *)
(* others keep beyond the list's limit never need to.                      *)
TableComesNear ==
  AutoCorrect /\ <>[]Listed =>
    <>[](table # NoScore /\ (table = chain \/ Distance(table, chain) < Threshold))
==============================================================================
