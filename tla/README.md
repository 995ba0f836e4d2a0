# A TLA+ development of ZizaLend

This directory specifies the parts of ZizaLend that decide about money and
reputation: the four Soroban contracts under `contracts/` and, of the backend,
the idempotency layer every state-changing request passes through, the event
indexer, the webhook delivery, the default checker, the score table with its
writers, and the remittances with the submission of signed transactions. The
specifications are checked with TLC on small instances; what matters most of
them is proved with TLAPS for every value of the constants.

`PROJECT.json` lists every component, run, property, mutant, theorem and hazard,
with source lines. This file explains how they hang together.

Run anything from this directory:

    tlc -workers 2 -config LendingPool.cfg MCLendingPool
    tlapm LendingPoolProofs.tla

## 1. The system

ZizaLend lends against remittance history. A borrower's reputation is a token
of the *RemittanceNFT*; loans are requested from, approved, repaid and
defaulted in the *LoanManager*, which takes the tokens from and returns them to
the *LendingPool*; the admin role of each contract can be handed over by the
*MultisigGovernance*. A TypeScript backend indexes the contracts' events into
PostgreSQL, keeps scores, delivers webhooks and notifications, triggers
`check_defaults` on a schedule and prepares transactions for a Next.js
frontend, which signs them in the user's wallet.

### Inventory

| Component | State it keeps | Operations | Talks to |
|---|---|---|---|
| **LendingPool** `contracts/lending_pool` | per token: idle balance, `TotalOutstanding`, `TotalShares`, positions and their deposit stamps, `TotalDeposits`, `DepositorCount`, cap, allow-list; pause, cooldown, admin | `deposit`, `withdraw`, `emergency_withdraw`; `disburse`, `settle_outstanding`, `adjust_outstanding` for the LoanManager; settings, pause, hand-over | token contract; called by LoanManager |
| **LoanManager** `contracts/loan_manager` | loans, `LoanCounter`, `BorrowerLoanCount`, collateral held in its token balance, rates, windows, limits, pause, admin | `request_loan`, `approve_loan`, `repay`, `extend_loan`, `refinance_loan`, `deposit_collateral`, `release_collateral`, `liquidate`, `cancel_loan`, `reject_loan`, `purge_loan`, `check_defaults`, settings, pause, hand-over | pool (disburse, settle), NFT (score, seize, default), token contract, rate oracle |
| **RemittanceNFT** `contracts/remittance_nft` | token per address (score, history), seized, default count, burned, remint approval, transfer cooldown; minter allow-list, score recorder, admin | `mint`, `update_score`, `decrease_score`, `apply_score_delta`, `seize_collateral`, `record_default`, `burn`, `transfer`, `approve_remint`, `admin_remint`, list and settings | called by LoanManager and the backend |
| **MultisigGovernance** `contracts/multisig_governance` | one pending transfer with its approvals, proposal count, last cancellation | propose, approve, finalize, cancel, emergency cancel, expire | `set_admin` of a governed contract |
| **Idempotency middleware** `backend/src/middleware` | per key: recorded reply, in-flight claim | one request: read, claim, work, record, release | Redis or memory store |
| **Event indexer** `backend/src/services/eventIndexer.ts`, `controllers/indexerController.ts` | cursor, event rows, quarantine | poll, re-read a range, reprocess the quarantine | Soroban RPC, scores, webhooks, SSE |
| **Webhook delivery** `webhookService.ts`, `webhookRetryProcessor.ts` | subscriptions, delivery rows | dispatch, retry, mute, delete | subscriber endpoints; called by the indexer |
| **Default checker** `defaultChecker.ts` | lock in the cache, its value in the server, submissions under way | scheduled and manual runs | LoanManager (`check_defaults`); reads the indexed events |
| **Scores** `scoresService.ts`, `scoreController.ts`, `scoreReconciliationService.ts`, `scoreDecayService.ts` | `scores` table, cache entry per user | bulk delta, score endpoint, reconcile, decay, read | indexer, NFT |
| **Remittances and submitted transactions** `remittanceService.ts`, `remittanceController.ts`, `sorobanService.ts`, the submit endpoints of `loanController.ts` and `poolController.ts` | `remittances`, `transaction_submissions`; the wallet's sequence number on the network | create, submit, record the outcome | Stellar RPC |
| **Authentication** `authService.ts`, `jwtAuth.ts` | revoked token ids in the cache | challenge, login, logout, verify | Redis |
| **Notifications**, **REST controllers**, **rate limiting and audit**, **schema**, **frontend**, **SDK**, **scripts** | see `PROJECT.json` | | |

### What is hard here

*In the contracts* there is no concurrency inside a call: Soroban runs one
invocation at a time and reverts all of it when it fails. The difficulty is the
order of calls and the arithmetic. The same principal is counted in the loan, in
the pool's counter and in the token balances; a loan has a dozen ways to change
and seven to end; each of them updates its own subset of the counters, in two
contracts. Everything is integer division. Three contracts pause separately and
change admins separately, and clocks (ledgers, timestamps) run between calls.

*In the backend* the difficulty is concurrency and failure: requests, timers and
several instances share a database and a key-value store through commands that
are atomic one at a time and not together; processes stop between a commit and
the effects that follow it; timeouts race late answers.

### What makes each component correct

| Component | It is correct when |
|---|---|
| LendingPool | shares are exactly those of the positions; nobody leaves with more than the shares stand for; the price falls only by a write-off; a deposit cannot leave in its own ledger |
| LoanManager | the pool's counter covers every open loan and drops by exactly the loan that closes; collateral in escrow is exactly the collateral on record; a borrower's slots are exactly the loans that hold them; accrual does not depend on how often it is computed; fees respect the debt cap; a pause freezes lending |
| Repayment split | it always finds a part that can take what is left, gives out exactly the payment, and no part more than its due |
| MultisigGovernance | the admin changes only after the timelock and a quorum of that proposal's own signers; a proposal that ended never comes back |
| RemittanceNFT | the history explains the score; flags follow the token and die with it; a burn is lifted only by a fresh approval; the two copies of the minter list agree and the admin is on it |
| Idempotency | a retry after the answer is replayed; a double click runs once; a claim is not left behind nor taken by somebody else |
| Event indexer | the cursor never passes an event that is neither stored nor set aside, never goes back and comes to the end; row, score change and announcement of an event are of one piece |
| Webhook delivery | the table tells what the endpoint saw; an endpoint is posted to at most four times and accepts once; nothing new is sent for a muted subscription; every delivery is settled in the end (it is not: run `webhook_retries`) |
| Default checker | two runs work at once only if one outlived its lock; no lock is left behind; a loan is defaulted once; an overdue loan is not passed over for ever |
| Scores | what the indexer commits is the committed score moved by the deltas; the cache comes right; where the job corrects and lists the borrower, the table comes near the chain |
| Remittances | what `transaction_submissions` calls SUCCESS or FAILED came to that on the network; no remittance is completed that was not sent; one tap is one remittance and one payment unless two requests race; none stays in processing |

## 2. The modules

| Module | Models | Used by |
|---|---|---|
| `LendingPool` | the share ledger of one token market; the LoanManager is an environment that may call with any amount | `LoanManager` (INSTANCE) |
| `LoanMath` | the arithmetic of one loan: debt, lazy accrual with residuals, late fees and their cap, the repayment split, ratios | `LoanManager`, `RepaymentSplit` |
| `LoanManager` | the LoanManager composed with the pool, and with what it reads of the NFT | |
| `LoanBook` | the abstract promise: a loan opens once, may be rewritten while open, closes once and takes all of its principal off the counter | refined by `LoanManager` (`ImplementsBook`) |
| `RepaymentSplit` | the remainder loop of `proportional_repayment_split`, an iteration a step | computes `LoanMath!Split` |
| `AdminTransfer` | the two-step and the direct hand-over of an admin role | `MultisigGovernance`, `MinterRegistry` (INSTANCE) |
| `MultisigGovernance` | governance, composed with the contract it governs | |
| `MinterRegistry` | minter allow-list, score recorder and admin role of the NFT | `RemittanceNft` (EXTENDS) |
| `RemittanceNft` | tokens, scores, flags and their life cycle | |
| `IdempotentRequests` | the requests sent with one key, at the granularity of store commands | |
| `EventIndexer` | pollers, re-reads and reprocessing over one database, a statement, transaction or call a step | |
| `WebhookDelivery` | first attempts, retry passes that may overlap, rows | |
| `DefaultChecker` | runs on several servers under one lock, their batches and the account's sequence number, the loans as the contract sees them | |
| `ScoreTable` | the score of one borrower: indexer, score endpoint, reconciliation, readers and cache | |
| `Remittances` | creating, submitting and recording the transactions of one wallet, over a network that refuses, delays or drops them | |
| `MC*` | instances for TLC; `MCLoanDebt` puts the contract and the loop that splits one payment side by side, either of which moves while the other stands still | the `.cfg` files |
| `*Proofs` | theorems: of the module of that name, and in `LoanManagerProofs` also of `LoanBook`, `RepaymentSplit` and `MultisigGovernance`, in `EventIndexerProofs` also of `ScoreTable` | |

### How state and actions correspond to the code

*Contracts.* A variable is a storage entry (the comment beside its declaration
names the key), an action is an entry point with all it calls, a conjunct
without primes is an error return, a panic or a failed `require`. Because a
failed call reverts, it leaves no trace and is simply not enabled. Signatures
are parameters where the identity matters (`SetAdmin(new, caller)`) and left out
where it is one fixed role. The variables called *history* in the comments are
not in the code: they remember who did what, for the properties.

*Tokens* exist in a fixed supply. What is not in the pool or in escrow is with
the users, who can pay as long as there is any.

*Cross-contract calls* of the LoanManager to the pool are the pool's own actions
(`Pool!Disburse`, `Pool!Receive`, `Pool!ReceiveAndSettle`), conjoined with the
LoanManager's. Reports to the NFT that are swallowed when they fail
(`try_update_score`, the default pipeline) may or may not take effect, loan by
loan. What the LoanManager reads of the NFT (score high enough, seized, paused)
moves by itself in `NftMoves`, which covers everything `RemittanceNft` can do.

*Loans that are closed* keep only their status and collateral in the model; no
code path reads their figures again.

*Interest* is computed at every read from the last accrual; `Owed(l)` is that
computation, and only the calls that store it change the loan. The fixed point
`PRECISION` and ledgers per day are constants of the model: small values make
fractions and days happen within a few ledgers.

*Integers.* The pool's arithmetic reverts at the bounds of i128 (`MaxInt`), with
the one saturating subtraction the code has. The LoanManager's amounts are
bounded by 50,000 tokens, which keeps its products below 2^127, so overflow is
not modelled there.

*The middleware.* Every `await` on the store is a step of its own, because
other requests run in between, on the same instance or another one. A command
may fail, and a `SET NX` that failed may have been applied. `deleteIfMatch` is
two commands. A response releases from two listeners, `finish` and `close`; an
aborted connection emits `close` alone, and nothing if it was gone before the
listeners were installed. The claim may expire and the instance may go down.

*The services.* A step is one SQL statement, one transaction without calls
inside, one command of the cache, or one call to the network or an endpoint;
what a process holds between two of them is a record with the label of the next
one (`worker`, `passes`, `run`, `job`, `submit`). A row written by an open
transaction is locked until it ends, and others see it as committed
(`ScoreTable!bulk`). A failed call is an action of its own beside the one that
succeeds; where the code cannot tell a failure from a lost answer (a `COMMIT`, a
`sendTransaction`, an `INSERT`) there is one in which the effect took place. A
crash clears the memory and keeps tables, cache and network.

*The indexer's transaction* is one step, since inserts of one event wait for
each other; what it leaves in the memory of the process is not rolled back with
it, and `withTransaction` may run its callback again over the same lists.

*The loans in `DefaultChecker`* are what `check_defaults` asks of them: active,
with a due date that payments, extensions and refinancing move (`Move`).
Everything the contract does else is in `LoanManager`. The query's view of a
loan comes from indexed events, which lag behind the chain.

*The network in `Remittances`* accepts a transaction for the sequence number it
was built for, once; an accepted one is applied, fails or drops out of its time
bounds, and the poll for it may give up before.

*History variables* of the services say which of the faults and races a
promise makes an exception for: `dropped` and `unsent` (indexer), `shared` and
`lost` (webhooks), `outlived` and `orphans` (default checker), `sends`,
`overlapped`, `raced` and `stranded` (remittances). A property then claims its
promise for everything else, so that an exception has to have happened to
excuse anything.

## 3. What is checked

Every property of a run that passes has a mutant in `PROJECT.json`: an operator beside the original,
marked *Bug*, that changes it the way a plausible mistake would and that TLC
must refute with the same run.

| Run | States | Properties | What it shows |
|---|---|---|---|
| `pool` | 407,550 | `LedgersAgree`, `ClaimsCovered`, `RoundTripNeverProfits`, `OnlyWriteOffsLowerPrice`, `NoSameLedgerExit` | shares, counters, basis and stamps agree after every order of calls; no conversion favours the caller; the price falls only when principal is written off; no exit in the ledger of the deposit |
| `loan_books` | 213,178 | `BooksBalance`, `ImplementsBook`, `PauseFreezesLending`, `PriceFallsOnlyAtClose` | counter, escrow and slots agree with the loans; LoanManager implements LoanBook; the price falls only when a loan closes; a pause of any contract freezes lending |
| `loan_debt` | 505,860 | `DebtSound`, `SplitSound`, `ComputesSplit`, `LateFeesRespectCap` | no part of a debt is overpaid; accruing in two steps equals accruing in one up to a unit of the fixed point; late fees stay under the cap; the loop that splits a payment never panics, is exact, and computes the function `LoanManager` uses |
| `governance` | 516,552 | `ProposalsSound`, `AdminChangesByQuorum` | quorum of the proposal's own signers, timelock, no second life, room to finalize, no stale proposal at the governed contract |
| `nft` | 258,511 | `RecordsAgree`, `RegistrySound`, `SeizureOutlivesTransfer`, `MintRules` | history explains score; flags follow the token; fresh approvals; the minter list through hand-overs |
| `idempotency` | 262,313 | `ClaimSound`, `DoubleClickRefused`, `LateRetryIsReplayed` | double clicks are refused, late retries replayed, claims not abandoned |
| `indexer` | 950,585 | `RecordsAgree`, `CursorCovers`, `CursorNeverBack`, `CatchesUp` | no event is passed over, credited without its row or announced without it, whichever of poll, re-read and reprocessing overlap, fail or crash; the cursor reaches the end |
| `webhooks` | 80,796 | `DeliveriesSound`, `DrainsOnceMuted` | for a database that accepts the SELECT of a pass: rows tell what was posted under overlapping passes; limits hold except for shared or lost outcomes; a muted subscription drains |
| `webhook_retries` | 40 | `EverySettles`, *violated* | with the tables of the migrations nothing is ever tried again, though nothing fails but the endpoint, once |
| `defaults` | 272,119 | `OverlapOnlyAfterExpiry`, `LocksSound`, `DefaultedOnce`, `NoneLeftOut` | the lock excludes, except past its time to live; it is not left behind; late and repeated submissions default nothing twice; overdue loans within the limit are all reached |
| `scores` | 1,036,554 | `BulkAddsDeltas`, `CacheComesRight`, `TableComesNear` | no update gets lost inside the indexer's transaction, at both ends of the range, but what of a chunk's deltas lies outside -200..350; the cache converges, and so does the table of a borrower whom a correcting job lists |
| `remittances` | 1,568,287 | `TablesSound`, `OnlyRacesRepeat`, `NoneStaysProcessing` | `transaction_submissions` calls nothing done or failed that is not; pending remittances were not sent and completed ones were (whether the network took them or not); double creations and double payments need two requests that overlap; processing ends |

### Disagreements with the documentation

One run is expected to fail: `webhook_retries` states what docs/webhooks.md says
of a failed delivery, and the code does otherwise. The rest of the following was
met while modelling, and what the documents promise there is not stated as a
property.

Contracts:

* The pool's counter is "Principal currently deployed" (loan_manager/src/lib.rs:603):
  repay a part, refinance, repay the rest, and the part `refinance_loan` forgets
  is never settled. It stays in the counter and in the share price.
* "A single admin key cannot bypass the timelock and quorum" (lib.rs:2639):
  `propose_admin`/`accept_admin` and `set_governance` do not look at governance.
* "Burned is terminal" (remittance_nft/README.md:20): `transfer` accepts a
  burned destination, and overwrites its default count.
* Partial repayments raise the share price and the completing one lowers it
  again, although lib.rs:1501 says the price rises "by the interest portion of
  the repayment and nothing else"; `refinance_loan` "settles all accrued interest
  and late fees" (lib.rs:1999) by booking them as paid without a transfer; the
  debt cap limits what late fees add, not interest; the pool's counter saturates
  at i128::MIN where a comment (lending_pool/src/lib.rs:1373) says zero; the cap
  of a pool may be set below what it holds; `decrease_score` raises a score
  below 300.

Backend:

* "A request that is sent twice is executed once" (docs/wiki/api-idempotency.md:4):
  a retry misses the cache, the first request records and releases, the retry
  claims and works. "Only the request that took the claim may release it"
  (idempotency.ts): `deleteIfMatch` is a read and a delete, which may straddle
  another's claim. A request whose client hangs up gives up its claim while its
  handler still runs.
* The `SELECT` of the webhook retry names `id`, which both joined tables have
  (migrations/1772000000000_webhook-subscriptions.js:12 and :30); PostgreSQL
  refuses it as ambiguous and the handler ends the pass, so that nothing is
  retried, where docs/webhooks.md:203 and :289 say that failed deliveries are.
  `SelectWorks` stands for it: FALSE is the code with its migrations, and what
  `webhook_retries` checks. `webhooks` runs with TRUE, so that the passes have
  something to do; it checks what no step may do or leave, and with FALSE there
  are only fewer steps. docs/webhooks.md:203-212 also promises eight attempts
  from ten seconds on; the code has four, after 5, 15 and 45 minutes, and
  deactivates no endpoint; a 4xx is retried like any other answer, which :288
  calls permanent.
* The indexer's `withTransaction` runs its callback again over lists that live
  outside it, so that a retried chunk may credit a score again (`credited` is
  bounded by the faults, not by one: `MostCredits`). A lost answer of a `COMMIT`
  doubles what was collected until then, so that the bound is a product: with
  `f` faults, `(2+f)²/4` credits. Between a rolled-back attempt and its retry
  another event may take the slot; the first is then credited and announced
  without a row of its own (`Recorded`). Two `LoanRepaid` of one loan in one ledger
  share a slot and the second is dropped. A failed insert into the quarantine is
  swallowed while the cursor moves on.
* `storeEvents` means to take the default penalty off the score for a
  `CollateralLiquidated` as well (eventIndexer.ts:605-613), but the contract's
  event carries no borrower (loan_manager/src/events.rs:182-185), `parseEvent`
  sets no address for it (:710-714), and without one nothing is scored: a
  liquidation is stored and announced, and lowers no score in the table
  (`HasAddress`).
* Two runs of the default checker cannot overlap (README.md:680); they can once
  one outlives the lock's time to live. A batch answered with an ERROR status is
  counted as submitted. Any partial repayment is a `LoanRepaid`, which takes the
  loan out of the checker's and the reconciliation's lists for good; a
  liquidated one stays in them. The limit cuts off the list in the order of due
  dates, so that loans at its head that cannot be defaulted hide later ones;
  `NoneLeftOut` excepts them (`Crowded`).
* The reconciliation reads an RPC error as a score of 500 and writes it. It
  corrects only where SCORE_RECONCILIATION_AUTOCORRECT_ENABLED is set, which by
  default (scoreReconciliationService.ts:68, .env.example) it is not: as
  delivered it reports, and nothing takes the table back to the chain. It reads
  the first SCORE_RECONCILIATION_MAX_BORROWERS_PER_RUN (500) active borrowers in
  the order of their addresses (:97-100), in every run the same, so that those
  past them are never compared. `TableComesNear` is about the others, where the
  job may correct.
* The sum of a chunk's deltas for a borrower passes through a score clamped to
  300..850 and loses what lies below -200 or above 350; `BulkAddsDeltas` says so
  to the unit (`Excess`). With the deltas as delivered (15 and -50) it takes five
  defaults or twenty-four repayments of one borrower in a chunk, retries of the
  transaction counted again.
* The decay job updates columns no migration creates.
* A remittance is completed, and the reply says "Transaction confirmed on
  Stellar network", whether the network took, refused or never saw the
  transaction (`__tests__/integration/remittance.integration.test.ts:128` expects `failed`). A second
  submit may turn a completed one into a failed one and clear its hash. Two
  taps whose requests overlap pass the look for duplicates both
  (docs/remittances.md, rule 9). A resubmission overwrites SUCCESS in
  `transaction_submissions` with ERROR.
* Disputes: `listLoanDisputes` joins its SQL without a space
  (`loan_disputesWHERE`), `getLoanDispute` joins a table `loans` that does not
  exist.
* Migration 1788000000019 leaves `loan_events` a view without columns the
  indexer inserts. The models take the services' statements as accepted by the
  database.

### Bounds, and why they are enough

* *Pool*: two providers, amounts 2 and 3 (and 0 as a refused input), supply 6,
  three ledgers, cooldowns 0 to 2 and one too long. Two providers suffice for
  dilution: all others act as one. The amounts are coprime and exceed the
  virtual offset, so divisions leave remainders in both directions. `MaxInt` 14
  lets the counter hit both ends. What the admin sets moves while the pool is
  small and lends little; the full range is explored with the settings as
  initialised (`MCLendingPool!MCNext`).
* *Loans*: two loans of one borrower, so that one loan's call could touch the
  other's principal, collateral or slot; amounts of two, collateral enough for a
  surplus, four ledgers, which covers term, grace, default window and one
  ledger past it. `MCLoanManager!Explored` is a union: one loan under every
  setting, one under every switch (pauses, score, seized flag, refused reports),
  one that is refinanced, and two under the initial settings; the instances
  with a single plain loan and fixed settings lie within it entirely.
* *Debt*: one loan, rates that accrue whole units and fractions within six
  ledgers at a fixed point of ten, quotes high enough to reach the cap.
* *Split*: every debt of up to seven units a part and every payment towards it,
  past the point where all three shares leave a remainder.
* *Governance*: two people in every role, two proposals, and a clock as long as
  one proposal's life plus the cooldown of the next. A lifetime of three times
  the minimum timelock leaves room for several timelocks.
* *NFT*: two addresses, two tokens ever, history of two, three people for a list
  of two, so that it is full during a hand-over. Scores 0 to 2 with a floor of 1.
* *Requests*: three with one key (one that works, one that is refused or
  overtaken, one that profits), two faults.
* *Indexer*: two pollers and one admin, since pollers interfere in pairs and a
  re-read is a third kind of writer; two ledgers of five events with every kind
  of outcome (scored, slot taken, stored without a score, unreadable, of no
  interest), a chunk of one
  ledger so that a range takes several, the code's three retries of the
  transaction, two faults. Two faults are what it takes to tell the bound on
  credits from the simpler one of a credit a fault. The two events that share a
  slot are of one ledger, so that no event is credited without a row here; that
  exception is covered by the theorem.
* *Webhooks*: one delivery, as deliveries share nothing but the passes' lists;
  two passes at once, the code's four attempts, two faults.
* *Default checker*: schedulers of two servers and a request on the first of
  them, so that runs share a lock with and without sharing the checker's value
  of it; two loans, one a batch, two batches at once, one loan a run; four
  ledgers, one move of a loan, one fault.
* *Scores*: the code's own range and start score; deltas of 200 and -250, which
  are configured (SCORE_DELTA_REPAY, SCORE_DELTA_DEFAULT), so that two
  repayments in a chunk, or one default, go beyond what the statement can add
  and both ends of the range are reached; a job that corrects, with a threshold
  of 50 as in the code and room for one borrower, and one other who comes and
  goes before this one; two events, one loan, one request, one fault, one
  reader.
* *Remittances*: two identical ones and one contract call of a wallet, two
  submits, a window of one in three instants, one fault. The endpoints submit
  whatever they are sent, and a client may send any transaction to any
  (`Posted`); in the instance a remittance is sent its own or that of a call or
  of the other, and the endpoints for calls that of a remittance, which they
  treat as they treat a call's.

Symmetry is used for providers, for addresses and for requests, which no
definition tells apart, and never with a liveness property.

`CHECK_DEADLOCK FALSE` appears where the system may really stop: all requests
are answered, the clock and the identifiers are at their bound, the payment is
split, the deliveries are settled or stuck.

### Fairness and liveness

Fairness is stated for what the code itself keeps going, never for what users
ask, for faults or for crashes.

| Run | Fairness | Why |
|---|---|---|
| `indexer` | WF of each poller and of the chain | the loop schedules its next poll whether the last one failed or not; ledgers close |
| `webhooks`, `webhook_retries` | WF of each first attempt, of each pass and of a row's becoming due | POSTs have a timeout, `setInterval` starts passes for ever |
| `defaults` | WF of the timers together, of each run and its submissions, of expiry, ledgers and indexing; SF of a loan's submission being accepted | of batches that race for one sequence number some wins; that none loses each time is assumed |
| `scores` | WF of indexer, endpoint's second step, job, readers' second step and the cache's expiry | loops and handlers go on, entries have a time to live |
| `remittances` | WF of each submit under way | a handler that was started goes on; the network owes nothing |

The contracts promise nothing about what users do next, and an abandoned claim's
end is the store's expiry; neither has a liveness property worth the name. The
bounds on faults and on events are what makes "in the end" quiet down: with
faults for ever, no service converges.

## 4. What is proved

For every value of the constants that satisfies the named assumptions
(`PoolAssumption`, `MathAssumption`, `ManagerAssumption`, `SplitAssumption`,
`GovernanceAssumption`, `RegistryAssumption`, `NftAssumption`,
`RequestsAssumption`, `IndexerAssumption`, `ScoreAssumption`,
`WebhookAssumption`, `CheckerAssumption`, `RemittanceAssumption`; each is
stated where its constants are declared, evaluated by TLC, and says what the
code's types and constants say), every property of every passing run but the
liveness properties is a theorem. Each proof has an inductive invariant that TLC had
checked on the instances first.

* **LendingPoolProofs.** `ShareInv` strengthens the type invariant with the
  balance of the share ledger: positions are encoded as sets of units, so that
  the sum over providers is a cardinality and a deposit or redemption changes it
  by a disjoint chunk (`UnitsGrow`, `UnitsShrink`). `PositionInv` adds that a
  stamp exists exactly for a position, that no stamp is in the future and that
  the basis vanishes with the shares; the latter needs that the proportional
  part of a positive basis is everything only for all shares
  (`PrincipalShareBound`). From them follow all the properties of the run
  `pool`. The pricing theorems rest on lemmas about the two conversions
  (`MintBound`, `RedeemBound`: truncation always goes against the caller), not
  on enumeration.
* **LoanManagerProofs**, of the manager composed with its pool. `ManagerInv` is
  the pool's `ShareInv` (the lemmas of `LendingPoolProofs` are used through an
  instance, the calls of the manager being lemmas of their own), `LoanInv`, and
  two facts that tie the contracts together. Of `LoanInv`, `FreshIds` says that
  nothing is stored past the counter, so that a new loan takes nobody's place;
  `LiveLoans` that a loan that can still move has a term and was not paid more
  principal than it has, which together with the types is what makes its debt a natural
  number everywhere;
  `EscrowIsCollateral` and `LoanCountExact` are equations between a variable and
  a sum over loans, and both are needed by every step that changes a loan.
  `TokensConserved` bounds what a settlement can send back by the supply, and
  `OutstandingCoversLoans` says that the pool's counter covers the principal
  of the open loans, without which a settlement might take off more than is
  there. The arithmetic of a loan is proved apart from the state: what a
  payment of at most the debt does to each part, that a late fee ends at the
  debt cap if any is charged, and that accruing in two steps loses at most one
  unit of the fixed point for any rates, times and residuals.
  `LoansImplementBook` is the refinement: each step of the manager is a step of
  `LoanBook` or leaves it alone. What the book promises is proved for any
  book (`BookCovers`, `BookOpensOnce`, under `BookParameters`: finitely many
  loans, limits that are numbers).
* *The split* (same module). `SplitInv`: what is given out and what is left add
  up to the payment, no part exceeds its due, and the remainders still in the
  race add up to at least the units left times the whole debt. The last clause
  (`RestCovers`) is the strengthening: without it nothing says that the loop
  finds a candidate, and that whoever has a remainder was rounded down below
  what it is owed. `LoopComputesSplit` shows that the loop ends with the shares
  of `LoanMath!Split`, the function `LoanManager` uses: at most two units are
  left after rounding down, and the loop has served the parts that rank first by
  their remainders (`RankedSoFar`).
* *Governance* (same module). `GovInv`: approvals in storage are calls made
  for that id (`Approved`), the timelock leaves a window before the expiry
  (`Timed`), and every id that ended is at most the counter (`IdsUsed`). It
  makes the quorum rule inductive although the approvals are deleted with the
  proposal.
* **RemittanceNftProofs.** `NftInv` is `RegistryInv`, `TokensInv` and the types
  of the settings. `RegistryInv` says that the list has no entry twice, that the markers
  are its entries, that it is within its cap and that the admin is on it; a
  hand-over of a full list keeps all four because the old admin leaves it first.
  A list is rewritten by a loop, `Without`, a recursive
  function; that the result holds the other entries once each and in no greater
  number is proved through the least turn at which it would fail. `TokensInv`
  says of a token that its history, if any, ends in its score and each entry
  begins where the last ended (`ScoresSound`), that marks belong to tokens
  (`MarksSound`), and that a remint is allowed only where an approval came after
  the burn (`BurnsSound`), which the rules on minting need. That the number of
  seized tokens falls only with a burn is a count over the flags as they move.
* **IdempotentRequestsProofs.** `RequestsInv`: until something fails or begins
  to release, whoever works holds the claim (`WorkersHold`); a request that has
  answered has recorded its reply, and only then releases (`RepliesRecorded`); a
  client that left before the handler began was not heard to leave
  (`LeftUnheard`); and a claim has a holder that works for a client that still
  waits, or one that is releasing it (`ClaimsReleased`). For any number of requests:
  double clicks are refused, late retries replayed, claims not abandoned.
* **EventIndexerProofs.** `IndexerInv` says of each worker what it may rely on
  where it stands. A poller that has parsed a range has every event of it safe
  or in its batch (`Reading`), so that moving the cursor passes over nothing
  (`SafeTo(cursor)`); an admin deletes from the quarantine only what is in the
  table (`Redoing`); and what a worker has collected outside its transaction is
  in its batch and, while it stores, due to a fault (`Collecting`). The bound on
  credits needs a budget (`Affordable`): of `r` rolled-back attempts and `u`
  unanswered commits, together at most the faults so far, an event was collected
  at most `r` times beyond the first, and each commit credits it as often as it
  was collected, so that credits and what is still in hand are at most
  `(r+1)(u+1)`. A bound of one credit a fault, which one retry and one fault
  cannot tell from this one, did not survive the attempt to prove it.
* *The score table* (same module). `TableInv` adds to the types that the value in
  the open transaction is what the committed row comes to (`ValueFits`); the
  lemmas `DetourDropsExcess` and `UpsertAdds` show that the detour of the
  statement over the start score is the clamped sum without the excess, for
  every delta.
* **WebhookDeliveryProofs.** `WebhookInv` speaks of one delivery at a time,
  through its row, its counters and what each pass has of it (`Good`). Until its
  first attempt is recorded there is neither row nor retry (`FirstAttempt`). A
  pass may write an attempt count it read long before; what it read is at
  most the posts made, less its own (`Counted`), so overlapping passes never
  count too much. Of a delivery neither lost nor shared, every post is in the
  row's count or in that of the one pass that has it (`Budgeted`), and a row to
  be tried again was not accepted yet: hence at most `MAX_RETRY_ATTEMPTS` posts
  and one acceptance. The steps are lemmas about `Good` first, and about the
  tables and passes after. For any number of deliveries and overlapping passes;
  the run has one delivery and two passes.
* **DefaultCheckerProofs.** `LockInv`: until a lock has expired under its
  run, whoever runs has the lock (`HolderRuns`); the value a checker keeps is of
  a run of its own that has not come to the release (`ValueIsOfRun`); and
  whoever holds the lock still finds its value there, or a run of its server is
  deleting it, or it was orphaned (`LockHasValue`). Exclusion alone is not inductive, because the
  release compares with the server's value and not with the run's. For any
  servers, runs and loans: overlap only after an expiry, no lock left behind, no
  closed loan defaulted.
* **RemittancesProofs.** `TablesInv`: a creation that has not ended has written
  nothing (`CreationsFresh`), a submit that has come some way has found its
  remittance, marked it and sent the transaction (`SubmitsFollowRows`), and the
  two clauses of the property. `RepeatInv` adds that a remittance nobody raced
  for has one submit past its check (`SentAlone`) and that creations that
  overlapped are recorded (`OverlapsKept`).

`LoanManagerProofs` takes the longest to check, some five minutes; the others
take one or less.

Only model-checked: all liveness (`CatchesUp`, `NoneLeftOut`, `CacheComesRight`,
`TableComesNear`, `NoneStaysProcessing`; and `EverySettles`, which fails), which
rests on `ENABLED` and is out of the prover's reach. Induction with an operator
as its parameter is out of reach too; where a proof needs one, over the turns of
a loop, it takes the least counterexample instead.

## 5. Not modelled

Contract upgrades and migrations (they replace the code itself), `set_loan_manager`
(rewires the pool to another contract), `set_default_term` (read by nothing but
its getter), metadata URIs and history hashes of the NFT, storage expiry (every
entry is extended when it is touched), events and logging.

Of the backend: the contents of payloads and rows that decide nothing here
(signatures, templates, audit), the listing endpoints and everything that only
reads; the decay job, whose statement names columns that do not exist;
notifications and the event stream, which promise nothing anyone relies on;
rate limits, metrics and logging. Login and disputes have state of their own and
are small; they are next. The frontend and the SDK keep caches of what the
backend says; of them only the reused idempotency key matters to the others. The
reasons are listed component by component in `PROJECT.json`.

Most of the repository's lines are rendering, routing, schemas, tests and
documentation objects, which have no state a model could speak about.

## 6. The plan

Done: `LendingPool`, `LoanMath`, `LoanManager`, `LoanBook`, `RepaymentSplit`,
`AdminTransfer`, `MultisigGovernance`, `MinterRegistry`, `RemittanceNft`,
`IdempotentRequests`, `EventIndexer`, `WebhookDelivery`, `DefaultChecker`,
`ScoreTable`, `Remittances`, and the proofs above.

Left, in order of weight:

1. Composition of `LoanManager` with `RemittanceNft` in place of `NftMoves`.
2. Proofs: that the contracts' hand-overs (`MultisigGovernance`, `MinterRegistry`)
   are steps of `AdminTransfer`; measures that decrease, as the part of the
   liveness properties that is safety.
3. `AuthTokens`: challenge, token and revocation when the cache is away.
4. Disputes, once their statements are accepted by the database.
5. The client's retry loop as the driver of `IdempotentRequests`.
