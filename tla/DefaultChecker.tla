---------------------------- MODULE DefaultChecker ----------------------------
(***************************************************************************)
(* backend/src/services/defaultChecker.ts: runs, started by a timer of     *)
(* each server and by requests of an admin, that look for overdue loans in *)
(* the database and submit them to the contract's check_defaults, under a  *)
(* lock with a time to live in the shared cache.  All transactions are     *)
(* signed by one account, whose sequence number they have to match.        *)
(*                                                                         *)
(* A step is one call to the cache, the database or the chain.             *)
(***************************************************************************)
EXTENDS Integers, FiniteSets

CONSTANTS
  Timers,       \* the runs of the schedulers, one for each server
  Requests,     \* runs an admin asks for
  ServerOf,     \* the server a run is on
  Loans,        \* loan ids; all approved in ledger 0
  Term,         \* DEFAULT_TERM_LEDGERS
  Window,       \* the contract's default window
  MaxPerRun,    \* maxLoansPerRun
  BatchSize,
  Concurrency,  \* batches a run submits at once
  None,
  MaxLedger,    \* bound on the ledger
  MaxRequests,  \* bound on requests
  MaxMoves,     \* bound on what else happens to the loans
  MaxFaults     \* bound on failed calls, outlived locks and crashes

Runs    == Timers \cup Requests
Servers == {ServerOf[r] : r \in Runs}

ASSUME CheckerAssumption ==
  /\ Loans \subseteq Nat \ {0} /\ Term \in Nat /\ Window \in Nat
  /\ MaxPerRun \in Nat \ {0} /\ BatchSize \in Nat \ {0} /\ Concurrency \in Nat \ {0}
  /\ DOMAIN ServerOf = Runs /\ None \notin Runs
  /\ MaxLedger \in Nat /\ MaxRequests \in Nat /\ MaxMoves \in Nat /\ MaxFaults \in Nat

VARIABLES
  lock,     \* the run whose value is in the cache, or None
  current,  \* currentLockValue of the checker of each server
  run,      \* the memory of each run
  flying,   \* submissions under way, awaited or not
  status,   \* the loans on the chain
  due,      \* their due dates
  defaults, \* how often a loan was defaulted
  ended,    \* loans with an indexed LoanRepaid or LoanDefaulted event
  events,   \* loans with such an event still to be indexed
  ledger, requests, moves, faults,
  outlived, \* history: a lock expired under a run
  orphans   \* history: runs that could not release their lock

loanVars == <<status, due, defaults, ended, events, ledger, moves>>
vars     == <<lock, current, run, flying, loanVars, requests, faults, outlived, orphans>>

(* todo: the loans still to submit; open: the batches awaited.             *)
Idle == [at |-> "idle", todo |-> {}, open |-> {}]

Fault == faults < MaxFaults /\ faults' = faults + 1

At(r, label) == run[r].at = label
Goes(r, label) == run' = [run EXCEPT ![r] = [Idle EXCEPT !.at = label]]
Running(r) == ~At(r, "idle")

Init ==
  /\ lock = None
  /\ current = [s \in Servers |-> None]
  /\ run = [r \in Runs |-> Idle]
  /\ flying = {}
  /\ status = [l \in Loans |-> "active"]
  /\ due = [l \in Loans |-> Term]
  /\ defaults = [l \in Loans |-> 0]
  /\ ended = {}
  /\ events = {}
  /\ ledger = 0 /\ requests = 0 /\ moves = 0 /\ faults = 0
  /\ outlived = FALSE
  /\ orphans = {}

------------------------------------------------------------------------------
(* The lock.                                                               *)

(* Bug: every server keeps its locks to itself. *)
FreeHere(r) == current[ServerOf[r]] = None

Free(r) == lock = None

(* SET NX; a run that does not get the lock is over.                       *)
Acquire(r) ==
  /\ At(r, "idle")
  /\ Free(r)
  /\ requests' = IF r \in Requests THEN requests + 1 ELSE requests
  /\ requests' <= MaxRequests
  /\ lock' = r
  /\ current' = [current EXCEPT ![ServerOf[r]] = r]
  /\ Goes(r, "looking")
  /\ UNCHANGED <<flying, loanVars, faults, outlived, orphans>>

(* The cache sets the key and its answer is lost: not acquired.            *)
AcquireUnanswered(r) ==
  /\ At(r, "idle")
  /\ Free(r)
  /\ Fault
  /\ lock' = r
  /\ orphans' = orphans \cup {r}
  /\ UNCHANGED <<current, run, flying, loanVars, requests, outlived>>

(* Bug: SET NX without a time to live. *)
ExpiresNever == FALSE

Expires == lock # None

(* The time to live ends, of a lock nobody will release or of one in use.  *)
Expire ==
  /\ Expires
  /\ IF lock \in orphans THEN UNCHANGED <<faults, outlived>> ELSE Fault /\ outlived' = TRUE
  /\ lock' = None
  /\ orphans' = orphans \ {lock}
  /\ UNCHANGED <<current, run, flying, loanVars, requests>>

(* releaseLock takes the value from the checker, which all the runs of the *)
(* server share, and compares it with what the cache holds ...             *)
Release(r) ==
  LET value == current[ServerOf[r]]
  IN  /\ At(r, "releasing")
      /\ current' = [current EXCEPT ![ServerOf[r]] = None]
      /\ Goes(r, IF value # None /\ lock = value THEN "deleting" ELSE "idle")
      /\ UNCHANGED <<lock, flying, loanVars, requests, faults, outlived, orphans>>

(* ... and deletes the key, whatever it holds by then.                     *)
Delete(r) ==
  /\ At(r, "deleting")
  /\ lock' = None
  /\ orphans' = orphans \ {lock}
  /\ Goes(r, "idle")
  /\ UNCHANGED <<current, flying, loanVars, requests, faults, outlived>>

DeleteFails(r) ==
  /\ At(r, "deleting")
  /\ Fault
  /\ orphans' = orphans \cup {r2 \in Runs : r2 = lock /\ current[ServerOf[r2]] # r2}
  /\ Goes(r, "idle")
  /\ UNCHANGED <<lock, current, flying, loanVars, requests, outlived>>

------------------------------------------------------------------------------
(* A run.                                                                  *)

(* fetchOverdueLoanIds: approved a term ago, without an event that ends a  *)
(* loan (a part of a repayment emits one too); the lowest ids of them.     *)
Listed(l) == l \notin ended /\ Term < ledger

Ahead(l) == {k \in Loans : Listed(k) /\ k < l}

Overdue == {l \in Loans : Listed(l) /\ Cardinality(Ahead(l)) < MaxPerRun}

(* An admin may name the loans.                                            *)
Look(r) ==
  /\ At(r, "looking")
  /\ \E loans \in {Overdue} \cup (IF r \in Requests THEN SUBSET Loans \ {{}} ELSE {}) :
       run' = [run EXCEPT ![r].at = "submitting", ![r].todo = loans]
  /\ UNCHANGED <<lock, current, flying, loanVars, requests, faults, outlived, orphans>>

(* Bug: a run that fails keeps the lock. *)
AfterFailureKept == "idle"

AfterFailure == "releasing"

LookFails(r) ==
  /\ At(r, "looking")
  /\ Fault
  /\ Goes(r, AfterFailure)
  /\ UNCHANGED <<lock, current, flying, loanVars, requests, outlived, orphans>>

FirstOf(loans) ==
  {l \in loans : Cardinality({k \in loans : k < l}) < BatchSize}

(* The next batch goes to a free worker of mapConcurrent, which first asks *)
(* for the sequence number of the account.                                 *)
Start(r) ==
  LET batch == FirstOf(run[r].todo)
  IN  /\ At(r, "submitting")
      /\ run[r].todo # {}
      /\ Cardinality(run[r].open) < Concurrency
      /\ run' = [run EXCEPT ![r].todo = @ \ batch, ![r].open = @ \cup {batch}]
      /\ flying' = flying \cup {[by |-> r, loans |-> batch, seq |-> "unknown", awaited |-> TRUE]}
      /\ UNCHANGED <<lock, current, loanVars, requests, faults, outlived, orphans>>

GetAccount(tx) ==
  /\ tx.seq = "unknown"
  /\ flying' = (flying \ {tx}) \cup {[tx EXCEPT !.seq = "next"]}
  /\ UNCHANGED <<lock, current, run, loanVars, requests, faults, outlived, orphans>>

(* The answer to a submission, which only an awaited one gives to its run. *)
Answered(tx) ==
  run' = IF tx.awaited THEN [run EXCEPT ![tx.by].open = @ \ {tx.loans}] ELSE run

Eligible(l) == status[l] = "active" /\ ledger > due[l] + Window

(* Bug: the contract defaults whatever it is given once it is due. *)
DefaultedIfDue(loans) == {l \in loans : ledger > due[l] + Window}

(* check_defaults skips the loans that are not active or not yet due.      *)
Defaulted(loans) == {l \in loans : Eligible(l)}

(* The transaction that lands takes the sequence number: the others that   *)
(* have read the same will be refused.                                     *)
Land(tx) ==
  /\ tx.seq = "next"
  /\ status' = [l \in Loans |-> IF l \in Defaulted(tx.loans) THEN "defaulted" ELSE status[l]]
  /\ defaults' = [l \in Loans |-> defaults[l] + (IF l \in Defaulted(tx.loans) THEN 1 ELSE 0)]
  /\ events' = events \cup Defaulted(tx.loans)
  /\ flying' = {IF other.seq = "next" THEN [other EXCEPT !.seq = "taken"] ELSE other :
                  other \in flying \ {tx}}
  /\ Answered(tx)
  /\ UNCHANGED <<lock, current, due, ended, ledger, moves, requests, faults, outlived, orphans>>

(* It is refused for its sequence number, or some call on the way fails.   *)
Refuse(tx) ==
  /\ \/ tx.seq = "taken" /\ UNCHANGED faults
     \/ tx.seq # "taken" /\ Fault
  /\ flying' = flying \ {tx}
  /\ Answered(tx)
  /\ UNCHANGED <<lock, current, loanVars, requests, outlived, orphans>>

(* submitCheckDefaultsWithTimeout stops waiting; the submission goes on.   *)
TimeOut(tx) ==
  /\ tx.awaited
  /\ Fault
  /\ flying' = (flying \ {tx}) \cup {[tx EXCEPT !.awaited = FALSE]}
  /\ Answered(tx)
  /\ UNCHANGED <<lock, current, loanVars, requests, outlived, orphans>>

Finish(r) ==
  /\ At(r, "submitting")
  /\ run[r].todo = {} /\ run[r].open = {}
  /\ Goes(r, "releasing")
  /\ UNCHANGED <<lock, current, flying, loanVars, requests, faults, outlived, orphans>>

(* A server dies with its runs; their lock stays, and the transactions     *)
(* they had sent may still land.                                           *)
Crash(s) ==
  LET dead  == {r \in Runs : ServerOf[r] = s}
      going == {tx \in flying : tx.by \in dead}
  IN  /\ Fault
      /\ run' = [r \in Runs |-> IF r \in dead THEN Idle ELSE run[r]]
      /\ current' = [current EXCEPT ![s] = None]
      /\ \E sent \in SUBSET {tx \in going : tx.seq = "next"} :
           flying' = (flying \ going) \cup {[tx EXCEPT !.awaited = FALSE] : tx \in sent}
      /\ orphans' = orphans \cup ({lock} \cap dead)
      /\ UNCHANGED <<lock, loanVars, requests, outlived>>

------------------------------------------------------------------------------
(* The chain and the indexer.                                              *)

CloseLedger ==
  /\ ledger < MaxLedger
  /\ ledger' = ledger + 1
  /\ UNCHANGED <<lock, current, run, flying, status, due, defaults, ended, events,
                 moves, requests, faults, outlived, orphans>>

Index ==
  /\ events # {}
  /\ ended' = ended \cup events
  /\ events' = {}
  /\ UNCHANGED <<lock, current, run, flying, status, due, defaults, ledger, moves,
                 requests, faults, outlived, orphans>>

(* What the parties of a loan do to it: repay a part or all of it, extend  *)
(* it, liquidate it.                                                       *)
Move(l) ==
  /\ status[l] = "active"
  /\ moves < MaxMoves
  /\ moves' = moves + 1
  /\ \/ /\ \/ UNCHANGED status
           \/ status' = [status EXCEPT ![l] = "repaid"]
        /\ events' = events \cup {l}
        /\ UNCHANGED due
     \/ due' = [due EXCEPT ![l] = @ + 1] /\ UNCHANGED <<status, events>>
     \/ status' = [status EXCEPT ![l] = "liquidated"] /\ UNCHANGED <<due, events>>
  /\ UNCHANGED <<lock, current, run, flying, defaults, ended, ledger, requests,
                 faults, outlived, orphans>>

Step(r) == Acquire(r) \/ Look(r) \/ Start(r) \/ Finish(r) \/ Release(r) \/ Delete(r)

Proceed(tx) == GetAccount(tx) \/ Land(tx) \/ Refuse(tx)

Next ==
  \/ \E r \in Runs : Step(r) \/ AcquireUnanswered(r) \/ LookFails(r) \/ DeleteFails(r)
  \/ \E tx \in flying : Proceed(tx) \/ TimeOut(tx)
  \/ \E s \in Servers : Crash(s)
  \/ Expire \/ CloseLedger \/ Index
  \/ \E l \in Loans : Move(l)

(* The timers go off for ever, and a run and its submissions go on.  Of    *)
(* the batches that race for a sequence number none loses every time.      *)
Fairness ==
  /\ WF_vars(\E r \in Timers : Acquire(r))
  /\ WF_vars(Expire) /\ WF_vars(CloseLedger) /\ WF_vars(Index)
  /\ \A r \in Runs : WF_vars(Step(r) /\ Running(r))
  /\ \A r \in Runs : WF_vars(\E tx \in flying : tx.by = r /\ Proceed(tx))
  /\ \A l \in Loans : SF_vars(\E tx \in flying : l \in tx.loans /\ Land(tx))

Spec == Init /\ [][Next]_vars

FairSpec == Spec /\ Fairness
------------------------------------------------------------------------------
Submissions ==
  [by : Runs, loans : SUBSET Loans, seq : {"unknown", "next", "taken"}, awaited : BOOLEAN]

RunStates ==
  [at : {"idle", "looking", "submitting", "releasing", "deleting"},
   todo : SUBSET Loans, open : SUBSET SUBSET Loans]

TypeOK ==
  /\ lock \in Runs \cup {None}
  /\ current \in [Servers -> Runs \cup {None}]
  /\ run \in [Runs -> RunStates]
  /\ flying \subseteq Submissions
  /\ status \in [Loans -> {"active", "repaid", "defaulted", "liquidated"}]
  /\ due \in [Loans -> Nat]
  /\ defaults \in [Loans -> Nat]
  /\ ended \subseteq Loans /\ events \subseteq Loans
  /\ ledger \in 0 .. MaxLedger /\ requests \in 0 .. MaxRequests
  /\ moves \in 0 .. MaxMoves /\ faults \in 0 .. MaxFaults
  /\ outlived \in BOOLEAN /\ orphans \subseteq Runs

Working(r) == run[r].at \in {"looking", "submitting"}

(* Two runs work at once only after one has outlived the lock's time to    *)
(* live: not by a crash, a lost answer, a late submission or the lock      *)
(* value that all runs of a server share.                                  *)
OverlapOnlyAfterExpiry ==
  outlived \/ \A r, q \in Runs : Working(r) /\ Working(q) => r = q

(* The lock in the cache is that of a run under way, is being deleted by   *)
(* one, or is left from one that a crash or a failed call kept from        *)
(* releasing it: a run that fails or finds its lock replaced by that of    *)
(* another run of its server leaves none behind.                           *)
NoLockLeftBehind ==
  lock # None =>
    Running(lock) \/ lock \in orphans \/ \E r \in Runs : At(r, "deleting")

(* The lock and the runs that take and leave it. *)
LocksSound == TypeOK /\ NoLockLeftBehind

(* However late, stale or repeated the submissions are, a loan that was    *)
(* repaid, liquidated or defaulted is not defaulted (again).               *)
DefaultedOnce ==
  [][\A l \in Loans :
       status[l] # "active" => status'[l] = status[l] /\ defaults'[l] = defaults[l]]_vars

Crowded(l) == Cardinality(Ahead(l)) >= MaxPerRun

(* A loan that can be defaulted and is known to the checker does not stay  *)
(* so, unless the loans before it fill every run.                          *)
NoneLeftOut == \A l \in Loans : []<>~(Eligible(l) /\ Listed(l) /\ ~Crowded(l))
==============================================================================
