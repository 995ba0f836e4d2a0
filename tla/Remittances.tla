------------------------------ MODULE Remittances ------------------------------
(***************************************************************************)
(* How a transaction of a wallet is built, signed, submitted and recorded  *)
(* by the backend: remittances (remittanceController.ts and                *)
(* remittanceService.ts), and the contract calls that go through           *)
(* /loans/submit and /pool/submit (loanController.ts, poolController.ts),  *)
(* both over submitSignedTx of sorobanService.ts.                          *)
(*                                                                         *)
(* The model follows one wallet.  Requests are handled at the same time    *)
(* and share the database and the wallet's sequence number on the network. *)
(* A step is one statement, one transaction without calls inside, or one   *)
(* call to the RPC node.                                                   *)
(***************************************************************************)
EXTENDS Integers

CONSTANTS
  Creates,     \* remittances, by the id a request to create one gives it
  Asked,       \* what a remittance asks for: recipient, amount, currencies
  Calls,       \* contract calls the backend builds a transaction for
  Submits,     \* requests to submit a signed transaction
  Posted,      \* the signed transactions that clients send to submit each
               \* remittance, and to the endpoints for calls (None); a bound
               \* on inputs, for neither looks at what it is sent
  Window,      \* REMITTANCE_DUPLICATE_WINDOW_MS
  None,
  MaxClock,    \* bound on the clock
  MaxFaults    \* bound on failed calls, lost answers and crashes

Txs == Creates \cup Calls

ASSUME RemittanceAssumption ==
  /\ DOMAIN Asked = Creates
  /\ None \notin Txs /\ Creates \cap Calls = {}
  /\ Posted \in [Creates \cup {None} -> SUBSET Txs]
  /\ Window \in Nat /\ MaxClock \in Nat /\ MaxFaults \in Nat

VARIABLES
  clock,
  seq,         \* the wallet's sequence number on the network
  built,       \* the sequence number in a transaction
  chain,       \* what became of a transaction on the network
  rows,        \* remittances
  record,      \* transaction_submissions: the status for a hash
  create,      \* the memory of a request to create a remittance
  submit,      \* the memory of a request to submit
  faults,
  sends,       \* history: how often a submit of a remittance sent one
  overlapped,  \* history: pairs of creations that were under way at once
  raced,       \* history: remittances two submits read pending
  stranded     \* history: remittances whose submit a fault cut short

vars == <<clock, seq, built, chain, rows, record, create, submit, faults,
          sends, overlapped, raced, stranded>>

network == <<seq, chain>>
history == <<sends, overlapped, raced, stranded>>

NoRow    == [status |-> "none", hash |-> None, created |-> 0]
NoCreate == [at |-> "new", created |-> 0]

(* id: the remittance, or None at the endpoints for contract calls; tx:    *)
(* the signed transaction; answer: the status submitSignedTx returns.      *)
NoSubmit == [at |-> "new", id |-> None, tx |-> None, answer |-> "none"]

Fault   == faults < MaxFaults /\ faults' = faults + 1
NoFault == UNCHANGED faults

Exists(r) == rows[r].status # "none"

Init ==
  /\ clock = 0
  /\ seq = 0
  /\ built = [t \in Txs |-> 0]
  /\ chain = [t \in Txs |-> "unbuilt"]
  /\ rows = [r \in Creates |-> NoRow]
  /\ record = [t \in Txs |-> "none"]
  /\ create = [r \in Creates |-> NoCreate]
  /\ submit = [q \in Submits |-> NoSubmit]
  /\ faults = 0
  /\ sends = [r \in Creates |-> 0]
  /\ overlapped = {}
  /\ raced = {}
  /\ stranded = {}

------------------------------------------------------------------------------
(* createRemittance.                                                       *)

Creating(r) == create[r].at \in {"building", "inserting"}

CreateEnds(r) == create' = [create EXCEPT ![r] = [NoCreate EXCEPT !.at = "done"]]

(* Bug: a remittance that failed does not count. *)
RecentUnlessFailed(r) ==
  Exists(r) /\ rows[r].status # "failed" /\ rows[r].created >= clock - Window

Recent(r) == Exists(r) /\ rows[r].created >= clock - Window

(* assertNotDuplicate, whatever became of the earlier remittance.          *)
Duplicates(r) == {s \in Creates : Asked[s] = Asked[r] /\ Recent(s)}

Look(r) ==
  /\ create[r].at = "new"
  /\ \/ /\ Duplicates(r) = {}
        /\ create' = [create EXCEPT ![r] = [at |-> "building", created |-> clock]]
        /\ overlapped' = overlapped \cup {{r, s} : s \in {s \in Creates : Creating(s)}}
     \/ /\ Duplicates(r) # {}
        /\ CreateEnds(r)
        /\ UNCHANGED overlapped
  /\ UNCHANGED <<clock, network, built, rows, record, submit, faults, sends, raced, stranded>>

(* getAccount: the transaction carries the sequence number of now.         *)
BuildRemittance(r) ==
  /\ create[r].at = "building"
  /\ built' = [built EXCEPT ![r] = seq]
  /\ create' = [create EXCEPT ![r].at = "inserting"]
  /\ UNCHANGED <<clock, network, rows, record, submit, faults, history>>

(* Its hash and signature exist once the row does: the sender reads the    *)
(* transaction there.                                                      *)
Insert(r) ==
  /\ rows' = [rows EXCEPT ![r] = [status |-> "pending", hash |-> None,
                                  created |-> create[r].created]]
  /\ chain' = [chain EXCEPT ![r] = "unseen"]

InsertRemittance(r) ==
  /\ create[r].at = "inserting"
  /\ Insert(r)
  /\ CreateEnds(r)
  /\ UNCHANGED <<clock, seq, built, record, submit, faults, history>>

(* Or the answer of the COMMIT is lost: the row is there.                  *)
CreateFails(r) ==
  /\ Creating(r)
  /\ Fault
  /\ \/ UNCHANGED <<rows, chain>>
     \/ create[r].at = "inserting" /\ Insert(r)
  /\ CreateEnds(r)
  /\ UNCHANGED <<clock, seq, built, record, submit, history>>

(* buildRequestLoanTx and its like.                                        *)
BuildCall(c) ==
  /\ chain[c] = "unbuilt"
  /\ built' = [built EXCEPT ![c] = seq]
  /\ chain' = [chain EXCEPT ![c] = "unseen"]
  /\ UNCHANGED <<clock, seq, rows, record, create, submit, faults, history>>

------------------------------------------------------------------------------
(* submitRemittanceTransaction.                                            *)

SubmitGoes(q, label) == submit' = [submit EXCEPT ![q].at = label]

SubmitEnds(q) == submit' = [submit EXCEPT ![q] = [NoSubmit EXCEPT !.at = "done"]]

(* Bug: a remittance is sent whatever has become of it. *)
SubmittableAlways(r) == TRUE

Submittable(r) == rows[r].status = "pending"

Arrives(q, r, t, label) ==
  submit' = [submit EXCEPT ![q] = [at |-> label, id |-> r, tx |-> t, answer |-> "none"]]

(* The row is read.  A remittance of somebody else, one that is not        *)
(* pending and a read that fails all end in the handler of errors.  The    *)
(* transaction is not compared with that of the row.                       *)
Arrive(q, r, t) ==
  /\ submit[q].at = "new"
  /\ Exists(r) /\ chain[t] # "unbuilt"
  /\ \/ /\ Submittable(r)
        /\ Arrives(q, r, t, "marking")
        /\ raced' = IF \E p \in Submits : submit[p].id = r /\ submit[p].at = "marking"
                    THEN raced \cup {r} ELSE raced
     \/ /\ Arrives(q, r, t, "failing")
        /\ UNCHANGED raced
  /\ UNCHANGED <<clock, network, built, rows, record, create, faults, sends,
                 overlapped, stranded>>

(* Bug: the hash stays when the status changes. *)
SetStatusOnly(r, status, hash) ==
  rows' = [rows EXCEPT ![r].status = status, ![r].hash = IF hash = None THEN @ ELSE hash]

(* updateRemittanceStatus: without a hash it is cleared.                   *)
SetStatus(r, status, hash) ==
  rows' = [rows EXCEPT ![r].status = status, ![r].hash = hash]

Mark(q) ==
  LET r == submit[q].id
  IN  /\ submit[q].at = "marking"
      /\ SetStatus(r, "processing", None)
      /\ SubmitGoes(q, "sending")
      /\ UNCHANGED <<clock, network, built, record, create, faults, history>>

(* What the network may say to sendTransaction, and what it then holds:    *)
(* one transaction of a wallet waits at a time, and it has to carry the    *)
(* wallet's sequence number; one that may not be paid or whose time bound  *)
(* has passed is an error too.                                             *)
Replies(t) ==
  CASE chain[t] = "queued" -> {"DUPLICATE"}
    [] chain[t] # "queued" /\ \E s \in Txs : chain[s] = "queued" -> {"TRY_AGAIN_LATER"}
    [] chain[t] = "unseen" /\ built[t] = seq /\ \A s \in Txs : chain[s] # "queued" ->
         {"PENDING", "ERROR"}
    [] OTHER -> {"ERROR"}

Sent(t, reply) == IF reply = "PENDING" THEN [chain EXCEPT ![t] = "queued"] ELSE chain

(* submitSignedTx has an answer: its status is for the endpoints for       *)
(* contract calls only, a remittance goes on whatever it is.               *)
Answered(q, answer) ==
  submit' = [submit EXCEPT
    ![q].at = IF submit[q].id = None THEN "recording" ELSE "completing",
    ![q].answer = IF submit[q].id = None THEN answer ELSE "none"]

(* What the network refuses is an answer like any other.                   *)
Refused(reply) == reply \in {"ERROR", "TRY_AGAIN_LATER"}

Send(q) ==
  LET t == submit[q].tx
      r == submit[q].id
  IN  /\ submit[q].at = "sending"
      /\ \E reply \in Replies(t) :
           /\ chain' = Sent(t, reply)
           /\ IF Refused(reply) THEN Answered(q, reply) ELSE SubmitGoes(q, "polling")
      /\ sends' = IF r = None THEN sends ELSE [sends EXCEPT ![r] = @ + 1]
      /\ UNCHANGED <<clock, seq, built, rows, record, create, faults,
                     overlapped, raced, stranded>>

(* Bug: a transaction that is not found is taken for a failed one. *)
PolledHasty(t) ==
  CASE chain[t] = "success" -> "SUCCESS"
    [] OTHER                -> "FAILED"

(* pollTransaction, which gives up after a while.                          *)
Polled(t) ==
  CASE chain[t] = "success" -> "SUCCESS"
    [] chain[t] = "failed"  -> "FAILED"
    [] OTHER                -> "NOT_FOUND"

Poll(q) ==
  /\ submit[q].at = "polling"
  /\ Answered(q, Polled(submit[q].tx))
  /\ UNCHANGED <<clock, network, built, rows, record, create, faults, history>>

(* Whatever the answer.                                                    *)
Complete(q) ==
  /\ submit[q].at = "completing"
  /\ SetStatus(submit[q].id, "completed", submit[q].tx)
  /\ SubmitGoes(q, "notifying")
  /\ UNCHANGED <<clock, network, built, record, create, faults, history>>

Notify(q) ==
  /\ submit[q].at = "notifying"
  /\ SubmitEnds(q)
  /\ UNCHANGED <<clock, network, built, rows, record, create, faults, history>>

(* Bug: the handler of errors only answers. *)
FailedSilently(q) == UNCHANGED rows

(* The handler of errors marks the remittance failed, whoever asked and    *)
(* whatever it was.                                                        *)
Failed(q) == SetStatus(submit[q].id, "failed", None)

Fail(q) ==
  /\ submit[q].at = "failing"
  /\ Failed(q)
  /\ SubmitEnds(q)
  /\ UNCHANGED <<clock, network, built, record, create, faults, history>>

(* submitTransaction and submitPoolTransaction, within a database          *)
(* transaction that writes nothing until the network has answered.         *)
ArriveCall(q, t) ==
  /\ submit[q].at = "new"
  /\ chain[t] # "unbuilt"
  /\ Arrives(q, None, t, "sending")
  /\ UNCHANGED <<clock, network, built, rows, record, create, faults, history>>

(* INSERT ... ON CONFLICT (tx_hash) DO UPDATE, and the commit.             *)
Recorded(q) == [record EXCEPT ![submit[q].tx] = submit[q].answer]

Record(q) ==
  /\ submit[q].at = "recording"
  /\ record' = Recorded(q)
  /\ SubmitEnds(q)
  /\ UNCHANGED <<clock, network, built, rows, create, faults, history>>

(* A statement or call fails, or its answer is lost when it has had its    *)
(* effect; the handler of errors is the last that can fail.                *)
SubmitFails(q) ==
  LET r  == submit[q].id
      t  == submit[q].tx
      at == submit[q].at
  IN  /\ at \notin {"new", "done"}
      /\ Fault
      /\ IF at = "failing" \/ r = None THEN SubmitEnds(q) ELSE SubmitGoes(q, "failing")
      /\ \/ UNCHANGED rows
         \/ at = "marking" /\ SetStatus(r, "processing", None)
         \/ at = "completing" /\ SetStatus(r, "completed", t)
         \/ at = "failing" /\ Failed(q)
      /\ \/ UNCHANGED record
         \/ at = "recording" /\ record' = Recorded(q)
      /\ \/ UNCHANGED chain
         \/ at = "sending" /\ \E reply \in Replies(t) : chain' = Sent(t, reply)
      /\ sends' = IF at = "sending" /\ r # None THEN [sends EXCEPT ![r] = @ + 1] ELSE sends
      /\ stranded' = IF at = "failing" THEN stranded \cup {r} ELSE stranded
      /\ UNCHANGED <<clock, seq, built, create, overlapped, raced>>

------------------------------------------------------------------------------
(* The clock matters to requests that are still to come.                   *)
Tick ==
  /\ clock < MaxClock
  /\ \E r \in Creates : create[r].at = "new"
  /\ clock' = clock + 1
  /\ UNCHANGED <<network, built, rows, record, create, submit, faults, history>>

(* A ledger closes with the transaction that waits, which takes effect or  *)
(* fails; either takes the sequence number.                                *)
Apply(t) ==
  /\ chain[t] = "queued"
  /\ \E outcome \in {"success", "failed"} : chain' = [chain EXCEPT ![t] = outcome]
  /\ seq' = seq + 1
  /\ UNCHANGED <<clock, built, rows, record, create, submit, faults, history>>

(* Its time bound passes before.                                           *)
Expire(t) ==
  /\ chain[t] = "queued"
  /\ chain' = [chain EXCEPT ![t] = "expired"]
  /\ UNCHANGED <<clock, seq, built, rows, record, create, submit, faults, history>>

(* The server stops with all its requests.                                 *)
Crash ==
  /\ Fault
  /\ create' = [r \in Creates |->
       IF Creating(r) THEN [NoCreate EXCEPT !.at = "done"] ELSE create[r]]
  /\ submit' = [q \in Submits |->
       IF submit[q].at = "new" THEN submit[q] ELSE [NoSubmit EXCEPT !.at = "done"]]
  /\ stranded' = stranded \cup {r \in Creates : \E q \in Submits : submit[q].id = r}
  /\ UNCHANGED <<clock, network, built, rows, record, sends, overlapped, raced>>

Work(q) ==
  Mark(q) \/ Send(q) \/ Poll(q) \/ Complete(q) \/ Notify(q) \/ Fail(q) \/ Record(q)

Next ==
  \/ \E r \in Creates : Look(r) \/ BuildRemittance(r) \/ InsertRemittance(r) \/ CreateFails(r)
  \/ \E c \in Calls : BuildCall(c)
  \/ \E q \in Submits :
       \/ \E r \in Creates : \E t \in Posted[r] : Arrive(q, r, t)
       \/ \E t \in Posted[None] : ArriveCall(q, t)
       \/ Work(q) \/ SubmitFails(q)
  \/ \E t \in Txs : Apply(t) \/ Expire(t)
  \/ Tick \/ Crash

(* A handler that was started goes on.                                     *)
Fairness == \A q \in Submits : WF_vars(Work(q))

Spec == Init /\ [][Next]_vars

FairSpec == Spec /\ Fairness
------------------------------------------------------------------------------
Answers == {"SUCCESS", "FAILED", "NOT_FOUND", "ERROR", "TRY_AGAIN_LATER"}

Row == [status : {"none", "pending", "processing", "completed", "failed"},
        hash : Txs \cup {None}, created : Nat]

CreateState == [at : {"new", "building", "inserting", "done"}, created : Nat]

SubmitState ==
  [at : {"new", "marking", "sending", "polling", "completing", "notifying",
         "failing", "recording", "done"},
   id : Creates \cup {None}, tx : Txs \cup {None}, answer : Answers \cup {"none"}]

TypeOK ==
  /\ clock \in 0 .. MaxClock /\ faults \in 0 .. MaxFaults
  /\ seq \in Nat /\ built \in [Txs -> Nat]
  /\ chain \in [Txs -> {"unbuilt", "unseen", "queued", "success", "failed", "expired"}]
  /\ rows \in [Creates -> Row]
  /\ record \in [Txs -> Answers \cup {"none"}]
  /\ create \in [Creates -> CreateState]
  /\ submit \in [Submits -> SubmitState]
  /\ sends \in [Creates -> Nat]
  /\ overlapped \subseteq SUBSET Creates
  /\ raced \subseteq Creates /\ stranded \subseteq Creates

(* What an answer says of a transaction is so.                             *)
True(answer, t) ==
  /\ answer = "SUCCESS" => chain[t] = "success"
  /\ answer = "FAILED" => chain[t] = "failed"

(* transaction_submissions never calls a transaction done or failed that   *)
(* is not, however late polls and resubmissions come.                      *)
RecordsTellChain ==
  /\ \A t \in Txs : True(record[t], t)
  /\ \A q \in Submits : submit[q].at = "recording" => True(submit[q].answer, submit[q].tx)

(* A remittance still pending has not been sent, and one completed has;    *)
(* only a completed one keeps a hash, whichever submits, refusals and      *)
(* failures passed each other on the way.                                  *)
StatusTellsSends ==
  \A r \in Creates :
    /\ rows[r].status \in {"none", "pending"} => sends[r] = 0
    /\ rows[r].status = "completed" => sends[r] > 0
    /\ rows[r].hash # None <=> rows[r].status = "completed"

(* The two tables, and what the network knows. *)
TablesSound == TypeOK /\ RecordsTellChain /\ StatusTellsSends

Identical(r, s) ==
  /\ Asked[r] = Asked[s]
  /\ Exists(r) /\ Exists(s)
  /\ rows[s].created \in rows[r].created .. rows[r].created + Window

(* One tap of the sender, one remittance and one submission: two identical *)
(* remittances lie in one window only if both were being created at once   *)
(* (assertNotDuplicate reads before the other's INSERT), and a remittance  *)
(* is sent again only if two submits had read it pending.                  *)
OnlyRacesRepeat ==
  \A r \in Creates :
    /\ r \notin raced => sends[r] <= 1
    /\ \A s \in Creates \ {r} : Identical(r, s) => {r, s} \in overlapped

(* A remittance marked processing comes to be completed or failed, unless  *)
(* the server stopped or the handler of errors failed itself: nothing else *)
(* takes up what they leave.                                               *)
NoneStaysProcessing ==
  \A r \in Creates :
    rows[r].status = "processing" ~> rows[r].status # "processing" \/ r \in stranded
==============================================================================
