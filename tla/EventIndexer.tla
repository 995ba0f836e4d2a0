----------------------------- MODULE EventIndexer -----------------------------
(***************************************************************************)
(* backend/src/services/eventIndexer.ts over the database and the RPC node *)
(* it works on.  Pollers are the polling loops of the service instances;   *)
(* admins are requests to the admin endpoints that re-read a range or      *)
(* ingest quarantined events again.  They run at the same time and share   *)
(* nothing but the database.                                               *)
(*                                                                         *)
(* A step is one statement, one transaction or one call.  A transaction is *)
(* atomic: inserts of the same event wait for each other and a score is    *)
(* locked until the commit, so overlapping transactions come out as some   *)
(* order of them.  What a transaction leaves in the memory of the process  *)
(* is not rolled back with it.                                             *)
(***************************************************************************)
EXTENDS Integers, FiniteSets, Sequences

CONSTANTS
  Chain,       \* the contracts' events in order: kind, loan, ledger, parse
  Pollers,
  Admins,
  Ranges,      \* ranges of ledgers an admin asks for (a bound on inputs)
  BatchSize,   \* ledgers in a chunk
  MaxRetries,  \* retries of a transaction after a transient error
  MaxLedger,   \* bound on the ledger
  MaxFaults    \* bound on failed calls, lost answers and crashes

Event   == DOMAIN Chain
Workers == Pollers \cup Admins

ASSUME IndexerAssumption ==
  /\ Event \subseteq Nat \ {0}
  /\ \A e \in Event :
       /\ Chain[e].ledger \in 1 .. MaxLedger
       /\ Chain[e].parse \in {"ok", "throws", "null"}
  /\ IsFiniteSet(Workers) /\ Pollers \cap Admins = {}
  /\ Ranges \subseteq (Nat \ {0}) \X (Nat \ {0})
  /\ BatchSize \in Nat \ {0} /\ MaxRetries \in Nat
  /\ MaxLedger \in Nat /\ MaxFaults \in Nat

VARIABLES
  tip,         \* the latest closed ledger
  upgraded,    \* the parser of a later release is deployed
  cursor,      \* indexer_state.last_ledger
  rows,        \* the events in loan_events
  quarantine,  \* the events in quarantine_events
  credited,    \* how often the score change of an event was committed
  sent,        \* how often an event went to webhooks, stream and notifications
  worker,      \* the memory of each polling loop or request
  faults,      \* faults so far
  dropped,     \* history: events whose quarantine statement failed
  unsent       \* history: events whose announcement died with a process

vars == <<tip, upgraded, cursor, rows, quarantine, credited, sent, worker,
          faults, dropped, unsent>>

Nothing == [e \in Event |-> 0]

(* batch: the events in hand; to: the last ledger of the chunk (of a poll  *)
(* that has not asked for the tip yet, the cursor it read); end: the last  *)
(* ledger to re-read; news: insertedEvents, from which scoreUpdates is     *)
(* built in step; tries: the transaction's retries so far.                 *)
Idle == [at |-> "idle", batch |-> {}, to |-> 0, end |-> 0, news |-> Nothing, tries |-> 0]

Fault   == faults < MaxFaults /\ faults' = faults + 1
NoFault == UNCHANGED faults

At(w, label) == worker[w].at = label
Becomes(w, state) == worker' = [worker EXCEPT ![w] = state]

Init ==
  /\ tip = 0
  /\ upgraded = FALSE
  /\ cursor = 0
  /\ rows = {}
  /\ quarantine = {}
  /\ credited = Nothing
  /\ sent = Nothing
  /\ worker = [w \in Workers |-> Idle]
  /\ faults = 0
  /\ dropped = {}
  /\ unsent = {}

------------------------------------------------------------------------------
(* parseEvent refuses some payloads by throwing and some events, which it  *)
(* does not know, by returning null; a later release may know better about *)
(* the former.                                                             *)
Throws(e)   == Chain[e].parse = "throws" /\ ~upgraded
Known(e)    == Chain[e].parse # "null"
Readable(e) == Known(e) /\ ~Throws(e)

(* parseEvent finds an address in every kind of event that storeEvents     *)
(* looks at for a score but one: the event of a liquidation carries only   *)
(* the loan and the amount.                                                *)
HasAddress(e) == Chain[e].kind # "CollateralLiquidated"

(* The events that move a score: storeEvents asks for the kind and for an  *)
(* address, so of its three kinds the last moves none.                     *)
Scored(e) ==
  /\ Chain[e].kind \in {"LoanRepaid", "LoanDefaulted", "CollateralLiquidated"}
  /\ HasAddress(e)

(* The unique constraints of the table: a second row for the same event,   *)
(* for the same loan, type and ledger, or for the status of the same loan; *)
(* an event of no loan (0) is bound by the first of them only.             *)
SameSlot(e, f) ==
  \/ e = f
  \/ /\ Chain[e].loan # 0
     /\ Chain[e].loan = Chain[f].loan /\ Chain[e].kind = Chain[f].kind
     /\ \/ Chain[e].ledger = Chain[f].ledger
        \/ Chain[e].kind \in {"LoanApproved", "LoanDefaulted"}

(* What INSERT ... ON CONFLICT DO NOTHING inserts of a batch, in order.    *)
Inserted(batch) ==
  {e \in batch :
     /\ Readable(e)
     /\ \A f \in rows : ~SameSlot(e, f)
     /\ \A f \in batch : f < e /\ Readable(f) => ~SameSlot(e, f)}

Least(x, y) == IF x < y THEN x ELSE y

(* getEvents, page by page: what the closed ledgers of the range hold.     *)
Fetched(first, last) == {e \in Event : Chain[e].ledger \in first .. Least(last, tip)}

ChunkEnd(first, last) == Least(first + BatchSize - 1, last)

Chunk(first, last, end) ==
  [Idle EXCEPT !.at = "parsing", !.batch = Fetched(first, ChunkEnd(first, last)),
               !.to = ChunkEnd(first, last), !.end = end]

(* Bug: a poll that stored nothing new does not move the cursor. *)
AfterPollIfNew(p) ==
  IF worker[p].news = Nothing THEN Idle
  ELSE [Idle EXCEPT !.at = "moving", !.to = worker[p].to]

AfterPoll(p) == [Idle EXCEPT !.at = "moving", !.to = worker[p].to]

(* What comes after storeEvents: a poll moves the cursor, a reprocessing   *)
(* deletes the row it came from, a re-read takes the next chunk.           *)
AfterStore(w) ==
  CASE w \in Pollers -> AfterPoll(w)
    [] w \in Admins /\ worker[w].end = 0 ->
         [Idle EXCEPT !.at = "deleting", !.batch = worker[w].batch]
    [] OTHER ->
         IF worker[w].to < worker[w].end
         THEN Chunk(worker[w].to + 1, worker[w].end, worker[w].end)
         ELSE Idle

(* A poll or request ends in an exception; the loop starts over.  What it  *)
(* had collected to announce is gone.                                      *)
GivesUp(w) ==
  /\ Becomes(w, Idle)
  /\ unsent' = unsent \cup {e \in rows' : worker[w].news[e] > 0}

------------------------------------------------------------------------------
CloseLedger ==
  /\ tip < MaxLedger
  /\ tip' = tip + 1
  /\ UNCHANGED <<upgraded, cursor, rows, quarantine, credited, sent, worker,
                 faults, dropped, unsent>>

ReadCursor(p) ==
  /\ At(p, "idle")
  /\ Becomes(p, [Idle EXCEPT !.at = "asking", !.to = cursor])
  /\ UNCHANGED <<tip, upgraded, cursor, rows, quarantine, credited, sent,
                 faults, dropped, unsent>>

(* The events of the chunk are fetched in the same step: they do not       *)
(* change once their ledgers are closed.                                   *)
AskTip(p) ==
  /\ At(p, "asking")
  /\ \/ tip > worker[p].to /\ Becomes(p, Chunk(worker[p].to + 1, tip, 0)) /\ NoFault
     \/ tip <= worker[p].to /\ Becomes(p, Idle) /\ NoFault
     \/ Becomes(p, Idle) /\ Fault
  /\ UNCHANGED <<tip, upgraded, cursor, rows, quarantine, credited, sent,
                 dropped, unsent>>

(* Bug: an event that does not parse is logged and forgotten. *)
QuarantinedNone(batch, failed) == {}

(* Each statement stands alone; a failed one is logged and passed over.    *)
Quarantined(batch, failed) == {e \in batch : Throws(e)} \ failed

(* The first half of storeEvents; without an event to store it is all.     *)
Parse(w) ==
  /\ At(w, "parsing")
  /\ \E failed \in SUBSET {e \in worker[w].batch : Throws(e)} :
       /\ IF failed = {} THEN NoFault ELSE Fault
       /\ quarantine' = quarantine \cup Quarantined(worker[w].batch, failed)
       /\ dropped' = dropped \cup failed
  /\ Becomes(w, IF \E e \in worker[w].batch : Readable(e)
                THEN [worker[w] EXCEPT !.at = "storing"] ELSE AfterStore(w))
  /\ UNCHANGED <<tip, upgraded, cursor, rows, credited, sent, unsent>>

(* Bug: every attempt begins its collection afresh. *)
CollectedAfresh(w, events) == [e \in Event |-> IF e \in events THEN 1 ELSE 0]

(* insertedEvents and scoreUpdates are declared outside the callback: an   *)
(* attempt adds to what earlier attempts left there.                       *)
Collected(w, events) ==
  [e \in Event |-> worker[w].news[e] + (IF e \in events THEN 1 ELSE 0)]

StoreChunk(w) ==
  /\ rows' = rows \cup Inserted(worker[w].batch)
  /\ credited' = [e \in Event |-> credited[e]
       + (IF Scored(e) THEN Collected(w, Inserted(worker[w].batch))[e] ELSE 0)]

RetriesLeft(w) == worker[w].tries < MaxRetries

Retry(w, collected) ==
  /\ RetriesLeft(w)
  /\ Becomes(w, [worker[w] EXCEPT !.news = collected, !.tries = @ + 1])
  /\ UNCHANGED unsent

Commit(w) ==
  /\ At(w, "storing")
  /\ StoreChunk(w)
  /\ Becomes(w, [worker[w] EXCEPT !.at = "announcing",
                                  !.news = Collected(w, Inserted(worker[w].batch))])
  /\ UNCHANGED <<tip, upgraded, cursor, quarantine, sent, faults, dropped, unsent>>

(* The commit is done but its answer is lost: for withTransaction an error *)
(* like any other.                                                         *)
CommitUnanswered(w) ==
  /\ At(w, "storing")
  /\ Fault
  /\ StoreChunk(w)
  /\ \/ Retry(w, Collected(w, Inserted(worker[w].batch)))
     \/ /\ Becomes(w, Idle)
        /\ unsent' = unsent \cup Inserted(worker[w].batch)
                       \cup {e \in rows : worker[w].news[e] > 0}
  /\ UNCHANGED <<tip, upgraded, cursor, quarantine, sent, dropped>>

(* Bug: the score change of an attempt survives its rollback. *)
UndoesRowsOnly(w, done) ==
  /\ UNCHANGED rows
  /\ credited' = [e \in Event |-> credited[e] + (IF Scored(e) /\ e \in done THEN 1 ELSE 0)]

Undoes(w, done) == UNCHANGED <<rows, credited>>

(* The transaction fails at some statement, after the inserts in done: a   *)
(* transient error is tried again, any other ends the poll.                *)
RollBack(w) ==
  /\ At(w, "storing")
  /\ Fault
  /\ \E last \in {0} \cup worker[w].batch :
       LET done == {e \in Inserted(worker[w].batch) : e <= last}
       IN  /\ Undoes(w, done)
           /\ Retry(w, Collected(w, done)) \/ GivesUp(w)
  /\ UNCHANGED <<tip, upgraded, cursor, quarantine, sent, dropped>>

(* After the commit, one after the other without waiting for any of them.  *)
Announce(w) ==
  /\ At(w, "announcing")
  /\ sent' = [e \in Event |-> sent[e] + worker[w].news[e]]
  /\ Becomes(w, AfterStore(w))
  /\ UNCHANGED <<tip, upgraded, cursor, rows, quarantine, credited, faults,
                 dropped, unsent>>

(* Bug: the cursor is set to where this poll got, wherever it stands. *)
AdvancedBlindly(to) == to

Advanced(to) == IF to > cursor THEN to ELSE cursor

MoveCursor(p) ==
  /\ At(p, "moving")
  /\ \/ cursor' = Advanced(worker[p].to) /\ NoFault
     \/ UNCHANGED cursor /\ Fault
  /\ Becomes(p, Idle)
  /\ UNCHANGED <<tip, upgraded, rows, quarantine, credited, sent, dropped, unsent>>

------------------------------------------------------------------------------
(* reindexLedgerRange: a range that exists, chunk by chunk.                *)
Reindex(a, first, last) ==
  /\ At(a, "idle")
  /\ last <= tip
  /\ Becomes(a, Chunk(first, last, last))
  /\ UNCHANGED <<tip, upgraded, cursor, rows, quarantine, credited, sent,
                 faults, dropped, unsent>>

(* reprocessQuarantinedEvents, for one row: an event that still does not   *)
(* parse stays where it is.                                                *)
Reprocess(a, e) ==
  /\ At(a, "idle")
  /\ Readable(e)
  /\ Becomes(a, [Idle EXCEPT !.at = "parsing", !.batch = {e}])
  /\ UNCHANGED <<tip, upgraded, cursor, rows, quarantine, credited, sent,
                 faults, dropped, unsent>>

DeleteQuarantined(a) ==
  /\ At(a, "deleting")
  /\ \/ quarantine' = quarantine \ worker[a].batch /\ NoFault
     \/ UNCHANGED quarantine /\ Fault
  /\ Becomes(a, Idle)
  /\ UNCHANGED <<tip, upgraded, cursor, rows, credited, sent, dropped, unsent>>

Crash(w) ==
  /\ ~At(w, "idle")
  /\ Fault
  /\ UNCHANGED rows
  /\ GivesUp(w)
  /\ UNCHANGED <<tip, upgraded, cursor, quarantine, credited, sent, dropped>>

(* A release that can read what used to throw; every process restarts.     *)
Deploy ==
  /\ ~upgraded
  /\ upgraded' = TRUE
  /\ worker' = [w \in Workers |-> Idle]
  /\ unsent' = unsent \cup {e \in rows : \E w \in Workers : worker[w].news[e] > 0}
  /\ UNCHANGED <<tip, cursor, rows, quarantine, credited, sent, faults, dropped>>

Work(w) == Parse(w) \/ Commit(w) \/ Announce(w)

Next ==
  \/ CloseLedger \/ Deploy
  \/ \E p \in Pollers : ReadCursor(p) \/ AskTip(p) \/ MoveCursor(p)
  \/ \E a \in Admins :
       \/ \E range \in Ranges : Reindex(a, range[1], range[2])
       \/ \E e \in quarantine : Reprocess(a, e)
       \/ DeleteQuarantined(a)
  \/ \E w \in Workers : Work(w) \/ CommitUnanswered(w) \/ RollBack(w) \/ Crash(w)

(* The loop of a poller schedules its next poll whether the last one ended *)
(* well or not, and node, database and chain go on working.                *)
Fairness ==
  /\ WF_vars(CloseLedger)
  /\ \A p \in Pollers :
       WF_vars(ReadCursor(p) \/ AskTip(p) \/ Work(p) \/ MoveCursor(p))

Spec == Init /\ [][Next]_vars

FairSpec == Spec /\ Fairness
------------------------------------------------------------------------------
(* Besides the types: what a worker has collected is of the chunk it has   *)
(* in hand, and no transaction is retried more often than it may be.       *)
TypeOK ==
  /\ tip \in 0 .. MaxLedger /\ cursor \in 0 .. tip /\ upgraded \in BOOLEAN
  /\ rows \subseteq Event /\ quarantine \subseteq Event
  /\ credited \in [Event -> Nat] /\ sent \in [Event -> Nat]
  /\ faults \in 0 .. MaxFaults
  /\ dropped \subseteq Event /\ unsent \subseteq Event
  /\ \A w \in Workers :
       /\ worker[w].at \in {"idle", "asking", "parsing", "storing", "announcing",
                            "moving", "deleting"}
       /\ worker[w].batch \subseteq Event
       /\ worker[w].to \in 0 .. tip /\ worker[w].end \in 0 .. tip
       /\ worker[w].tries \in 0 .. MaxRetries
       /\ \A e \in Event : worker[w].news[e] > 0 => e \in worker[w].batch

Kept(e) == \E f \in rows : SameSlot(e, f)

(* The cursor never passes an event that is neither stored (or refused     *)
(* because its slot is taken) nor set aside, whichever of the concurrent   *)
(* pollers and re-reads failed, crashed or lost an answer: pollOnce moves  *)
(* the cursor in a statement of its own after the chunk is stored.         *)
CursorCovers ==
  \A e \in Event :
    Chain[e].ledger <= cursor =>
      \/ Chain[e].parse = "null"
      \/ Kept(e)
      \/ Chain[e].parse = "throws" /\ e \in quarantine \cup dropped

(* The row of the event is there; or, since a call failed, that of another *)
(* which took its slot between an attempt that had inserted the event and  *)
(* was rolled back, and the next.                                          *)
Recorded(e) == e \in rows \/ (faults > 0 /\ Kept(e))

(* Attempts that collected an event, and commits that credited it without  *)
(* an answer: either takes a fault, and each commit credits it as often as *)
(* it was collected.                                                       *)
MostCredits == ((2 + faults) * (2 + faults)) \div 4

(* A score moves exactly for the events that move one and whose row is     *)
(* there, and once for each unless calls failed on the way: the row and    *)
(* the score change of storeEvents are committed together.  The row of a   *)
(* liquidation, which has no address, comes without a score change.        *)
CreditsFollowRows ==
  \A e \in Event :
    /\ credited[e] > 0 => Scored(e) /\ Recorded(e)
    /\ Scored(e) /\ e \in rows => credited[e] > 0
    /\ credited[e] <= MostCredits

(* Webhooks, stream and notifications hear only of events that are in the  *)
(* table, and of each of those, unless the process that stored it died or  *)
(* lost the answer of the commit between the commit and the announcement.  *)
NoticesFollowRows ==
  \A e \in Event :
    /\ sent[e] > 0 => Recorded(e)
    /\ e \in rows => \/ sent[e] > 0
                     \/ e \in unsent
                     \/ \E w \in Workers : worker[w].news[e] > 0

(* Rows, score changes and announcements of an event are of one piece.     *)
RecordsAgree == TypeOK /\ CreditsFollowRows /\ NoticesFollowRows

(* A poller that was slow never takes the cursor back behind another's     *)
(* (updateLastIndexedLedger).                                              *)
CursorNeverBack == [][cursor' >= cursor]_cursor

(* Whatever failed in between, the cursor comes to the end of the chain,   *)
(* and with it (CursorCovers) every event into the table: a poll that ends *)
(* in an exception is followed by another over the same ledgers.           *)
CatchesUp == <>(cursor = MaxLedger)
==============================================================================
