--------------------------- MODULE WebhookDelivery ---------------------------
(***************************************************************************)
(* backend/src/services/webhookService.ts: an event the indexer announces  *)
(* is posted to every active subscription for it, the outcome is recorded  *)
(* in a row of webhook_deliveries, and a timer starts every ten seconds a  *)
(* pass over the rows that are due, whether the last pass has ended or     *)
(* not (webhookRetryProcessor.ts).                                         *)
(*                                                                         *)
(* A step is one statement or one POST.  Of the time only the order counts:*)
(* a row's next_retry_at is null ("never"), in the future or past, and a   *)
(* pass takes some of the rows that are due in any order.                  *)
(***************************************************************************)
EXTENDS Integers, Functions

CONSTANTS
  Hooks,        \* subscriptions
  Events,       \* announcements of events
  Passes,       \* passes that may be under way at once (a bound)
  MaxAttempts,  \* MAX_RETRY_ATTEMPTS
  SelectWorks,  \* whether the database accepts the SELECT of a pass; that of
                \* the migrations does not
  MaxFaults     \* bound on failed statements and crashes

ASSUME WebhookAssumption ==
  /\ MaxAttempts \in Nat \ {0} /\ MaxFaults \in Nat
  /\ SelectWorks \in BOOLEAN

Deliveries == Hooks \X Events

VARIABLES
  hooks,      \* a subscription's state
  dispatched, \* the events dispatch was called for
  sends,      \* the first attempts under way
  rows,       \* webhook_deliveries
  passes,     \* the memory of each pass
  posts,      \* how often a delivery was posted
  accepted,   \* how often the endpoint answered with a success
  faults,     \* faults so far
  shared,     \* history: deliveries that two passes had in hand at once
  lost        \* history: deliveries whose outcome a fault kept from the table

vars == <<hooks, dispatched, sends, rows, passes, posts, accepted, faults,
          shared, lost>>

(* A row is its attempt_count, delivered_at, next_retry_at and whether its *)
(* last_error is a refusal.                                                *)
NoRow == [attempts |-> 0, delivered |-> FALSE, retry |-> "norow", refused |-> FALSE]

(* todo: the rows a pass has still to work on, with the attempt count it   *)
(* read; now: the one it is posting, and answer: what came of it.          *)
NoPass == [todo |-> [d \in {} |-> 0], now |-> {}, answer |-> "none"]

Answers == {"ok", "status", "broken", "refused"}

Fault == faults < MaxFaults /\ faults' = faults + 1

Init ==
  /\ hooks = [h \in Hooks |-> "active"]
  /\ dispatched = {}
  /\ sends = [d \in Deliveries |-> "none"]
  /\ rows = [d \in Deliveries |-> NoRow]
  /\ passes = [p \in Passes |-> NoPass]
  /\ posts = [d \in Deliveries |-> 0]
  /\ accepted = [d \in Deliveries |-> 0]
  /\ faults = 0
  /\ shared = {}
  /\ lost = {}

Hook(d) == d[1]
Exists(d) == rows[d].retry # "norow"
Holds(p, d) == d \in DOMAIN passes[p].todo \cup passes[p].now

------------------------------------------------------------------------------
(* postWebhook: an answer with or without success, no answer at all, or a  *)
(* destination refused before anything was sent or after a redirect to it. *)
Posted(d, answer) ==
  /\ \/ posts' = [posts EXCEPT ![d] = @ + 1]
     \/ answer = "refused" /\ UNCHANGED posts
  /\ accepted' = IF answer = "ok" THEN [accepted EXCEPT ![d] = @ + 1] ELSE accepted

(* When the next attempt is due after the given number of them.            *)
RetryAfter(attempts) == IF attempts < MaxAttempts THEN "later" ELSE "never"

(* dispatch: one send to each active subscription, all at once.            *)
Dispatch(e) ==
  /\ e \notin dispatched
  /\ dispatched' = dispatched \cup {e}
  /\ sends' = [d \in Deliveries |->
       IF d[2] = e /\ hooks[Hook(d)] = "active" THEN "posting" ELSE sends[d]]
  /\ UNCHANGED <<hooks, rows, passes, posts, accepted, faults, shared, lost>>

SendPost(d) ==
  /\ sends[d] = "posting"
  /\ \E answer \in Answers :
       /\ Posted(d, answer)
       /\ sends' = [sends EXCEPT ![d] = answer]
  /\ UNCHANGED <<hooks, dispatched, rows, passes, faults, shared, lost>>

(* Bug: any answer counts as a delivery. *)
FirstRowAnyAnswer(answer) ==
  [attempts  |-> IF answer = "refused" THEN 0 ELSE 1,
   delivered |-> answer \in {"ok", "status"},
   retry     |-> IF answer = "broken" THEN "later" ELSE "never",
   refused   |-> answer = "refused"]

FirstRow(answer) ==
  [attempts  |-> IF answer = "refused" THEN 0 ELSE 1,
   delivered |-> answer = "ok",
   retry     |-> IF answer \in {"ok", "refused"} THEN "never" ELSE "later",
   refused   |-> answer = "refused"]

(* The row refers to its subscription, which must still be there.          *)
SendRecord(d) ==
  /\ sends[d] \in Answers
  /\ hooks[Hook(d)] # "deleted"
  /\ rows' = [rows EXCEPT ![d] = FirstRow(sends[d])]
  /\ sends' = [sends EXCEPT ![d] = "done"]
  /\ UNCHANGED <<hooks, dispatched, passes, posts, accepted, faults, shared, lost>>

(* The INSERT fails: the handler of a failed POST takes over, and records  *)
(* a failure, whatever the endpoint had answered; when its INSERT fails    *)
(* too, nothing remains.                                                   *)
SendRecordFails(d) ==
  /\ sends[d] \in Answers
  /\ \/ hooks[Hook(d)] = "deleted" /\ UNCHANGED faults
     \/ hooks[Hook(d)] # "deleted" /\ Fault
  /\ sends' = [sends EXCEPT ![d] = IF @ \in {"ok", "status"} THEN "broken" ELSE "done"]
  /\ lost' = IF sends[d] = "status" THEN lost ELSE lost \cup {d}
  /\ UNCHANGED <<hooks, dispatched, rows, passes, posts, accepted, shared>>

------------------------------------------------------------------------------
(* Bug: the queued retries of a subscription that is switched off go on. *)
PendingMuted(d) ==
  ~rows[d].delivered /\ rows[d].retry = "due" /\ rows[d].attempts < MaxAttempts

Pending(d) ==
  /\ ~rows[d].delivered
  /\ rows[d].retry = "due"
  /\ rows[d].attempts < MaxAttempts
  /\ hooks[Hook(d)] = "active"

Due == {d \in Deliveries : Pending(d)}

(* processRetries: the SELECT, which takes no more than a hundred rows.    *)
BeginPass(p) ==
  /\ passes[p] = NoPass
  /\ SelectWorks
  /\ \E batch \in SUBSET Due \ {{}} :
       /\ passes' = [passes EXCEPT ![p].todo = [d \in batch |-> rows[d].attempts]]
       /\ shared' = shared \cup {d \in batch : \E q \in Passes \ {p} : Holds(q, d)}
  /\ UNCHANGED <<hooks, dispatched, sends, rows, posts, accepted, faults, lost>>

(* retryWebhookDelivery, up to the answer.                                 *)
RetryPost(p, d) ==
  /\ passes[p].now = {}
  /\ d \in DOMAIN passes[p].todo
  /\ \E answer \in Answers :
       /\ Posted(d, answer)
       /\ passes' = [passes EXCEPT ![p].now = {d}, ![p].answer = answer]
  /\ UNCHANGED <<hooks, dispatched, sends, rows, faults, shared, lost>>

(* Bug: an attempt without an answer is not counted. *)
UpdatedUncounted(row, read, answer) ==
  LET made == IF answer \in {"refused", "broken"} THEN read ELSE read + 1
  IN  [attempts  |-> made,
       delivered |-> row.delivered \/ answer = "ok",
       retry     |-> IF answer \in {"ok", "refused"} THEN "never" ELSE RetryAfter(made),
       refused   |-> answer = "refused"]

(* What its UPDATE makes of the row, from the attempt count it had read.   *)
Updated(row, read, answer) ==
  LET made == IF answer = "refused" THEN read ELSE read + 1
  IN  [attempts  |-> made,
       delivered |-> row.delivered \/ answer = "ok",
       retry     |-> IF answer \in {"ok", "refused"} THEN "never" ELSE RetryAfter(made),
       refused   |-> answer = "refused"]

(* A row that went with its subscription is not there to be updated.       *)
RetryRecord(p, d) ==
  /\ passes[p].now = {d}
  /\ rows' = [rows EXCEPT ![d] =
       IF Exists(d) THEN Updated(@, passes[p].todo[d], passes[p].answer) ELSE @]
  /\ passes' = [passes EXCEPT
       ![p] = [NoPass EXCEPT !.todo = Restrict(passes[p].todo, DOMAIN passes[p].todo \ {d})]]
  /\ UNCHANGED <<hooks, dispatched, sends, posts, accepted, faults, shared, lost>>

(* As for a first attempt; a failed UPDATE in the handler ends the pass.   *)
RetryRecordFails(p, d) ==
  /\ passes[p].now = {d}
  /\ Fault
  /\ passes' = [passes EXCEPT ![p] =
       IF @.answer \in {"ok", "status"} THEN [@ EXCEPT !.answer = "broken"] ELSE NoPass]
  /\ lost' = IF passes[p].answer = "status" THEN lost ELSE lost \cup {d}
  /\ UNCHANGED <<hooks, dispatched, sends, rows, posts, accepted, shared>>

------------------------------------------------------------------------------
(* next_retry_at passes.                                                   *)
Elapse(d) ==
  /\ rows[d].retry = "later"
  /\ rows' = [rows EXCEPT ![d].retry = "due"]
  /\ UNCHANGED <<hooks, dispatched, sends, passes, posts, accepted, faults, shared, lost>>

(* is_active is switched off, by hand: no endpoint does it.                *)
Mute(h) ==
  /\ hooks[h] = "active"
  /\ hooks' = [hooks EXCEPT ![h] = "muted"]
  /\ UNCHANGED <<dispatched, sends, rows, passes, posts, accepted, faults, shared, lost>>

(* deleteSubscription; the rows of the subscription go with it.            *)
Delete(h) ==
  /\ hooks[h] # "deleted"
  /\ hooks' = [hooks EXCEPT ![h] = "deleted"]
  /\ rows' = [d \in Deliveries |-> IF Hook(d) = h THEN NoRow ELSE rows[d]]
  /\ UNCHANGED <<dispatched, sends, passes, posts, accepted, faults, shared, lost>>

(* The process dies with its sends and its passes, and starts again.       *)
Crash ==
  /\ Fault
  /\ sends' = [d \in Deliveries |-> IF sends[d] = "none" THEN "none" ELSE "done"]
  /\ passes' = [p \in Passes |-> NoPass]
  /\ lost' = lost \cup {d \in Deliveries :
       \/ sends[d] \in Answers \cup {"posting"}
       \/ \E p \in Passes : passes[p].now = {d}}
  /\ UNCHANGED <<hooks, dispatched, rows, posts, accepted, shared>>

Send(d) == SendPost(d) \/ SendRecord(d)

Retry(p) == BeginPass(p) \/ \E d \in Deliveries : RetryPost(p, d) \/ RetryRecord(p, d)

Next ==
  \/ \E e \in Events : Dispatch(e)
  \/ \E d \in Deliveries : Send(d) \/ SendRecordFails(d) \/ Elapse(d)
  \/ \E p \in Passes : Retry(p) \/ \E d \in Deliveries : RetryRecordFails(p, d)
  \/ \E h \in Hooks : Mute(h) \/ Delete(h)
  \/ Crash

(* The timer starts passes for ever; a POST ends, if by its timeout; time  *)
(* passes.                                                                 *)
Fairness ==
  /\ \A d \in Deliveries : WF_vars(Send(d)) /\ WF_vars(Elapse(d))
  /\ \A p \in Passes : WF_vars(Retry(p))

Spec == Init /\ [][Next]_vars

FairSpec == Spec /\ Fairness
------------------------------------------------------------------------------
TypeOK ==
  /\ hooks \in [Hooks -> {"active", "muted", "deleted"}]
  /\ dispatched \subseteq Events
  /\ sends \in [Deliveries -> Answers \cup {"none", "posting", "done"}]
  /\ rows \in [Deliveries -> [attempts : 0 .. MaxAttempts, delivered : BOOLEAN,
                              retry : {"norow", "never", "later", "due"},
                              refused : BOOLEAN]]
  /\ \A p \in Passes :
       /\ DOMAIN passes[p].todo \subseteq Deliveries
       /\ passes[p].now \subseteq DOMAIN passes[p].todo
       /\ passes[p].answer \in Answers \cup {"none"}
  /\ posts \in [Deliveries -> Nat] /\ accepted \in [Deliveries -> Nat]
  /\ faults \in 0 .. MaxFaults
  /\ shared \subseteq Deliveries /\ lost \subseteq Deliveries

InHand(d) == sends[d] \in Answers \/ \E p \in Passes : passes[p].now = {d}

(* The table tells what happened: whatever passes overlap and write what   *)
(* they had read, no attempt is counted that was not posted, and a row     *)
(* says delivered exactly if its endpoint accepted it, but for one whose   *)
(* outcome is still to be written or was lost to a fault.                  *)
RowsTellPosts ==
  \A d \in Deliveries :
    /\ rows[d].attempts <= posts[d]
    /\ rows[d].delivered => accepted[d] > 0
    /\ accepted[d] > 0 /\ Exists(d) /\ ~InHand(d) /\ d \notin lost => rows[d].delivered

(* An endpoint is posted a delivery at most MAX_RETRY_ATTEMPTS times and   *)
(* accepts it at most once, unless a pass outlasted the timer and shared   *)
(* it with the next one, or a fault kept an outcome from the table.        *)
NotPostedTooOften ==
  \A d \in Deliveries \ (shared \cup lost) : posts[d] <= MaxAttempts /\ accepted[d] <= 1

(* The table, and what the endpoint saw of it. *)
DeliveriesSound == TypeOK /\ RowsTellPosts /\ NotPostedTooOften

Held(h) ==
  {d \in Deliveries : Hook(d) = h /\ (sends[d] = "posting" \/ \E p \in Passes : Holds(p, d))}

(* Once a subscription is switched off or deleted nothing new is taken in  *)
(* hand for it: what was being sent or retried runs out.                   *)
DrainsOnceMuted ==
  [][\A h \in Hooks : hooks[h] # "active" => Held(h)' \subseteq Held(h)]_vars

Settled(d) ==
  rows[d].delivered \/ rows[d].refused \/ rows[d].attempts = MaxAttempts

(* What docs/webhooks.md says of a delivery that fails: it is tried again  *)
(* until the endpoint accepts it, its address is refused or its attempts   *)
(* are used up, unless the subscription was switched off.  The SELECT of   *)
(* processRetries names columns that both of its tables have, and with the *)
(* tables of the migrations no pass gets past it.                          *)
EverySettles ==
  \A d \in Deliveries : <>[](Exists(d) /\ hooks[Hook(d)] = "active" => Settled(d))
==============================================================================
