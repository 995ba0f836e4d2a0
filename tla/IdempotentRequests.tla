-------------------------- MODULE IdempotentRequests --------------------------
(***************************************************************************)
(* backend/src/middleware/idempotency.ts: the requests that carry one key. *)
(* Each reads the recorded reply, claims the key, works, records its reply *)
(* and releases the claim, every one of them a call to the key-value store *)
(* of its own; two response events release, and a release is a read        *)
(* followed by a delete (deleteIfMatch of cacheService.ts).                *)
(*                                                                         *)
(* A step is one command at the store.  A request may be served by any     *)
(* instance.  Commands of one request reach the store in the order they    *)
(* are issued, so the release on 'close' reads after the reply was         *)
(* recorded.  The recorded reply outlives the model (24 hours).            *)
(***************************************************************************)
EXTENDS Integers

CONSTANTS
  Requests,   \* the requests sent with one key
  NoHolder,   \* no in-flight claim
  MaxFaults   \* bound on store failures, expiries of the claim and crashes

ASSUME RequestsAssumption == NoHolder \notin Requests /\ MaxFaults \in Nat

Events == {"finish", "close"}

VARIABLES
  pc,         \* where the middleware or the handler of the request is
  connected,  \* the client is still waiting
  release,    \* the release each response event of a request started
  recorded,   \* a reply is in the cache
  claim,      \* the request whose token is in the in-flight key
  faults,     \* faults so far
  settled,    \* history: a request with a reply to record released its claim
  late,       \* history: requests that arrived after that
  unheard,    \* history: requests whose client left before the listeners
  done        \* history: requests answered with a reply to record

vars == <<pc, connected, release, recorded, claim, faults, settled, late, unheard, done>>

Init ==
  /\ pc = [r \in Requests |-> "new"]
  /\ connected = [r \in Requests |-> TRUE]
  /\ release = [r \in Requests |-> [e \in Events |-> "none"]]
  /\ recorded = FALSE
  /\ claim = NoHolder
  /\ faults = 0
  /\ settled = FALSE
  /\ late = {}
  /\ unheard = {}
  /\ done = {}

Goto(r, label) == pc' = [pc EXCEPT ![r] = label]
Fault          == faults < MaxFaults /\ faults' = faults + 1

(* A failed read of the cache counts as a miss. *)
ReadReply(r) ==
  /\ pc[r] = "new"
  /\ late' = IF settled THEN late \cup {r} ELSE late
  /\ \/ recorded /\ Goto(r, "replayed") /\ UNCHANGED faults
     \/ ~recorded /\ Goto(r, "claiming") /\ UNCHANGED faults
     \/ Fault /\ Goto(r, "claiming")
  /\ UNCHANGED <<connected, release, recorded, claim, settled, unheard, done>>

(* setNotExists answers false when the key is held and when the store      *)
(* failed, in which case the claim may have been written all the same.     *)
TakeClaim(r) ==
  /\ pc[r] = "claiming"
  /\ \/ claim = NoHolder /\ claim' = r /\ Goto(r, "working") /\ UNCHANGED faults
     \/ claim # NoHolder /\ UNCHANGED <<claim, faults>> /\ Goto(r, "checking")
     \/ /\ Fault /\ Goto(r, "checking")
        /\ claim' \in {claim, IF claim = NoHolder THEN r ELSE claim}
  /\ UNCHANGED <<connected, release, recorded, settled, late, unheard, done>>

(* Bug: a refused claim is taken for an unreachable store. *)
RefusalNever == FALSE

RefusalDue == claim # NoHolder

CheckHeld(r) ==
  /\ pc[r] = "checking"
  /\ \/ RefusalDue /\ Goto(r, "refused") /\ UNCHANGED faults
     \/ ~RefusalDue /\ Goto(r, "working") /\ UNCHANGED faults
     \/ Fault /\ Goto(r, "working")
  /\ UNCHANGED <<connected, release, recorded, claim, settled, late, unheard, done>>

StartRelease(r, e) == release' = [release EXCEPT ![r][e] = "reading"]

(* Bug: the claim is released before the reply is recorded. *)
ReleasedWhileRecording(r) == StartRelease(r, "finish")

HeldWhileRecording(r) == UNCHANGED release

(* The handler ends.  A reply below 500 is recorded, one above is not; to  *)
(* a client that is gone 'finish' is never emitted.                        *)
Finish(r) ==
  /\ pc[r] = "working"
  /\ \/ /\ connected[r] /\ Goto(r, "recording")
        /\ HeldWhileRecording(r)
        /\ done' = done \cup {r}
     \/ /\ connected[r] /\ Goto(r, "answered")
        /\ StartRelease(r, "finish")
        /\ UNCHANGED done
     \/ /\ ~connected[r] /\ Goto(r, "answered")
        /\ UNCHANGED <<release, done>>
  /\ UNCHANGED <<connected, recorded, claim, faults, settled, late, unheard>>

Record(r) ==
  /\ pc[r] = "recording"
  /\ \/ recorded' = TRUE /\ UNCHANGED faults
     \/ Fault /\ UNCHANGED recorded
  /\ Goto(r, "answered")
  /\ IF release[r]["finish"] = "none" THEN StartRelease(r, "finish")
                                      ELSE UNCHANGED release
  /\ UNCHANGED <<connected, claim, settled, late, unheard, done>>

(* The response of an answered client is closed after it finished. *)
CloseAnswered(r) ==
  /\ pc[r] = "answered" /\ connected[r]
  /\ connected' = [connected EXCEPT ![r] = FALSE]
  /\ StartRelease(r, "close")
  /\ UNCHANGED <<pc, recorded, claim, faults, settled, late, unheard, done>>

(* Bug: only an answered response releases. *)
CloseUnheard(r) == UNCHANGED release

CloseHeard(r) == StartRelease(r, "close")

(* The client goes away while it waits.  The listener that releases is     *)
(* installed only before the handler starts.                               *)
Abort(r) ==
  /\ pc[r] \in {"new", "claiming", "checking", "working"} /\ connected[r]
  /\ connected' = [connected EXCEPT ![r] = FALSE]
  /\ \/ pc[r] = "working" /\ CloseHeard(r) /\ UNCHANGED unheard
     \/ pc[r] # "working" /\ UNCHANGED release /\ unheard' = unheard \cup {r}
  /\ UNCHANGED <<pc, recorded, claim, faults, settled, late, done>>

(* deleteIfMatch: the token is compared by the caller, between two         *)
(* commands, so the delete removes whatever is there by then.              *)
ReleaseRead(r, e) ==
  /\ release[r][e] = "reading"
  /\ \/ claim = r /\ release' = [release EXCEPT ![r][e] = "deleting"]
        /\ UNCHANGED <<faults, settled>>
     \/ claim # r /\ release' = [release EXCEPT ![r][e] = "over"]
        /\ settled' = (settled \/ r \in done)
        /\ UNCHANGED faults
     \/ Fault /\ release' = [release EXCEPT ![r][e] = "over"] /\ UNCHANGED settled
  /\ UNCHANGED <<pc, connected, recorded, claim, late, unheard, done>>

ReleaseDelete(r, e) ==
  /\ release[r][e] = "deleting"
  /\ release' = [release EXCEPT ![r][e] = "over"]
  /\ \/ claim' = NoHolder /\ UNCHANGED faults
     \/ Fault /\ UNCHANGED claim
  /\ settled' = (settled \/ r \in done)
  /\ UNCHANGED <<pc, connected, recorded, late, unheard, done>>

(* The claim lives 30 seconds; a reply may take longer. *)
ClaimExpires ==
  /\ Fault
  /\ claim # NoHolder /\ claim' = NoHolder
  /\ UNCHANGED <<pc, connected, release, recorded, settled, late, unheard, done>>

(* The instance that serves the request goes down. *)
Crash(r) ==
  /\ Fault
  /\ pc[r] \in {"claiming", "checking", "working", "recording", "answered"}
  /\ Goto(r, "crashed")
  /\ release' = [release EXCEPT ![r] = [e \in Events |-> "over"]]
  /\ connected' = [connected EXCEPT ![r] = FALSE]
  /\ UNCHANGED <<recorded, claim, settled, late, unheard, done>>

Next ==
  \/ \E r \in Requests :
       \/ ReadReply(r) \/ TakeClaim(r) \/ CheckHeld(r)
       \/ Finish(r) \/ Record(r) \/ CloseAnswered(r) \/ Abort(r) \/ Crash(r)
       \/ \E e \in Events : ReleaseRead(r, e) \/ ReleaseDelete(r, e)
  \/ ClaimExpires

Spec == Init /\ [][Next]_vars
------------------------------------------------------------------------------
Labels == {"new", "replayed", "claiming", "checking", "refused", "working",
           "recording", "answered", "crashed"}

(* Besides the types: 'finish' releases nothing before the reply is dealt  *)
(* with, 'close' nothing of a client that is still connected.              *)
TypeOK ==
  /\ pc \in [Requests -> Labels]
  /\ connected \in [Requests -> BOOLEAN]
  /\ release \in [Requests -> [Events -> {"none", "reading", "deleting", "over"}]]
  /\ \A r \in Requests :
       /\ release[r]["finish"] # "none" => pc[r] \in {"answered", "crashed"}
       /\ release[r]["close"] # "none" => ~connected[r]
  /\ recorded \in BOOLEAN
  /\ claim \in Requests \cup {NoHolder}
  /\ faults \in 0 .. MaxFaults
  /\ settled \in BOOLEAN
  /\ late \subseteq Requests /\ unheard \subseteq Requests /\ done \subseteq Requests

(* A double click: as long as the store answers and no request has begun   *)
(* to release, at most one works, however the reads and claims interleave. *)
DoubleClickRefused ==
  \A r, s \in Requests :
    r # s /\ pc[r] = "working" /\ pc[s] = "working" =>
      faults > 0 \/ \E t \in Requests, e \in Events : release[t][e] # "none"

(* A retry that arrives after the first request has released its claim is  *)
(* answered from the record: the reply is stored before the release, so    *)
(* there is no moment in between with neither of them.                     *)
LateRetryIsReplayed ==
  faults = 0 => \A r \in late : pc[r] = "replayed"

(* The claim is never left behind by a request that has ended, so a retry  *)
(* need not wait for it to expire: unless the store or an instance failed, *)
(* or the client left before the listeners were there to notice.           *)
ClaimNotAbandoned ==
  claim # NoHolder =>
    \/ faults > 0
    \/ pc[claim] \in {"working", "recording"}
    \/ \E e \in Events : release[claim][e] \in {"reading", "deleting"}
    \/ claim \in unheard

(* Of the claim and of the releases that may end it.                       *)
ClaimSound == TypeOK /\ ClaimNotAbandoned
==============================================================================
