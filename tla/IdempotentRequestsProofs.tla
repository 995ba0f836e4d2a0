----------------------- MODULE IdempotentRequestsProofs -----------------------
(***************************************************************************)
(* What the claim and the record of a key promise, for any number of       *)
(* requests and for however long they take.                                *)
(***************************************************************************)
EXTENDS IdempotentRequests, TLAPS

ReleaseStates == {"none", "reading", "deleting", "over"}

Releasing(r) == \E e \in Events : release[r][e] \in {"reading", "deleting"}

(* Until something has failed or begun to release, whoever works holds the *)
(* claim, and whoever was refused it finds it held.                        *)
Quiet == faults = 0 /\ \A r \in Requests, e \in Events : release[r][e] = "none"

WorkersHold ==
  Quiet => \A r \in Requests :
    /\ pc[r] \in {"working", "recording"} => claim = r
    /\ pc[r] = "checking" => claim # NoHolder

(* A request with a reply to record still has its client, has recorded it  *)
(* once it has answered, and only then releases.                           *)
RepliesRecorded ==
  faults = 0 =>
    /\ \A r \in done :
         /\ pc[r] \in {"recording", "answered"}
         /\ pc[r] = "recording" => connected[r]
         /\ pc[r] = "answered" => recorded
    /\ settled => recorded
    /\ \A r \in late : pc[r] = "replayed"

(* A client that left before the handler began was not heard to leave.     *)
LeftUnheard ==
  \A r \in Requests :
    pc[r] \in {"new", "claiming", "checking"} /\ ~connected[r] => r \in unheard

(* A claim has a holder that works for a client that still waits, or one   *)
(* that is releasing it.                                                   *)
ClaimsReleased ==
  claim # NoHolder /\ faults = 0 /\ claim \notin unheard =>
    \/ pc[claim] \in {"working", "recording"} /\ connected[claim]
    \/ Releasing(claim)

RequestsInv == TypeOK /\ WorkersHold /\ RepliesRecorded /\ LeftUnheard /\ ClaimsReleased

------------------------------------------------------------------------------
LEMMA RequestsInvInit == Init => RequestsInv
<1> SUFFICES ASSUME Init PROVE RequestsInv
  OBVIOUS
<1> USE RequestsAssumption DEF Init
<1>1. TypeOK
  <2>1. \A r \in Requests : release[r]["finish"] = "none" /\ release[r]["close"] = "none"
    BY DEF Events
  <2>2. connected \in [Requests -> BOOLEAN] /\ recorded \in BOOLEAN /\ settled \in BOOLEAN
    OBVIOUS
  <2>3. release \in [Requests -> [Events -> {"none", "reading", "deleting", "over"}]]
    OBVIOUS
  <2> QED
    BY <2>1, <2>2, <2>3 DEF TypeOK, Labels
<1>2. WorkersHold /\ LeftUnheard /\ ClaimsReleased
  BY DEF WorkersHold, LeftUnheard, ClaimsReleased
<1>3. RepliesRecorded
  BY DEF RepliesRecorded
<1> QED
  BY <1>1, <1>2, <1>3 DEF RequestsInv

(* A fault is remembered. *)
LEMMA FaultCounts == TypeOK /\ Fault => faults' # 0 /\ faults' \in 0 .. MaxFaults
  BY RequestsAssumption DEF Fault, TypeOK

(* What starting a release changes. *)
LEMMA Starts ==
  ASSUME TypeOK, NEW r \in Requests, NEW e \in Events, StartRelease(r, e)
  PROVE  /\ release' \in [Requests -> [Events -> ReleaseStates]]
         /\ release'[r][e] = "reading"
         /\ \A s \in Requests, d \in Events : s # r \/ d # e => release'[s][d] = release[s][d]
<1>1. release' = [release EXCEPT ![r] = [release[r] EXCEPT ![e] = "reading"]]
  BY DEF StartRelease
<1>2. release[r] \in [Events -> ReleaseStates]
  BY DEF TypeOK, ReleaseStates
<1> QED
  BY <1>1, <1>2 DEF TypeOK, ReleaseStates

LEMMA Moves ==
  ASSUME TypeOK, NEW r \in Requests, NEW label \in Labels, Goto(r, label)
  PROVE  /\ pc' \in [Requests -> Labels] /\ pc'[r] = label
         /\ \A s \in Requests \ {r} : pc'[s] = pc[s]
  BY DEF Goto, TypeOK

LEMMA TypeStep == TypeOK /\ [Next]_vars => TypeOK'
<1> SUFFICES ASSUME TypeOK, [Next]_vars PROVE TypeOK'
  OBVIOUS
<1> USE RequestsAssumption, FaultCounts DEF TypeOK
<1>0. {"new", "replayed", "claiming", "checking", "refused", "working",
       "recording", "answered", "crashed"} = Labels
  BY DEF Labels
<1>1. ASSUME NEW r \in Requests, ReadReply(r) PROVE TypeOK'
  BY <1>0, <1>1, Moves DEF ReadReply
<1>2. ASSUME NEW r \in Requests, TakeClaim(r) PROVE TypeOK'
  BY <1>0, <1>2, Moves DEF TakeClaim
<1>3. ASSUME NEW r \in Requests, CheckHeld(r) PROVE TypeOK'
  BY <1>0, <1>3, Moves DEF CheckHeld
<1>4. ASSUME NEW r \in Requests, Finish(r) PROVE TypeOK'
  <2>1. "finish" \in Events /\ "close" # "finish"
    BY DEF Events
  <2>2. pc' \in [Requests -> Labels] /\ pc'[r] \in {"recording", "answered"}
        /\ \A s \in Requests \ {r} : pc'[s] = pc[s]
    BY <1>0, <1>4, Moves DEF Finish
  <2>3. release' = release \/ (StartRelease(r, "finish") /\ pc'[r] = "answered")
    BY <1>0, <1>4, Moves DEF Finish, HeldWhileRecording
  <2>4. release' \in [Requests -> [Events -> ReleaseStates]]
    BY <2>1, <2>3, Starts DEF ReleaseStates
  <2>5. \A s \in Requests : release'[s]["close"] = release[s]["close"]
    BY <2>1, <2>3, Starts DEF Events
  <2>6. \A s \in Requests : release'[s]["finish"] # "none" => pc'[s] \in {"answered", "crashed"}
    BY <1>4, <2>1, <2>2, <2>3, Starts DEF Finish
  <2> QED
    BY <1>4, <2>2, <2>4, <2>5, <2>6 DEF Finish, ReleaseStates
<1>5. ASSUME NEW r \in Requests, Record(r) PROVE TypeOK'
  <2>1. "finish" \in Events /\ "close" \in Events /\ "close" # "finish"
    BY DEF Events
  <2>2. pc' \in [Requests -> Labels] /\ pc'[r] = "answered"
        /\ \A s \in Requests \ {r} : pc'[s] = pc[s]
    BY <1>0, <1>5, Moves DEF Record
  <2>3. release' = release \/ StartRelease(r, "finish")
    BY <1>5 DEF Record
  <2>4. release' \in [Requests -> [Events -> ReleaseStates]]
    BY <2>1, <2>3, Starts DEF ReleaseStates
  <2>5. \A s \in Requests : release'[s]["close"] = release[s]["close"]
    BY <2>1, <2>3, Starts
  <2>6. \A s \in Requests : release'[s]["finish"] # "none" => pc'[s] \in {"answered", "crashed"}
    BY <2>1, <2>2, <2>3, Starts
  <2> QED
    BY <1>5, <2>2, <2>4, <2>5, <2>6 DEF Record, ReleaseStates
<1>6. ASSUME NEW r \in Requests, CloseAnswered(r) \/ Abort(r) PROVE TypeOK'
  <2>1. "finish" \in Events /\ "close" \in Events /\ "close" # "finish"
    BY DEF Events
  <2>2. release' = release \/ StartRelease(r, "close")
    BY <1>6 DEF CloseAnswered, Abort, CloseHeard
  <2>3. release' \in [Requests -> [Events -> ReleaseStates]]
    BY <2>1, <2>2, Starts DEF ReleaseStates
  <2>4. \A s \in Requests : release'[s]["finish"] = release[s]["finish"]
    BY <2>1, <2>2, Starts
  <2>5. \A s \in Requests : release'[s]["close"] # "none" => ~connected'[s]
    BY <1>6, <2>1, <2>2, Starts DEF CloseAnswered, Abort
  <2> QED
    BY <1>6, <2>3, <2>4, <2>5 DEF CloseAnswered, Abort, ReleaseStates
<1>7. ASSUME NEW r \in Requests, NEW e \in Events, ReleaseRead(r, e) \/ ReleaseDelete(r, e)
      PROVE  TypeOK'
  <2>1. PICK label \in {"deleting", "over"} :
          release' = [release EXCEPT ![r] = [release[r] EXCEPT ![e] = label]]
    BY <1>7 DEF ReleaseRead, ReleaseDelete
  <2>2. release[r] \in [Events -> ReleaseStates] /\ release[r][e] # "none"
    BY <1>7 DEF ReleaseRead, ReleaseDelete, ReleaseStates
  <2>3. release' \in [Requests -> [Events -> ReleaseStates]]
    BY <2>1, <2>2 DEF ReleaseStates
  <2>4. \A s \in Requests, d \in Events : release'[s][d] # "none" => release[s][d] # "none"
    BY <2>1, <2>2
  <2>5. "finish" \in Events /\ "close" \in Events
    BY DEF Events
  <2> QED
    BY <1>7, <2>3, <2>4, <2>5 DEF ReleaseRead, ReleaseDelete, ReleaseStates
<1>8. CASE ClaimExpires
  BY <1>8 DEF ClaimExpires
<1>9. ASSUME NEW r \in Requests, Crash(r) PROVE TypeOK'
  <2>1. [e \in Events |-> "over"] \in [Events -> ReleaseStates]
    BY DEF ReleaseStates
  <2>2. release' \in [Requests -> [Events -> ReleaseStates]]
    BY <1>9, <2>1 DEF Crash, ReleaseStates
  <2> QED
    BY <1>0, <1>9, <2>2, Moves DEF Crash, ReleaseStates
<1>10. CASE UNCHANGED vars
  BY <1>10 DEF vars
<1> QED
  BY <1>1, <1>2, <1>3, <1>4, <1>5, <1>6, <1>7, <1>8, <1>9, <1>10 DEF Next

LEMMA HoldStep == TypeOK /\ WorkersHold /\ [Next]_vars => WorkersHold'
<1> SUFFICES ASSUME TypeOK, WorkersHold, [Next]_vars, Quiet', NEW s \in Requests
             PROVE  /\ pc'[s] \in {"working", "recording"} => claim' = s
                    /\ pc'[s] = "checking" => claim' # NoHolder
  BY DEF WorkersHold
<1> DEFINE Held == /\ pc'[s] \in {"working", "recording"} => claim' = s
                   /\ pc'[s] = "checking" => claim' # NoHolder
<1> USE RequestsAssumption, FaultCounts
<1>0. /\ {"new", "replayed", "claiming", "checking", "refused", "working",
          "recording", "answered", "crashed"} = Labels
      /\ "finish" \in Events /\ "close" \in Events
      /\ faults' = 0 /\ \A r \in Requests, e \in Events : release'[r][e] = "none"
  BY DEF Labels, Events, Quiet
(* Nothing failed and no release was started before the step either. *)
<1>1. ASSUME UNCHANGED <<faults, release>>
      PROVE  \A r \in Requests : /\ pc[r] \in {"working", "recording"} => claim = r
                                 /\ pc[r] = "checking" => claim # NoHolder
  BY <1>0, <1>1 DEF WorkersHold, Quiet
<1>2. ASSUME NEW r \in Requests, ReadReply(r) PROVE Held
  BY <1>0, <1>1, <1>2, Moves DEF ReadReply
<1>3. ASSUME NEW r \in Requests, TakeClaim(r) PROVE Held
  BY <1>0, <1>1, <1>3, Moves DEF TakeClaim
<1>4. ASSUME NEW r \in Requests, CheckHeld(r) PROVE Held
  BY <1>0, <1>1, <1>4, Moves DEF CheckHeld, RefusalDue
<1>5. ASSUME NEW r \in Requests, Finish(r) PROVE Held
  <2>1. UNCHANGED release
    BY <1>0, <1>5, Starts DEF Finish, HeldWhileRecording
  <2>2. pc[r] = "working" /\ pc'[r] \in {"recording", "answered"}
        /\ \A t \in Requests \ {r} : pc'[t] = pc[t]
    BY <1>0, <1>5, Moves DEF Finish
  <2> QED
    BY <1>1, <1>5, <2>1, <2>2 DEF Finish
<1>6. ASSUME NEW r \in Requests, Record(r) PROVE FALSE
  <2>1. \/ release'[r]["finish"] = "reading"
        \/ release' = release /\ release[r]["finish"] # "none"
    BY <1>0, <1>6, Starts DEF Record
  <2> QED
    BY <1>0, <2>1
<1>7. ASSUME NEW r \in Requests, CloseAnswered(r) PROVE FALSE
  BY <1>0, <1>7, Starts DEF CloseAnswered
<1>8. ASSUME NEW r \in Requests, Abort(r) PROVE Held
  <2>1. UNCHANGED release
    BY <1>0, <1>8, Starts DEF Abort, CloseHeard
  <2> QED
    BY <1>1, <1>8, <2>1 DEF Abort
<1>9. ASSUME NEW r \in Requests, NEW e \in Events, ReleaseRead(r, e) \/ ReleaseDelete(r, e)
      PROVE  FALSE
  <2>1. PICK label \in {"deleting", "over"} :
          release' = [release EXCEPT ![r] = [release[r] EXCEPT ![e] = label]]
    BY <1>9 DEF ReleaseRead, ReleaseDelete
  <2>2. release'[r][e] = label
    BY <2>1 DEF TypeOK
  <2> QED
    BY <1>0, <2>2
<1>10. ASSUME ClaimExpires \/ \E r \in Requests : Crash(r) PROVE FALSE
  BY <1>0, <1>10 DEF ClaimExpires, Crash
<1>11. CASE UNCHANGED vars
  BY <1>1, <1>11 DEF vars
<1> QED
  BY <1>2, <1>3, <1>4, <1>5, <1>6, <1>7, <1>8, <1>9, <1>10, <1>11 DEF Next

LEMMA RecordedStep == TypeOK /\ RepliesRecorded /\ [Next]_vars => RepliesRecorded'
<1> DEFINE Kept ==
      /\ \A r \in done :
           /\ pc[r] \in {"recording", "answered"}
           /\ pc[r] = "recording" => connected[r]
           /\ pc[r] = "answered" => recorded
      /\ settled => recorded
      /\ \A r \in late : pc[r] = "replayed"
<1> SUFFICES ASSUME TypeOK, RepliesRecorded, [Next]_vars, faults' = 0
             PROVE  Kept'
  BY DEF RepliesRecorded
<1> USE RequestsAssumption, FaultCounts
<1>0. /\ {"new", "replayed", "claiming", "checking", "refused", "working",
          "recording", "answered", "crashed"} = Labels
      /\ "finish" \in Events /\ "close" \in Events /\ Events = {"finish", "close"}
      /\ done \subseteq Requests /\ late \subseteq Requests
      /\ connected \in [Requests -> BOOLEAN]
  BY DEF Labels, Events, TypeOK
<1>1. ASSUME UNCHANGED faults PROVE Kept
  BY <1>1 DEF RepliesRecorded
<1>2. ASSUME NEW r \in Requests, ReadReply(r) PROVE Kept'
  BY <1>0, <1>1, <1>2, Moves DEF ReadReply
<1>3. ASSUME NEW r \in Requests, TakeClaim(r) PROVE Kept'
  BY <1>0, <1>1, <1>3, Moves DEF TakeClaim
<1>4. ASSUME NEW r \in Requests, CheckHeld(r) PROVE Kept'
  BY <1>0, <1>1, <1>4, Moves DEF CheckHeld
<1>5. ASSUME NEW r \in Requests, Finish(r) PROVE Kept'
  BY <1>0, <1>1, <1>5, Moves DEF Finish
<1>6. ASSUME NEW r \in Requests, Record(r) PROVE Kept'
  BY <1>0, <1>1, <1>6, Moves DEF Record
<1>7. ASSUME NEW r \in Requests, CloseAnswered(r) \/ Abort(r) PROVE Kept'
  BY <1>0, <1>1, <1>7 DEF CloseAnswered, Abort
<1>8. ASSUME NEW r \in Requests, NEW e \in Events, ReleaseRead(r, e) \/ ReleaseDelete(r, e)
      PROVE  Kept'
  <2>1. r \in done => recorded
    <3> SUFFICES ASSUME r \in done PROVE recorded
      OBVIOUS
    <3>1. Kept /\ release[r][e] # "none"
      BY <1>0, <1>1, <1>8 DEF ReleaseRead, ReleaseDelete
    <3>2. pc[r] = "answered" \/ ~connected[r]
      BY <1>0, <3>1 DEF TypeOK
    <3> QED
      BY <3>1, <3>2
  <2>2. settled' => settled \/ r \in done
    BY <1>8 DEF ReleaseRead, ReleaseDelete
  <2> QED
    BY <1>0, <1>1, <1>8, <2>1, <2>2 DEF ReleaseRead, ReleaseDelete
<1>9. ASSUME ClaimExpires \/ \E r \in Requests : Crash(r) PROVE FALSE
  BY <1>9 DEF ClaimExpires, Crash
<1>10. CASE UNCHANGED vars
  BY <1>1, <1>10 DEF vars
<1> QED
  BY <1>2, <1>3, <1>4, <1>5, <1>6, <1>7, <1>8, <1>9, <1>10 DEF Next


LEMMA UnheardStep == TypeOK /\ LeftUnheard /\ [Next]_vars => LeftUnheard'
<1> SUFFICES ASSUME TypeOK, LeftUnheard, [Next]_vars, NEW s \in Requests,
                    pc'[s] \in {"new", "claiming", "checking"}, ~connected'[s]
             PROVE  s \in unheard'
  BY DEF LeftUnheard
<1>0. /\ {"new", "replayed", "claiming", "checking", "refused", "working",
          "recording", "answered", "crashed"} = Labels
      /\ connected \in [Requests -> BOOLEAN]
  BY DEF Labels, TypeOK
<1>1. ASSUME NEW r \in Requests,
             ReadReply(r) \/ TakeClaim(r) \/ CheckHeld(r) \/ Finish(r) \/ Record(r)
      PROVE  s \in unheard'
  BY <1>0, <1>1, Moves DEF ReadReply, TakeClaim, CheckHeld, Finish, Record, LeftUnheard
<1>2. ASSUME NEW r \in Requests, CloseAnswered(r) \/ Abort(r) PROVE s \in unheard'
  BY <1>0, <1>2 DEF CloseAnswered, Abort, LeftUnheard
<1>3. ASSUME NEW r \in Requests, Crash(r) PROVE s \in unheard'
  BY <1>0, <1>3, Moves DEF Crash, LeftUnheard
<1>4. ASSUME \/ \E r \in Requests, e \in Events : ReleaseRead(r, e) \/ ReleaseDelete(r, e)
             \/ ClaimExpires \/ UNCHANGED vars
      PROVE  s \in unheard'
  BY <1>4 DEF ReleaseRead, ReleaseDelete, ClaimExpires, vars, LeftUnheard
<1> QED
  BY <1>1, <1>2, <1>3, <1>4 DEF Next

LEMMA ReleasedStep ==
  ASSUME TypeOK, TypeOK', LeftUnheard, ClaimsReleased, [Next]_vars
  PROVE  ClaimsReleased'
<1> DEFINE Ends(c) == \/ pc[c] \in {"working", "recording"} /\ connected[c]
                      \/ \E e \in Events : release[c][e] \in {"reading", "deleting"}
<1> SUFFICES ASSUME faults' = 0, NEW c \in Requests, claim' = c, c \notin unheard'
             PROVE  Ends(c)'
  BY DEF ClaimsReleased, Releasing, TypeOK
<1> USE RequestsAssumption, FaultCounts
<1>0. /\ {"new", "replayed", "claiming", "checking", "refused", "working",
          "recording", "answered", "crashed"} = Labels
      /\ "finish" \in Events /\ "close" \in Events
      /\ connected \in [Requests -> BOOLEAN]
  BY DEF Labels, Events, TypeOK
<1>1. ASSUME UNCHANGED <<faults, claim>>, c \notin unheard PROVE Ends(c)
  BY <1>1 DEF ClaimsReleased, Releasing
<1>2. ASSUME NEW r \in Requests, NEW e \in Events, StartRelease(r, e)
      PROVE  \A d \in Events : release[c][d] \in {"reading", "deleting"}
                                 => release'[c][d] \in {"reading", "deleting"}
  BY <1>2, Starts
<1>3. ASSUME NEW r \in Requests, ReadReply(r) PROVE Ends(c)'
  BY <1>0, <1>1, <1>3, Moves DEF ReadReply
<1>4. ASSUME NEW r \in Requests, TakeClaim(r) PROVE Ends(c)'
  <2>1. CASE claim = NoHolder /\ claim' = r /\ Goto(r, "working")
    BY <1>0, <1>4, <2>1, Moves DEF TakeClaim, LeftUnheard
  <2>2. CASE UNCHANGED <<claim, faults>> /\ Goto(r, "checking")
    BY <1>0, <1>1, <1>4, <2>2, Moves DEF TakeClaim
  <2> QED
    BY <1>4, <2>1, <2>2 DEF TakeClaim
<1>5. ASSUME NEW r \in Requests, CheckHeld(r) PROVE Ends(c)'
  BY <1>0, <1>1, <1>5, Moves DEF CheckHeld
<1>6. ASSUME NEW r \in Requests, Finish(r) PROVE Ends(c)'
  <2>1. Ends(c) /\ UNCHANGED connected
    BY <1>1, <1>6 DEF Finish
  <2>2. release' = release \/ StartRelease(r, "finish")
    BY <1>6 DEF Finish, HeldWhileRecording
  <2>3. CASE r = c /\ connected[r]
    <3>1. CASE Goto(r, "recording")
      BY <1>0, <2>1, <2>3, <3>1, Moves
    <3>2. CASE StartRelease(r, "finish")
      BY <1>0, <2>3, <3>2, Starts
    <3> QED
      BY <1>6, <2>3, <3>1, <3>2 DEF Finish
  <2>4. CASE r # c \/ ~connected[r]
    <3>1. \A d \in Events : release[c][d] \in {"reading", "deleting"}
                              => release'[c][d] \in {"reading", "deleting"}
      BY <1>0, <1>2, <2>2
    <3>2. r = c => ~(pc[c] \in {"working", "recording"} /\ connected[c])
      BY <2>4
    <3>3. r # c => pc'[c] = pc[c]
      BY <1>0, <1>6, Moves DEF Finish
    <3> QED
      BY <2>1, <3>1, <3>2, <3>3
  <2> QED
    BY <2>3, <2>4
<1>7. ASSUME NEW r \in Requests, Record(r) PROVE Ends(c)'
  <2>1. Ends(c) /\ release[r]["finish"] = "none"
    BY <1>1, <1>7 DEF Record, TypeOK
  <2>2. StartRelease(r, "finish")
    BY <1>7, <2>1 DEF Record
  <2> QED
    BY <1>0, <1>2, <1>7, <2>1, <2>2, Moves, Starts DEF Record
<1>8. ASSUME NEW r \in Requests, CloseAnswered(r) PROVE Ends(c)'
  BY <1>0, <1>1, <1>2, <1>8, Starts DEF CloseAnswered
<1>9. ASSUME NEW r \in Requests, Abort(r) PROVE Ends(c)'
  BY <1>0, <1>1, <1>2, <1>9, Starts DEF Abort, CloseHeard
<1>10. ASSUME NEW r \in Requests, NEW e \in Events, ReleaseRead(r, e) PROVE Ends(c)'
  <2>1. Ends(c) /\ claim = c
    BY <1>1, <1>10 DEF ReleaseRead
  <2>2. PICK label \in {"deleting", "over"} :
          /\ release' = [release EXCEPT ![r] = [release[r] EXCEPT ![e] = label]]
          /\ label = "over" => claim # r
    BY <1>10 DEF ReleaseRead
  <2>3. release[r] \in [Events -> ReleaseStates]
    BY DEF TypeOK, ReleaseStates
  <2>4. \A d \in Events : release[c][d] \in {"reading", "deleting"}
                            => release'[c][d] \in {"reading", "deleting"}
    BY <2>1, <2>2, <2>3 DEF TypeOK
  <2> QED
    BY <1>10, <2>1, <2>4 DEF ReleaseRead
<1>11. ASSUME NEW r \in Requests, NEW e \in Events, ReleaseDelete(r, e) PROVE FALSE
  BY <1>11 DEF ReleaseDelete
<1>12. ASSUME ClaimExpires \/ \E r \in Requests : Crash(r) PROVE FALSE
  BY <1>12 DEF ClaimExpires, Crash
<1>13. CASE UNCHANGED vars
  BY <1>1, <1>13 DEF vars
<1> QED
  BY <1>3, <1>4, <1>5, <1>6, <1>7, <1>8, <1>9, <1>10, <1>11, <1>12, <1>13 DEF Next

LEMMA RequestsInvNext == RequestsInv /\ [Next]_vars => RequestsInv'
  BY TypeStep, HoldStep, RecordedStep, UnheardStep, ReleasedStep DEF RequestsInv

LEMMA RequestsInvHolds == Spec => []RequestsInv
  BY RequestsInvInit, RequestsInvNext, PTL DEF Spec

(* No two requests with one key work at once while the store answers and   *)
(* none has begun to release.                                              *)
THEOREM DoubleClicksAreRefused == Spec => []DoubleClickRefused
<1>0. RequestsInv => faults > 0 \/ faults = 0
  BY RequestsAssumption DEF RequestsInv, TypeOK
<1>1. RequestsInv => DoubleClickRefused
  <2> SUFFICES ASSUME RequestsInv, NEW r \in Requests, NEW s \in Requests,
                      r # s, pc[r] = "working", pc[s] = "working", faults = 0,
                      \A t \in Requests, e \in Events : release[t][e] = "none"
               PROVE  FALSE
    BY <1>0 DEF DoubleClickRefused
  <2> QED
    BY DEF RequestsInv, WorkersHold, Quiet
<1> QED
  BY <1>1, RequestsInvHolds, PTL

(* What arrives after the release of a request with a reply is replayed.   *)
THEOREM LateRetriesAreReplayed == Spec => []LateRetryIsReplayed
<1>1. RequestsInv => LateRetryIsReplayed
  BY DEF RequestsInv, RepliesRecorded, LateRetryIsReplayed
<1> QED
  BY <1>1, RequestsInvHolds, PTL

(* Only a fault or a client that was not heard to leave keeps a claim      *)
(* beyond the request that took it.                                        *)
THEOREM ClaimStaysSound == Spec => []ClaimSound
<1>1. RequestsInv => ClaimSound
  BY DEF RequestsInv, TypeOK, ClaimsReleased, Releasing, ClaimSound, ClaimNotAbandoned
<1> QED
  BY <1>1, RequestsInvHolds, PTL
==============================================================================
