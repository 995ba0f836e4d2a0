--------------------------- MODULE RemittancesProofs ---------------------------
(***************************************************************************)
(* What the tables say of remittances and transactions, and when a         *)
(* remittance is repeated, for any number of requests, identical           *)
(* remittances, failures and crashes, and any window.                      *)
(***************************************************************************)
EXTENDS Remittances, TLAPS

(* A creation that has not ended has written nothing, and a time of        *)
(* creation is not in the future.                                          *)
Fresh(r) ==
  /\ create[r].at # "done" => rows[r] = NoRow /\ chain[r] = "unbuilt"
  /\ Creating(r) => create[r].created <= clock
  /\ Exists(r) => rows[r].created <= clock

CreationsFresh == \A r \in Creates : Fresh(r)

At(q, labels) == submit[q].at \in labels

(* A submit that has come some way has found the remittance there, marked  *)
(* it, and sent its transaction.                                           *)
Follows(q) ==
  LET r == submit[q].id
  IN  /\ At(q, {"new", "done"}) => r = None
      /\ At(q, {"marking", "completing", "notifying", "failing"}) => r # None
      /\ At(q, {"marking", "sending", "polling", "completing", "recording"}) => submit[q].tx # None
      /\ r # None => Exists(r)
      /\ r # None /\ At(q, {"sending", "polling", "completing", "notifying"})
           => rows[r].status # "pending"
      /\ r # None /\ At(q, {"polling", "completing", "notifying"}) => sends[r] > 0
      /\ At(q, {"recording"}) => r = None

SubmitsFollowRows == \A q \in Submits : Follows(q)

(* A remittance that was not raced for has at most one submit on its way   *)
(* to the network, and none once it was sent.                              *)
Bound(q, r) == submit[q].id = r /\ At(q, {"marking", "sending"})

Alone(r) ==
  /\ sends[r] <= 1
  /\ \A q \in Submits : Bound(q, r) =>
       sends[r] = 0 /\ \A p \in Submits \ {q} : ~Bound(p, r)

SentAlone == \A r \in Creates \ raced : Alone(r)

Near(a, b) == a \in b .. b + Window \/ b \in a .. a + Window

(* Creations that are under way together, and one under way beside an      *)
(* identical remittance within the window, have overlapped.                *)
Together(r, s) ==
  \/ Creating(r) /\ Creating(s)
  \/ /\ Exists(r) /\ Creating(s) /\ Asked[r] = Asked[s]
     /\ Near(rows[r].created, create[s].created)
  \/ Identical(r, s)

OverlapsKept ==
  \A r \in Creates : \A s \in Creates \ {r} : Together(r, s) => {r, s} \in overlapped

TablesInv == TypeOK /\ CreationsFresh /\ SubmitsFollowRows /\ RecordsTellChain /\ StatusTellsSends

RepeatInv == TablesInv /\ SentAlone /\ OverlapsKept

------------------------------------------------------------------------------
LEMMA SetStatusKeeps ==
  ASSUME TypeOK, NEW r \in Creates, NEW h \in Txs \cup {None},
         NEW status \in {"processing", "completed", "failed"},
         SetStatus(r, status, h)
  PROVE  /\ rows' \in [Creates -> Row]
         /\ rows'[r].status = status /\ rows'[r].hash = h
         /\ rows'[r].created = rows[r].created
         /\ \A s \in Creates \ {r} : rows'[s] = rows[s]
<1>1. rows' = [rows EXCEPT ![r] = [rows[r] EXCEPT !.status = status, !.hash = h]]
  BY DEF SetStatus, TypeOK
<1>2. rows[r] \in Row /\ rows \in [Creates -> Row]
  BY DEF TypeOK
<1>3. [rows[r] EXCEPT !.status = status, !.hash = h] \in Row
  BY <1>2 DEF Row
<1> QED
  BY <1>1, <1>2, <1>3 DEF Row

LEMMA GoesKeeps ==
  ASSUME TypeOK, NEW q \in Submits,
         NEW label \in {"sending", "polling", "notifying", "failing"},
         SubmitGoes(q, label)
  PROVE  /\ submit' \in [Submits -> SubmitState]
         /\ submit'[q].at = label /\ submit'[q].id = submit[q].id
         /\ submit'[q].tx = submit[q].tx /\ submit'[q].answer = submit[q].answer
         /\ \A p \in Submits \ {q} : submit'[p] = submit[p]
<1>1. submit' = [submit EXCEPT ![q] = [submit[q] EXCEPT !.at = label]]
  BY DEF SubmitGoes
<1>2. submit[q] \in SubmitState /\ submit \in [Submits -> SubmitState]
  BY DEF TypeOK
<1>3. [submit[q] EXCEPT !.at = label] \in SubmitState
  BY <1>2 DEF SubmitState
<1> QED
  BY <1>1, <1>2, <1>3 DEF SubmitState

LEMMA EndsKeeps ==
  ASSUME TypeOK, NEW q \in Submits, SubmitEnds(q)
  PROVE  /\ submit' \in [Submits -> SubmitState]
         /\ submit'[q].at = "done" /\ submit'[q].id = None
         /\ \A p \in Submits \ {q} : submit'[p] = submit[p]
<1>1. /\ [NoSubmit EXCEPT !.at = "done"] \in SubmitState
      /\ [NoSubmit EXCEPT !.at = "done"].at = "done"
      /\ [NoSubmit EXCEPT !.at = "done"].id = None
  BY DEF NoSubmit, SubmitState
<1> QED
  BY <1>1 DEF SubmitEnds, TypeOK

LEMMA ArrivesKeeps ==
  ASSUME TypeOK, NEW q \in Submits, NEW r \in Creates \cup {None}, NEW t \in Txs,
         NEW label \in {"marking", "failing", "sending"}, Arrives(q, r, t, label)
  PROVE  /\ submit' \in [Submits -> SubmitState]
         /\ submit'[q].at = label /\ submit'[q].id = r
         /\ submit'[q].tx = t
         /\ \A p \in Submits \ {q} : submit'[p] = submit[p]
<1>1. [at |-> label, id |-> r, tx |-> t, answer |-> "none"] \in SubmitState
  BY DEF SubmitState
<1> QED
  BY <1>1 DEF Arrives, TypeOK

LEMMA AnsweredKeeps ==
  ASSUME TypeOK, NEW q \in Submits, NEW answer \in Answers, Answered(q, answer)
  PROVE  /\ submit' \in [Submits -> SubmitState]
         /\ submit'[q].id = submit[q].id /\ submit'[q].tx = submit[q].tx
         /\ submit[q].id = None => submit'[q].at = "recording" /\ submit'[q].answer = answer
         /\ submit[q].id # None => submit'[q].at = "completing"
         /\ \A p \in Submits \ {q} : submit'[p] = submit[p]
<1> DEFINE label == IF submit[q].id = None THEN "recording" ELSE "completing"
           said  == IF submit[q].id = None THEN answer ELSE "none"
<1>1. submit' = [submit EXCEPT ![q] = [submit[q] EXCEPT !.at = label, !.answer = said]]
  BY DEF Answered
<1>2. submit[q] \in SubmitState /\ submit \in [Submits -> SubmitState]
  BY DEF TypeOK
<1>3. [submit[q] EXCEPT !.at = label, !.answer = said] \in SubmitState
  BY <1>2 DEF SubmitState
<1> QED
  BY <1>1, <1>2, <1>3 DEF SubmitState

LEMMA InsertKeeps ==
  ASSUME TypeOK, NEW r \in Creates, create[r].at = "inserting", Insert(r)
  PROVE  /\ rows' \in [Creates -> Row]
         /\ chain' \in [Txs -> {"unbuilt", "unseen", "queued", "success", "failed", "expired"}]
         /\ chain'[r] = "unseen"
         /\ \A t \in Txs \ {r} : chain'[t] = chain[t]
         /\ rows'[r].status = "pending" /\ rows'[r].hash = None
         /\ rows'[r].created = create[r].created
         /\ \A s \in Creates \ {r} : rows'[s] = rows[s]
<1>1. create[r] \in CreateState
  BY DEF TypeOK
<1>2. [status |-> "pending", hash |-> None, created |-> create[r].created] \in Row
  BY <1>1 DEF CreateState, Row
<1>3. r \in Txs
  BY DEF Txs
<1> QED
  BY <1>2, <1>3 DEF Insert, TypeOK

LEMMA CreateEndsKeeps ==
  ASSUME TypeOK, NEW r \in Creates, CreateEnds(r)
  PROVE  /\ create' \in [Creates -> CreateState]
         /\ create'[r].at = "done"
         /\ \A s \in Creates \ {r} : create'[s] = create[s]
<1>1. /\ [NoCreate EXCEPT !.at = "done"] \in CreateState
      /\ [NoCreate EXCEPT !.at = "done"].at = "done"
  BY DEF NoCreate, CreateState
<1> QED
  BY <1>1 DEF CreateEnds, TypeOK

LEMMA RepliesKnown ==
  ASSUME NEW t, NEW reply \in Replies(t)
  PROVE  /\ Refused(reply) => reply \in {"ERROR", "TRY_AGAIN_LATER"} /\ Sent(t, reply) = chain
         /\ reply = "PENDING" => chain[t] = "unseen"
<1>1. CASE chain[t] = "queued"
  BY <1>1 DEF Replies, Refused, Sent
<1>2. CASE chain[t] # "queued" /\ \E s \in Txs : chain[s] = "queued"
  BY <1>2 DEF Replies, Refused, Sent
<1>3. CASE chain[t] # "queued" /\ ~\E s \in Txs : chain[s] = "queued"
  <2>1. CASE chain[t] = "unseen" /\ built[t] = seq
    BY <1>3, <2>1 DEF Replies, Refused, Sent
  <2>2. CASE ~(chain[t] = "unseen" /\ built[t] = seq)
    <3>1. Replies(t) = {"ERROR"}
      BY <1>3, <2>2 DEF Replies
    <3> QED
      BY <3>1 DEF Refused, Sent
  <2> QED
    BY <2>1, <2>2
<1> QED
  BY <1>1, <1>2, <1>3

(* What the network holds moves on only: a transaction that took effect or *)
(* failed stays so, whatever is sent.                                      *)
Final(t) == chain[t] \in {"success", "failed"}

LEMMA SentKeeps ==
  ASSUME TypeOK, NEW t \in Txs, NEW reply \in Replies(t), chain' = Sent(t, reply)
  PROVE  /\ chain' \in [Txs -> {"unbuilt", "unseen", "queued", "success", "failed", "expired"}]
         /\ \A u \in Txs : chain'[u] # chain[u] => chain[u] = "unseen"
  BY RepliesKnown DEF Sent, TypeOK

------------------------------------------------------------------------------
(* What a submit on its way refers to. *)
LEMMA Refers ==
  ASSUME TypeOK, SubmitsFollowRows, NEW q \in Submits
  PROVE  /\ submit[q] \in SubmitState
         /\ At(q, {"marking", "completing", "notifying", "failing"}) => submit[q].id \in Creates
         /\ At(q, {"marking", "sending", "polling", "completing", "recording"}) => submit[q].tx \in Txs
         /\ submit[q].id \in Creates \cup {None}
<1>1. submit[q] \in SubmitState
  BY DEF TypeOK
<1> QED
  BY <1>1 DEF SubmitsFollowRows, Follows, SubmitState

LEMMA TypeStep ==
  ASSUME TypeOK, SubmitsFollowRows, [Next]_vars
  PROVE  TypeOK'
<1> USE RemittanceAssumption DEF network, history
<1>1. ASSUME NEW r \in Creates, Look(r) PROVE TypeOK'
  <2>1. CASE Duplicates(r) = {}
    <3>1. /\ create' = [create EXCEPT ![r] = [at |-> "building", created |-> clock]]
          /\ overlapped' = overlapped \cup {{r, s} : s \in {s \in Creates : Creating(s)}}
          /\ UNCHANGED <<clock, seq, chain, built, rows, record, submit, faults, sends,
                         raced, stranded>>
      BY <1>1, <2>1 DEF Look
    <3>2. [at |-> "building", created |-> clock] \in CreateState
      BY DEF TypeOK, CreateState
    <3>3. create' \in [Creates -> CreateState] /\ overlapped' \subseteq SUBSET Creates
      BY <3>1, <3>2 DEF TypeOK
    <3> QED
      BY <3>1, <3>3 DEF TypeOK
  <2>2. CASE Duplicates(r) # {}
    BY <1>1, <2>2, CreateEndsKeeps DEF Look, TypeOK
  <2> QED
    BY <2>1, <2>2
<1>2. ASSUME NEW r \in Creates, BuildRemittance(r) PROVE TypeOK'
  <2>1. [create[r] EXCEPT !.at = "inserting"] \in CreateState
    <3>1. create[r] \in CreateState
      BY DEF TypeOK
    <3> QED
      BY <3>1 DEF CreateState
  <2>2. create' = [create EXCEPT ![r] = [create[r] EXCEPT !.at = "inserting"]]
    BY <1>2 DEF BuildRemittance
  <2>3. create' \in [Creates -> CreateState]
    BY <2>1, <2>2 DEF TypeOK
  <2> QED
    BY <1>2, <2>3 DEF BuildRemittance, TypeOK
<1>3. ASSUME NEW r \in Creates, InsertRemittance(r) PROVE TypeOK'
  BY <1>3, InsertKeeps, CreateEndsKeeps DEF InsertRemittance, TypeOK
<1>4. ASSUME NEW r \in Creates, CreateFails(r) PROVE TypeOK'
  BY <1>4, InsertKeeps, CreateEndsKeeps DEF CreateFails, Fault, TypeOK
<1>5. ASSUME NEW c \in Calls, BuildCall(c) PROVE TypeOK'
  BY <1>5 DEF BuildCall, TypeOK, Txs
<1>6. ASSUME NEW q \in Submits, NEW r \in Creates, NEW t \in Txs, Arrive(q, r, t)
      PROVE  TypeOK'
  <2>1. t \in Txs
    BY DEF Txs
  <2> QED
    BY <1>6, <2>1, ArrivesKeeps DEF Arrive, TypeOK
<1>7. ASSUME NEW q \in Submits, NEW c \in Txs, ArriveCall(q, c) PROVE TypeOK'
  <2>1. c \in Txs
    BY DEF Txs
  <2> QED
    BY <1>7, <2>1, ArrivesKeeps DEF ArriveCall, TypeOK
<1>8. ASSUME NEW q \in Submits, Mark(q) PROVE TypeOK'
  <2>1. submit[q].id \in Creates
    BY <1>8, Refers DEF Mark, At
  <2> QED
    BY <1>8, <2>1, SetStatusKeeps, GoesKeeps DEF Mark, TypeOK
<1>9. ASSUME NEW q \in Submits, Send(q) PROVE TypeOK'
  <2> DEFINE t == submit[q].tx
  <2>1. t \in Txs /\ submit[q].id \in Creates \cup {None}
    BY <1>9, Refers DEF Send, At
  <2>2. PICK reply \in Replies(t) :
          /\ chain' = Sent(t, reply)
          /\ IF Refused(reply) THEN Answered(q, reply) ELSE SubmitGoes(q, "polling")
    BY <1>9 DEF Send
  <2>3. submit' \in [Submits -> SubmitState]
    BY <2>2, RepliesKnown, AnsweredKeeps, GoesKeeps DEF Answers
  <2>4. chain' \in [Txs -> {"unbuilt", "unseen", "queued", "success", "failed", "expired"}]
    BY <2>1, <2>2, SentKeeps
  <2>5. sends' \in [Creates -> Nat]
    BY <1>9, <2>1 DEF Send, TypeOK
  <2> QED
    BY <1>9, <2>3, <2>4, <2>5 DEF Send, TypeOK
<1>10. ASSUME NEW q \in Submits, Poll(q) PROVE TypeOK'
  <2>1. Polled(submit[q].tx) \in Answers
    BY DEF Polled, Answers
  <2> QED
    BY <1>10, <2>1, AnsweredKeeps DEF Poll, TypeOK
<1>11. ASSUME NEW q \in Submits, Complete(q) PROVE TypeOK'
  <2>1. submit[q].id \in Creates /\ submit[q].tx \in Txs
    BY <1>11, Refers DEF Complete, At
  <2> QED
    BY <1>11, <2>1, SetStatusKeeps, GoesKeeps DEF Complete, TypeOK
<1>12. ASSUME NEW q \in Submits, Notify(q) PROVE TypeOK'
  BY <1>12, EndsKeeps DEF Notify, TypeOK
<1>13. ASSUME NEW q \in Submits, Fail(q) PROVE TypeOK'
  <2>1. submit[q].id \in Creates
    BY <1>13, Refers DEF Fail, At
  <2> QED
    BY <1>13, <2>1, SetStatusKeeps, EndsKeeps DEF Fail, Failed, TypeOK
<1>14. ASSUME NEW q \in Submits, Record(q) PROVE TypeOK'
  BY <1>14, EndsKeeps DEF Record, Recorded, TypeOK, SubmitState
<1>15. ASSUME NEW q \in Submits, SubmitFails(q) PROVE TypeOK'
  <2>1. submit' \in [Submits -> SubmitState]
    BY <1>15, EndsKeeps, GoesKeeps DEF SubmitFails
  <2>2. rows' \in [Creates -> Row]
    BY <1>15, Refers, SetStatusKeeps DEF SubmitFails, Failed, At, TypeOK
  <2>3. record' \in [Txs -> Answers \cup {"none"}]
    BY <1>15 DEF SubmitFails, Recorded, TypeOK, SubmitState
  <2>4. chain' \in [Txs -> {"unbuilt", "unseen", "queued", "success", "failed", "expired"}]
    BY <1>15, Refers, SentKeeps DEF SubmitFails, At, TypeOK
  <2>5. sends' \in [Creates -> Nat] /\ stranded' \subseteq Creates
    BY <1>15, Refers DEF SubmitFails, At, TypeOK
  <2> QED
    BY <1>15, <2>1, <2>2, <2>3, <2>4, <2>5 DEF SubmitFails, Fault, TypeOK
<1>16. ASSUME NEW t \in Txs, Apply(t) \/ Expire(t) PROVE TypeOK'
  BY <1>16 DEF Apply, Expire, TypeOK
<1>17. CASE Tick
  BY <1>17 DEF Tick, TypeOK
<1>18. CASE Crash
  <2>1. [NoCreate EXCEPT !.at = "done"] \in CreateState
    BY DEF NoCreate, CreateState
  <2>2. [NoSubmit EXCEPT !.at = "done"] \in SubmitState
    BY DEF NoSubmit, SubmitState
  <2>3. create' \in [Creates -> CreateState] /\ submit' \in [Submits -> SubmitState]
    BY <1>18, <2>1, <2>2 DEF Crash, TypeOK
  <2> QED
    BY <1>18, <2>3 DEF Crash, Fault, TypeOK
<1>19. CASE UNCHANGED vars
  BY <1>19 DEF vars, TypeOK
<1> QED
  BY <1>1, <1>2, <1>3, <1>4, <1>5, <1>6, <1>7, <1>8, <1>9, <1>10, <1>11, <1>12, <1>13,
     <1>14, <1>15, <1>16, <1>17, <1>18, <1>19 DEF Next, Work

(* What a submit may do to the rest, whichever step it takes. *)
Touches(q) ==
  /\ UNCHANGED <<clock, create, overlapped, raced>>
  /\ rows' \in [Creates -> Row]
  /\ \A r \in Creates :
       /\ rows'[r].created = rows[r].created
       /\ rows'[r] # rows[r] =>
            r = submit[q].id /\ rows'[r].status \in {"processing", "completed", "failed"}
  /\ \A t \in Txs : chain'[t] # chain[t] => chain[t] = "unseen"
  /\ \A r \in Creates : sends'[r] # sends[r] =>
       r = submit[q].id /\ submit[q].at = "sending" /\ sends'[r] = sends[r] + 1
  /\ \A p \in Submits \ {q} : submit'[p] = submit[p]

LEMMA WorkTouches ==
  ASSUME TypeOK, SubmitsFollowRows, NEW q \in Submits, Work(q) \/ SubmitFails(q)
  PROVE  Touches(q)
<1> USE DEF network, history, At, Touches
<1>1. CASE Mark(q)
  <2>1. submit[q].id \in Creates
    BY <1>1, Refers DEF Mark
  <2> QED
    BY <1>1, <2>1, SetStatusKeeps, GoesKeeps DEF Mark
<1>2. CASE Send(q)
  <2> DEFINE t == submit[q].tx
  <2>1. t \in Txs /\ submit[q].id \in Creates \cup {None}
    BY <1>2, Refers DEF Send
  <2>2. PICK reply \in Replies(t) :
          /\ chain' = Sent(t, reply)
          /\ IF Refused(reply) THEN Answered(q, reply) ELSE SubmitGoes(q, "polling")
    BY <1>2 DEF Send
  <2>3. \A p \in Submits \ {q} : submit'[p] = submit[p]
    BY <2>2, RepliesKnown, AnsweredKeeps, GoesKeeps DEF Answers
  <2>4. \A u \in Txs : chain'[u] # chain[u] => chain[u] = "unseen"
    BY <2>1, <2>2, SentKeeps
  <2>5. \A r \in Creates : sends'[r] # sends[r] => r = submit[q].id /\ sends'[r] = sends[r] + 1
    BY <1>2, <2>1 DEF Send, TypeOK
  <2> QED
    BY <1>2, <2>3, <2>4, <2>5 DEF Send, TypeOK
<1>3. CASE Poll(q)
  <2>1. Polled(submit[q].tx) \in Answers
    BY DEF Polled, Answers
  <2> QED
    BY <1>3, <2>1, AnsweredKeeps DEF Poll, TypeOK
<1>4. CASE Complete(q)
  <2>1. submit[q].id \in Creates /\ submit[q].tx \in Txs
    BY <1>4, Refers DEF Complete
  <2> QED
    BY <1>4, <2>1, SetStatusKeeps, GoesKeeps DEF Complete
<1>5. CASE Notify(q)
  BY <1>5, EndsKeeps DEF Notify, TypeOK
<1>6. CASE Fail(q)
  <2>1. submit[q].id \in Creates
    BY <1>6, Refers DEF Fail
  <2> QED
    BY <1>6, <2>1, SetStatusKeeps, EndsKeeps DEF Fail, Failed
<1>7. CASE Record(q)
  BY <1>7, EndsKeeps DEF Record, TypeOK
<1>8. CASE SubmitFails(q)
  <2>1. \A p \in Submits \ {q} : submit'[p] = submit[p]
    BY <1>8, EndsKeeps, GoesKeeps DEF SubmitFails
  <2>2. /\ rows' \in [Creates -> Row]
        /\ \A r \in Creates :
             /\ rows'[r].created = rows[r].created
             /\ rows'[r] # rows[r] =>
                  r = submit[q].id /\ rows'[r].status \in {"processing", "completed", "failed"}
    BY <1>8, Refers, SetStatusKeeps DEF SubmitFails, Failed, TypeOK
  <2>3. \A t \in Txs : chain'[t] # chain[t] => chain[t] = "unseen"
    BY <1>8, Refers, SentKeeps DEF SubmitFails
  <2>4. \A r \in Creates : sends'[r] # sends[r] =>
          r = submit[q].id /\ submit[q].at = "sending" /\ sends'[r] = sends[r] + 1
    BY <1>8, Refers DEF SubmitFails, TypeOK
  <2> QED
    BY <1>8, <2>1, <2>2, <2>3, <2>4 DEF SubmitFails
<1> QED
  BY <1>1, <1>2, <1>3, <1>4, <1>5, <1>6, <1>7, <1>8 DEF Work

LEMMA CreationsStep ==
  ASSUME TypeOK, CreationsFresh, SubmitsFollowRows, [Next]_vars
  PROVE  CreationsFresh'
<1> SUFFICES ASSUME NEW r \in Creates PROVE Fresh(r)'
  BY DEF CreationsFresh
<1> USE RemittanceAssumption DEF network, history, Exists, Creating, Fresh
<1>0. /\ r \in Txs /\ r \notin Calls
      /\ create[r] \in CreateState /\ rows[r] \in Row /\ clock \in Nat
      /\ Fresh(r)
  BY DEF Txs, TypeOK, CreationsFresh
<1>1. ASSUME NEW s \in Creates, Look(s) PROVE Fresh(r)'
  <2>1. UNCHANGED <<rows, chain, clock>>
    BY <1>1 DEF Look
  <2>2. s # r => create'[r] = create[r]
    BY <1>1, CreateEndsKeeps DEF Look, TypeOK
  <2>3. s = r => /\ create[r].at # "done"
                 /\ create'[r].at = "done" \/ create'[r].created = clock
    BY <1>1, CreateEndsKeeps DEF Look, TypeOK
  <2> QED
    BY <1>0, <2>1, <2>2, <2>3
<1>2. ASSUME NEW s \in Creates, BuildRemittance(s) PROVE Fresh(r)'
  <2>1. create[s] \in CreateState
    BY DEF TypeOK
  <2>2. /\ create'[r].created = create[r].created
        /\ s # r => create'[r].at = create[r].at
        /\ s = r => create[r].at = "building"
    BY <1>2, <2>1 DEF BuildRemittance, TypeOK, CreateState
  <2> QED
    BY <1>0, <1>2, <2>2 DEF BuildRemittance
<1>3. ASSUME NEW s \in Creates, create[s].at = "inserting", Insert(s), CreateEnds(s),
             UNCHANGED clock
      PROVE  Fresh(r)'
  BY <1>0, <1>3, InsertKeeps, CreateEndsKeeps, SMT
<1>4. ASSUME NEW s \in Creates, CreateEnds(s), UNCHANGED <<clock, rows, chain>>
      PROVE  Fresh(r)'
  BY <1>0, <1>4, CreateEndsKeeps
<1>5. ASSUME NEW c \in Calls, BuildCall(c) PROVE Fresh(r)'
  BY <1>0, <1>5 DEF BuildCall, TypeOK
<1>6. ASSUME NEW q \in Submits,
             \/ \E s \in Creates, t \in Txs : Arrive(q, s, t)
             \/ \E c \in Txs : ArriveCall(q, c)
      PROVE  Fresh(r)'
  BY <1>0, <1>6 DEF Arrive, ArriveCall
<1>7. ASSUME NEW q \in Submits, Touches(q) PROVE Fresh(r)'
  <2>1. rows'[r] # rows[r] => rows[r] # NoRow /\ Exists(r)
    <3> SUFFICES ASSUME rows'[r] # rows[r] PROVE Exists(r)
      BY DEF NoRow
    <3>1. r = submit[q].id /\ r # None
      BY <1>0, <1>7 DEF Touches
    <3>2. Follows(q)
      BY DEF SubmitsFollowRows
    <3> QED
      BY <3>1, <3>2 DEF Follows
  <2>2. rows'[r].created = rows[r].created /\ create'[r] = create[r] /\ clock' = clock
    BY <1>7 DEF Touches
  <2>3. chain[r] = "unbuilt" => chain'[r] = "unbuilt"
    BY <1>0, <1>7 DEF Touches
  <2> QED
    BY <1>0, <2>1, <2>2, <2>3
<1>8. ASSUME NEW t \in Txs, Apply(t) \/ Expire(t) PROVE Fresh(r)'
  BY <1>0, <1>8 DEF Apply, Expire, TypeOK
<1>9. CASE Tick
  BY <1>0, <1>9 DEF Tick, Row, CreateState
<1>10. CASE Crash
  <2>1. create'[r].at = "done" \/ create'[r] = create[r]
    BY <1>10 DEF Crash, NoCreate
  <2> QED
    BY <1>0, <1>10, <2>1 DEF Crash
<1>11. CASE UNCHANGED vars
  BY <1>0, <1>11 DEF vars
<1>12. ASSUME NEW s \in Creates, InsertRemittance(s) \/ CreateFails(s) PROVE Fresh(r)'
  BY <1>3, <1>4, <1>12 DEF InsertRemittance, CreateFails
<1> QED
  BY <1>1, <1>2, <1>5, <1>6, <1>7, <1>8, <1>9, <1>10, <1>11, <1>12, WorkTouches DEF Next

LEMMA FollowsStep ==
  ASSUME TypeOK, TypeOK', CreationsFresh, SubmitsFollowRows, [Next]_vars
  PROVE  SubmitsFollowRows'
<1> SUFFICES ASSUME NEW q \in Submits PROVE Follows(q)'
  BY DEF SubmitsFollowRows
<1> USE RemittanceAssumption DEF network, history, Exists, Follows, At
<1>0. /\ Follows(q) /\ submit[q] \in SubmitState
      /\ \A r \in Creates : rows[r] \in Row /\ sends[r] \in Nat
  BY DEF TypeOK, SubmitsFollowRows
(* Rows stay, never come back to pending, and are sent no less. *)
<1> DEFINE Later == \A r \in Creates :
      /\ Exists(r) => Exists(r)'
      /\ Exists(r) /\ rows[r].status # "pending" => rows'[r].status # "pending"
      /\ sends[r] > 0 => sends'[r] > 0
<1>1. ASSUME Later, submit'[q] = submit[q] PROVE Follows(q)'
  <2>1. submit[q].id \in Creates \cup {None}
    BY <1>0 DEF SubmitState
  <2> QED
    BY <1>0, <1>1, <2>1
<1>2. ASSUME rows' = rows, sends' = sends PROVE Later
  BY <1>2
<1>3. ASSUME NEW r \in Creates, create[r].at = "inserting", Insert(r), sends' = sends
      PROVE  Later
  <2>1. ~Exists(r)
    BY <1>3 DEF CreationsFresh, Fresh, NoRow
  <2> QED
    BY <1>3, <2>1, InsertKeeps
<1>4. ASSUME NEW p \in Submits, Touches(p) PROVE Later
  BY <1>0, <1>4 DEF Touches
<1> HIDE DEF Later
<1>5. ASSUME NEW r \in Creates, Look(r) \/ BuildRemittance(r) PROVE Follows(q)'
  BY <1>1, <1>2, <1>5 DEF Look, BuildRemittance
<1>6. ASSUME NEW r \in Creates, InsertRemittance(r) \/ CreateFails(r) PROVE Follows(q)'
  BY <1>1, <1>2, <1>3, <1>6 DEF InsertRemittance, CreateFails
<1>7. ASSUME NEW t \in Txs, Apply(t) \/ Expire(t) PROVE Follows(q)'
  BY <1>1, <1>2, <1>7 DEF Apply, Expire
<1>8. ASSUME (\E c \in Calls : BuildCall(c)) \/ Tick \/ UNCHANGED vars PROVE Follows(q)'
  BY <1>1, <1>2, <1>8 DEF BuildCall, Tick, vars
<1>9. CASE Crash
  <2>1. submit'[q] = submit[q] \/ submit'[q] = [NoSubmit EXCEPT !.at = "done"]
    BY <1>9 DEF Crash, TypeOK
  <2>2. Later
    BY <1>2, <1>9 DEF Crash
  <2> QED
    BY <1>1, <2>1, <2>2 DEF NoSubmit
<1>10. ASSUME NEW p \in Submits, NEW r \in Creates, NEW t \in Txs, Arrive(p, r, t)
       PROVE  Follows(q)'
  <2>1. t \in Txs /\ t # None /\ r # None
    BY DEF Txs
  <2>2. Exists(r)' /\ Later
    BY <1>2, <1>10 DEF Arrive
  <2>3. CASE p = q
    BY <1>10, <2>1, <2>2, <2>3, ArrivesKeeps DEF Arrive
  <2>4. CASE p # q
    BY <1>1, <1>10, <2>1, <2>2, <2>4, ArrivesKeeps DEF Arrive
  <2> QED
    BY <2>3, <2>4
<1>11. ASSUME NEW p \in Submits, NEW c \in Txs, ArriveCall(p, c) PROVE Follows(q)'
  <2>1. c \in Txs /\ c # None
    BY DEF Txs
  <2>2. Later
    BY <1>2, <1>11 DEF ArriveCall
  <2>3. CASE p = q
    BY <1>11, <2>1, <2>3, ArrivesKeeps DEF ArriveCall
  <2>4. CASE p # q
    BY <1>1, <1>11, <2>1, <2>2, <2>4, ArrivesKeeps DEF ArriveCall
  <2> QED
    BY <2>3, <2>4
<1>12. ASSUME NEW p \in Submits, p # q, Work(p) \/ SubmitFails(p) PROVE Follows(q)'
  BY <1>1, <1>4, <1>12, WorkTouches DEF Touches
<1>13. ASSUME Work(q) \/ SubmitFails(q) PROVE Follows(q)'
  <2> DEFINE r == submit[q].id
  <2>0. Later /\ Touches(q) /\ r \in Creates \cup {None}
    BY <1>0, <1>4, <1>13, WorkTouches DEF SubmitState
  <2>1. r # None => rows'[r].status # "none"
    BY <1>0, <2>0 DEF Later
  <2>2. CASE Mark(q)
    <3>1. r \in Creates
      BY <2>2, Refers DEF Mark
    <3> QED
      BY <1>0, <2>1, <2>2, <3>1, SetStatusKeeps, GoesKeeps DEF Mark, TypeOK
  <2>3. CASE Send(q)
    <3>1. submit[q].tx \in Txs
      BY <2>3, Refers DEF Send
    <3>2. /\ submit'[q].id = r /\ submit'[q].tx = submit[q].tx
          /\ submit'[q].at \in {"recording", "completing", "polling"}
          /\ submit'[q].at = "recording" => r = None
          /\ submit'[q].at = "completing" => r # None
      BY <2>3, RepliesKnown, AnsweredKeeps, GoesKeeps DEF Send, Answers
    <3>3. r # None => rows'[r].status # "pending" /\ sends'[r] > 0
      BY <1>0, <2>0, <2>3 DEF Send, TypeOK
    <3> QED
      BY <2>1, <3>1, <3>2, <3>3
  <2>4. CASE Poll(q)
    <3>1. Polled(submit[q].tx) \in Answers
      BY DEF Polled, Answers
    <3> QED
      BY <1>0, <2>1, <2>4, <3>1, AnsweredKeeps DEF Poll
  <2>5. CASE Complete(q)
    <3>1. r \in Creates /\ submit[q].tx \in Txs
      BY <2>5, Refers DEF Complete
    <3> QED
      BY <1>0, <2>1, <2>5, <3>1, SetStatusKeeps, GoesKeeps DEF Complete
  <2>6. CASE Notify(q) \/ Fail(q) \/ Record(q)
    BY <2>6, EndsKeeps DEF Notify, Fail, Record
  <2>7. CASE SubmitFails(q)
    BY <2>1, <1>0, <2>7, EndsKeeps, GoesKeeps DEF SubmitFails
  <2> QED
    BY <1>13, <2>2, <2>3, <2>4, <2>5, <2>6, <2>7 DEF Work
<1> QED
  BY <1>5, <1>6, <1>7, <1>8, <1>9, <1>10, <1>11, <1>12, <1>13 DEF Next

LEMMA FinalStays ==
  ASSUME TypeOK, CreationsFresh, SubmitsFollowRows, [Next]_vars, NEW t \in Txs, Final(t)
  PROVE  chain'[t] = chain[t]
<1> USE DEF network, Final
<1>1. ASSUME NEW r \in Creates,
             Look(r) \/ BuildRemittance(r) \/ InsertRemittance(r) \/ CreateFails(r)
      PROVE  chain'[t] = chain[t]
  <2>1. r = t => create[r].at = "done"
    BY DEF CreationsFresh, Fresh
  <2> QED
    BY <1>1, <2>1, InsertKeeps DEF Look, BuildRemittance, InsertRemittance, CreateFails
<1>2. ASSUME NEW c \in Calls, BuildCall(c) PROVE chain'[t] = chain[t]
  BY <1>2 DEF BuildCall, TypeOK
<1>3. ASSUME NEW q \in Submits,
             \/ \E r \in Creates, u \in Txs : Arrive(q, r, u)
             \/ \E c \in Txs : ArriveCall(q, c)
      PROVE  chain'[t] = chain[t]
  BY <1>3 DEF Arrive, ArriveCall
<1>4. ASSUME NEW q \in Submits, Work(q) \/ SubmitFails(q) PROVE chain'[t] = chain[t]
  BY <1>4, WorkTouches DEF Touches
<1>5. ASSUME NEW u \in Txs, Apply(u) \/ Expire(u) PROVE chain'[t] = chain[t]
  BY <1>5 DEF Apply, Expire, TypeOK
<1>6. ASSUME Tick \/ Crash \/ UNCHANGED vars PROVE chain'[t] = chain[t]
  BY <1>6 DEF Tick, Crash, vars
<1> QED
  BY <1>1, <1>2, <1>3, <1>4, <1>5, <1>6, RemittanceAssumption DEF Next

LEMMA RecordsStep ==
  ASSUME TypeOK, CreationsFresh, SubmitsFollowRows, RecordsTellChain, [Next]_vars
  PROVE  RecordsTellChain'
<1> DEFINE Holds(a, c) == (a = "SUCCESS" => c = "success") /\ (a = "FAILED" => c = "failed")
<1> USE RemittanceAssumption DEF network, history
<1>1. /\ \A t \in Txs : Holds(record[t], chain[t])
      /\ \A q \in Submits : submit[q].at = "recording" =>
           submit[q].tx \in Txs /\ Holds(submit[q].answer, chain[submit[q].tx])
  BY Refers DEF RecordsTellChain, True, At
<1>2. \A t \in Txs : \A a : Holds(a, chain[t]) => Holds(a, chain'[t])
  BY FinalStays DEF Final
<1> HIDE DEF Holds
<1>3. ASSUME NEW t \in Txs PROVE Holds(record'[t], chain'[t])
  <2>1. ASSUME NEW q \in Submits, submit[q].at = "recording", record' = Recorded(q)
        PROVE  Holds(record'[t], chain'[t])
    BY <1>1, <1>2, <2>1 DEF Recorded, TypeOK
  <2>2. ASSUME record' = record PROVE Holds(record'[t], chain'[t])
    BY <1>1, <1>2, <2>2
  <2>3. ASSUME NEW q \in Submits, Work(q) \/ SubmitFails(q) PROVE Holds(record'[t], chain'[t])
    BY <2>1, <2>2, <2>3 DEF Work, Mark, Send, Poll, Complete, Notify, Fail, Record, SubmitFails
  <2>4. ASSUME NEW r \in Creates,
               Look(r) \/ BuildRemittance(r) \/ InsertRemittance(r) \/ CreateFails(r)
        PROVE  record' = record
    BY <2>4 DEF Look, BuildRemittance, InsertRemittance, CreateFails
  <2>5. ASSUME NEW q \in Submits,
               \/ \E r \in Creates, u \in Txs : Arrive(q, r, u)
               \/ \E c \in Txs : ArriveCall(q, c)
        PROVE  record' = record
    BY <2>5 DEF Arrive, ArriveCall
  <2>6. ASSUME \/ \E c \in Calls : BuildCall(c)
               \/ \E u \in Txs : Apply(u) \/ Expire(u)
               \/ Tick \/ Crash \/ UNCHANGED vars
        PROVE  record' = record
    BY <2>6 DEF BuildCall, Apply, Expire, Tick, Crash, vars
  <2> QED
    BY <2>2, <2>3, <2>4, <2>5, <2>6 DEF Next
<1>4. ASSUME NEW q \in Submits, submit'[q].at = "recording"
      PROVE  submit'[q].tx \in Txs /\ Holds(submit'[q].answer, chain'[submit'[q].tx])
  <2>1. ASSUME submit'[q] = submit[q]
        PROVE  submit'[q].tx \in Txs /\ Holds(submit'[q].answer, chain'[submit'[q].tx])
    BY <1>1, <1>2, <1>4, <2>1
  <2>2. CASE Send(q)
    <3>1. submit[q].tx \in Txs
      BY <2>2, Refers DEF Send, At
    <3>2. submit'[q].tx = submit[q].tx /\ submit'[q].answer \in {"ERROR", "TRY_AGAIN_LATER"}
      BY <1>4, <2>2, RepliesKnown, AnsweredKeeps, GoesKeeps DEF Send, Answers
    <3> QED
      BY <3>1, <3>2 DEF Holds
  <2>3. CASE Poll(q)
    <3>1. Polled(submit[q].tx) \in Answers /\ submit[q].tx \in Txs
      BY <2>3, Refers DEF Poll, Polled, Answers, At
    <3>2. submit'[q].tx = submit[q].tx /\ submit'[q].answer = Polled(submit[q].tx)
      BY <1>4, <2>3, <3>1, AnsweredKeeps DEF Poll
    <3>3. Holds(Polled(submit[q].tx), chain[submit[q].tx])
      BY DEF Holds, Polled
    <3> QED
      BY <1>2, <3>1, <3>2, <3>3
  <2>4. ASSUME NEW p \in Submits, Work(p) \/ SubmitFails(p)
        PROVE  Send(q) \/ Poll(q) \/ submit'[q] = submit[q]
    <3>1. p # q => submit'[q] = submit[q]
      BY <2>4, WorkTouches DEF Touches
    <3>2. ASSUME p = q, SubmitFails(q) PROVE FALSE
      BY <1>4, <3>2, GoesKeeps, EndsKeeps DEF SubmitFails
    <3>3. ASSUME p = q, Mark(q) \/ Complete(q) \/ Notify(q) \/ Fail(q) \/ Record(q)
          PROVE  FALSE
      BY <1>4, <3>3, GoesKeeps, EndsKeeps DEF Mark, Complete, Notify, Fail, Record
    <3> QED
      BY <2>4, <3>1, <3>2, <3>3 DEF Work
  <2>5. ASSUME NEW p \in Submits, NEW r \in Creates, NEW t \in Txs, Arrive(p, r, t)
        PROVE  submit'[q] = submit[q]
    <3>1. t \in Txs
      BY DEF Txs
    <3> QED
      BY <1>4, <2>5, <3>1, ArrivesKeeps DEF Arrive
  <2>6. ASSUME NEW p \in Submits, NEW c \in Txs, ArriveCall(p, c)
        PROVE  submit'[q] = submit[q]
    <3>1. c \in Txs
      BY DEF Txs
    <3> QED
      BY <1>4, <2>6, <3>1, ArrivesKeeps DEF ArriveCall
  <2>7. CASE Crash
    <3>1. submit'[q] = submit[q] \/ submit'[q] = [NoSubmit EXCEPT !.at = "done"]
      BY <2>7 DEF Crash, TypeOK
    <3> QED
      BY <1>4, <3>1, <2>1 DEF NoSubmit
  <2>8. ASSUME NEW r \in Creates,
               Look(r) \/ BuildRemittance(r) \/ InsertRemittance(r) \/ CreateFails(r)
        PROVE  submit'[q] = submit[q]
    BY <2>8 DEF Look, BuildRemittance, InsertRemittance, CreateFails
  <2>9. ASSUME \/ \E c \in Calls : BuildCall(c)
               \/ \E u \in Txs : Apply(u) \/ Expire(u)
               \/ Tick \/ UNCHANGED vars
        PROVE  submit'[q] = submit[q]
    BY <2>9 DEF BuildCall, Apply, Expire, Tick, vars
  <2> QED
    BY <2>1, <2>2, <2>3, <2>4, <2>5, <2>6, <2>7, <2>8, <2>9 DEF Next
<1> QED
  BY <1>3, <1>4 DEF RecordsTellChain, True, Holds

Tells(r) ==
  /\ rows[r].status \in {"none", "pending"} => sends[r] = 0
  /\ rows[r].status = "completed" => sends[r] > 0
  /\ rows[r].hash # None <=> rows[r].status = "completed"

LEMMA StatusStep ==
  ASSUME TypeOK, CreationsFresh, SubmitsFollowRows, StatusTellsSends, [Next]_vars
  PROVE  StatusTellsSends'
<1> SUFFICES ASSUME NEW r \in Creates PROVE Tells(r)'
  BY DEF StatusTellsSends, Tells
<1> USE RemittanceAssumption DEF network, history, Tells
<1>0. Tells(r) /\ rows[r] \in Row /\ sends[r] \in Nat
  BY DEF StatusTellsSends, TypeOK
<1>1. ASSUME rows'[r] = rows[r], sends'[r] = sends[r] PROVE Tells(r)'
  BY <1>0, <1>1
<1>2. ASSUME NEW s \in Creates, InsertRemittance(s) \/ CreateFails(s) PROVE Tells(r)'
  <2>1. CASE s = r /\ create[r].at = "inserting" /\ Insert(r)
    <3>1. sends'[r] = 0
      BY <1>0, <1>2, <2>1 DEF InsertRemittance, CreateFails, CreationsFresh, Fresh, NoRow
    <3> QED
      BY <2>1, <3>1, InsertKeeps
  <2>2. CASE s # r \/ rows' = rows
    BY <1>1, <1>2, <2>2, InsertKeeps DEF InsertRemittance, CreateFails
  <2> QED
    BY <1>2, <2>1, <2>2 DEF InsertRemittance, CreateFails
<1>3. ASSUME NEW q \in Submits, Work(q) \/ SubmitFails(q) PROVE Tells(r)'
  <2>1. Touches(q) /\ Follows(q)
    BY <1>3, WorkTouches DEF SubmitsFollowRows
  <2>2. CASE submit[q].id # r
    BY <1>1, <2>1, <2>2 DEF Touches
  <2>3. CASE submit[q].id = r /\ submit[q].at = "sending"
    <3>1. rows' = rows
      BY <1>3, <2>3 DEF Work, Mark, Send, Poll, Complete, Notify, Fail, Record, SubmitFails
    <3>2. rows[r].status \notin {"none", "pending"}
      BY <2>1, <2>3 DEF Follows, At, Exists, Txs
    <3>3. sends'[r] \in {sends[r], sends[r] + 1}
      BY <2>1 DEF Touches
    <3> QED
      BY <1>0, <3>1, <3>2, <3>3
  <2>4. CASE submit[q].id = r /\ submit[q].at # "sending"
    <3>1. sends'[r] = sends[r]
      BY <2>1, <2>4 DEF Touches
    <3>2. \/ rows'[r] = rows[r]
          \/ rows'[r].status \in {"processing", "failed"} /\ rows'[r].hash = None
          \/ /\ rows'[r].status = "completed" /\ rows'[r].hash \in Txs
             /\ submit[q].at = "completing"
      <4>1. CASE Mark(q)
        BY <2>4, <4>1, SetStatusKeeps DEF Mark
      <4>2. CASE Send(q) \/ Poll(q) \/ Notify(q) \/ Record(q)
        BY <4>2 DEF Send, Poll, Notify, Record
      <4>3. CASE Complete(q)
        <5>1. submit[q].tx \in Txs
          BY <4>3, Refers DEF Complete, At
        <5> QED
          BY <2>4, <4>3, <5>1, SetStatusKeeps DEF Complete
      <4>4. CASE Fail(q)
        BY <2>4, <4>4, SetStatusKeeps DEF Fail, Failed
      <4>5. CASE SubmitFails(q)
        BY <2>4, <4>5, Refers, SetStatusKeeps DEF SubmitFails, Failed, At
      <4> QED
        BY <1>3, <4>1, <4>2, <4>3, <4>4, <4>5 DEF Work
    <3>3. submit[q].at = "completing" => sends[r] > 0
      BY <2>1, <2>4 DEF Follows, At
    <3> QED
      BY <1>0, <3>1, <3>2, <3>3
  <2> QED
    BY <2>2, <2>3, <2>4
<1>4. ASSUME NEW s \in Creates, Look(s) \/ BuildRemittance(s) PROVE Tells(r)'
  BY <1>1, <1>4 DEF Look, BuildRemittance
<1>5. ASSUME NEW q \in Submits,
             \/ \E s \in Creates, u \in Txs : Arrive(q, s, u)
             \/ \E c \in Txs : ArriveCall(q, c)
      PROVE  Tells(r)'
  BY <1>1, <1>5 DEF Arrive, ArriveCall
<1>6. ASSUME \/ \E c \in Calls : BuildCall(c)
             \/ \E u \in Txs : Apply(u) \/ Expire(u)
             \/ Tick \/ Crash \/ UNCHANGED vars
      PROVE  Tells(r)'
  BY <1>1, <1>6 DEF BuildCall, Apply, Expire, Tick, Crash, vars
<1> QED
  BY <1>2, <1>3, <1>4, <1>5, <1>6 DEF Next

LEMMA TablesInvInit == Init => TablesInv
<1> SUFFICES ASSUME Init PROVE TablesInv
  OBVIOUS
<1> USE RemittanceAssumption DEF Init, NoRow, NoCreate, NoSubmit
<1>1. TypeOK
  <2>1. /\ NoRow \in Row /\ NoCreate \in CreateState /\ NoSubmit \in SubmitState
    BY DEF Row, CreateState, SubmitState
  <2> QED
    BY <2>1 DEF TypeOK
<1>2. CreationsFresh
  BY DEF CreationsFresh, Fresh, Creating, Exists, Txs
<1>3. SubmitsFollowRows
  BY DEF SubmitsFollowRows, Follows, At
<1>4. RecordsTellChain /\ StatusTellsSends
  BY DEF RecordsTellChain, True, StatusTellsSends
<1> QED
  BY <1>1, <1>2, <1>3, <1>4 DEF TablesInv

LEMMA TablesInvNext == TablesInv /\ [Next]_vars => TablesInv'
  BY TypeStep, CreationsStep, FollowsStep, RecordsStep, StatusStep DEF TablesInv

(* The tables never say more of a transaction or a remittance than what    *)
(* the network and the submits have made of it.                            *)
THEOREM TablesStaySound == Spec => []TablesSound
<1>1. TablesInv => TablesSound
  BY DEF TablesInv, TablesSound
<1> QED
  BY <1>1, TablesInvInit, TablesInvNext, PTL DEF Spec

------------------------------------------------------------------------------
LEMMA AloneStep ==
  ASSUME TablesInv, SentAlone, [Next]_vars
  PROVE  SentAlone'
<1> SUFFICES ASSUME NEW r \in Creates, r \notin raced' PROVE Alone(r)'
  BY DEF SentAlone
<1> USE RemittanceAssumption DEF network, history, Bound, At
<1>0. /\ TypeOK /\ SubmitsFollowRows /\ r # None /\ sends[r] \in Nat
      /\ rows[r].status = "pending" => sends[r] = 0
  BY DEF TablesInv, TypeOK, StatusTellsSends, Txs
<1>1. ASSUME raced' = raced, sends'[r] = sends[r], \A q \in Submits : Bound(q, r)' => Bound(q, r)
      PROVE  Alone(r)'
  BY <1>1 DEF SentAlone, Alone
<1>2. ASSUME NEW q \in Submits, NEW s \in Creates, NEW t \in Txs, Arrive(q, s, t)
      PROVE  Alone(r)'
  <2>1. t \in Txs
    BY DEF Txs
  <2>2. CASE s = r /\ Submittable(s) /\ Arrives(q, s, t, "marking")
             /\ raced' = IF \E p \in Submits : submit[p].id = s /\ submit[p].at = "marking"
                         THEN raced \cup {s} ELSE raced
    <3>1. \A p \in Submits : submit[p].id = r => submit[p].at # "marking"
      BY <2>2
    <3>2. \A p \in Submits : submit[p].id = r => submit[p].at # "sending"
      BY <1>0, <2>2 DEF SubmitsFollowRows, Follows, Submittable
    <3>3. \A p \in Submits \ {q} : ~Bound(p, r)'
      BY <1>0, <2>1, <2>2, <3>1, <3>2, ArrivesKeeps
    <3>4. sends'[r] = 0
      BY <1>0, <1>2, <2>2 DEF Arrive, Submittable
    <3> QED
      BY <3>3, <3>4 DEF Alone
  <2>3. CASE s # r \/ (Arrives(q, s, t, "failing") /\ raced' = raced)
    <3>1. \A p \in Submits : Bound(p, r)' => Bound(p, r)
      BY <1>0, <1>2, <2>1, <2>3, ArrivesKeeps DEF Arrive
    <3>2. r \notin raced /\ sends'[r] = sends[r]
      BY <1>2, <2>3 DEF Arrive
    <3> QED
      BY <3>1, <3>2 DEF SentAlone, Alone
  <2> QED
    BY <1>2, <2>2, <2>3 DEF Arrive
<1>3. ASSUME NEW q \in Submits, NEW c \in Txs, ArriveCall(q, c) PROVE Alone(r)'
  <2>1. c \in Txs
    BY DEF Txs
  <2>2. \A p \in Submits : Bound(p, r)' => Bound(p, r)
    BY <1>0, <1>3, <2>1, ArrivesKeeps DEF ArriveCall
  <2> QED
    BY <1>1, <1>3, <2>2 DEF ArriveCall
<1>4. ASSUME NEW q \in Submits, Work(q) \/ SubmitFails(q) PROVE Alone(r)'
  <2>1. Touches(q)
    BY <1>0, <1>4, WorkTouches
  <2>2. /\ submit'[q].id \in {submit[q].id, None}
        /\ submit'[q].at = "sending" => submit[q].at = "marking"
        /\ submit'[q].at # "marking"
    <3>1. CASE Mark(q) \/ Complete(q) \/ Notify(q) \/ Fail(q) \/ Record(q) \/ SubmitFails(q)
      BY <1>0, <3>1, GoesKeeps, EndsKeeps
         DEF Mark, Complete, Notify, Fail, Record, SubmitFails
    <3>2. CASE Send(q)
      BY <1>0, <3>2, RepliesKnown, AnsweredKeeps, GoesKeeps DEF Send, Answers
    <3>3. CASE Poll(q)
      <4>1. Polled(submit[q].tx) \in Answers
        BY DEF Polled, Answers
      <4> QED
        BY <1>0, <3>3, <4>1, AnsweredKeeps DEF Poll
    <3> QED
      BY <1>4, <3>1, <3>2, <3>3 DEF Work
  <2>3. r \notin raced /\ Alone(r)
    BY <2>1 DEF Touches, SentAlone
  <2>4. \A p \in Submits : Bound(p, r)' => Bound(p, r)
    BY <1>0, <2>1, <2>2 DEF Touches
  <2>5. CASE sends'[r] = sends[r]
    BY <2>3, <2>4, <2>5 DEF Alone
  <2>6. CASE sends'[r] # sends[r]
    <3>1. submit[q].id = r /\ submit[q].at = "sending" /\ sends'[r] = sends[r] + 1
      BY <2>1, <2>6 DEF Touches
    <3>2. sends[r] = 0 /\ \A p \in Submits \ {q} : ~Bound(p, r)
      BY <2>3, <3>1 DEF Alone
    <3>3. ~Bound(q, r)'
      BY <2>2, <3>1
    <3> QED
      BY <2>4, <3>1, <3>2, <3>3 DEF Alone
  <2> QED
    BY <2>5, <2>6
<1>5. ASSUME NEW s \in Creates,
             Look(s) \/ BuildRemittance(s) \/ InsertRemittance(s) \/ CreateFails(s)
      PROVE  Alone(r)'
  BY <1>1, <1>5 DEF Look, BuildRemittance, InsertRemittance, CreateFails
<1>6. CASE Crash
  <2>1. \A q \in Submits : submit'[q] = submit[q] \/ submit'[q].at = "done"
    BY <1>6 DEF Crash, NoSubmit
  <2> QED
    BY <1>1, <1>6, <2>1 DEF Crash
<1>7. ASSUME \/ \E c \in Calls : BuildCall(c)
             \/ \E u \in Txs : Apply(u) \/ Expire(u)
             \/ Tick \/ UNCHANGED vars
      PROVE  Alone(r)'
  BY <1>1, <1>7 DEF BuildCall, Apply, Expire, Tick, vars
<1> QED
  BY <1>2, <1>3, <1>4, <1>5, <1>6, <1>7 DEF Next

LEMMA OverlapsStep ==
  ASSUME TablesInv, OverlapsKept, [Next]_vars
  PROVE  OverlapsKept'
<1> SUFFICES ASSUME NEW r \in Creates, NEW s \in Creates \ {r}, Together(r, s)'
             PROVE  {r, s} \in overlapped'
  BY DEF OverlapsKept
<1> USE RemittanceAssumption DEF network, history, Exists, Creating
<1>0. /\ TypeOK /\ CreationsFresh /\ SubmitsFollowRows
      /\ \A x \in Creates : rows[x] \in Row /\ create[x] \in CreateState /\ Fresh(x)
      /\ clock \in Nat /\ {r, s} = {s, r}
  BY DEF TablesInv, TypeOK, CreationsFresh
<1>1. ASSUME overlapped \subseteq overlapped',
             \A x \in {r, s} :
               /\ Exists(x)' => Exists(x) /\ rows'[x].created = rows[x].created
               /\ Creating(x)' => Creating(x) /\ create'[x].created = create[x].created
      PROVE  {r, s} \in overlapped'
  <2>1. Together(r, s)
    BY <1>1 DEF Together, Identical
  <2> QED
    BY <1>1, <2>1 DEF OverlapsKept
<1>2. ASSUME NEW x \in Creates, Look(x) PROVE {r, s} \in overlapped'
  <2>1. \A y \in Creates \ {x} : create'[y] = create[y]
    BY <1>0, <1>2, CreateEndsKeeps DEF Look, TypeOK
  <2>2. create[x].at = "new" /\ rows' = rows /\ overlapped \subseteq overlapped'
    BY <1>2 DEF Look
  <2>3. CASE Duplicates(x) # {} \/ x \notin {r, s}
    <3>1. \A y \in {r, s} : Creating(y)' => Creating(y) /\ create'[y] = create[y]
      BY <1>0, <1>2, <2>1, <2>3, CreateEndsKeeps DEF Look
    <3> QED
      BY <1>1, <2>2, <3>1
  <2>4. ASSUME NEW y \in Creates \ {x}, {x, y} = {r, s}, Duplicates(x) = {}
        PROVE  {r, s} \in overlapped'
    <3>1. overlapped' = overlapped \cup {{x, z} : z \in {z \in Creates : Creating(z)}}
      BY <1>2, <2>4 DEF Look
    <3>2. CASE Creating(y)
      BY <2>4, <3>1, <3>2
    <3>3. CASE ~Creating(y)
      <4>1. ~Creating(y)' /\ ~Exists(x)'
        BY <1>0, <2>1, <2>2, <3>3 DEF Fresh, NoRow
      <4>2. r = y /\ s = x /\ Exists(y) /\ Asked[x] = Asked[y]
               /\ Near(rows[y].created, create'[x].created)
        BY <2>2, <2>4, <4>1 DEF Together, Identical
      <4>3. create'[x].created = clock
        BY <1>0, <1>2, <2>4 DEF Look, TypeOK
      <4>4. rows[y].created \in Nat /\ rows[y].created >= clock - Window
        BY <1>0, <4>2, <4>3 DEF Near, Row
      <4>5. y \in Duplicates(x)
        BY <4>2, <4>4 DEF Duplicates, Recent
      <4> QED
        BY <2>4, <4>5
    <3> QED
      BY <3>2, <3>3
  <2> QED
    BY <2>3, <2>4
<1>3. ASSUME NEW x \in Creates, create[x].at = "inserting", Insert(x), CreateEnds(x),
             UNCHANGED overlapped
      PROVE  {r, s} \in overlapped'
  <2>1. /\ rows'[x].created = create[x].created /\ ~Creating(x)'
        /\ \A y \in Creates \ {x} : rows'[y] = rows[y] /\ create'[y] = create[y]
    BY <1>0, <1>3, InsertKeeps, CreateEndsKeeps
  <2>2. Creating(x) /\ rows[x].status = "none"
    BY <1>0, <1>3 DEF Fresh, NoRow
  <2>3. CASE x \notin {r, s}
    BY <1>1, <1>3, <2>1, <2>3
  <2>4. ASSUME NEW y \in Creates \ {x}, {x, y} = {r, s} PROVE {r, s} \in overlapped'
    <3>1. CASE Creating(y)
      BY <1>3, <2>2, <2>4, <3>1 DEF OverlapsKept, Together
    <3>2. CASE ~Creating(y)
      <4>1. ~Creating(y)'
        BY <2>1, <3>2
      <4>2. Exists(y) /\ Asked[x] = Asked[y] /\ Near(rows[y].created, create[x].created)
        BY <2>1, <2>4, <4>1 DEF Together, Identical, Near
      <4>3. Together(y, x)
        BY <2>2, <4>2 DEF Together
      <4> QED
        BY <1>3, <2>4, <4>3 DEF OverlapsKept
    <3> QED
      BY <3>1, <3>2
  <2> QED
    BY <2>3, <2>4
<1>4. ASSUME NEW x \in Creates, CreateEnds(x), UNCHANGED <<rows, overlapped>>
      PROVE  {r, s} \in overlapped'
  BY <1>0, <1>1, <1>4, CreateEndsKeeps
<1>5. ASSUME NEW x \in Creates, InsertRemittance(x) \/ CreateFails(x)
      PROVE  {r, s} \in overlapped'
  BY <1>3, <1>4, <1>5 DEF InsertRemittance, CreateFails
<1>6. ASSUME NEW x \in Creates, BuildRemittance(x) PROVE {r, s} \in overlapped'
  <2>1. \A y \in Creates : /\ Creating(y)' => Creating(y)
                           /\ create'[y].created = create[y].created
    BY <1>0, <1>6 DEF BuildRemittance, TypeOK, CreateState
  <2> QED
    BY <1>1, <1>6, <2>1 DEF BuildRemittance
<1>7. ASSUME NEW q \in Submits, Work(q) \/ SubmitFails(q) PROVE {r, s} \in overlapped'
  <2>1. Touches(q)
    BY <1>0, <1>7, WorkTouches
  <2>2. \A x \in Creates : rows'[x] # rows[x] => Exists(x)
    <3>1. Follows(q)
      BY <1>0 DEF SubmitsFollowRows
    <3> QED
      BY <2>1, <3>1 DEF Touches, Follows, Txs
  <2> QED
    BY <1>1, <2>1, <2>2 DEF Touches
<1>8. CASE Crash
  <2>1. \A x \in Creates : create'[x] = create[x] \/ create'[x].at = "done"
    BY <1>8 DEF Crash, NoCreate
  <2> QED
    BY <1>1, <1>8, <2>1 DEF Crash
<1>9. ASSUME NEW q \in Submits,
             \/ \E x \in Creates, t \in Txs : Arrive(q, x, t)
             \/ \E c \in Txs : ArriveCall(q, c)
      PROVE  {r, s} \in overlapped'
  BY <1>1, <1>9 DEF Arrive, ArriveCall
<1>10. ASSUME \/ \E c \in Calls : BuildCall(c)
              \/ \E u \in Txs : Apply(u) \/ Expire(u)
              \/ Tick \/ UNCHANGED vars
       PROVE  {r, s} \in overlapped'
  BY <1>1, <1>10 DEF BuildCall, Apply, Expire, Tick, vars
<1> QED
  BY <1>2, <1>5, <1>6, <1>7, <1>8, <1>9, <1>10 DEF Next

LEMMA RepeatInvInit == Init => RepeatInv
<1> SUFFICES ASSUME Init PROVE RepeatInv
  OBVIOUS
<1>1. TablesInv
  BY TablesInvInit
<1>2. SentAlone
  <2> SUFFICES ASSUME NEW r \in Creates PROVE Alone(r)
    BY DEF SentAlone
  <2>1. \A q \in Submits : ~Bound(q, r)
    <3>1. \A q \in Submits : submit[q].at = "new"
      BY DEF Init, NoSubmit
    <3> QED
      BY <3>1 DEF Bound, At
  <2>2. sends[r] <= 1
    BY DEF Init
  <2> QED
    BY <2>1, <2>2 DEF Alone
<1>3. OverlapsKept
  BY DEF Init, OverlapsKept, Together, Identical, Creating, Exists, NoCreate, NoRow
<1> QED
  BY <1>1, <1>2, <1>3 DEF RepeatInv

LEMMA RepeatInvNext == RepeatInv /\ [Next]_vars => RepeatInv'
  BY TablesInvNext, AloneStep, OverlapsStep DEF RepeatInv

(* Only a race of two creations leaves two identical remittances in one    *)
(* window, and only a race of two submits sends one remittance twice.      *)
THEOREM OnlyRacesDoRepeat == Spec => []OnlyRacesRepeat
<1>1. RepeatInv => OnlyRacesRepeat
  BY DEF RepeatInv, SentAlone, Alone, OverlapsKept, Together, OnlyRacesRepeat
<1> QED
  BY <1>1, RepeatInvInit, RepeatInvNext, PTL DEF Spec
==============================================================================
