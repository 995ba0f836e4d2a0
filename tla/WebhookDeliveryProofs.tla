------------------------- MODULE WebhookDeliveryProofs -------------------------
(***************************************************************************)
(* Theorems about webhook deliveries, for any subscriptions, events, passes*)
(* and number of attempts.  The invariant speaks of one delivery at a time,*)
(* through what each pass has of it: a pass may write an attempt count it  *)
(* read long ago, so what it read is bounded by the posts made since, and  *)
(* of a delivery neither lost nor shared every post is counted somewhere.  *)
(***************************************************************************)
EXTENDS WebhookDelivery, TLAPS

------------------------------------------------------------------------------
(***************************************************************************)
(* One delivery, apart from the others: the state of its first attempt s,  *)
(* how often it was posted (n) and accepted (a), its row, whether it was   *)
(* lost or shared (1 or 0), and what each pass has of it (v).              *)
(***************************************************************************)
Row == [attempts : 0 .. MaxAttempts, delivered : BOOLEAN,
        retry : {"norow", "never", "later", "due"}, refused : BOOLEAN]

Sending == Answers \cup {"none", "posting", "done"}

Flag == 0 .. 1

View == [phase : {"free", "held", "posting"}, read : Nat, answer : Answers \cup {"none"}]

Shape(s, n, a, row, out, twice, v) ==
  /\ s \in Sending /\ n \in Nat /\ a \in Nat /\ row \in Row
  /\ out \in Flag /\ twice \in Flag
  /\ v \in [Passes -> View]

(* Until the first attempt is recorded there is neither row nor retry.     *)
FirstAttempt(s, n, a, row, out, v) ==
  /\ row.retry # "norow" => s = "done"
  /\ \A p \in Passes : v[p].phase # "free" => s = "done"
  /\ s \in {"none", "posting"} => n = 0 /\ a = 0
  /\ s \in Answers =>
       /\ n <= 1 /\ a <= 1
       /\ s # "refused" => n = 1
       /\ s = "ok" => a = 1
       /\ s # "ok" /\ out = 0 => a = 0

(* Nothing is counted, by the row or by a pass about to write it, that was *)
(* not posted, and nothing called delivered that was not accepted.         *)
Counted(n, a, row, out, v) ==
  /\ row.attempts <= n
  /\ row.delivered => a > 0
  /\ row.retry # "norow" /\ a > 0 /\ out = 0 =>
       \/ row.delivered
       \/ \E p \in Passes : v[p].phase = "posting" /\ v[p].answer = "ok"
  /\ \A p \in Passes :
       /\ v[p].phase # "free" => v[p].read <= n /\ v[p].read < MaxAttempts
       /\ v[p].phase = "posting" =>
            /\ v[p].answer \in Answers
            /\ v[p].answer # "refused" => v[p].read + 1 <= n
            /\ v[p].answer = "ok" => a > 0

(* Of a delivery neither lost nor shared every post is counted, by the row *)
(* as long as it is to be tried again, or by the one pass that has it.     *)
Budgeted(n, a, row, v) ==
  /\ n <= MaxAttempts /\ a <= 1
  /\ \A p, q \in Passes : v[p].phase # "free" /\ v[q].phase # "free" => p = q
  /\ \A p \in Passes : v[p].phase = "held" => n <= v[p].read /\ a = 0
  /\ \A p \in Passes : v[p].phase = "posting" =>
       n <= v[p].read + 1 /\ (v[p].answer # "ok" => a = 0)
  /\ row.retry \in {"later", "due"} /\ (\A p \in Passes : v[p].phase # "posting")
       => n <= row.attempts /\ a = 0

Good(s, n, a, row, out, twice, v) ==
  /\ Shape(s, n, a, row, out, twice, v)
  /\ FirstAttempt(s, n, a, row, out, v)
  /\ Counted(n, a, row, out, v)
  /\ out = 0 /\ twice = 0 => Budgeted(n, a, row, v)

(* What a pass, with this in its memory, has of a delivery.                *)
Look(m, d) ==
  [phase  |-> IF m.now = {d} THEN "posting" ELSE IF d \in DOMAIN m.todo THEN "held" ELSE "free",
   read   |-> IF d \in DOMAIN m.todo THEN m.todo[d] ELSE 0,
   answer |-> IF m.now = {d} THEN m.answer ELSE "none"]

Views(memory, d) == [p \in Passes |-> Look(memory[p], d)]

FlagOf(S, d) == IF d \in S THEN 1 ELSE 0

DeliveryGood(d) ==
  Good(sends[d], posts[d], accepted[d], rows[d], FlagOf(lost, d), FlagOf(shared, d),
       Views(passes, d))

Todo == UNION {[D -> Nat] : D \in SUBSET Deliveries}

Pass == [todo : Todo, now : SUBSET Deliveries, answer : Answers \cup {"none"}]

Typed ==
  /\ hooks \in [Hooks -> {"active", "muted", "deleted"}]
  /\ dispatched \subseteq Events
  /\ sends \in [Deliveries -> Sending]
  /\ rows \in [Deliveries -> Row]
  /\ passes \in [Passes -> Pass]
  /\ posts \in [Deliveries -> Nat] /\ accepted \in [Deliveries -> Nat]
  /\ faults \in 0 .. MaxFaults
  /\ shared \subseteq Deliveries /\ lost \subseteq Deliveries

(* A pass posts one delivery at a time, of those it took.                  *)
OneAtATime ==
  \A p \in Passes :
    /\ passes[p].now \subseteq DOMAIN passes[p].todo
    /\ passes[p].now = {} \/ \E d \in Deliveries : passes[p].now = {d}

DispatchedOnce == \A d \in Deliveries : sends[d] # "none" => d[2] \in dispatched

WebhookInv ==
  /\ Typed
  /\ OneAtATime
  /\ DispatchedOnce
  /\ \A d \in Deliveries : DeliveryGood(d)

------------------------------------------------------------------------------
(***************************************************************************)
(* What the steps do to one delivery.                                      *)
(***************************************************************************)
LEMMA DispatchGood ==
  ASSUME NEW n, NEW a, NEW row, NEW out, NEW twice, NEW v,
         Good("none", n, a, row, out, twice, v)
  PROVE  Good("posting", n, a, row, out, twice, v)
BY DEF Good, Shape, FirstAttempt, Counted, Budgeted, Sending, Answers

(* What a POST adds up to.                                                 *)
PostedTo(n, a, n2, a2, answer) ==
  /\ n2 = n + 1 \/ (answer = "refused" /\ n2 = n)
  /\ a2 = IF answer = "ok" THEN a + 1 ELSE a

LEMMA SendPostGood ==
  ASSUME NEW n, NEW a, NEW row, NEW out, NEW twice, NEW v, NEW answer \in Answers, NEW n2, NEW a2,
         Good("posting", n, a, row, out, twice, v), PostedTo(n, a, n2, a2, answer)
  PROVE  Good(answer, n2, a2, row, out, twice, v)
<1>1. /\ n = 0 /\ a = 0 /\ row.retry = "norow"
      /\ \A p \in Passes : v[p].phase = "free"
      /\ n2 \in 0 .. 1 /\ a2 \in 0 .. 1
      /\ answer # "refused" => n2 = 1
      /\ answer = "ok" => a2 = 1
      /\ answer # "ok" => a2 = 0
      /\ row \in Row /\ v \in [Passes -> View] /\ out \in Flag /\ twice \in Flag
      /\ row.attempts = 0 /\ row.delivered = FALSE
  BY DEF Good, Shape, FirstAttempt, Counted, Sending, Row, View, PostedTo
<1>2. answer \in Sending /\ 1 <= MaxAttempts /\ MaxAttempts \in Nat
  BY WebhookAssumption DEF Sending
<1>3. Shape(answer, n2, a2, row, out, twice, v)
  BY <1>1, <1>2 DEF Shape
<1>4. FirstAttempt(answer, n2, a2, row, out, v)
  BY <1>1 DEF FirstAttempt, Answers
<1>5. Counted(n2, a2, row, out, v)
  BY <1>1 DEF Counted
<1>6. Budgeted(n2, a2, row, v)
  BY <1>1, <1>2 DEF Budgeted
<1> QED
  BY <1>3, <1>4, <1>5, <1>6 DEF Good

LEMMA SendRecordGood ==
  ASSUME NEW s \in Answers, NEW n, NEW a, NEW row, NEW out, NEW twice, NEW v,
         Good(s, n, a, row, out, twice, v)
  PROVE  Good("done", n, a, FirstRow(s), out, twice, v)
<1>1. PICK r : r = FirstRow(s)
  OBVIOUS
<1>2. /\ r.attempts = IF s = "refused" THEN 0 ELSE 1
      /\ r.delivered = (s = "ok")
      /\ r.retry = IF s \in {"ok", "refused"} THEN "never" ELSE "later"
      /\ r \in Row
  <2>1. 0 \in 0 .. MaxAttempts /\ 1 \in 0 .. MaxAttempts
    BY WebhookAssumption
  <2>2. /\ (IF s = "refused" THEN 0 ELSE 1) \in 0 .. MaxAttempts
        /\ (s = "ok") \in BOOLEAN /\ (s = "refused") \in BOOLEAN
        /\ (IF s \in {"ok", "refused"} THEN "never" ELSE "later")
             \in {"norow", "never", "later", "due"}
    BY <2>1
  <2>3. r \in Row
    BY <1>1, <2>2 DEF FirstRow, Row
  <2> QED
    BY <1>1, <2>3 DEF FirstRow
<1>3. /\ n \in 0 .. 1 /\ a \in 0 .. 1
      /\ \A p \in Passes : v[p].phase = "free"
      /\ s # "refused" => n = 1
      /\ s = "ok" => a = 1
      /\ s # "ok" /\ out = 0 => a = 0
      /\ v \in [Passes -> View] /\ out \in Flag /\ twice \in Flag
  BY DEF Good, Shape, FirstAttempt, Answers, View
<1>4. "done" \in Sending /\ "done" \notin Answers \cup {"none", "posting"}
  BY DEF Sending, Answers
<1>5. Shape("done", n, a, r, out, twice, v)
  BY <1>2, <1>3, <1>4 DEF Shape
<1>6. FirstAttempt("done", n, a, r, out, v)
  BY <1>4 DEF FirstAttempt
<1>7. Counted(n, a, r, out, v)
  <2>1. r.attempts <= n
    BY <1>2, <1>3
  <2>0. (r.delivered => s = "ok") /\ (s = "ok" => r.delivered)
    BY <1>2, Zenon
  <2>2. r.delivered => a > 0
    BY <1>3, <2>0
  <2>3. a > 0 /\ out = 0 => r.delivered
    BY <1>3, <2>0
  <2>4. \A p \in Passes : v[p].phase # "posting"
    BY <1>3
  <2> QED
    BY <1>3, <2>1, <2>2, <2>3, <2>4 DEF Counted
<1>8. out = 0 => Budgeted(n, a, r, v)
  BY <1>2, <1>3, WebhookAssumption DEF Budgeted
<1> QED
  BY <1>1, <1>5, <1>6, <1>7, <1>8 DEF Good

(* Whatever happens to a delivery that is lost, only what is counted of it *)
(* must stay true.                                                         *)
LEMMA SendRecordFailsGood ==
  ASSUME NEW s \in Answers, NEW n, NEW a, NEW row, NEW out, NEW twice, NEW v,
         Good(s, n, a, row, out, twice, v)
  PROVE  Good(IF s \in {"ok", "status"} THEN "broken" ELSE "done", n, a, row,
              IF s = "status" THEN out ELSE 1, twice, v)
<1>1. /\ n \in 0 .. 1 /\ a \in 0 .. 1
      /\ row.retry = "norow" /\ row \in Row /\ row.attempts <= n /\ (row.delivered => a > 0)
      /\ \A p \in Passes : v[p].phase = "free"
      /\ s # "refused" => n = 1
      /\ s # "ok" /\ out = 0 => a = 0
      /\ v \in [Passes -> View] /\ out \in Flag /\ twice \in Flag
  BY DEF Good, Shape, FirstAttempt, Counted, Answers, View
<1>2. PICK s2, out2 : s2 = (IF s \in {"ok", "status"} THEN "broken" ELSE "done")
                      /\ out2 = (IF s = "status" THEN out ELSE 1)
  OBVIOUS
<1>3. /\ out2 \in Flag
      /\ s2 \in Sending
      /\ s2 \in Answers => s2 = "broken" /\ s # "refused"
      /\ s2 \notin {"none", "posting"}
      /\ s2 # "done" => s2 \in Answers
      /\ out2 = 0 => s = "status" /\ out = 0
  BY <1>1, <1>2 DEF Flag, Sending, Answers
<1>4. Shape(s2, n, a, row, out2, twice, v)
  BY <1>1, <1>3 DEF Shape
<1>5. FirstAttempt(s2, n, a, row, out2, v)
  BY <1>1, <1>3 DEF FirstAttempt
<1>6. Counted(n, a, row, out2, v)
  BY <1>1 DEF Counted
<1>7. Budgeted(n, a, row, v)
  BY <1>1, WebhookAssumption DEF Budgeted
<1> QED
  BY <1>2, <1>4, <1>5, <1>6, <1>7 DEF Good

(* A pass takes a row it may try again: if another pass has it, the two    *)
(* share it.                                                               *)
LEMMA TakeGood ==
  ASSUME NEW s, NEW n, NEW a, NEW row, NEW out, NEW twice, NEW v, NEW p \in Passes,
         Good(s, n, a, row, out, twice, v),
         v[p].phase = "free",
         row.retry = "due", row.attempts < MaxAttempts,
         NEW twice2 \in Flag,
         twice2 = 0 => twice = 0 /\ \A q \in Passes \ {p} : v[q].phase = "free",
         NEW v2 \in [Passes -> View],
         \A q \in Passes \ {p} : v2[q] = v[q],
         v2[p].phase = "held", v2[p].read = row.attempts
  PROVE  Good(s, n, a, row, out, twice2, v2)
<1>1. /\ Shape(s, n, a, row, out, twice, v)
      /\ FirstAttempt(s, n, a, row, out, v)
      /\ Counted(n, a, row, out, v)
      /\ out = 0 /\ twice = 0 => Budgeted(n, a, row, v)
  BY DEF Good
<1>2. s = "done" /\ n \in Nat /\ a \in Nat /\ row.attempts \in Nat /\ MaxAttempts \in Nat
  BY <1>1, WebhookAssumption DEF FirstAttempt, Shape, Row
<1>3. Shape(s, n, a, row, out, twice2, v2)
  BY <1>1 DEF Shape
<1>4. FirstAttempt(s, n, a, row, out, v2)
  BY <1>1, <1>2 DEF FirstAttempt, Answers
<1>5. Counted(n, a, row, out, v2)
  <2>1. \A q \in Passes : v2[q].phase = "posting" <=> q # p /\ v[q].phase = "posting"
    OBVIOUS
  <2>2. row.attempts <= n /\ (row.delivered => a > 0)
    BY <1>1 DEF Counted
  <2>3. row.retry # "norow" /\ a > 0 /\ out = 0 =>
       \/ row.delivered
       \/ \E q \in Passes : v2[q].phase = "posting" /\ v2[q].answer = "ok"
    <3>1. SUFFICES ASSUME row.retry # "norow", a > 0, out = 0, ~row.delivered
                   PROVE  \E q \in Passes : v2[q].phase = "posting" /\ v2[q].answer = "ok"
      OBVIOUS
    <3>2. PICK q \in Passes : v[q].phase = "posting" /\ v[q].answer = "ok"
      BY <1>1, <3>1 DEF Counted
    <3>3. q # p
      BY <3>2
    <3> QED
      BY <3>2, <3>3
  <2>4. ASSUME NEW q \in Passes
        PROVE  /\ v2[q].phase # "free" => v2[q].read <= n /\ v2[q].read < MaxAttempts
               /\ v2[q].phase = "posting" =>
                    /\ v2[q].answer \in Answers
                    /\ v2[q].answer # "refused" => v2[q].read + 1 <= n
                    /\ v2[q].answer = "ok" => a > 0
    <3>1. CASE q = p
      BY <2>2, <3>1
    <3>2. CASE q # p
      BY <1>1, <3>2 DEF Counted
    <3> QED
      BY <3>1, <3>2
  <2> QED
    BY <2>2, <2>3, <2>4 DEF Counted
<1>6. ASSUME out = 0, twice2 = 0 PROVE Budgeted(n, a, row, v2)
  <2>1. Budgeted(n, a, row, v) /\ \A q \in Passes : v[q].phase = "free"
    BY <1>1, <1>6
  <2>2. n <= row.attempts /\ a = 0 /\ n <= MaxAttempts /\ a <= 1
    BY <2>1 DEF Budgeted
  <2>3. \A q \in Passes : v2[q].phase # "free" => q = p
    BY <2>1
  <2> QED
    BY <2>2, <2>3 DEF Budgeted
<1> QED
  BY <1>3, <1>4, <1>5, <1>6 DEF Good

(* A pass posts a delivery it holds.                                       *)
LEMMA RetryPostGood ==
  ASSUME NEW s, NEW n, NEW a, NEW row, NEW out, NEW twice, NEW v, NEW p \in Passes,
         Good(s, n, a, row, out, twice, v),
         v[p].phase = "held",
         NEW answer \in Answers, NEW n2, NEW a2, PostedTo(n, a, n2, a2, answer),
         NEW v2 \in [Passes -> View],
         \A q \in Passes \ {p} : v2[q] = v[q],
         v2[p].phase = "posting", v2[p].read = v[p].read, v2[p].answer = answer
  PROVE  Good(s, n2, a2, row, out, twice, v2)
<1>1. /\ Shape(s, n, a, row, out, twice, v)
      /\ FirstAttempt(s, n, a, row, out, v)
      /\ Counted(n, a, row, out, v)
      /\ out = 0 /\ twice = 0 => Budgeted(n, a, row, v)
  BY DEF Good
<1>2. /\ s = "done" /\ n \in Nat /\ a \in Nat /\ row.attempts \in Nat /\ MaxAttempts \in Nat
      /\ n2 \in Nat /\ a2 \in Nat /\ n <= n2 /\ a <= a2 /\ n2 <= n + 1
      /\ answer # "refused" => n2 = n + 1
      /\ answer = "ok" => a2 = a + 1
      /\ answer # "ok" => a2 = a
      /\ \A q \in Passes : v[q].read \in Nat
  BY <1>1, WebhookAssumption DEF FirstAttempt, Shape, Row, View, PostedTo
<1>3. Shape(s, n2, a2, row, out, twice, v2)
  BY <1>1, <1>2 DEF Shape
<1>4. FirstAttempt(s, n2, a2, row, out, v2)
  BY <1>1, <1>2 DEF FirstAttempt, Answers
<1>5. Counted(n2, a2, row, out, v2)
  <2>1. row.attempts <= n /\ (row.delivered => a > 0)
    BY <1>1 DEF Counted
  <2>2. row.attempts <= n2 /\ (row.delivered => a2 > 0)
    BY <1>2, <2>1
  <2>3. row.retry # "norow" /\ a2 > 0 /\ out = 0 =>
       \/ row.delivered
       \/ \E q \in Passes : v2[q].phase = "posting" /\ v2[q].answer = "ok"
    <3>1. SUFFICES ASSUME row.retry # "norow", a2 > 0, out = 0, ~row.delivered
                   PROVE  \E q \in Passes : v2[q].phase = "posting" /\ v2[q].answer = "ok"
      OBVIOUS
    <3>2. CASE answer = "ok"
      BY <3>2
    <3>3. CASE answer # "ok"
      <4>1. a > 0
        BY <1>2, <3>1, <3>3
      <4>2. PICK q \in Passes : v[q].phase = "posting" /\ v[q].answer = "ok"
        BY <1>1, <3>1, <4>1 DEF Counted
      <4>3. q # p
        BY <4>2
      <4> QED
        BY <4>2, <4>3
    <3> QED
      BY <3>2, <3>3
  <2>4. ASSUME NEW q \in Passes
        PROVE  /\ v2[q].phase # "free" => v2[q].read <= n2 /\ v2[q].read < MaxAttempts
               /\ v2[q].phase = "posting" =>
                    /\ v2[q].answer \in Answers
                    /\ v2[q].answer # "refused" => v2[q].read + 1 <= n2
                    /\ v2[q].answer = "ok" => a2 > 0
    <3>1. CASE q = p
      <4>1. v[p].read <= n /\ v[p].read < MaxAttempts
        BY <1>1 DEF Counted
      <4> QED
        BY <1>2, <3>1, <4>1
    <3>2. CASE q # p
      <4>1. v2[q] = v[q]
        BY <3>2
      <4>2. /\ v[q].phase # "free" => v[q].read <= n /\ v[q].read < MaxAttempts
            /\ v[q].phase = "posting" =>
                    /\ v[q].answer \in Answers
                    /\ v[q].answer # "refused" => v[q].read + 1 <= n
                    /\ v[q].answer = "ok" => a > 0
        BY <1>1 DEF Counted
      <4> QED
        BY <1>2, <4>1, <4>2
    <3> QED
      BY <3>1, <3>2
  <2> QED
    BY <2>2, <2>3, <2>4 DEF Counted
<1>6. ASSUME out = 0, twice = 0 PROVE Budgeted(n2, a2, row, v2)
  <2>1. Budgeted(n, a, row, v)
    BY <1>1, <1>6
  <2>2. \A q \in Passes : v2[q].phase # "free" => q = p
    BY <2>1 DEF Budgeted
  <2>3. n <= v[p].read /\ a = 0 /\ v[p].read < MaxAttempts
    BY <1>1, <2>1 DEF Budgeted, Counted
  <2>4. n2 <= MaxAttempts /\ a2 <= 1 /\ n2 <= v[p].read + 1 /\ (answer # "ok" => a2 = 0)
    BY <1>2, <2>3
  <2> QED
    BY <2>2, <2>4 DEF Budgeted
<1> QED
  BY <1>3, <1>4, <1>5, <1>6 DEF Good

(* Two accounts of a delivery that differ only in what one pass has of it. *)
But(p, v, v2) == v2 \in [Passes -> View] /\ \A q \in Passes \ {p} : v2[q] = v[q]

(* A pass writes what came of its POST, unless the row is gone.            *)
LEMMA RetryRecordGood ==
  ASSUME NEW s, NEW n, NEW a, NEW row, NEW out, NEW twice, NEW v, NEW p \in Passes,
         Good(s, n, a, row, out, twice, v),
         v[p].phase = "posting",
         NEW v2, But(p, v, v2), v2[p].phase = "free"
  PROVE  Good(s, n, a,
              IF row.retry # "norow" THEN Updated(row, v[p].read, v[p].answer) ELSE row,
              out, twice, v2)
<1>1. /\ Shape(s, n, a, row, out, twice, v)
      /\ FirstAttempt(s, n, a, row, out, v)
      /\ Counted(n, a, row, out, v)
      /\ out = 0 /\ twice = 0 => Budgeted(n, a, row, v)
      /\ v2 \in [Passes -> View]
      /\ \A q \in Passes \ {p} : v2[q] = v[q]
  BY DEF Good, But
<1>2. PICK read, answer : read = v[p].read /\ answer = v[p].answer
  OBVIOUS
<1>3. /\ s = "done" /\ n \in Nat /\ a \in Nat /\ row \in Row /\ read \in Nat
      /\ MaxAttempts \in Nat
      /\ read <= n /\ read < MaxAttempts
      /\ answer \in Answers
      /\ answer # "refused" => read + 1 <= n
      /\ answer = "ok" => a > 0
      /\ row.delivered => a > 0
  BY <1>1, <1>2, WebhookAssumption DEF FirstAttempt, Shape, Counted, View
<1>4. PICK r : r = IF row.retry # "norow" THEN Updated(row, read, answer) ELSE row
  OBVIOUS
<1>5. ASSUME row.retry # "norow"
      PROVE  /\ r \in Row
             /\ r.attempts = IF answer = "refused" THEN read ELSE read + 1
             /\ r.delivered = (row.delivered \/ answer = "ok")
             /\ r.retry \in {"later", "due"} => answer \notin {"ok", "refused"}
  <2>1. PICK made : made = IF answer = "refused" THEN read ELSE read + 1
    OBVIOUS
  <2>2. PICK del : del = (row.delivered \/ answer = "ok")
    OBVIOUS
  <2>3. PICK ret : ret = IF answer \in {"ok", "refused"} THEN "never" ELSE RetryAfter(made)
    OBVIOUS
  <2>4. r = [attempts |-> made, delivered |-> del, retry |-> ret, refused |-> answer = "refused"]
    BY <1>4, <1>5, <2>1, <2>2, <2>3 DEF Updated
  <2>5. /\ made \in 0 .. MaxAttempts
        /\ ret \in {"norow", "never", "later", "due"}
        /\ ret \in {"later", "due"} => answer \notin {"ok", "refused"}
    BY <1>3, <2>1, <2>3 DEF RetryAfter
  <2>6. del \in BOOLEAN /\ (answer = "refused") \in BOOLEAN
    BY <2>2
  <2>7. r \in Row
    BY <2>4, <2>5, <2>6 DEF Row
  <2>8. r.attempts = made /\ r.delivered = del /\ r.retry = ret
    BY <2>4
  <2> QED
    BY <2>1, <2>2, <2>5, <2>7, <2>8
<1>6. row.retry = "norow" => r = row
  BY <1>4
<1>7. r \in Row
  BY <1>3, <1>5, <1>6
<1>8. Shape(s, n, a, r, out, twice, v2)
  BY <1>1, <1>7 DEF Shape
<1>9. FirstAttempt(s, n, a, r, out, v2)
  BY <1>3 DEF FirstAttempt, Answers
<1>10. Counted(n, a, r, out, v2)
  <2>1. r.attempts <= n
    <3>1. row.attempts <= n
      BY <1>1 DEF Counted
    <3> QED
      BY <1>3, <1>5, <1>6, <3>1
  <2>2. r.delivered => a > 0
    BY <1>3, <1>5, <1>6
  <2>3. r.retry # "norow" /\ a > 0 /\ out = 0 =>
       \/ r.delivered
       \/ \E q \in Passes : v2[q].phase = "posting" /\ v2[q].answer = "ok"
    <3>1. SUFFICES ASSUME r.retry # "norow", a > 0, out = 0, ~r.delivered
                   PROVE  \E q \in Passes : v2[q].phase = "posting" /\ v2[q].answer = "ok"
      OBVIOUS
    <3>2. row.retry # "norow"
      BY <1>6, <3>1
    <3>3. ~row.delivered /\ answer # "ok"
      BY <1>5, <3>1, <3>2
    <3>4. PICK q \in Passes : v[q].phase = "posting" /\ v[q].answer = "ok"
      BY <1>1, <3>1, <3>2, <3>3 DEF Counted
    <3>5. q # p
      BY <1>2, <3>3, <3>4
    <3> QED
      BY <1>1, <3>4, <3>5
  <2>4. ASSUME NEW q \in Passes
        PROVE  /\ v2[q].phase # "free" => v2[q].read <= n /\ v2[q].read < MaxAttempts
               /\ v2[q].phase = "posting" =>
                    /\ v2[q].answer \in Answers
                    /\ v2[q].answer # "refused" => v2[q].read + 1 <= n
                    /\ v2[q].answer = "ok" => a > 0
    <3>1. CASE q = p
      BY <3>1
    <3>2. CASE q # p
      BY <1>1, <3>2 DEF Counted
    <3> QED
      BY <3>1, <3>2
  <2> QED
    BY <2>1, <2>2, <2>3, <2>4 DEF Counted
<1>11. ASSUME out = 0, twice = 0 PROVE Budgeted(n, a, r, v2)
  <2>1. Budgeted(n, a, row, v)
    BY <1>1, <1>11
  <2>2. \A q \in Passes : v2[q].phase = "free"
    <3>1. ASSUME NEW q \in Passes, v2[q].phase # "free" PROVE FALSE
      <4>1. q # p
        BY <3>1
      <4>2. v[q].phase # "free" /\ v[p].phase # "free"
        BY <1>1, <3>1, <4>1
      <4> QED
        BY <2>1, <4>1, <4>2 DEF Budgeted
    <3> QED
      BY <3>1
  <2>3. /\ n <= MaxAttempts /\ a <= 1
        /\ n <= read + 1 /\ (answer # "ok" => a = 0)
    BY <1>2, <2>1 DEF Budgeted
  <2>4. r.retry \in {"later", "due"} => n <= r.attempts /\ a = 0
    <3>1. CASE row.retry # "norow"
      BY <1>3, <1>5, <2>3, <3>1
    <3>2. CASE row.retry = "norow"
      BY <1>6, <3>2
    <3> QED
      BY <3>1, <3>2
  <2> QED
    BY <2>2, <2>3, <2>4 DEF Budgeted
<1> QED
  BY <1>2, <1>4, <1>8, <1>9, <1>10, <1>11 DEF Good

(* Losing a delivery, or a pass, leaves what is counted of it true.        *)
LEMMA LoseGood ==
  ASSUME NEW s, NEW n, NEW a, NEW row, NEW out, NEW twice, NEW v,
         Good(s, n, a, row, out, twice, v),
         NEW s2, s2 = s \/ (s2 = "done" /\ s # "none"),
         NEW out2 \in Flag, out2 = 0 => out = 0,
         NEW v2 \in [Passes -> View],
         \A q \in Passes : v2[q] = v[q] \/ v2[q].phase = "free",
         (* Only a POST whose outcome was not to be written is forgotten. *)
         out2 = 0 => /\ s2 # s => s \notin Answers \cup {"posting"}
                     /\ \A q \in Passes : v[q].phase = "posting" => v2[q] = v[q]
  PROVE  Good(s2, n, a, row, out2, twice, v2)
<1>1. /\ Shape(s, n, a, row, out, twice, v)
      /\ FirstAttempt(s, n, a, row, out, v)
      /\ Counted(n, a, row, out, v)
      /\ out = 0 /\ twice = 0 => Budgeted(n, a, row, v)
  BY DEF Good
<1>2. Shape(s2, n, a, row, out2, twice, v2)
  BY <1>1 DEF Shape, Sending
<1>3. FirstAttempt(s2, n, a, row, out2, v2)
  <2>1. row.retry # "norow" => s2 = "done"
    BY <1>1 DEF FirstAttempt
  <2>2. \A q \in Passes : v2[q].phase # "free" => s2 = "done"
    BY <1>1 DEF FirstAttempt
  <2>3. s2 \in {"none", "posting"} \cup Answers => s2 = s
    BY DEF Answers
  <2> QED
    BY <1>1, <2>1, <2>2, <2>3 DEF FirstAttempt
<1>4. Counted(n, a, row, out2, v2)
  <2>1. row.retry # "norow" /\ a > 0 /\ out2 = 0 =>
       \/ row.delivered
       \/ \E q \in Passes : v2[q].phase = "posting" /\ v2[q].answer = "ok"
    <3>1. SUFFICES ASSUME row.retry # "norow", a > 0, out2 = 0, ~row.delivered
                   PROVE  \E q \in Passes : v2[q].phase = "posting" /\ v2[q].answer = "ok"
      OBVIOUS
    <3>2. PICK q \in Passes : v[q].phase = "posting" /\ v[q].answer = "ok"
      BY <1>1, <3>1 DEF Counted
    <3> QED
      BY <3>1, <3>2
  <2>2. ASSUME NEW q \in Passes
        PROVE  /\ v2[q].phase # "free" => v2[q].read <= n /\ v2[q].read < MaxAttempts
               /\ v2[q].phase = "posting" =>
                    /\ v2[q].answer \in Answers
                    /\ v2[q].answer # "refused" => v2[q].read + 1 <= n
                    /\ v2[q].answer = "ok" => a > 0
    BY <1>1 DEF Counted
  <2> QED
    BY <1>1, <2>1, <2>2 DEF Counted
<1>5. ASSUME out2 = 0, twice = 0 PROVE Budgeted(n, a, row, v2)
  <2>1. Budgeted(n, a, row, v)
    BY <1>1, <1>5
  <2>2. \A q \in Passes : v2[q].phase # "free" => v2[q] = v[q]
    OBVIOUS
  <2>3. \A q \in Passes : v[q].phase = "posting" => v2[q] = v[q]
    BY <1>5
  <2>4. n <= MaxAttempts /\ a <= 1
    BY <2>1 DEF Budgeted
  <2>5. \A q, r \in Passes : v2[q].phase # "free" /\ v2[r].phase # "free" => q = r
    BY <2>1, <2>2 DEF Budgeted
  <2>6. \A q \in Passes : v2[q].phase = "held" => n <= v2[q].read /\ a = 0
    BY <2>1, <2>2 DEF Budgeted
  <2>7. \A q \in Passes : v2[q].phase = "posting" =>
           n <= v2[q].read + 1 /\ (v2[q].answer # "ok" => a = 0)
    BY <2>1, <2>2 DEF Budgeted
  <2>8. row.retry \in {"later", "due"} /\ (\A q \in Passes : v2[q].phase # "posting")
           => n <= row.attempts /\ a = 0
    BY <2>1, <2>3 DEF Budgeted
  <2> QED
    BY <2>4, <2>5, <2>6, <2>7, <2>8 DEF Budgeted
<1> QED
  BY <1>2, <1>3, <1>4, <1>5 DEF Good

(* The UPDATE fails: the handler goes on as after a POST without an answer.*)
LEMMA RetryBrokenGood ==
  ASSUME NEW s, NEW n, NEW a, NEW row, NEW out, NEW twice, NEW v, NEW p \in Passes,
         Good(s, n, a, row, out, twice, v),
         v[p].phase = "posting", v[p].answer \in {"ok", "status"},
         NEW out2 \in Flag, out2 = 0 => out = 0 /\ v[p].answer = "status",
         NEW v2, But(p, v, v2),
         v2[p].phase = "posting", v2[p].read = v[p].read, v2[p].answer = "broken"
  PROVE  Good(s, n, a, row, out2, twice, v2)
<1>1. /\ Shape(s, n, a, row, out, twice, v)
      /\ FirstAttempt(s, n, a, row, out, v)
      /\ Counted(n, a, row, out, v)
      /\ out = 0 /\ twice = 0 => Budgeted(n, a, row, v)
      /\ v2 \in [Passes -> View]
      /\ \A q \in Passes \ {p} : v2[q] = v[q]
  BY DEF Good, But
<1>2. s = "done"
  BY <1>1 DEF FirstAttempt
<1>3. Shape(s, n, a, row, out2, twice, v2)
  BY <1>1 DEF Shape
<1>4. FirstAttempt(s, n, a, row, out2, v2)
  BY <1>1, <1>2 DEF FirstAttempt, Answers
<1>5. Counted(n, a, row, out2, v2)
  <2>1. row.retry # "norow" /\ a > 0 /\ out2 = 0 =>
       \/ row.delivered
       \/ \E q \in Passes : v2[q].phase = "posting" /\ v2[q].answer = "ok"
    <3>1. SUFFICES ASSUME row.retry # "norow", a > 0, out2 = 0, ~row.delivered
                   PROVE  \E q \in Passes : v2[q].phase = "posting" /\ v2[q].answer = "ok"
      OBVIOUS
    <3>2. PICK q \in Passes : v[q].phase = "posting" /\ v[q].answer = "ok"
      BY <1>1, <3>1 DEF Counted
    <3>3. q # p
      BY <3>1, <3>2
    <3> QED
      BY <1>1, <3>2, <3>3
  <2>2. ASSUME NEW q \in Passes
        PROVE  /\ v2[q].phase # "free" => v2[q].read <= n /\ v2[q].read < MaxAttempts
               /\ v2[q].phase = "posting" =>
                    /\ v2[q].answer \in Answers
                    /\ v2[q].answer # "refused" => v2[q].read + 1 <= n
                    /\ v2[q].answer = "ok" => a > 0
    <3>1. CASE q = p
      <4>1. v[p].read <= n /\ v[p].read < MaxAttempts /\ v[p].read + 1 <= n
        BY <1>1 DEF Counted
      <4> QED
        BY <3>1, <4>1 DEF Answers
    <3>2. CASE q # p
      BY <1>1, <3>2 DEF Counted
    <3> QED
      BY <3>1, <3>2
  <2> QED
    BY <1>1, <2>1, <2>2 DEF Counted
<1>6. ASSUME out2 = 0, twice = 0 PROVE Budgeted(n, a, row, v2)
  <2>1. Budgeted(n, a, row, v)
    BY <1>1, <1>6
  <2>2. \A q \in Passes : v2[q].phase # "free" => q = p
    <3>1. ASSUME NEW q \in Passes, v2[q].phase # "free", q # p PROVE FALSE
      <4>1. v[q].phase # "free" /\ v[p].phase # "free"
        BY <1>1, <3>1
      <4> QED
        BY <2>1, <3>1, <4>1 DEF Budgeted
    <3> QED
      BY <3>1
  <2>3. n <= v[p].read + 1 /\ a = 0 /\ n <= MaxAttempts /\ a <= 1
    BY <1>6, <2>1 DEF Budgeted
  <2> QED
    BY <2>2, <2>3 DEF Budgeted
<1> QED
  BY <1>3, <1>4, <1>5, <1>6 DEF Good

LEMMA ElapseGood ==
  ASSUME NEW s, NEW n, NEW a, NEW row, NEW out, NEW twice, NEW v,
         Good(s, n, a, row, out, twice, v), row.retry = "later"
  PROVE  Good(s, n, a, [row EXCEPT !.retry = "due"], out, twice, v)
<1>1. PICK r : r = [row EXCEPT !.retry = "due"]
  OBVIOUS
<1>2. /\ r \in Row /\ r.attempts = row.attempts /\ r.delivered = row.delivered
      /\ r.retry = "due" /\ row.retry = "later"
  BY <1>1 DEF Good, Shape, Row
<1>3. Shape(s, n, a, r, out, twice, v) /\ FirstAttempt(s, n, a, r, out, v)
  BY <1>2 DEF Good, Shape, FirstAttempt
<1>4. Counted(n, a, r, out, v)
  <2>1. Counted(n, a, row, out, v) /\ row.retry # "norow" /\ r.retry # "norow"
    BY <1>2 DEF Good
  <2> QED
    BY <1>2, <2>1, Zenon DEF Counted
<1>5. Budgeted(n, a, row, v) => Budgeted(n, a, r, v)
  BY <1>2 DEF Budgeted
<1> QED
  BY <1>1, <1>3, <1>4, <1>5 DEF Good

(* The row goes with its subscription.                                     *)
LEMMA DeleteGood ==
  ASSUME NEW s, NEW n, NEW a, NEW row, NEW out, NEW twice, NEW v,
         Good(s, n, a, row, out, twice, v)
  PROVE  Good(s, n, a, NoRow, out, twice, v)
<1>1. 0 \in 0 .. MaxAttempts
  BY WebhookAssumption
<1>2. NoRow \in Row /\ NoRow.attempts = 0 /\ ~NoRow.delivered /\ NoRow.retry = "norow"
  BY <1>1 DEF NoRow, Row
<1>3. Shape(s, n, a, NoRow, out, twice, v) /\ FirstAttempt(s, n, a, NoRow, out, v)
  BY <1>2 DEF Good, Shape, FirstAttempt
<1>4. Counted(n, a, NoRow, out, v)
  <2>1. Counted(n, a, row, out, v) /\ n \in Nat
    BY DEF Good, Shape
  <2>2. NoRow.attempts <= n
    BY <1>2, <2>1
  <2>3. \A p \in Passes :
       /\ v[p].phase # "free" => v[p].read <= n /\ v[p].read < MaxAttempts
       /\ v[p].phase = "posting" =>
            /\ v[p].answer \in Answers
            /\ v[p].answer # "refused" => v[p].read + 1 <= n
            /\ v[p].answer = "ok" => a > 0
    BY <2>1 DEF Counted
  <2> QED
    BY <1>2, <2>2, <2>3 DEF Counted
<1>5. Budgeted(n, a, row, v) => Budgeted(n, a, NoRow, v)
  BY <1>2 DEF Budgeted
<1> QED
  BY <1>3, <1>4, <1>5 DEF Good

------------------------------------------------------------------------------
(***************************************************************************)
(* What the steps do to the tables and to the passes.                      *)
(***************************************************************************)
LEMMA LookTyped ==
  ASSUME NEW m \in Pass, NEW d
  PROVE  Look(m, d) \in View
<1>1. \A c \in DOMAIN m.todo : m.todo[c] \in Nat
  BY DEF Pass, Todo
<1>2. m.answer \in Answers \cup {"none"}
  BY DEF Pass
<1> QED
  BY <1>1, <1>2 DEF Look, View

LEMMA ViewsTyped ==
  ASSUME NEW memory \in [Passes -> Pass], NEW d
  PROVE  Views(memory, d) \in [Passes -> View]
BY LookTyped DEF Views

(* One pass goes on; the others have what they had.                        *)
LEMMA PassStep ==
  ASSUME NEW memory \in [Passes -> Pass], NEW p \in Passes, NEW m \in Pass, NEW memory2,
         memory2 = [memory EXCEPT ![p] = m]
  PROVE  /\ memory2 \in [Passes -> Pass]
         /\ memory2[p] = m
         /\ \A q \in Passes \ {p} : memory2[q] = memory[q]
OBVIOUS

LEMMA ViewStep ==
  ASSUME NEW memory \in [Passes -> Pass], NEW memory2 \in [Passes -> Pass], NEW p \in Passes,
         \A q \in Passes \ {p} : memory2[q] = memory[q], NEW d
  PROVE  /\ But(p, Views(memory, d), Views(memory2, d))
         /\ Views(memory, d)[p] = Look(memory[p], d)
         /\ Views(memory2, d)[p] = Look(memory2[p], d)
<1>1. Views(memory2, d) \in [Passes -> View]
  BY ViewsTyped
<1>2. \A q \in Passes : /\ Views(memory, d)[q] = Look(memory[q], d)
                        /\ Views(memory2, d)[q] = Look(memory2[q], d)
  BY DEF Views
<1> QED
  BY <1>1, <1>2 DEF But

LEMMA SameView ==
  ASSUME NEW memory \in [Passes -> Pass], NEW memory2 \in [Passes -> Pass], NEW p \in Passes,
         \A q \in Passes \ {p} : memory2[q] = memory[q], NEW d,
         Look(memory2[p], d) = Look(memory[p], d)
  PROVE  Views(memory2, d) = Views(memory, d)
<1>1. \A q \in Passes : Look(memory2[q], d) = Look(memory[q], d)
  OBVIOUS
<1> QED
  BY <1>1 DEF Views

LEMMA EmptyPass == NoPass \in Pass
<1>1. [d \in {} |-> 0] \in [{} -> Nat]
  OBVIOUS
<1>2. [d \in {} |-> 0] \in Todo
  BY <1>1 DEF Todo
<1> QED
  BY <1>2 DEF NoPass, Pass

(* The memory of a pass that takes rows, or posts one of them.             *)
LEMMA Takes ==
  ASSUME NEW todo
  PROVE  [NoPass EXCEPT !.todo = todo] = [todo |-> todo, now |-> {}, answer |-> "none"]
<1>1. \A none, now, answer :
        [[todo |-> none, now |-> now, answer |-> answer] EXCEPT !.todo = todo]
          = [todo |-> todo, now |-> now, answer |-> answer]
  OBVIOUS
<1>2. PICK none : none = [d \in {} |-> 0]
  OBVIOUS
<1>3. NoPass = [todo |-> none, now |-> {}, answer |-> "none"]
  BY <1>2 DEF NoPass
<1> QED
  BY <1>1, <1>3

LEMMA PostsNow ==
  ASSUME NEW m \in Pass, NEW now, NEW answer
  PROVE  [[m EXCEPT !.now = now] EXCEPT !.answer = answer]
           = [todo |-> m.todo, now |-> now, answer |-> answer]
<1>1. PICK posting : posting = [m EXCEPT !.now = now]
  OBVIOUS
<1>2. posting = [todo |-> m.todo, now |-> now, answer |-> m.answer]
  BY <1>1 DEF Pass
<1>3. [posting EXCEPT !.answer = answer] = [todo |-> m.todo, now |-> now, answer |-> answer]
  BY <1>2
<1> QED
  BY <1>1, <1>3, Zenon

LEMMA FlagTyped == \A S, d : FlagOf(S, d) \in Flag /\ (FlagOf(S, d) = 0 <=> d \notin S)
BY DEF FlagOf, Flag

(* A delivery nothing happens to.                                          *)
LEMMA Untouched ==
  ASSUME NEW d \in Deliveries, DeliveryGood(d),
         sends'[d] = sends[d], posts'[d] = posts[d], accepted'[d] = accepted[d],
         rows'[d] = rows[d], d \in lost' <=> d \in lost, d \in shared' <=> d \in shared,
         Views(passes, d)' = Views(passes, d)
  PROVE  DeliveryGood(d)'
<1>1. FlagOf(lost, d)' = FlagOf(lost, d) /\ FlagOf(shared, d)' = FlagOf(shared, d)
  BY DEF FlagOf
<1> QED
  BY <1>1 DEF DeliveryGood

LEMMA PostedStep ==
  ASSUME Typed, NEW d \in Deliveries, NEW answer \in Answers, Posted(d, answer)
  PROVE  /\ posts' \in [Deliveries -> Nat]
         /\ accepted' \in [Deliveries -> Nat]
         /\ PostedTo(posts[d], accepted[d], posts'[d], accepted'[d], answer)
         /\ \A c \in Deliveries \ {d} : posts'[c] = posts[c] /\ accepted'[c] = accepted[c]
<1>1. posts \in [Deliveries -> Nat] /\ accepted \in [Deliveries -> Nat]
  BY DEF Typed
<1>2. posts[d] \in Nat /\ accepted[d] \in Nat
  BY <1>1
<1>3. /\ posts' \in [Deliveries -> Nat]
      /\ posts'[d] = posts[d] + 1 \/ (answer = "refused" /\ posts'[d] = posts[d])
      /\ \A c \in Deliveries \ {d} : posts'[c] = posts[c]
  BY <1>1, <1>2 DEF Posted
<1>4. /\ accepted' \in [Deliveries -> Nat]
      /\ accepted'[d] = IF answer = "ok" THEN accepted[d] + 1 ELSE accepted[d]
      /\ \A c \in Deliveries \ {d} : accepted'[c] = accepted[c]
  BY <1>1, <1>2 DEF Posted
<1> QED
  BY <1>3, <1>4 DEF PostedTo

(* Steps of the first attempts. *)
LEMMA DispatchStep ==
  ASSUME WebhookInv, NEW e \in Events, Dispatch(e)
  PROVE  WebhookInv'
<1>1. /\ dispatched' = dispatched \cup {e}
      /\ UNCHANGED <<hooks, rows, passes, posts, accepted, faults, shared, lost>>
      /\ e \notin dispatched
  BY DEF Dispatch
<1>2. ASSUME NEW d \in Deliveries
      PROVE  \/ sends'[d] = sends[d]
             \/ sends'[d] = "posting" /\ sends[d] = "none" /\ d[2] = e
  BY <1>1 DEF Dispatch, WebhookInv, DispatchedOnce
<1>3. sends' \in [Deliveries -> Sending]
  BY DEF Dispatch, WebhookInv, Typed, Sending
<1>4. Typed'
  BY <1>1, <1>3 DEF WebhookInv, Typed
<1>5. OneAtATime'
  BY <1>1 DEF WebhookInv, OneAtATime
<1>6. DispatchedOnce'
  BY <1>1, <1>2 DEF WebhookInv, DispatchedOnce
<1>7. ASSUME NEW d \in Deliveries PROVE DeliveryGood(d)'
  <2>1. DeliveryGood(d)
    BY DEF WebhookInv
  <2>2. CASE sends'[d] = sends[d]
    BY <1>1, <2>1, <2>2, Untouched
  <2>3. CASE sends'[d] = "posting" /\ sends[d] = "none"
    <3>1. Good("posting", posts[d], accepted[d], rows[d], FlagOf(lost, d), FlagOf(shared, d),
               Views(passes, d))
      BY <2>1, <2>3, DispatchGood DEF DeliveryGood
    <3> QED
      BY <1>1, <2>3, <3>1 DEF DeliveryGood
  <2> QED
    BY <1>2, <2>2, <2>3
<1> QED
  BY <1>4, <1>5, <1>6, <1>7 DEF WebhookInv

LEMMA SendPostStep ==
  ASSUME WebhookInv, NEW d \in Deliveries, SendPost(d)
  PROVE  WebhookInv'
<1>1. PICK answer \in Answers :
        Posted(d, answer) /\ sends' = [sends EXCEPT ![d] = answer]
  BY DEF SendPost
<1>2. /\ UNCHANGED <<hooks, dispatched, rows, passes, faults, shared, lost>>
      /\ sends[d] = "posting"
  BY DEF SendPost
<1>3. /\ posts' \in [Deliveries -> Nat]
      /\ accepted' \in [Deliveries -> Nat]
      /\ PostedTo(posts[d], accepted[d], posts'[d], accepted'[d], answer)
      /\ \A c \in Deliveries \ {d} : posts'[c] = posts[c] /\ accepted'[c] = accepted[c]
  BY <1>1, PostedStep DEF WebhookInv
<1>4. /\ sends' \in [Deliveries -> Sending]
      /\ sends'[d] = answer
      /\ \A c \in Deliveries \ {d} : sends'[c] = sends[c]
  BY <1>1 DEF WebhookInv, Typed, Sending
<1>5. Typed'
  BY <1>2, <1>3, <1>4 DEF WebhookInv, Typed
<1>6. OneAtATime'
  BY <1>2 DEF WebhookInv, OneAtATime
<1>7. DispatchedOnce'
  BY <1>2, <1>4 DEF WebhookInv, DispatchedOnce
<1>8. ASSUME NEW c \in Deliveries PROVE DeliveryGood(c)'
  <2>1. DeliveryGood(c)
    BY DEF WebhookInv
  <2>2. CASE c # d
    <3>1. sends'[c] = sends[c] /\ posts'[c] = posts[c] /\ accepted'[c] = accepted[c]
      BY <1>3, <1>4, <2>2
    <3> QED
      BY <1>2, <2>1, <3>1, Untouched
  <2>3. CASE c = d
    <3>1. Good(answer, posts'[d], accepted'[d], rows[d], FlagOf(lost, d), FlagOf(shared, d),
               Views(passes, d))
      BY <1>2, <1>3, <2>1, <2>3, SendPostGood DEF DeliveryGood
    <3> QED
      BY <1>2, <1>4, <2>3, <3>1 DEF DeliveryGood
  <2> QED
    BY <2>2, <2>3
<1> QED
  BY <1>5, <1>6, <1>7, <1>8 DEF WebhookInv

LEMMA SendRecordStep ==
  ASSUME WebhookInv, NEW d \in Deliveries, SendRecord(d)
  PROVE  WebhookInv'
<1>1. /\ UNCHANGED <<hooks, dispatched, passes, posts, accepted, faults, shared, lost>>
      /\ sends[d] \in Answers
      /\ sends' = [sends EXCEPT ![d] = "done"]
      /\ rows' = [rows EXCEPT ![d] = FirstRow(sends[d])]
  BY DEF SendRecord
<1>2. Good("done", posts[d], accepted[d], FirstRow(sends[d]), FlagOf(lost, d), FlagOf(shared, d),
           Views(passes, d))
  BY <1>1, SendRecordGood DEF WebhookInv, DeliveryGood
<1>3. FirstRow(sends[d]) \in Row
  BY <1>2 DEF Good, Shape
<1>4. /\ sends' \in [Deliveries -> Sending] /\ rows' \in [Deliveries -> Row]
      /\ sends'[d] = "done" /\ rows'[d] = FirstRow(sends[d])
      /\ \A c \in Deliveries \ {d} : sends'[c] = sends[c] /\ rows'[c] = rows[c]
  BY <1>1, <1>3 DEF WebhookInv, Typed, Sending
<1>5. Typed'
  BY <1>1, <1>4 DEF WebhookInv, Typed
<1>6. OneAtATime'
  BY <1>1 DEF WebhookInv, OneAtATime
<1>7. DispatchedOnce'
  BY <1>1, <1>4 DEF WebhookInv, DispatchedOnce, Answers
<1>8. ASSUME NEW c \in Deliveries PROVE DeliveryGood(c)'
  <2>1. DeliveryGood(c)
    BY DEF WebhookInv
  <2>2. CASE c # d
    <3>1. sends'[c] = sends[c] /\ rows'[c] = rows[c]
      BY <1>4, <2>2
    <3> QED
      BY <1>1, <2>1, <3>1, Untouched
  <2>3. CASE c = d
    BY <1>1, <1>2, <1>4, <2>3 DEF DeliveryGood
  <2> QED
    BY <2>2, <2>3
<1> QED
  BY <1>5, <1>6, <1>7, <1>8 DEF WebhookInv

LEMMA SendRecordFailsStep ==
  ASSUME WebhookInv, NEW d \in Deliveries, SendRecordFails(d)
  PROVE  WebhookInv'
<1>1. /\ UNCHANGED <<hooks, dispatched, rows, passes, posts, accepted, shared>>
      /\ sends[d] \in Answers
      /\ sends' = [sends EXCEPT ![d] = IF @ \in {"ok", "status"} THEN "broken" ELSE "done"]
      /\ lost' = IF sends[d] = "status" THEN lost ELSE lost \cup {d}
  BY DEF SendRecordFails
<1>2. faults' \in 0 .. MaxFaults
  BY WebhookAssumption DEF SendRecordFails, Fault, WebhookInv, Typed
<1>3. PICK s : s = IF sends[d] \in {"ok", "status"} THEN "broken" ELSE "done"
  OBVIOUS
<1>4. /\ sends' \in [Deliveries -> Sending]
      /\ sends'[d] = s
      /\ \A c \in Deliveries \ {d} : sends'[c] = sends[c]
  BY <1>1, <1>3 DEF WebhookInv, Typed, Sending, Answers
<1>5. Typed'
  BY <1>1, <1>2, <1>4 DEF WebhookInv, Typed
<1>6. OneAtATime'
  BY <1>1 DEF WebhookInv, OneAtATime
<1>7. DispatchedOnce'
  BY <1>1, <1>4 DEF WebhookInv, DispatchedOnce, Answers
<1>8. ASSUME NEW c \in Deliveries PROVE DeliveryGood(c)'
  <2>1. DeliveryGood(c)
    BY DEF WebhookInv
  <2>2. CASE c # d
    <3>1. sends'[c] = sends[c] /\ (c \in lost' <=> c \in lost)
      BY <1>1, <1>4, <2>2
    <3> QED
      BY <1>1, <2>1, <3>1, Untouched
  <2>3. CASE c = d
    <3>1. FlagOf(lost', d) = IF sends[d] = "status" THEN FlagOf(lost, d) ELSE 1
      BY <1>1 DEF FlagOf
    <3>2. Good(s, posts[d], accepted[d], rows[d], FlagOf(lost', d), FlagOf(shared, d),
               Views(passes, d))
      BY <1>1, <1>3, <2>1, <2>3, <3>1, SendRecordFailsGood DEF DeliveryGood
    <3> QED
      BY <1>1, <1>4, <2>3, <3>2 DEF DeliveryGood
  <2> QED
    BY <2>2, <2>3
<1> QED
  BY <1>5, <1>6, <1>7, <1>8 DEF WebhookInv

(* Steps of the passes. *)
LEMMA BeginPassStep ==
  ASSUME WebhookInv, NEW p \in Passes, BeginPass(p)
  PROVE  WebhookInv'
<1>0. PICK memory : memory = passes'
  OBVIOUS
<1>1. PICK batch \in SUBSET Due :
        /\ passes' = [passes EXCEPT ![p].todo = [d \in batch |-> rows[d].attempts]]
        /\ shared' = shared \cup {d \in batch : \E q \in Passes \ {p} : Holds(q, d)}
  BY DEF BeginPass
<1>2. /\ UNCHANGED <<hooks, dispatched, sends, rows, posts, accepted, faults, lost>>
      /\ passes[p] = NoPass
  BY DEF BeginPass
<1>3. PICK todo : todo = [d \in batch |-> rows[d].attempts]
  OBVIOUS
<1>4. PICK m : m = [todo |-> todo, now |-> {}, answer |-> "none"]
  OBVIOUS
<1>5. batch \subseteq Deliveries /\ \A d \in batch : Pending(d)
  BY DEF Due
<1>6. m \in Pass
  <2>1. \A d \in batch : rows[d].attempts \in Nat
    BY <1>5 DEF WebhookInv, Typed, Row
  <2>2. todo \in [batch -> Nat]
    BY <1>3, <2>1
  <2>3. todo \in Todo
    BY <1>5, <2>2 DEF Todo
  <2> QED
    BY <1>4, <2>3 DEF Pass
<1>7. passes \in [Passes -> Pass]
  BY DEF WebhookInv, Typed
<1>8. passes' = [passes EXCEPT ![p] = m]
  <2>1. [passes[p] EXCEPT !.todo = todo] = m
    BY <1>2, <1>4, Takes
  <2> QED
    BY <1>1, <1>3, <2>1
<1>9. /\ passes' \in [Passes -> Pass] /\ passes'[p] = m
      /\ \A q \in Passes \ {p} : passes'[q] = passes[q]
  BY <1>6, <1>7, <1>8, PassStep
<1>10. Typed'
  <2>1. shared' \subseteq Deliveries
    BY <1>1, <1>5 DEF WebhookInv, Typed
  <2> QED
    BY <1>2, <1>9, <2>1 DEF WebhookInv, Typed
<1>11. OneAtATime'
  BY <1>4, <1>9 DEF WebhookInv, OneAtATime
<1>12. DispatchedOnce'
  BY <1>2 DEF WebhookInv, DispatchedOnce
<1>13. ASSUME NEW d \in Deliveries PROVE DeliveryGood(d)'
  <2>1. DeliveryGood(d)
    BY DEF WebhookInv
  <2>2. /\ But(p, Views(passes, d), Views(memory, d))
        /\ Views(passes, d)[p] = Look(passes[p], d)
        /\ Views(memory, d)[p] = Look(m, d)
    BY <1>0, <1>7, <1>9, ViewStep
  <2>3. Look(passes[p], d) = [phase |-> "free", read |-> 0, answer |-> "none"]
    BY <1>2 DEF Look, NoPass
  <2>4. CASE d \notin batch
    <3>1. Look(m, d) = [phase |-> "free", read |-> 0, answer |-> "none"]
      BY <1>3, <1>4, <2>4 DEF Look
    <3>2. Views(passes, d)' = Views(passes, d)
      BY <1>7, <1>9, <2>3, <3>1, SameView
    <3>3. d \in shared' <=> d \in shared
      BY <1>1, <2>4
    <3> QED
      BY <1>2, <2>1, <3>2, <3>3, Untouched
  <2>5. CASE d \in batch
    <3>1. Look(m, d) = [phase |-> "held", read |-> rows[d].attempts, answer |-> "none"]
      BY <1>3, <1>4, <2>5 DEF Look
    <3>2. rows[d].retry = "due" /\ rows[d].attempts < MaxAttempts
      BY <1>5, <2>5 DEF Pending
    <3>3. ASSUME FlagOf(shared', d) = 0
          PROVE  /\ FlagOf(shared, d) = 0
                 /\ \A q \in Passes \ {p} : Views(passes, d)[q].phase = "free"
      <4>1. d \notin shared' /\ d \notin shared
        BY <1>1, <3>3, FlagTyped
      <4>2. ASSUME NEW q \in Passes \ {p} PROVE Look(passes[q], d).phase = "free"
        <5>1. ~Holds(q, d)
          BY <1>1, <2>5, <4>1
        <5> QED
          BY <5>1 DEF Holds, Look
      <4>3. \A q \in Passes : Views(passes, d)[q] = Look(passes[q], d)
        BY DEF Views
      <4> QED
        BY <4>1, <4>2, <4>3, FlagTyped
    <3>4. Good(sends[d], posts[d], accepted[d], rows[d], FlagOf(lost, d), FlagOf(shared', d),
               Views(memory, d))
      <4>1. /\ Views(memory, d) \in [Passes -> View]
            /\ \A q \in Passes \ {p} : Views(memory, d)[q] = Views(passes, d)[q]
            /\ Views(memory, d)[p].phase = "held"
            /\ Views(memory, d)[p].read = rows[d].attempts
            /\ Views(passes, d)[p].phase = "free"
        BY <2>2, <2>3, <3>1 DEF But
      <4>2. FlagOf(shared', d) \in Flag
        BY FlagTyped
      <4> QED
        BY <2>1, <3>2, <3>3, <4>1, <4>2, TakeGood DEF DeliveryGood
    <3> QED
      BY <1>0, <1>2, <3>4 DEF DeliveryGood, Views
  <2> QED
    BY <2>4, <2>5
<1> QED
  BY <1>10, <1>11, <1>12, <1>13 DEF WebhookInv

LEMMA RetryPostStep ==
  ASSUME WebhookInv, NEW p \in Passes, NEW d \in Deliveries, RetryPost(p, d)
  PROVE  WebhookInv'
<1>0. PICK memory : memory = passes'
  OBVIOUS
<1>1. PICK answer \in Answers :
        /\ Posted(d, answer)
        /\ passes' = [passes EXCEPT ![p].now = {d}, ![p].answer = answer]
  BY DEF RetryPost
<1>2. /\ UNCHANGED <<hooks, dispatched, sends, rows, faults, shared, lost>>
      /\ passes[p].now = {}
      /\ d \in DOMAIN passes[p].todo
  BY DEF RetryPost
<1>3. PICK m : m = [todo |-> passes[p].todo, now |-> {d}, answer |-> answer]
  OBVIOUS
<1>4. passes \in [Passes -> Pass]
  BY DEF WebhookInv, Typed
<1>5. m \in Pass
  BY <1>3, <1>4 DEF Pass
<1>6. passes' = [passes EXCEPT ![p] = m]
  <2>1. [[passes[p] EXCEPT !.now = {d}] EXCEPT !.answer = answer] = m
    BY <1>3, <1>4, PostsNow
  <2> QED
    BY <1>1, <1>4, <2>1
<1>7. /\ passes' \in [Passes -> Pass] /\ passes'[p] = m
      /\ \A q \in Passes \ {p} : passes'[q] = passes[q]
  BY <1>4, <1>5, <1>6, PassStep
<1>8. /\ posts' \in [Deliveries -> Nat]
      /\ accepted' \in [Deliveries -> Nat]
      /\ PostedTo(posts[d], accepted[d], posts'[d], accepted'[d], answer)
      /\ \A c \in Deliveries \ {d} : posts'[c] = posts[c] /\ accepted'[c] = accepted[c]
  BY <1>1, PostedStep DEF WebhookInv
<1>9. Typed'
  BY <1>2, <1>7, <1>8 DEF WebhookInv, Typed
<1>10. OneAtATime'
  BY <1>2, <1>3, <1>7 DEF WebhookInv, OneAtATime
<1>11. DispatchedOnce'
  BY <1>2 DEF WebhookInv, DispatchedOnce
<1>12. ASSUME NEW c \in Deliveries PROVE DeliveryGood(c)'
  <2>1. DeliveryGood(c)
    BY DEF WebhookInv
  <2>2. /\ But(p, Views(passes, c), Views(memory, c))
        /\ Views(passes, c)[p] = Look(passes[p], c)
        /\ Views(memory, c)[p] = Look(m, c)
    BY <1>0, <1>4, <1>7, ViewStep
  <2>3. CASE c # d
    <3>1. Look(m, c) = Look(passes[p], c)
      BY <1>2, <1>3, <2>3 DEF Look
    <3>2. Views(passes, c)' = Views(passes, c)
      BY <1>4, <1>7, <3>1, SameView
    <3> QED
      BY <1>2, <1>8, <2>1, <2>3, <3>2, Untouched
  <2>4. CASE c = d
    <3>1. Look(m, d) = [phase |-> "posting", read |-> passes[p].todo[d], answer |-> answer]
      BY <1>2, <1>3 DEF Look
    <3>2. Look(passes[p], d) = [phase |-> "held", read |-> passes[p].todo[d], answer |-> "none"]
      BY <1>2 DEF Look
    <3>3. /\ Views(memory, d) \in [Passes -> View]
          /\ \A q \in Passes \ {p} : Views(memory, d)[q] = Views(passes, d)[q]
          /\ Views(passes, d)[p].phase = "held"
          /\ Views(memory, d)[p].phase = "posting"
          /\ Views(memory, d)[p].read = Views(passes, d)[p].read
          /\ Views(memory, d)[p].answer = answer
      BY <2>2, <2>4, <3>1, <3>2 DEF But
    <3>4. Good(sends[d], posts'[d], accepted'[d], rows[d], FlagOf(lost, d), FlagOf(shared, d),
               Views(memory, d))
      <4>1. Good(sends[d], posts[d], accepted[d], rows[d], FlagOf(lost, d), FlagOf(shared, d),
                 Views(passes, d))
        BY <2>1, <2>4 DEF DeliveryGood
      <4> QED
        BY <1>8, <3>3, <4>1, RetryPostGood
    <3> QED
      BY <1>0, <1>2, <2>4, <3>4 DEF DeliveryGood, Views
  <2> QED
    BY <2>3, <2>4
<1> QED
  BY <1>9, <1>10, <1>11, <1>12 DEF WebhookInv

LEMMA RetryRecordStep ==
  ASSUME WebhookInv, NEW p \in Passes, NEW d \in Deliveries, RetryRecord(p, d)
  PROVE  WebhookInv'
<1>0. PICK memory : memory = passes'
  OBVIOUS
<1>1. PICK row : row = IF rows[d].retry # "norow"
                       THEN Updated(rows[d], passes[p].todo[d], passes[p].answer) ELSE rows[d]
  OBVIOUS
<1>2. PICK todo : todo = Restrict(passes[p].todo, DOMAIN passes[p].todo \ {d})
  OBVIOUS
<1>3. PICK m : m = [todo |-> todo, now |-> {}, answer |-> "none"]
  OBVIOUS
<1>4. /\ UNCHANGED <<hooks, dispatched, sends, posts, accepted, faults, shared, lost>>
      /\ passes[p].now = {d}
      /\ rows' = [rows EXCEPT ![d] = row]
      /\ passes' = [passes EXCEPT ![p] = m]
  <2>1. [NoPass EXCEPT !.todo = todo] = m
    BY <1>3, Takes
  <2> QED
    BY <1>1, <1>2, <2>1 DEF RetryRecord, Exists
<1>5. passes \in [Passes -> Pass] /\ d \in DOMAIN passes[p].todo
  BY <1>4 DEF WebhookInv, Typed, OneAtATime
<1>6. /\ DOMAIN todo = DOMAIN passes[p].todo \ {d}
      /\ \A c \in DOMAIN todo : todo[c] = passes[p].todo[c]
  BY <1>2 DEF Restrict
<1>7. m \in Pass
  <2>1. /\ DOMAIN passes[p].todo \subseteq Deliveries
        /\ \A c \in DOMAIN passes[p].todo : passes[p].todo[c] \in Nat
    BY <1>5 DEF Pass, Todo
  <2>2. todo \in [DOMAIN todo -> Nat]
    <3>1. todo = [c \in DOMAIN todo |-> todo[c]]
      BY <1>2 DEF Restrict
    <3>2. \A c \in DOMAIN todo : todo[c] \in Nat
      BY <1>6, <2>1
    <3> QED
      BY <3>1, <3>2
  <2>3. todo \in Todo
    BY <1>6, <2>1, <2>2 DEF Todo
  <2> QED
    BY <1>3, <2>3 DEF Pass
<1>8. /\ passes' \in [Passes -> Pass] /\ passes'[p] = m
      /\ \A q \in Passes \ {p} : passes'[q] = passes[q]
  BY <1>4, <1>5, <1>7, PassStep
<1>9. Views(passes, d)[p] = [phase |-> "posting", read |-> passes[p].todo[d], answer |-> passes[p].answer]
  BY <1>4, <1>5 DEF Views, Look
<1>10. Good(sends[d], posts[d], accepted[d], row, FlagOf(lost, d), FlagOf(shared, d),
            Views(memory, d))
  <2>1. /\ But(p, Views(passes, d), Views(memory, d))
        /\ Views(memory, d)[p] = Look(m, d)
    BY <1>0, <1>5, <1>8, ViewStep
  <2>2. Look(m, d).phase = "free"
    BY <1>3, <1>6 DEF Look
  <2>3. Good(sends[d], posts[d], accepted[d], rows[d], FlagOf(lost, d), FlagOf(shared, d),
             Views(passes, d))
    BY DEF WebhookInv, DeliveryGood
  <2> QED
    BY <1>1, <1>9, <2>1, <2>2, <2>3, RetryRecordGood
<1>11. /\ rows' \in [Deliveries -> Row] /\ rows'[d] = row
       /\ \A c \in Deliveries \ {d} : rows'[c] = rows[c]
  BY <1>4, <1>10 DEF Good, Shape, WebhookInv, Typed
<1>12. Typed'
  BY <1>4, <1>8, <1>11 DEF WebhookInv, Typed
<1>13. OneAtATime'
  BY <1>3, <1>8 DEF WebhookInv, OneAtATime
<1>14. DispatchedOnce'
  BY <1>4 DEF WebhookInv, DispatchedOnce
<1>15. ASSUME NEW c \in Deliveries PROVE DeliveryGood(c)'
  <2>1. CASE c # d
    <3>1. Look(m, c) = Look(passes[p], c)
      BY <1>3, <1>4, <1>6, <2>1 DEF Look
    <3>2. Views(passes, c)' = Views(passes, c)
      BY <1>5, <1>8, <3>1, SameView
    <3> QED
      BY <1>4, <1>11, <2>1, <3>2, Untouched DEF WebhookInv
  <2>2. CASE c = d
    BY <1>0, <1>4, <1>10, <1>11, <2>2 DEF DeliveryGood, Views
  <2> QED
    BY <2>1, <2>2
<1> QED
  BY <1>12, <1>13, <1>14, <1>15 DEF WebhookInv

LEMMA RetryRecordFailsStep ==
  ASSUME WebhookInv, NEW p \in Passes, NEW d \in Deliveries, RetryRecordFails(p, d)
  PROVE  WebhookInv'
<1>0. PICK memory : memory = passes'
  OBVIOUS
<1>1. PICK m : m = IF passes[p].answer \in {"ok", "status"}
                   THEN [passes[p] EXCEPT !.answer = "broken"] ELSE NoPass
  OBVIOUS
<1>2. /\ UNCHANGED <<hooks, dispatched, sends, rows, posts, accepted, shared>>
      /\ passes[p].now = {d}
      /\ passes' = [passes EXCEPT ![p] = m]
      /\ lost' = IF passes[p].answer = "status" THEN lost ELSE lost \cup {d}
  BY <1>1 DEF RetryRecordFails
<1>3. passes \in [Passes -> Pass] /\ d \in DOMAIN passes[p].todo
  BY <1>2 DEF WebhookInv, Typed, OneAtATime
<1>4. /\ m \in Pass
      /\ m = NoPass \/ (m.now = {d} /\ m.todo = passes[p].todo /\ m.answer = "broken"
                        /\ passes[p].answer \in {"ok", "status"})
      /\ m = NoPass \/ passes[p].answer \in {"ok", "status"}
      /\ passes[p].answer = "status" => m # NoPass
  <2>1. NoPass \in Pass
    BY EmptyPass
  <2>2. passes[p] \in Pass
    BY <1>3
  <2>3. CASE passes[p].answer \in {"ok", "status"}
    <3>1. m = [passes[p] EXCEPT !.answer = "broken"]
      BY <1>1, <2>3
    <3>2. /\ m \in Pass /\ m.now = passes[p].now /\ m.todo = passes[p].todo
          /\ m.answer = "broken"
      BY <2>2, <3>1 DEF Pass, Answers
    <3>3. NoPass.answer = "none"
      BY DEF NoPass
    <3> QED
      BY <1>2, <2>3, <3>2, <3>3
  <2>4. CASE passes[p].answer \notin {"ok", "status"}
    BY <1>1, <2>1, <2>4
  <2> QED
    BY <2>3, <2>4
<1>5. /\ passes' \in [Passes -> Pass] /\ passes'[p] = m
      /\ \A q \in Passes \ {p} : passes'[q] = passes[q]
  BY <1>2, <1>3, <1>4, PassStep
<1>6. faults' \in 0 .. MaxFaults
  BY WebhookAssumption DEF RetryRecordFails, Fault, WebhookInv, Typed
<1>7. Typed'
  BY <1>2, <1>5, <1>6 DEF WebhookInv, Typed
<1>8. OneAtATime'
  BY <1>2, <1>4, <1>5 DEF WebhookInv, OneAtATime, NoPass
<1>9. DispatchedOnce'
  BY <1>2 DEF WebhookInv, DispatchedOnce
<1>10. ASSUME NEW c \in Deliveries PROVE DeliveryGood(c)'
  <2>1. Good(sends[c], posts[c], accepted[c], rows[c], FlagOf(lost, c), FlagOf(shared, c),
             Views(passes, c))
    BY DEF WebhookInv, DeliveryGood
  <2>2. /\ But(p, Views(passes, c), Views(memory, c))
        /\ Views(passes, c)[p] = Look(passes[p], c)
        /\ Views(memory, c)[p] = Look(m, c)
    BY <1>0, <1>3, <1>5, ViewStep
  <2>3. FlagOf(lost', c) \in Flag /\ (FlagOf(lost', c) = 0 => FlagOf(lost, c) = 0)
    BY <1>2, FlagTyped
  <2>4. CASE m = NoPass
    <3>1. Look(m, c).phase = "free"
      BY <2>4 DEF Look, NoPass
    <3>2. \A q \in Passes : \/ Views(memory, c)[q] = Views(passes, c)[q]
                            \/ Views(memory, c)[q].phase = "free"
      BY <2>2, <3>1 DEF But
    <3>3. ASSUME FlagOf(lost', c) = 0, NEW q \in Passes, Views(passes, c)[q].phase = "posting"
          PROVE  Views(memory, c)[q] = Views(passes, c)[q]
      <4>1. c # d
        BY <1>2, <1>4, <2>4, <3>3, FlagTyped
      <4>2. Look(passes[p], c).phase # "posting"
        BY <1>2, <4>1 DEF Look
      <4> QED
        BY <2>2, <3>3, <4>2 DEF But
    <3>4. Views(memory, c) \in [Passes -> View]
      BY <2>2 DEF But
    <3>5. Good(sends[c], posts[c], accepted[c], rows[c], FlagOf(lost', c), FlagOf(shared, c),
               Views(memory, c))
      BY <2>1, <2>3, <3>2, <3>3, <3>4, LoseGood
    <3> QED
      BY <1>0, <1>2, <3>5 DEF DeliveryGood, Views
  <2>5. CASE m # NoPass /\ c # d
    <3>1. Look(m, c) = Look(passes[p], c)
      BY <1>2, <1>4, <2>5 DEF Look
    <3>2. Views(passes, c)' = Views(passes, c)
      BY <1>3, <1>5, <3>1, SameView
    <3>3. c \in lost' <=> c \in lost
      BY <1>2, <2>5
    <3> QED
      BY <1>2, <3>2, <3>3, Untouched DEF WebhookInv
  <2>6. CASE m # NoPass /\ c = d
    <3>1. /\ passes[p].answer \in {"ok", "status"} /\ m.now = {d}
          /\ m.todo = passes[p].todo /\ m.answer = "broken"
      BY <1>4, <2>6
    <3>2. Look(m, d) = [phase |-> "posting", read |-> passes[p].todo[d], answer |-> "broken"]
      BY <1>3, <3>1 DEF Look
    <3>3. Look(passes[p], d)
            = [phase |-> "posting", read |-> passes[p].todo[d], answer |-> passes[p].answer]
      BY <1>2, <1>3 DEF Look
    <3>4. /\ Views(passes, d)[p].phase = "posting"
          /\ Views(passes, d)[p].answer \in {"ok", "status"}
          /\ Views(memory, d)[p].phase = "posting"
          /\ Views(memory, d)[p].read = Views(passes, d)[p].read
          /\ Views(memory, d)[p].answer = "broken"
          /\ But(p, Views(passes, d), Views(memory, d))
          /\ Views(passes, d)[p].answer = passes[p].answer
      BY <2>2, <2>6, <3>1, <3>2, <3>3
    <3>5. FlagOf(lost', d) = 0 => FlagOf(lost, d) = 0 /\ Views(passes, d)[p].answer = "status"
      BY <1>2, <3>4, FlagTyped
    <3>6. Good(sends[d], posts[d], accepted[d], rows[d], FlagOf(lost', d), FlagOf(shared, d),
               Views(memory, d))
      BY <2>1, <2>3, <2>6, <3>4, <3>5, RetryBrokenGood
    <3> QED
      BY <1>0, <1>2, <2>6, <3>6 DEF DeliveryGood, Views
  <2> QED
    BY <2>4, <2>5, <2>6
<1> QED
  BY <1>7, <1>8, <1>9, <1>10 DEF WebhookInv

(* The world around. *)
LEMMA ElapseStep ==
  ASSUME WebhookInv, NEW d \in Deliveries, Elapse(d)
  PROVE  WebhookInv'
<1>1. PICK row : row = [rows[d] EXCEPT !.retry = "due"]
  OBVIOUS
<1>2. /\ UNCHANGED <<hooks, dispatched, sends, passes, posts, accepted, faults, shared, lost>>
      /\ rows[d].retry = "later"
      /\ rows' = [rows EXCEPT ![d] = row]
  BY <1>1 DEF Elapse
<1>3. Good(sends[d], posts[d], accepted[d], row, FlagOf(lost, d), FlagOf(shared, d),
           Views(passes, d))
  BY <1>1, <1>2, ElapseGood DEF WebhookInv, DeliveryGood
<1>4. /\ rows' \in [Deliveries -> Row] /\ rows'[d] = row
      /\ \A c \in Deliveries \ {d} : rows'[c] = rows[c]
  BY <1>2, <1>3 DEF Good, Shape, WebhookInv, Typed
<1>5. Typed'
  BY <1>2, <1>4 DEF WebhookInv, Typed
<1>6. OneAtATime' /\ DispatchedOnce'
  BY <1>2 DEF WebhookInv, OneAtATime, DispatchedOnce
<1>7. ASSUME NEW c \in Deliveries PROVE DeliveryGood(c)'
  <2>1. Views(passes, c)' = Views(passes, c)
    BY <1>2 DEF Views
  <2>2. CASE c # d
    BY <1>2, <1>4, <2>1, <2>2, Untouched DEF WebhookInv
  <2>3. CASE c = d
    BY <1>2, <1>3, <1>4, <2>3 DEF DeliveryGood
  <2> QED
    BY <2>2, <2>3
<1> QED
  BY <1>5, <1>6, <1>7 DEF WebhookInv

LEMMA MuteStep ==
  ASSUME WebhookInv, NEW h \in Hooks, Mute(h)
  PROVE  WebhookInv'
<1>1. /\ UNCHANGED <<dispatched, sends, rows, passes, posts, accepted, faults, shared, lost>>
      /\ hooks' \in [Hooks -> {"active", "muted", "deleted"}]
  BY DEF Mute, WebhookInv, Typed
<1>2. Typed' /\ OneAtATime' /\ DispatchedOnce'
  BY <1>1 DEF WebhookInv, Typed, OneAtATime, DispatchedOnce
<1>3. ASSUME NEW d \in Deliveries PROVE DeliveryGood(d)'
  <2>1. Views(passes, d)' = Views(passes, d)
    BY <1>1 DEF Views
  <2> QED
    BY <1>1, <2>1, Untouched DEF WebhookInv
<1> QED
  BY <1>2, <1>3 DEF WebhookInv

LEMMA DeleteStep ==
  ASSUME WebhookInv, NEW h \in Hooks, Delete(h)
  PROVE  WebhookInv'
<1>1. /\ UNCHANGED <<dispatched, sends, passes, posts, accepted, faults, shared, lost>>
      /\ hooks' \in [Hooks -> {"active", "muted", "deleted"}]
      /\ rows' = [d \in Deliveries |-> IF Hook(d) = h THEN NoRow ELSE rows[d]]
  BY DEF Delete, WebhookInv, Typed
<1>2. ASSUME NEW d \in Deliveries
      PROVE  Good(sends[d], posts[d], accepted[d], NoRow, FlagOf(lost, d), FlagOf(shared, d),
                  Views(passes, d))
  BY DeleteGood DEF WebhookInv, DeliveryGood
<1>3. ASSUME NEW d \in Deliveries PROVE rows'[d] \in {rows[d], NoRow} /\ NoRow \in Row
  BY <1>1, <1>2 DEF Good, Shape
<1>4. rows' \in [Deliveries -> Row]
  <2>1. \A d \in Deliveries : (IF Hook(d) = h THEN NoRow ELSE rows[d]) \in Row
    BY <1>3 DEF WebhookInv, Typed
  <2> QED
    BY <1>1, <2>1
<1>5. Typed' /\ OneAtATime' /\ DispatchedOnce'
  BY <1>1, <1>4 DEF WebhookInv, Typed, OneAtATime, DispatchedOnce
<1>6. ASSUME NEW d \in Deliveries PROVE DeliveryGood(d)'
  <2>1. Views(passes, d)' = Views(passes, d)
    BY <1>1 DEF Views
  <2>2. CASE rows'[d] = rows[d]
    BY <1>1, <2>1, <2>2, Untouched DEF WebhookInv
  <2>3. CASE rows'[d] = NoRow
    BY <1>1, <1>2, <2>3 DEF DeliveryGood
  <2> QED
    BY <1>3, <2>2, <2>3
<1> QED
  BY <1>4, <1>5, <1>6 DEF WebhookInv

LEMMA CrashStep ==
  ASSUME WebhookInv, Crash
  PROVE  WebhookInv'
<1>1. /\ UNCHANGED <<hooks, dispatched, rows, posts, accepted, shared>>
      /\ sends' = [d \in Deliveries |-> IF sends[d] = "none" THEN "none" ELSE "done"]
      /\ passes' = [p \in Passes |-> NoPass]
      /\ lost' = lost \cup {d \in Deliveries :
                   \/ sends[d] \in Answers \cup {"posting"}
                   \/ \E p \in Passes : passes[p].now = {d}}
  BY DEF Crash
<1>2. faults' \in 0 .. MaxFaults
  BY WebhookAssumption DEF Crash, Fault, WebhookInv, Typed
<1>3. sends' \in [Deliveries -> Sending]
  BY <1>1 DEF Sending
<1>4. passes' \in [Passes -> Pass]
  BY <1>1, EmptyPass
<1>5. lost' \subseteq Deliveries
  BY <1>1 DEF WebhookInv, Typed
<1>6. Typed'
  BY <1>1, <1>2, <1>3, <1>4, <1>5 DEF WebhookInv, Typed
<1>7. OneAtATime'
  BY <1>1 DEF OneAtATime, NoPass
<1>8. DispatchedOnce'
  BY <1>1 DEF WebhookInv, DispatchedOnce
<1>9. PICK memory : memory = passes'
  OBVIOUS
<1>10. ASSUME NEW d \in Deliveries PROVE DeliveryGood(d)'
  <2>1. Good(sends[d], posts[d], accepted[d], rows[d], FlagOf(lost, d), FlagOf(shared, d),
             Views(passes, d))
    BY DEF WebhookInv, DeliveryGood
  <2>2. Views(memory, d) \in [Passes -> View]
    BY <1>4, <1>9, ViewsTyped
  <2>3. \A q \in Passes : Views(memory, d)[q].phase = "free"
    BY <1>1, <1>9 DEF Views, Look, NoPass
  <2>4. sends'[d] = sends[d] \/ (sends'[d] = "done" /\ sends[d] # "none")
    BY <1>1
  <2>5. FlagOf(lost', d) \in Flag /\ (FlagOf(lost', d) = 0 => FlagOf(lost, d) = 0)
    BY <1>1, FlagTyped
  <2>6. ASSUME FlagOf(lost', d) = 0
        PROVE  /\ sends[d] \notin Answers \cup {"posting"}
               /\ \A q \in Passes : Views(passes, d)[q].phase # "posting"
    <3>1. d \notin lost'
      BY <2>6, FlagTyped
    <3>2. sends[d] \notin Answers \cup {"posting"} /\ \A q \in Passes : passes[q].now # {d}
      BY <1>1, <3>1
    <3> QED
      BY <3>2 DEF Views, Look
  <2>7. Good(sends'[d], posts[d], accepted[d], rows[d], FlagOf(lost', d), FlagOf(shared, d),
             Views(memory, d))
    BY <2>1, <2>2, <2>3, <2>4, <2>5, <2>6, LoseGood
  <2> QED
    BY <1>1, <1>9, <2>7 DEF DeliveryGood, Views
<1> QED
  BY <1>6, <1>7, <1>8, <1>10 DEF WebhookInv

LEMMA WebhookInvHolds == Spec => []WebhookInv
<1>1. ASSUME Init PROVE WebhookInv
  <2>1. /\ 0 \in 0 .. MaxAttempts /\ 0 \in 0 .. MaxFaults /\ NoRow \in Row
        /\ MaxAttempts \in Nat
    <3>1. 0 \in 0 .. MaxAttempts /\ 0 \in 0 .. MaxFaults /\ MaxAttempts \in Nat
      BY WebhookAssumption
    <3> QED
      BY <3>1 DEF NoRow, Row
  <2>2. Typed
    BY <1>1, <2>1, EmptyPass DEF Init, Typed, Sending
  <2>3. OneAtATime /\ DispatchedOnce
    BY <1>1 DEF Init, OneAtATime, DispatchedOnce, NoPass
  <2>4. ASSUME NEW d \in Deliveries PROVE DeliveryGood(d)
    <3>1. /\ sends[d] = "none" /\ posts[d] = 0 /\ accepted[d] = 0 /\ rows[d] = NoRow
          /\ rows[d].retry = "norow" /\ rows[d].attempts = 0 /\ ~rows[d].delivered
          /\ FlagOf(lost, d) = 0 /\ FlagOf(shared, d) = 0
      BY <1>1 DEF Init, NoRow, FlagOf
    <3>2. Views(passes, d) \in [Passes -> View]
      BY <2>2, ViewsTyped DEF Typed
    <3>3. \A p \in Passes : Views(passes, d)[p].phase = "free"
      BY <1>1 DEF Init, Views, Look, NoPass
    <3>4. Good("none", 0, 0, rows[d], 0, 0, Views(passes, d))
      <4>1. Shape("none", 0, 0, rows[d], 0, 0, Views(passes, d))
        BY <2>1, <3>1, <3>2 DEF Shape, Sending, Flag
      <4>2. FirstAttempt("none", 0, 0, rows[d], 0, Views(passes, d))
        BY <3>1, <3>3 DEF FirstAttempt, Answers
      <4>3. Counted(0, 0, rows[d], 0, Views(passes, d))
        BY <3>1, <3>3 DEF Counted
      <4>4. Budgeted(0, 0, rows[d], Views(passes, d))
        BY <2>1, <3>1, <3>3 DEF Budgeted
      <4> QED
        BY <4>1, <4>2, <4>3, <4>4 DEF Good
    <3> QED
      BY <3>1, <3>4 DEF DeliveryGood
  <2> QED
    BY <2>2, <2>3, <2>4 DEF WebhookInv
<1>2. ASSUME WebhookInv, [Next]_vars PROVE WebhookInv'
  <2>1. CASE \E e \in Events : Dispatch(e)
    BY <1>2, <2>1, DispatchStep
  <2>2. CASE \E d \in Deliveries : Send(d) \/ SendRecordFails(d) \/ Elapse(d)
    BY <1>2, <2>2, SendPostStep, SendRecordStep, SendRecordFailsStep, ElapseStep DEF Send
  <2>3. CASE \E p \in Passes : Retry(p) \/ \E d \in Deliveries : RetryRecordFails(p, d)
    BY <1>2, <2>3, BeginPassStep, RetryPostStep, RetryRecordStep, RetryRecordFailsStep DEF Retry
  <2>4. CASE \E h \in Hooks : Mute(h) \/ Delete(h)
    BY <1>2, <2>4, MuteStep, DeleteStep
  <2>5. CASE Crash
    BY <1>2, <2>5, CrashStep
  <2>6. CASE UNCHANGED vars
    <3>1. UNCHANGED <<hooks, dispatched, sends, rows, passes, posts, accepted, faults, shared, lost>>
      BY <2>6 DEF vars
    <3>2. Typed' /\ OneAtATime' /\ DispatchedOnce'
      BY <1>2, <3>1 DEF WebhookInv, Typed, OneAtATime, DispatchedOnce
    <3>3. ASSUME NEW d \in Deliveries PROVE DeliveryGood(d)'
      <4>1. Views(passes, d)' = Views(passes, d)
        BY <3>1 DEF Views
      <4> QED
        BY <1>2, <3>1, <4>1, Untouched DEF WebhookInv
    <3> QED
      BY <3>2, <3>3 DEF WebhookInv
  <2> QED
    BY <1>2, <2>1, <2>2, <2>3, <2>4, <2>5, <2>6 DEF Next
<1> QED
  BY <1>1, <1>2, PTL DEF Spec

(***************************************************************************)
(* The table tells what happened and no endpoint is posted too often,      *)
(* whatever passes overlap, statements fail and processes die.             *)
(***************************************************************************)
THEOREM TableTellsPosts == Spec => []DeliveriesSound
<1>1. ASSUME WebhookInv PROVE DeliveriesSound
  <2>1. TypeOK
    <3>1. \A p \in Passes :
            /\ DOMAIN passes[p].todo \subseteq Deliveries
            /\ passes[p].answer \in Answers \cup {"none"}
      BY <1>1 DEF WebhookInv, Typed, Pass, Todo
    <3>2. \A p \in Passes : passes[p].now \subseteq DOMAIN passes[p].todo
      BY <1>1 DEF WebhookInv, OneAtATime
    <3> QED
      BY <1>1, <3>1, <3>2 DEF WebhookInv, Typed, TypeOK, Row, Sending
  <2>2. ASSUME NEW d \in Deliveries
        PROVE  /\ rows[d].attempts <= posts[d]
               /\ rows[d].delivered => accepted[d] > 0
               /\ accepted[d] > 0 /\ Exists(d) /\ ~InHand(d) /\ d \notin lost
                    => rows[d].delivered
               /\ d \notin shared \cup lost => posts[d] <= MaxAttempts /\ accepted[d] <= 1
    <3>1. Good(sends[d], posts[d], accepted[d], rows[d], FlagOf(lost, d), FlagOf(shared, d),
               Views(passes, d))
      BY <1>1 DEF WebhookInv, DeliveryGood
    <3>2. Counted(posts[d], accepted[d], rows[d], FlagOf(lost, d), Views(passes, d))
      BY <3>1 DEF Good
    <3>3. ~InHand(d) => \A p \in Passes : Views(passes, d)[p].phase # "posting"
      BY DEF InHand, Views, Look
    <3>4. accepted[d] > 0 /\ Exists(d) /\ ~InHand(d) /\ d \notin lost => rows[d].delivered
      BY <3>2, <3>3, FlagTyped DEF Counted, Exists
    <3>5. d \notin shared \cup lost => posts[d] <= MaxAttempts /\ accepted[d] <= 1
      BY <3>1, FlagTyped DEF Good, Budgeted
    <3> QED
      BY <3>2, <3>4, <3>5 DEF Counted
  <2> QED
    BY <2>1, <2>2 DEF DeliveriesSound, RowsTellPosts, NotPostedTooOften
<1> QED
  BY <1>1, WebhookInvHolds, PTL

(***************************************************************************)
(* Nothing is sent or retried anew for a subscription that was switched    *)
(* off or deleted.                                                         *)
(***************************************************************************)
THEOREM MutedRunsOut == Spec => DrainsOnceMuted
<1>1. ASSUME WebhookInv, [Next]_vars, NEW h \in Hooks, hooks[h] # "active",
             NEW d \in Deliveries, Hook(d) = h,
             sends'[d] = "posting" \/ \E p \in Passes : Holds(p, d)'
      PROVE  d \in Held(h)
  <2>1. ASSUME sends'[d] = sends[d], passes' = passes PROVE d \in Held(h)
    BY <1>1, <2>1 DEF Held, Holds
  <2>2. ASSUME passes' = passes, sends'[d] # "posting" PROVE d \in Held(h)
    BY <1>1, <2>2 DEF Held, Holds
  <2>3. CASE \E e \in Events : Dispatch(e)
    <3>1. passes' = passes /\ sends'[d] = sends[d]
      BY <1>1, <2>3 DEF Dispatch
    <3> QED
      BY <2>1, <3>1
  <2>4. ASSUME NEW c \in Deliveries, SendPost(c) \/ SendRecord(c) \/ SendRecordFails(c) \/ Elapse(c)
        PROVE  d \in Held(h)
    <3>1. passes' = passes /\ (sends'[d] = sends[d] \/ sends'[d] # "posting")
      BY <1>1, <2>4 DEF SendPost, SendRecord, SendRecordFails, Elapse, Answers, WebhookInv, Typed
    <3> QED
      BY <2>1, <2>2, <3>1
  <2>5. ASSUME NEW p \in Passes, BeginPass(p) PROVE d \in Held(h)
    <3>1. PICK batch \in SUBSET Due :
            passes' = [passes EXCEPT ![p].todo = [c \in batch |-> rows[c].attempts]]
      BY <2>5 DEF BeginPass
    <3>2. d \notin batch
      BY <1>1 DEF Due, Pending
    <3>3. passes \in [Passes -> Pass] /\ sends' = sends /\ passes[p].now = {}
      BY <1>1, <2>5 DEF WebhookInv, Typed, BeginPass, NoPass
    <3>4. ASSUME NEW q \in Passes, Holds(q, d)' PROVE Holds(q, d)
      <4>1. CASE q = p
        <5>1. DOMAIN passes'[p].todo = batch /\ passes'[p].now = {}
          BY <3>1, <3>3 DEF Pass
        <5> QED
          BY <3>2, <3>4, <4>1, <5>1 DEF Holds
      <4>2. CASE q # p
        BY <3>1, <3>3, <3>4, <4>2 DEF Holds
      <4> QED
        BY <4>1, <4>2
    <3> QED
      BY <1>1, <3>3, <3>4 DEF Held
  <2>6. ASSUME NEW p \in Passes, NEW c \in Deliveries,
               RetryPost(p, c) \/ RetryRecord(p, c) \/ RetryRecordFails(p, c)
        PROVE  d \in Held(h)
    <3>1. passes \in [Passes -> Pass] /\ sends' = sends
      BY <1>1, <2>6 DEF WebhookInv, Typed, RetryPost, RetryRecord, RetryRecordFails
    <3>2. \A q \in Passes \ {p} : passes'[q] = passes[q]
      BY <2>6, <3>1 DEF RetryPost, RetryRecord, RetryRecordFails
    <3>3. /\ DOMAIN passes'[p].todo \subseteq DOMAIN passes[p].todo
          /\ passes'[p].now \subseteq DOMAIN passes[p].todo
      <4>1. CASE RetryPost(p, c)
        BY <3>1, <4>1 DEF RetryPost, Pass
      <4>2. CASE RetryRecord(p, c)
        BY <3>1, <4>2 DEF RetryRecord, Pass, NoPass, Restrict
      <4>3. CASE RetryRecordFails(p, c)
        BY <1>1, <3>1, <4>3 DEF RetryRecordFails, Pass, NoPass, WebhookInv, OneAtATime
      <4> QED
        BY <2>6, <4>1, <4>2, <4>3
    <3>4. ASSUME NEW q \in Passes, Holds(q, d)' PROVE Holds(q, d)
      BY <3>2, <3>3, <3>4 DEF Holds
    <3> QED
      BY <1>1, <3>1, <3>4 DEF Held
  <2>7. ASSUME NEW g \in Hooks, Mute(g) \/ Delete(g) PROVE d \in Held(h)
    <3>1. passes' = passes /\ sends'[d] = sends[d]
      BY <2>7 DEF Mute, Delete
    <3> QED
      BY <2>1, <3>1
  <2>8. CASE Crash
    BY <1>1, <2>8 DEF Crash, Holds, NoPass
  <2>9. CASE UNCHANGED vars
    BY <2>1, <2>9 DEF vars
  <2> QED
    BY <1>1, <2>3, <2>4, <2>5, <2>6, <2>7, <2>8, <2>9 DEF Next, Send, Retry
<1>2. ASSUME WebhookInv, [Next]_vars
      PROVE  \A h \in Hooks : hooks[h] # "active" => Held(h)' \subseteq Held(h)
  BY <1>1, <1>2 DEF Held
<1>3. WebhookInv /\ [Next]_vars
        => [\A h \in Hooks : hooks[h] # "active" => Held(h)' \subseteq Held(h)]_vars
  BY <1>2
<1> QED
  BY <1>3, WebhookInvHolds, PTL DEF Spec, DrainsOnceMuted
==============================================================================
