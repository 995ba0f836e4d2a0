-------------------------- MODULE EventIndexerProofs --------------------------
(***************************************************************************)
(* Theorems about the indexer, for any chain of events, any pollers and    *)
(* admins and any number of faults and retries.  The inductive invariant   *)
(* says of each worker what it may rely on where it stands: what a poller  *)
(* has read or parsed covers the chain up to its ledger, what an admin is  *)
(* about to delete from the quarantine is in the table, and what a         *)
(* transaction collected before it was rolled back is paid for by a fault. *)
(***************************************************************************)
EXTENDS EventIndexer, ScoreTable, FiniteSetTheorems, WellFoundedInduction, TLAPS

------------------------------------------------------------------------------
(***************************************************************************)
(* What is collected and not yet committed, counted unit by unit.          *)
(***************************************************************************)
Units(S, f)  == UNION {{v} \X (1 .. f[v]) : v \in S}
Weight(S, f) == Cardinality(Units(S, f))

LEMMA UnitPair ==
  ASSUME NEW S, NEW f, NEW u
  PROVE  u \in Units(S, f) <=> \E v \in S : \E i \in 1 .. f[v] : u = <<v, i>>
BY DEF Units

LEMMA UnitsFinite ==
  ASSUME NEW S, IsFiniteSet(S), NEW f, \A v \in S : f[v] \in Nat
  PROVE  IsFiniteSet(Units(S, f)) /\ Weight(S, f) \in Nat
<1> DEFINE row    == [v \in S |-> {v} \X (1 .. f[v])]
           family == {{v} \X (1 .. f[v]) : v \in S}
<1>1. row \in Surjection(S, family)
  <2>1. row \in [S -> family]
    OBVIOUS
  <2>2. \A t \in family : \E v \in S : row[v] = t
    OBVIOUS
  <2> QED
    BY <2>1, <2>2 DEF Surjection
<1>2. IsFiniteSet(family)
  <2> HIDE DEF row, family
  <2> QED
    BY <1>1, FS_Surjection
<1>3. ASSUME NEW t \in family PROVE IsFiniteSet(t)
  <2>1. PICK v \in S : t = {v} \X (1 .. f[v])
    OBVIOUS
  <2>2. f[v] \in Int /\ 1 \in Int
    OBVIOUS
  <2>3. IsFiniteSet(1 .. f[v])
    BY <2>2, FS_Interval
  <2>4. IsFiniteSet({v})
    BY FS_Singleton
  <2> QED
    BY <2>1, <2>3, <2>4, FS_Product
<1>4. IsFiniteSet(UNION family)
  <2> HIDE DEF family
  <2> QED
    BY <1>2, <1>3, FS_UNION
<1>5. IsFiniteSet(Units(S, f))
  BY <1>4 DEF Units
<1> QED
  BY <1>5, FS_CardinalityType DEF Weight

LEMMA WeightOne ==
  ASSUME NEW v, NEW f, f[v] \in Nat
  PROVE  Weight({v}, f) = f[v]
<1>1. IsFiniteSet({v}) /\ Cardinality({v}) = 1
  BY FS_Singleton
<1>2. IsFiniteSet(1 .. f[v]) /\ Cardinality(1 .. f[v]) = f[v]
  <2>1. 1 \in Int /\ f[v] \in Int
    OBVIOUS
  <2>2. /\ IsFiniteSet(1 .. f[v])
        /\ Cardinality(1 .. f[v]) = IF 1 > f[v] THEN 0 ELSE f[v] - 1 + 1
    BY <2>1, FS_Interval
  <2> QED
    BY <2>2
<1>3. Cardinality({v} \X (1 .. f[v])) = 1 * f[v]
  BY <1>1, <1>2, FS_Product
<1>4. Units({v}, f) = {v} \X (1 .. f[v])
  BY DEF Units
<1>5. 1 * f[v] = f[v]
  OBVIOUS
<1> QED
  BY <1>3, <1>4, <1>5, Zenon DEF Weight

(* A worker apart from the others.                                         *)
LEMMA WeightApart ==
  ASSUME NEW S, IsFiniteSet(S), NEW v \in S, NEW f, \A w \in S : f[w] \in Nat
  PROVE  /\ Weight(S, f) = Weight(S \ {v}, f) + f[v]
         /\ Weight(S \ {v}, f) \in Nat
<1> DEFINE A == Units(S \ {v}, f)
           B == Units({v}, f)
<1>1. Units(S, f) = A \cup B
  BY DEF Units
<1>2. A \cap B = {}
  BY UnitPair
<1>3. IsFiniteSet(S \ {v}) /\ IsFiniteSet({v})
  BY FS_Subset, FS_Singleton
<1>4. /\ IsFiniteSet(A) /\ IsFiniteSet(B)
      /\ Cardinality(A) \in Nat /\ Cardinality(B) \in Nat
  BY <1>3, UnitsFinite DEF Weight
<1>5. Cardinality(B) = f[v]
  BY WeightOne DEF Weight
<1> HIDE DEF A, B
<1>6. Cardinality(A \cup B) = Cardinality(A) + Cardinality(B) - Cardinality(A \cap B)
  BY <1>4, FS_Union
<1>7. Cardinality(A \cup B) = Cardinality(A) + Cardinality(B)
  <2>1. Cardinality(A \cap B) = 0
    BY <1>2, FS_EmptySet
  <2> QED
    BY <1>4, <1>6, <2>1
<1> QED
  BY <1>1, <1>4, <1>5, <1>7 DEF A, B, Weight

(* One worker's part changes; it is never more than all.                   *)
LEMMA WeightChange ==
  ASSUME NEW S, IsFiniteSet(S), NEW v \in S, NEW f, NEW g,
         \A w \in S : f[w] \in Nat /\ g[w] \in Nat,
         \A w \in S \ {v} : f[w] = g[w]
  PROVE  /\ Weight(S, g) = Weight(S, f) - f[v] + g[v]
         /\ f[v] <= Weight(S, f)
         /\ Weight(S, f) \in Nat /\ Weight(S, g) \in Nat
<1>1. Weight(S \ {v}, f) = Weight(S \ {v}, g)
  BY DEF Weight, Units
<1>2. /\ Weight(S, f) = Weight(S \ {v}, f) + f[v]
      /\ Weight(S, g) = Weight(S \ {v}, g) + g[v]
      /\ Weight(S \ {v}, f) \in Nat
  BY WeightApart
<1>3. f[v] \in Nat /\ g[v] \in Nat
  OBVIOUS
<1>4. Weight(S, f) \in Nat /\ Weight(S, g) \in Nat
  BY UnitsFinite
<1> QED
  BY <1>1, <1>2, <1>3, <1>4

LEMMA WeightNothing ==
  ASSUME NEW S, NEW f, \A v \in S : f[v] = 0
  PROVE  Weight(S, f) = 0
<1>1. Units(S, f) = {}
  BY DEF Units
<1> QED
  BY <1>1, FS_EmptySet DEF Weight

------------------------------------------------------------------------------
(***************************************************************************)
(* What faults buy.  r attempts that collected an event and were rolled    *)
(* back, and u commits without an answer: after them the event was         *)
(* credited, and is still to be credited by what is under way, at most     *)
(* (r + 1) * (u + 1) times.                                                *)
(***************************************************************************)
Affords(f, load, credits, one) ==
  \E r, u \in Nat :
    /\ r + u <= f
    /\ load <= r + one
    /\ credits + load <= (r + 1) * (u + 1)

LEMMA MulNat == ASSUME NEW x \in Nat, NEW y \in Nat PROVE x * y \in Nat
OBVIOUS

LEMMA AffordsLess ==
  ASSUME NEW f \in Nat, NEW n \in Nat, NEW c \in Nat, NEW b \in {0, 1},
         NEW g \in Nat, NEW m \in Nat, NEW d \in Nat, NEW a \in {0, 1},
         Affords(f, n, c, b), g >= f, m <= n, d + m <= c + n, a >= b
  PROVE  Affords(g, m, d, a)
<1>1. PICK r \in Nat, u \in Nat :
        r + u <= f /\ n <= r + b /\ c + n <= (r + 1) * (u + 1)
  BY DEF Affords
<1>2. PICK p \in Nat : p = (r + 1) * (u + 1)
  BY MulNat
<1>3. r + u <= g /\ m <= r + a /\ d + m <= p
  BY <1>1, <1>2
<1> QED
  BY <1>2, <1>3 DEF Affords

LEMMA AffordsOn ==
  ASSUME NEW f \in Nat, NEW n \in Nat, NEW c \in Nat, NEW b \in {0, 1},
         NEW g \in Nat, NEW m \in Nat, Affords(f, n, c, b), g >= f, m <= n
  PROVE  Affords(g, m, c, b)
<1>1. PICK r \in Nat, u \in Nat :
        r + u <= f /\ n <= r + b /\ c + n <= (r + 1) * (u + 1)
  BY DEF Affords
<1>2. PICK p \in Nat : p = (r + 1) * (u + 1)
  BY MulNat
<1>3. r + u <= g /\ m <= r + b /\ c + m <= p
  BY <1>1, <1>2
<1> QED
  BY <1>2, <1>3 DEF Affords

LEMMA AffordsFewer ==
  ASSUME NEW f \in Nat, NEW n \in Nat, NEW c \in Nat, NEW b \in {0, 1},
         NEW d \in Nat, d <= c, Affords(f, n, c, b)
  PROVE  Affords(f, n, d, b)
<1>1. PICK r \in Nat, u \in Nat :
        r + u <= f /\ n <= r + b /\ c + n <= (r + 1) * (u + 1)
  BY DEF Affords
<1>2. PICK p \in Nat : p = (r + 1) * (u + 1)
  BY MulNat
<1>3. d + n <= p
  BY <1>1, <1>2
<1> QED
  BY <1>1, <1>2, <1>3 DEF Affords

(* A rolled back attempt collected it once more.                           *)
LEMMA AffordsCollect ==
  ASSUME NEW f \in Nat, NEW n \in Nat, NEW c \in Nat, Affords(f, n, c, 0)
  PROVE  Affords(f + 1, n + 1, c, 0)
<1>1. PICK r \in Nat, u \in Nat :
        r + u <= f /\ n <= r + 0 /\ c + n <= (r + 1) * (u + 1)
  BY DEF Affords
<1>2. PICK s \in Nat : s = r + 1
  OBVIOUS
<1>3. (s + 1) * (u + 1) = (r + 1) * (u + 1) + u + 1
  BY <1>2
<1>4. PICK p \in Nat : p = (r + 1) * (u + 1)
  BY MulNat
<1>5. s + u <= f + 1 /\ n + 1 <= s + 0 /\ c + (n + 1) <= (s + 1) * (u + 1)
  BY <1>1, <1>2, <1>3, <1>4
<1> QED
  BY <1>5 DEF Affords

(* A commit without an answer credits it again.                            *)
LEMMA AffordsRepeat ==
  ASSUME NEW f \in Nat, NEW n \in Nat, NEW c \in Nat, NEW b \in {0, 1},
         NEW k \in Nat, k <= n, Affords(f, n, c, b)
  PROVE  Affords(f + 1, n, c + k, b)
<1>1. PICK r \in Nat, u \in Nat :
        r + u <= f /\ n <= r + b /\ c + n <= (r + 1) * (u + 1)
  BY DEF Affords
<1>2. PICK v \in Nat : v = u + 1
  OBVIOUS
<1>3. (r + 1) * (v + 1) = (r + 1) * (u + 1) + r + 1
  BY <1>2
<1>4. PICK p \in Nat : p = (r + 1) * (u + 1)
  BY MulNat
<1>5. r + v <= f + 1 /\ n <= r + b /\ (c + k) + n <= (r + 1) * (v + 1)
  BY <1>1, <1>2, <1>3, <1>4
<1> QED
  BY <1>5 DEF Affords

(* Its row is inserted by a commit that is answered, or ends all the same; *)
(* k is what the transaction had collected of it.                          *)
LEMMA AffordsInsert ==
  ASSUME NEW f \in Nat, NEW n \in Nat, NEW k \in Nat, k <= n, Affords(f, n, 0, 0)
  PROVE  Affords(f, n - k, k + 1, 1)
<1>1. PICK r \in Nat, u \in Nat : r + u <= f /\ n <= r + 0
  BY DEF Affords
<1>2. PICK p \in Nat : p = (r + 1) * u
  BY MulNat
<1>3. (r + 1) * (u + 1) = p + r + 1
  BY <1>2
<1>4. n - k <= r + 1 /\ (k + 1) + (n - k) <= (r + 1) * (u + 1)
  BY <1>1, <1>2, <1>3
<1> QED
  BY <1>1, <1>4 DEF Affords

(* Likewise, but the transaction is tried again.                           *)
LEMMA AffordsInsertRetry ==
  ASSUME NEW f \in Nat, NEW n \in Nat, NEW k \in Nat, k <= n, Affords(f, n, 0, 0)
  PROVE  Affords(f + 1, n + 1, k + 1, 1)
<1>1. PICK r \in Nat, u \in Nat : r + u <= f /\ n <= r + 0
  BY DEF Affords
<1>2. PICK v \in Nat : v = u + 1
  OBVIOUS
<1>3. PICK p \in Nat : p = (r + 1) * u
  BY MulNat
<1>4. (r + 1) * (v + 1) = p + r + 1 + r + 1
  BY <1>2, <1>3
<1>5. r + v <= f + 1 /\ n + 1 <= r + 1 /\ (k + 1) + (n + 1) <= (r + 1) * (v + 1)
  BY <1>1, <1>2, <1>3, <1>4
<1> QED
  BY <1>5 DEF Affords

(* Either way of committing it, whether its row goes in (i) or not.        *)
LEMMA AffordsAnswered ==
  ASSUME NEW f \in Nat, NEW n \in Nat, NEW c \in Nat, NEW b \in {0, 1},
         NEW k \in Nat, NEW i \in {0, 1}, k <= n, Affords(f, n, c, b),
         i = 1 => c = 0 /\ b = 0
  PROVE  Affords(f, n - k, c + k + i, b + i)
<1>1. CASE i = 1
  <2>1. Affords(f, n - k, k + 1, 1)
    BY <1>1, AffordsInsert
  <2>2. c + k + i = k + 1 /\ b + i = 1
    BY <1>1
  <2> QED
    BY <2>1, <2>2
<1>2. CASE i = 0
  <2>1. n - k \in Nat /\ c + k \in Nat /\ n - k <= n /\ (c + k) + (n - k) <= c + n
    OBVIOUS
  <2>2. f >= f /\ b >= b
    OBVIOUS
  <2>3. Affords(f, n - k, c + k, b)
    BY <2>1, <2>2, AffordsLess
  <2>4. c + k + i = c + k /\ b + i = b
    BY <1>2
  <2> QED
    BY <2>3, <2>4
<1> QED
  BY <1>1, <1>2

LEMMA AffordsRetried ==
  ASSUME NEW f \in Nat, NEW n \in Nat, NEW c \in Nat, NEW b \in {0, 1},
         NEW k \in Nat, NEW i \in {0, 1}, k <= n, Affords(f, n, c, b),
         i = 1 => c = 0 /\ b = 0
  PROVE  Affords(f + 1, n + i, c + k + i, b + i)
<1>1. CASE i = 1
  <2>1. Affords(f + 1, n + 1, k + 1, 1)
    BY <1>1, AffordsInsertRetry
  <2>2. c + k + i = k + 1 /\ b + i = 1 /\ n + i = n + 1
    BY <1>1
  <2> QED
    BY <2>1, <2>2
<1>2. CASE i = 0
  <2>1. Affords(f + 1, n, c + k, b)
    BY AffordsRepeat
  <2>2. c + k + i = c + k /\ b + i = b /\ n + i = n
    BY <1>2
  <2> QED
    BY <2>1, <2>2
<1> QED
  BY <1>1, <1>2

LEMMA AffordsBound ==
  ASSUME NEW f \in Nat, NEW n \in Nat, NEW c \in Nat, NEW b, Affords(f, n, c, b)
  PROVE  c <= ((2 + f) * (2 + f)) \div 4
<1>1. PICK r \in Nat, u \in Nat : r + u <= f /\ c + n <= (r + 1) * (u + 1)
  BY DEF Affords
<1>2. PICK h \in Nat : h = r + u + 2
  OBVIOUS
<1>3. 4 * ((r + 1) * (u + 1)) <= h * h
  <2>1. h * h - 4 * ((r + 1) * (u + 1)) = (r - u) * (r - u)
    BY <1>2
  <2>2. (r - u) * (r - u) >= 0
    OBVIOUS
  <2> QED
    BY <1>2, <2>1, <2>2
<1>4. h * h <= (2 + f) * (2 + f)
  <2>1. PICK k \in Nat : 2 + f = h + k
    <3>1. 2 + f - h \in Nat
      BY <1>1, <1>2
    <3> QED
      BY <3>1
  <2>2. (2 + f) * (2 + f) = h * h + (2 * h * k + k * k)
    BY <2>1
  <2>3. 2 * h * k + k * k >= 0
    OBVIOUS
  <2> QED
    BY <2>2, <2>3
<1>5. PICK p \in Nat : p = (r + 1) * (u + 1)
  BY MulNat
<1>6. PICK q \in Nat : q = (2 + f) * (2 + f)
  BY MulNat
<1>7. PICK z \in Nat : z = h * h
  BY MulNat
<1>8. 4 * c <= q
  BY <1>1, <1>3, <1>4, <1>5, <1>6, <1>7
<1>9. c <= q \div 4
  BY <1>8
<1> QED
  BY <1>6, <1>9

------------------------------------------------------------------------------
(***************************************************************************)
(* Slots of the table.                                                     *)
(***************************************************************************)
LEMMA SmallestOf ==
  ASSUME NEW S \in SUBSET Nat, NEW x \in S
  PROVE  \E least \in S : \A y \in S : least <= y
<1> DEFINE R == OpToRel(<, Nat)
<1>1. R = {ss \in Nat \X Nat : ss[1] < ss[2]}
  BY DEF OpToRel
<1>2. IsWellFoundedOn(R, Nat)
  BY NatLessThanWellFounded
<1> HIDE DEF R
<1>3. PICK least \in S : \A y \in S : ~ (<<y, least>> \in R)
  BY <1>2, WFMin
<1>4. \A y \in S : least \in Nat /\ y \in Nat /\ ~ (y < least)
  BY <1>1, <1>3
<1>5. \A y \in S : least <= y
  BY <1>4
<1> QED
  BY <1>5

LEMMA EventFields ==
  ASSUME NEW e \in Event
  PROVE  /\ e \in Nat /\ e > 0
         /\ Chain[e].ledger \in 1 .. MaxLedger
         /\ Chain[e].parse \in {"ok", "throws", "null"}
BY IndexerAssumption DEF IndexerAssumption

LEMMA SlotTransitive ==
  ASSUME NEW e, NEW f, NEW g, SameSlot(e, f), SameSlot(f, g)
  PROVE  SameSlot(e, g)
BY DEF SameSlot

LEMMA SlotSymmetric ==
  ASSUME NEW e, NEW f, SameSlot(e, f)
  PROVE  SameSlot(f, e)
BY DEF SameSlot

(* After an insert every event of the batch that parses has its slot taken *)
(* by a row: its own, one that was there, or that of the first of the      *)
(* batch in this slot.                                                     *)
LEMMA InsertedKeeps ==
  ASSUME NEW batch \in SUBSET Event, NEW e \in batch, Readable(e)
  PROVE  \E f \in rows \cup Inserted(batch) : SameSlot(e, f)
<1> DEFINE rivals == {f \in batch : Readable(f) /\ SameSlot(e, f)}
<1>1. SameSlot(e, e)
  BY DEF SameSlot
<1>2. rivals \subseteq Nat /\ e \in rivals
  BY <1>1, EventFields
<1>3. PICK f \in rivals : \A g \in rivals : f <= g
  <2> HIDE DEF rivals
  <2> QED
    BY <1>2, SmallestOf
<1>4. CASE \E g \in rows : SameSlot(f, g)
  BY <1>3, <1>4, SlotTransitive
<1>5. CASE \A g \in rows : ~SameSlot(f, g)
  <2>1. ASSUME NEW g \in batch, g < f, Readable(g), SameSlot(f, g) PROVE FALSE
    <3>1. g \in rivals
      BY <2>1, SlotTransitive
    <3>2. f \in Nat /\ g \in Nat
      BY EventFields
    <3> QED
      BY <1>3, <2>1, <3>1, <3>2
  <2>2. f \in Inserted(batch)
    BY <1>5, <2>1 DEF Inserted
  <2> QED
    BY <2>2
<1> QED
  BY <1>4, <1>5

LEMMA InsertedFacts ==
  ASSUME NEW batch
  PROVE  /\ Inserted(batch) \subseteq batch
         /\ \A e \in Inserted(batch) : Readable(e) /\ e \notin rows /\ ~Kept(e)
BY DEF Inserted, SameSlot, Kept

------------------------------------------------------------------------------
(***************************************************************************)
(* The inductive invariant.                                                *)
(***************************************************************************)
WorkerRecord ==
  [at : {"idle", "asking", "parsing", "storing", "announcing", "moving", "deleting"},
   batch : SUBSET Event, to : Nat, end : Nat, news : [Event -> Nat], tries : Nat]

IndexerTyped ==
  /\ tip \in 0 .. MaxLedger /\ cursor \in 0 .. tip /\ upgraded \in BOOLEAN
  /\ rows \subseteq Event /\ quarantine \subseteq Event
  /\ credited \in [Event -> Nat] /\ sent \in [Event -> Nat]
  /\ faults \in 0 .. MaxFaults
  /\ dropped \subseteq Event /\ unsent \subseteq Event
  /\ worker \in [Workers -> WorkerRecord]

(* What the cursor may pass: events of no interest, those whose slot is    *)
(* taken, and those set aside.                                             *)
Safe(e) ==
  \/ Chain[e].parse = "null"
  \/ Kept(e)
  \/ Chain[e].parse = "throws" /\ e \in quarantine \cup dropped

SafeTo(n) == \A e \in Event : Chain[e].ledger <= n => Safe(e)

(* A poller stands for every ledger up to the end of its chunk.            *)
Reading(p) ==
  /\ At(p, "asking") => worker[p].to <= cursor
  /\ At(p, "parsing") =>
       \A e \in Event : Chain[e].ledger <= worker[p].to => Safe(e) \/ e \in worker[p].batch
  /\ At(p, "storing") =>
       \A e \in Event : Chain[e].ledger <= worker[p].to =>
         Safe(e) \/ (e \in worker[p].batch /\ Readable(e))
  /\ At(p, "announcing") \/ At(p, "moving") => SafeTo(worker[p].to)

(* What is reprocessed is readable, and once it is stored its row of the   *)
(* quarantine can go.                                                      *)
Redoing(a) ==
  /\ worker[a].end = 0 /\ (At(a, "parsing") \/ At(a, "storing") \/ At(a, "announcing"))
       => \A e \in worker[a].batch : Readable(e)
  /\ At(a, "deleting") => \A e \in worker[a].batch : Kept(e)

(* What was collected is of the chunk in hand; while the transaction is    *)
(* still open that is because an attempt failed, afterwards it is stored.  *)
Collecting(w) ==
  /\ \A e \in Event : worker[w].news[e] > 0 =>
       /\ e \in worker[w].batch /\ Readable(e)
       /\ At(w, "storing") \/ At(w, "announcing")
       /\ At(w, "storing") => faults > 0
       /\ At(w, "announcing") => Recorded(e)
  /\ At(w, "announcing") => \A e \in worker[w].batch : Readable(e) => Kept(e)

WorkerSound(w) ==
  /\ worker[w].to <= tip /\ worker[w].end <= tip /\ worker[w].tries <= MaxRetries
  /\ Collecting(w)
  /\ w \in Pollers => Reading(w)
  /\ w \in Admins => Redoing(w)

(* What is still to be credited if every open transaction commits.         *)
Pending(e) ==
  [w \in Workers |-> IF worker[w].at = "storing" THEN worker[w].news[e] ELSE 0]

Load(e) == Weight(Workers, Pending(e))

Has(e) == IF e \in rows THEN 1 ELSE 0

Affordable(e) == Affords(faults, Load(e), credited[e], Has(e))

Credits(e) ==
  /\ credited[e] > 0 => Scored(e) /\ Recorded(e)
  /\ Scored(e) /\ e \in rows => credited[e] > 0
  /\ Affordable(e)

Notices(e) ==
  /\ sent[e] > 0 => Recorded(e)
  /\ e \in rows => \/ sent[e] > 0
                   \/ e \in unsent
                   \/ \E w \in Workers : worker[w].news[e] > 0

IndexerInv ==
  /\ IndexerTyped
  /\ SafeTo(cursor)
  /\ \A w \in Workers : WorkerSound(w)
  /\ \A e \in Event : Credits(e) /\ Notices(e)

------------------------------------------------------------------------------
(***************************************************************************)
(* What every step keeps.                                                  *)
(***************************************************************************)
LEMMA Bounds ==
  /\ MaxLedger \in Nat /\ MaxFaults \in Nat /\ MaxRetries \in Nat
  /\ BatchSize \in Nat /\ BatchSize > 0
  /\ IsFiniteSet(Workers) /\ Pollers \cap Admins = {}
  /\ \A range \in Ranges : range[1] \in Nat /\ range[1] > 0 /\ range[2] \in Nat /\ range[2] > 0
BY IndexerAssumption DEF IndexerAssumption

LEMMA NumbersTyped ==
  ASSUME IndexerTyped
  PROVE  tip \in Nat /\ cursor \in Nat /\ cursor <= tip /\ faults \in Nat
BY Bounds DEF IndexerTyped

LEMMA WorkerTyped ==
  ASSUME IndexerTyped, NEW w \in Workers
  PROVE  /\ worker[w] \in WorkerRecord
         /\ worker[w].batch \subseteq Event
         /\ worker[w].to \in Nat /\ worker[w].end \in Nat /\ worker[w].tries \in Nat
         /\ worker[w].news \in [Event -> Nat]
         /\ \A e \in Event : worker[w].news[e] \in Nat
BY DEF IndexerTyped, WorkerRecord

LEMMA BecomesFacts ==
  ASSUME IndexerTyped, NEW w \in Workers, NEW s, Becomes(w, s)
  PROVE  /\ worker'[w] = s
         /\ \A v \in Workers \ {w} : worker'[v] = worker[v]
         /\ s \in WorkerRecord => worker' \in [Workers -> WorkerRecord]
BY DEF IndexerTyped, Becomes

LEMMA IdleTyped ==
  /\ Idle \in WorkerRecord
  /\ Idle.at = "idle" /\ Idle.batch = {} /\ Idle.to = 0 /\ Idle.end = 0 /\ Idle.tries = 0
  /\ Idle.news = Nothing /\ Nothing \in [Event -> Nat]
  /\ \A e \in Event : Nothing[e] = 0
BY DEF Idle, Nothing, WorkerRecord

LEMMA KeptStays ==
  ASSUME rows \subseteq rows', NEW e, Kept(e)
  PROVE  Kept(e)'
BY DEF Kept

LEMMA RecordedStays ==
  ASSUME rows \subseteq rows', faults \in Nat, faults' \in Nat, faults' >= faults,
         NEW e, Recorded(e)
  PROVE  Recorded(e)'
BY KeptStays DEF Recorded

LEMMA SafeStays ==
  ASSUME rows \subseteq rows', quarantine \cup dropped \subseteq quarantine' \cup dropped',
         NEW e, Safe(e)
  PROVE  Safe(e)'
BY KeptStays DEF Safe

(* Nothing the other workers rely on is taken from them.                   *)
Grown ==
  /\ tip' >= tip /\ cursor' >= cursor /\ faults' >= faults
  /\ rows \subseteq rows'
  /\ upgraded' = upgraded
  /\ \A e \in Event : Safe(e) => Safe(e)'

LEMMA OthersSound ==
  ASSUME IndexerInv, IndexerTyped', Grown,
         NEW v \in Workers, worker'[v] = worker[v]
  PROVE  WorkerSound(v)'
<1>1. WorkerSound(v) /\ IndexerTyped
  BY DEF IndexerInv
<1>2. /\ tip \in Nat /\ tip' \in Nat /\ cursor \in Nat /\ cursor' \in Nat
      /\ faults \in Nat /\ faults' \in Nat
  BY <1>1, Bounds DEF IndexerTyped
<1>3. \A e \in Event : Readable(e)' <=> Readable(e)
  BY DEF Readable, Throws, Known, Grown
<1>4. \A e \in Event : (Kept(e) => Kept(e)') /\ (Recorded(e) => Recorded(e)')
  BY <1>2, KeptStays, RecordedStays DEF Grown
<1>5. worker[v].batch \subseteq Event /\ worker[v].to \in Nat /\ worker[v].end \in Nat
  BY <1>1, WorkerTyped
<1>6. Collecting(v)'
  BY <1>1, <1>2, <1>3, <1>4, <1>5 DEF WorkerSound, Collecting, At, Grown
<1>7. Reading(v) => Reading(v)'
  BY <1>1, <1>2, <1>3, <1>4, <1>5 DEF Reading, At, Grown, SafeTo
<1>8. Redoing(v) => Redoing(v)'
  BY <1>3, <1>4, <1>5 DEF Redoing, At
<1>9. worker[v].to <= tip' /\ worker[v].end <= tip'
  BY <1>1, <1>2, <1>5 DEF WorkerSound, Grown
<1> QED
  BY <1>1, <1>6, <1>7, <1>8, <1>9 DEF WorkerSound

LEMMA LoadNat ==
  ASSUME IndexerTyped, NEW e \in Event
  PROVE  /\ \A w \in Workers : Pending(e)[w] \in Nat
         /\ Load(e) \in Nat
<1>1. \A w \in Workers : Pending(e)[w] \in Nat
  BY WorkerTyped DEF Pending
<1> QED
  BY <1>1, Bounds, UnitsFinite DEF Load

LEMMA PendingOf ==
  ASSUME NEW e, NEW w \in Workers
  PROVE  Pending(e)[w] = IF worker[w].at = "storing" THEN worker[w].news[e] ELSE 0
BY DEF Pending

(* A step of one worker moves the load by what it does to its own part.    *)
LEMMA LoadMoves ==
  ASSUME IndexerTyped, IndexerTyped', NEW w \in Workers, NEW e \in Event,
         \A v \in Workers \ {w} : worker'[v] = worker[v]
  PROVE  /\ Load(e)' = Load(e) - Pending(e)[w] + Pending(e)'[w]
         /\ Pending(e)[w] <= Load(e)
         /\ Load(e) \in Nat /\ Load(e)' \in Nat
         /\ Pending(e)[w] \in Nat /\ Pending(e)'[w] \in Nat
<1>1. \A v \in Workers : Pending(e)[v] \in Nat
  BY WorkerTyped DEF Pending
<1>2. \A v \in Workers : Pending(e)'[v] \in Nat
  BY DEF IndexerTyped, WorkerRecord, Pending
<1>3. \A v \in Workers \ {w} : Pending(e)[v] = Pending(e)'[v]
  BY DEF Pending
<1>4. PICK f : f = Pending(e)
  OBVIOUS
<1>5. PICK g : g = Pending(e)'
  OBVIOUS
<1>6. /\ Weight(Workers, g) = Weight(Workers, f) - f[w] + g[w]
      /\ f[w] <= Weight(Workers, f)
      /\ Weight(Workers, f) \in Nat /\ Weight(Workers, g) \in Nat
  BY <1>1, <1>2, <1>3, <1>4, <1>5, Bounds, WeightChange
<1>7. Load(e) = Weight(Workers, f) /\ Load(e)' = Weight(Workers, g)
  BY <1>4, <1>5 DEF Load
<1> QED
  BY <1>1, <1>2, <1>4, <1>5, <1>6, <1>7

LEMMA HasTyped == \A e : Has(e) \in {0, 1}
BY DEF Has

(* A step that stores nothing.                                             *)
LEMMA CreditsStand ==
  ASSUME IndexerInv, IndexerTyped', NEW w \in Workers,
         \A v \in Workers \ {w} : worker'[v] = worker[v],
         faults' >= faults, rows' = rows, credited' = credited,
         NEW e \in Event, Pending(e)'[w] <= Pending(e)[w]
  PROVE  Credits(e)' /\ (Recorded(e) => Recorded(e)')
<1>1. IndexerTyped /\ Credits(e)
  BY DEF IndexerInv
<1>2. faults \in Nat /\ faults' \in Nat /\ credited[e] \in Nat
  BY <1>1, Bounds DEF IndexerTyped
<1>3. Recorded(e) => Recorded(e)'
  BY <1>2, RecordedStays
<1>4. /\ Load(e)' <= Load(e) /\ Load(e) \in Nat /\ Load(e)' \in Nat
  BY <1>1, LoadMoves
<1>5. Has(e)' = Has(e) /\ Has(e) \in {0, 1} /\ credited'[e] = credited[e]
  BY HasTyped DEF Has
<1>6. Affordable(e)'
  <2>1. PICK f \in Nat, n \in Nat, c \in Nat, b \in {0, 1}, g \in Nat, m \in Nat :
          /\ f = faults /\ n = Load(e) /\ c = credited[e] /\ b = Has(e)
          /\ g = faults' /\ m = Load(e)'
    BY <1>2, <1>4, <1>5
  <2>2. Affords(f, n, c, b)
    BY <1>1, <2>1 DEF Credits, Affordable
  <2>3. g >= f /\ m <= n
    BY <1>4, <2>1
  <2>4. Affords(g, m, c, b)
    BY <2>2, <2>3, AffordsOn
  <2> QED
    BY <1>5, <2>1, <2>4 DEF Affordable
<1>7. Credits(e)'
  BY <1>1, <1>3, <1>5, <1>6 DEF Credits, Scored
<1> QED
  BY <1>3, <1>7

LEMMA BooksStand ==
  ASSUME IndexerInv, IndexerTyped', NEW w \in Workers,
         \A v \in Workers \ {w} : worker'[v] = worker[v],
         faults' >= faults, rows' = rows, credited' = credited, sent' = sent,
         unsent \subseteq unsent',
         \A e \in Event : Pending(e)'[w] <= Pending(e)[w],
         \A e \in rows : worker[w].news[e] > 0 =>
           worker'[w].news[e] > 0 \/ e \in unsent',
         NEW e \in Event
  PROVE  (Credits(e) /\ Notices(e))'
<1>1. Credits(e)' /\ (Recorded(e) => Recorded(e)')
  BY CreditsStand
<1>2. Notices(e)
  BY DEF IndexerInv
<1>3. Notices(e)'
  BY <1>1, <1>2 DEF Notices
<1> QED
  BY <1>1, <1>3

------------------------------------------------------------------------------
(***************************************************************************)
(* The steps of a poller and of an admin outside the transaction.          *)
(***************************************************************************)

(* A step of one worker that stores nothing, from a place where it has     *)
(* collected nothing.                                                      *)
LEMMA QuietStep ==
  ASSUME IndexerInv, IndexerTyped', Grown, NEW w \in Workers,
         \A v \in Workers \ {w} : worker'[v] = worker[v],
         ~At(w, "storing"), ~At(w, "announcing"),
         \A e \in Event : worker'[w].news[e] = 0,
         rows' = rows, credited' = credited, sent' = sent, unsent' = unsent,
         SafeTo(cursor)', WorkerSound(w)'
  PROVE  IndexerInv'
<1>1. IndexerTyped /\ WorkerSound(w)
  BY DEF IndexerInv
<1>2. \A v \in Workers : WorkerSound(v)'
  BY OthersSound
<1>3. \A e \in Event : Pending(e)[w] = 0 /\ Pending(e)'[w] = 0
  BY DEF Pending, At
<1>4. \A e \in Event : ~ (worker[w].news[e] > 0)
  BY <1>1 DEF WorkerSound, Collecting
<1>5. \A e \in Event : Pending(e)'[w] <= Pending(e)[w]
  BY <1>3
<1>6. rows \subseteq Event
  BY <1>1 DEF IndexerTyped
<1>7. ASSUME NEW e \in Event PROVE (Credits(e) /\ Notices(e))'
  BY <1>4, <1>5, <1>6, BooksStand DEF Grown
<1> QED
  BY <1>2, <1>7 DEF IndexerInv

LEMMA Still ==
  ASSUME tip' = tip, cursor' = cursor, faults \in Nat, faults' \in Nat, faults' >= faults,
         rows' = rows, quarantine' = quarantine, dropped' = dropped, upgraded' = upgraded,
         IndexerTyped
  PROVE  Grown /\ (SafeTo(cursor) => SafeTo(cursor)')
<1>1. \A e \in Event : Safe(e) => Safe(e)'
  BY SafeStays
<1> QED
  BY <1>1, NumbersTyped DEF Grown, SafeTo

LEMMA FaultTyped ==
  ASSUME IndexerTyped, NoFault \/ Fault
  PROVE  faults' \in 0 .. MaxFaults /\ faults' \in Nat /\ faults \in Nat /\ faults' >= faults
BY Bounds DEF IndexerTyped, NoFault, Fault

(* What fetching a chunk gives: a worker that parses it, with every event  *)
(* of the chunk in hand.                                                   *)
LEMMA ChunkFacts ==
  ASSUME IndexerTyped, NEW first \in Nat, NEW last \in Nat, last <= tip, NEW end \in Nat
  PROVE  LET c == Chunk(first, last, end)
         IN  /\ c \in WorkerRecord
             /\ c.at = "parsing" /\ c.end = end /\ c.tries = 0
             /\ c.to \in Nat /\ c.to <= last
             /\ c.batch \subseteq Event
             /\ \A e \in Event : c.news[e] = 0
             /\ \A e \in Event :
                  Chain[e].ledger >= first /\ Chain[e].ledger <= c.to => e \in c.batch
<1>1. tip \in Nat
  BY NumbersTyped
<1>2. PICK to : to = ChunkEnd(first, last)
  OBVIOUS
<1>3. to \in Nat /\ to <= last
  BY <1>2, Bounds DEF ChunkEnd, Least
<1>4. PICK fetched : fetched = Fetched(first, to)
  OBVIOUS
<1>5. fetched \subseteq Event
  BY <1>4 DEF Fetched
<1>6. \A e \in Event :
        Chain[e].ledger >= first /\ Chain[e].ledger <= to => e \in fetched
  BY <1>1, <1>3, <1>4, EventFields, Bounds DEF Fetched, Least
<1>7. PICK c : c = Chunk(first, last, end)
  OBVIOUS
<1>8. c = [Idle EXCEPT !.at = "parsing", !.batch = fetched, !.to = to, !.end = end]
  BY <1>2, <1>4, <1>7, Zenon DEF Chunk
<1>9. c \in WorkerRecord
  BY <1>3, <1>5, <1>8, IdleTyped DEF WorkerRecord
<1>10. /\ c.at = "parsing" /\ c.batch = fetched /\ c.to = to /\ c.end = end
       /\ c.news = Nothing /\ c.tries = 0
  BY <1>8, IdleTyped DEF WorkerRecord
<1> QED
  BY <1>3, <1>5, <1>6, <1>7, <1>9, <1>10, IdleTyped

LEMMA IdleSound ==
  ASSUME NEW w \in Workers, worker'[w] = Idle, IndexerTyped'
  PROVE  WorkerSound(w)'
<1>1. tip' \in Nat
  BY Bounds DEF IndexerTyped
<1>2. Collecting(w)' /\ Reading(w)' /\ Redoing(w)'
  BY IdleTyped DEF Collecting, Reading, Redoing, At
<1> QED
  BY <1>1, <1>2, IdleTyped, Bounds DEF WorkerSound

LEMMA ReadCursorKeeps ==
  ASSUME IndexerInv, NEW p \in Pollers, ReadCursor(p)
  PROVE  IndexerInv'
<1>0. IndexerTyped /\ p \in Workers /\ p \notin Admins /\ SafeTo(cursor)
  BY Bounds DEF IndexerInv, Workers
<1>1. PICK s : s = [Idle EXCEPT !.at = "asking", !.to = cursor]
  OBVIOUS
<1>2. /\ s \in WorkerRecord /\ s.at = "asking" /\ s.to = cursor /\ s.end = 0
      /\ s.tries = 0 /\ s.news = Nothing
  BY <1>0, <1>1, IdleTyped, NumbersTyped DEF WorkerRecord, Idle
<1>3. /\ At(p, "idle") /\ Becomes(p, s)
      /\ tip' = tip /\ cursor' = cursor /\ upgraded' = upgraded /\ rows' = rows
      /\ quarantine' = quarantine /\ credited' = credited /\ sent' = sent
      /\ faults' = faults /\ dropped' = dropped /\ unsent' = unsent
  BY <1>1 DEF ReadCursor
<1>4. /\ worker'[p] = s /\ worker' \in [Workers -> WorkerRecord]
      /\ \A v \in Workers \ {p} : worker'[v] = worker[v]
  BY <1>0, <1>2, <1>3, BecomesFacts
<1>5. IndexerTyped'
  BY <1>0, <1>3, <1>4 DEF IndexerTyped
<1>6. Grown /\ SafeTo(cursor)'
  BY <1>0, <1>3, NumbersTyped, Still
<1>7. WorkerSound(p)'
  <2>1. Collecting(p)' /\ Reading(p)'
    BY <1>0, <1>2, <1>3, <1>4, IdleTyped, NumbersTyped DEF Collecting, Reading, At
  <2> QED
    BY <1>0, <1>2, <1>3, <1>4, <2>1, NumbersTyped, Bounds DEF WorkerSound
<1> QED
  BY <1>0, <1>2, <1>3, <1>4, <1>5, <1>6, <1>7, IdleTyped, QuietStep DEF At

LEMMA AskTipKeeps ==
  ASSUME IndexerInv, NEW p \in Pollers, AskTip(p)
  PROVE  IndexerInv'
<1>0. IndexerTyped /\ p \in Workers /\ p \notin Admins /\ SafeTo(cursor) /\ WorkerSound(p)
  BY Bounds DEF IndexerInv, Workers
<1>1. /\ At(p, "asking")
      /\ NoFault \/ Fault
      /\ tip' = tip /\ cursor' = cursor /\ upgraded' = upgraded /\ rows' = rows
      /\ quarantine' = quarantine /\ credited' = credited /\ sent' = sent
      /\ dropped' = dropped /\ unsent' = unsent
  BY DEF AskTip
<1>2. worker[p].to \in Nat /\ worker[p].to <= cursor /\ tip \in Nat /\ cursor \in Nat
  <2>1. Reading(p)
    BY <1>0 DEF WorkerSound
  <2>2. worker[p].to <= cursor
    BY <1>1, <2>1 DEF Reading
  <2> QED
    BY <1>0, <2>2, WorkerTyped, NumbersTyped
<1>3. faults' \in 0 .. MaxFaults /\ faults' \in Nat /\ faults \in Nat /\ faults' >= faults
  BY <1>0, <1>1, FaultTyped
<1>4. Grown /\ SafeTo(cursor)'
  BY <1>0, <1>1, <1>3, Still
<1>5. ~At(p, "storing") /\ ~At(p, "announcing")
  BY <1>1 DEF At
<1>6. CASE Becomes(p, Idle)
  <2>1. /\ worker'[p] = Idle /\ worker' \in [Workers -> WorkerRecord]
        /\ \A v \in Workers \ {p} : worker'[v] = worker[v]
    BY <1>0, <1>6, IdleTyped, BecomesFacts
  <2>2. IndexerTyped'
    BY <1>0, <1>1, <1>3, <2>1 DEF IndexerTyped
  <2>3. WorkerSound(p)'
    BY <1>0, <2>1, <2>2, IdleSound
  <2> QED
    BY <1>0, <1>1, <1>4, <1>5, <2>1, <2>2, <2>3, IdleTyped, QuietStep
<1>7. CASE tip > worker[p].to /\ Becomes(p, Chunk(worker[p].to + 1, tip, 0))
  <2>1. PICK s : s = Chunk(worker[p].to + 1, tip, 0)
    OBVIOUS
  <2>2. worker[p].to + 1 \in Nat /\ tip <= tip /\ 0 \in Nat
    BY <1>2
  <2>3. /\ s \in WorkerRecord /\ s.at = "parsing" /\ s.end = 0 /\ s.tries = 0
        /\ s.to \in Nat /\ s.to <= tip /\ s.batch \subseteq Event
        /\ \A e \in Event : s.news[e] = 0
        /\ \A e \in Event : Chain[e].ledger >= worker[p].to + 1 /\ Chain[e].ledger <= s.to
                              => e \in s.batch
    BY <1>0, <1>2, <2>1, <2>2, ChunkFacts
  <2>4. /\ worker'[p] = s /\ worker' \in [Workers -> WorkerRecord]
        /\ \A v \in Workers \ {p} : worker'[v] = worker[v]
    BY <1>0, <1>7, <2>1, <2>3, BecomesFacts
  <2>5. IndexerTyped'
    BY <1>0, <1>1, <1>3, <2>4 DEF IndexerTyped
  <2>6. Collecting(p)'
    BY <2>3, <2>4 DEF Collecting, At
  <2>7. Reading(p)'
    <3>1. ASSUME NEW e \in Event, Chain[e].ledger <= s.to, e \notin s.batch
          PROVE  Safe(e)'
      <4>1. Chain[e].ledger \in Nat
        BY EventFields, Bounds
      <4>2. Chain[e].ledger <= cursor
        BY <1>2, <2>3, <3>1, <4>1
      <4> QED
        BY <1>0, <1>4, <4>2 DEF SafeTo, Grown
    <3> QED
      BY <2>3, <2>4, <3>1 DEF Reading, At
  <2>8. WorkerSound(p)'
    BY <1>0, <1>1, <2>3, <2>4, <2>6, <2>7, <1>2, Bounds DEF WorkerSound
  <2> QED
    BY <1>0, <1>1, <1>4, <1>5, <2>3, <2>4, <2>5, <2>8, QuietStep
<1> QED
  BY <1>6, <1>7 DEF AskTip

(* A worker with nothing collected comes back to the start.                *)
LEMMA BackToIdle ==
  ASSUME IndexerInv, NEW w \in Workers, Becomes(w, Idle),
         ~At(w, "storing"), ~At(w, "announcing"),
         tip' = tip, upgraded' = upgraded, rows' = rows,
         cursor' \in 0 .. tip, cursor' >= cursor, SafeTo(cursor)',
         quarantine' \subseteq Event, dropped' = dropped,
         \A e \in Event : Safe(e) => Safe(e)',
         credited' = credited, sent' = sent, unsent' = unsent,
         faults' \in 0 .. MaxFaults, faults' >= faults
  PROVE  IndexerInv'
<1>1. IndexerTyped
  BY DEF IndexerInv
<1>2. /\ worker'[w] = Idle /\ worker' \in [Workers -> WorkerRecord]
      /\ \A v \in Workers \ {w} : worker'[v] = worker[v]
  BY <1>1, IdleTyped, BecomesFacts
<1>3. IndexerTyped'
  BY <1>1, <1>2 DEF IndexerTyped
<1>4. Grown
  BY <1>1, NumbersTyped DEF Grown
<1>5. WorkerSound(w)'
  BY <1>2, <1>3, IdleSound
<1> QED
  BY <1>2, <1>3, <1>4, <1>5, IdleTyped, QuietStep

LEMMA MoveCursorKeeps ==
  ASSUME IndexerInv, NEW p \in Pollers, MoveCursor(p)
  PROVE  IndexerInv'
<1>1. IndexerTyped /\ p \in Workers /\ SafeTo(cursor) /\ WorkerSound(p)
  BY DEF IndexerInv, Workers
<1>2. /\ At(p, "moving") /\ Becomes(p, Idle)
      /\ NoFault \/ Fault
      /\ cursor' = Advanced(worker[p].to) \/ cursor' = cursor
      /\ tip' = tip /\ upgraded' = upgraded /\ rows' = rows
      /\ quarantine' = quarantine /\ credited' = credited /\ sent' = sent
      /\ dropped' = dropped /\ unsent' = unsent
  BY DEF MoveCursor
<1>3. Reading(p) /\ worker[p].to <= tip
  BY <1>1 DEF WorkerSound
<1>4. SafeTo(worker[p].to)
  BY <1>2, <1>3 DEF Reading
<1>5. cursor \in Nat /\ tip \in Nat /\ cursor <= tip /\ worker[p].to \in Nat
  BY <1>1, NumbersTyped, WorkerTyped
<1>6. cursor' \in {cursor, worker[p].to} /\ cursor' >= cursor
  BY <1>2, <1>5 DEF Advanced
<1>7. \A e \in Event : Safe(e) => Safe(e)'
  BY <1>2, SafeStays
<1>8. SafeTo(cursor)'
  BY <1>1, <1>4, <1>6, <1>7 DEF SafeTo
<1>9. ~At(p, "storing") /\ ~At(p, "announcing")
  BY <1>2 DEF At
<1>10. cursor' \in 0 .. tip
  BY <1>3, <1>5, <1>6
<1>11. faults' \in 0 .. MaxFaults /\ faults' >= faults
  BY <1>1, <1>2, FaultTyped
<1>12. quarantine' \subseteq Event
  BY <1>1, <1>2 DEF IndexerTyped
<1> QED
  BY <1>1, <1>2, <1>6, <1>7, <1>8, <1>9, <1>10, <1>11, <1>12, BackToIdle

LEMMA DeleteQuarantinedKeeps ==
  ASSUME IndexerInv, NEW a \in Admins, DeleteQuarantined(a)
  PROVE  IndexerInv'
<1>1. IndexerTyped /\ a \in Workers /\ SafeTo(cursor) /\ WorkerSound(a)
  BY DEF IndexerInv, Workers
<1>2. /\ At(a, "deleting") /\ Becomes(a, Idle)
      /\ NoFault \/ Fault
      /\ quarantine' = quarantine \ worker[a].batch \/ quarantine' = quarantine
      /\ tip' = tip /\ cursor' = cursor /\ upgraded' = upgraded /\ rows' = rows
      /\ credited' = credited /\ sent' = sent /\ dropped' = dropped /\ unsent' = unsent
  BY DEF DeleteQuarantined
<1>3. \A e \in worker[a].batch : Kept(e)
  BY <1>1, <1>2 DEF WorkerSound, Redoing
<1>4. ASSUME NEW e \in Event, Safe(e) PROVE Safe(e)'
  <2>1. Kept(e)' <=> Kept(e)
    BY <1>2 DEF Kept
  <2> QED
    BY <1>2, <1>3, <1>4, <2>1 DEF Safe
<1>5. SafeTo(cursor)'
  BY <1>1, <1>2, <1>4 DEF SafeTo
<1>6. ~At(a, "storing") /\ ~At(a, "announcing")
  BY <1>2 DEF At
<1>7. faults' \in 0 .. MaxFaults /\ faults' >= faults
  BY <1>1, <1>2, FaultTyped
<1>8. quarantine' \subseteq Event
  BY <1>1, <1>2 DEF IndexerTyped
<1>9. cursor' \in 0 .. tip /\ cursor' >= cursor
  BY <1>1, <1>2, NumbersTyped DEF IndexerTyped
<1> QED
  BY <1>1, <1>2, <1>4, <1>5, <1>6, <1>7, <1>8, <1>9, BackToIdle

(* An admin begins to work on a chunk or an event.                         *)
LEMMA AdminBegins ==
  ASSUME IndexerInv, NEW a \in Admins, At(a, "idle"), NEW s \in WorkerRecord,
         Becomes(a, s), s.at = "parsing", s.to <= tip, s.end <= tip, s.tries = 0,
         \A e \in Event : s.news[e] = 0,
         s.end = 0 => \A e \in s.batch : Readable(e),
         UNCHANGED <<tip, upgraded, cursor, rows, quarantine, credited, sent,
                     faults, dropped, unsent>>
  PROVE  IndexerInv'
<1>1. IndexerTyped /\ a \in Workers /\ a \notin Pollers /\ SafeTo(cursor)
  BY Bounds DEF IndexerInv, Workers
<1>2. /\ worker'[a] = s /\ worker' \in [Workers -> WorkerRecord]
      /\ \A v \in Workers \ {a} : worker'[v] = worker[v]
  BY <1>1, BecomesFacts
<1>3. IndexerTyped'
  BY <1>1, <1>2 DEF IndexerTyped
<1>4. faults \in Nat /\ faults' \in Nat /\ faults' >= faults
  BY <1>1, NumbersTyped
<1>5. Grown /\ SafeTo(cursor)'
  BY <1>1, <1>4, Still
<1>6. Collecting(a)' /\ Redoing(a)'
  BY <1>2 DEF Collecting, Redoing, At, Readable, Known, Throws
<1>7. WorkerSound(a)'
  BY <1>1, <1>2, <1>6, Bounds DEF WorkerSound
<1>8. ~At(a, "storing") /\ ~At(a, "announcing")
  BY DEF At
<1> QED
  BY <1>1, <1>2, <1>3, <1>5, <1>7, <1>8, QuietStep

LEMMA ReindexKeeps ==
  ASSUME IndexerInv, NEW a \in Admins, NEW range \in Ranges, Reindex(a, range[1], range[2])
  PROVE  IndexerInv'
<1>1. IndexerTyped
  BY DEF IndexerInv
<1>2. /\ range[1] \in Nat /\ range[2] \in Nat /\ range[2] > 0 /\ range[2] <= tip
      /\ At(a, "idle") /\ tip \in Nat
      /\ UNCHANGED <<tip, upgraded, cursor, rows, quarantine, credited, sent,
                     faults, dropped, unsent>>
  BY <1>1, Bounds, NumbersTyped DEF Reindex
<1>3. PICK s : s = Chunk(range[1], range[2], range[2])
  OBVIOUS
<1>4. /\ s \in WorkerRecord /\ s.at = "parsing" /\ s.end = range[2] /\ s.tries = 0
      /\ s.to \in Nat /\ s.to <= range[2]
      /\ \A e \in Event : s.news[e] = 0
  BY <1>1, <1>2, <1>3, ChunkFacts
<1>5. Becomes(a, s)
  BY <1>3 DEF Reindex
<1>6. s.to <= tip /\ s.end <= tip /\ s.end # 0
  BY <1>2, <1>4
<1> QED
  BY <1>2, <1>4, <1>5, <1>6, AdminBegins

LEMMA ReprocessKeeps ==
  ASSUME IndexerInv, NEW a \in Admins, NEW e \in quarantine, Reprocess(a, e)
  PROVE  IndexerInv'
<1>1. IndexerTyped /\ e \in Event
  BY DEF IndexerInv, IndexerTyped
<1>2. /\ At(a, "idle") /\ Readable(e) /\ tip \in Nat
      /\ UNCHANGED <<tip, upgraded, cursor, rows, quarantine, credited, sent,
                     faults, dropped, unsent>>
  BY <1>1, NumbersTyped DEF Reprocess
<1>3. PICK s : s = [Idle EXCEPT !.at = "parsing", !.batch = {e}]
  OBVIOUS
<1>4. /\ s \in WorkerRecord /\ s.at = "parsing" /\ s.end = 0 /\ s.tries = 0
      /\ s.to = 0 /\ s.batch = {e} /\ s.news = Nothing
  BY <1>1, <1>3, IdleTyped DEF WorkerRecord
<1>5. Becomes(a, s)
  BY <1>3 DEF Reprocess
<1>6. s.to <= tip /\ s.end <= tip
  BY <1>2, <1>4
<1> QED
  BY <1>2, <1>4, <1>5, <1>6, IdleTyped, AdminBegins

------------------------------------------------------------------------------
(***************************************************************************)
(* The chain and the deployment.                                           *)
(***************************************************************************)
LEMMA CloseLedgerKeeps ==
  ASSUME IndexerInv, CloseLedger
  PROVE  IndexerInv'
<1>1. IndexerTyped /\ SafeTo(cursor)
  BY DEF IndexerInv
<1>2. /\ tip < MaxLedger /\ tip' = tip + 1
      /\ UNCHANGED <<upgraded, cursor, rows, quarantine, credited, sent, worker,
                     faults, dropped, unsent>>
  BY DEF CloseLedger
<1>3. tip \in Nat /\ cursor \in Nat /\ cursor <= tip /\ faults \in Nat
  BY <1>1, NumbersTyped
<1>4. IndexerTyped'
  <2>1. tip' \in 0 .. MaxLedger /\ cursor' \in 0 .. tip'
    BY <1>2, <1>3, Bounds
  <2> QED
    BY <1>1, <1>2, <2>1 DEF IndexerTyped
<1>5. \A e \in Event : Safe(e) => Safe(e)'
  BY <1>2, SafeStays
<1>6. Grown
  BY <1>2, <1>3, <1>5 DEF Grown
<1>7. \A w \in Workers : WorkerSound(w)'
  BY <1>2, <1>4, <1>6, OthersSound
<1>8. SafeTo(cursor)'
  BY <1>1, <1>2, <1>5 DEF SafeTo
<1>9. \A e \in Event : Credits(e)' /\ Notices(e)'
  BY <1>2 DEF IndexerInv, Credits, Notices, Affordable, Load, Pending, Has, Recorded,
              Kept, Weight, Units, Scored
<1> QED
  BY <1>4, <1>7, <1>8, <1>9 DEF IndexerInv

LEMMA DeployKeeps ==
  ASSUME IndexerInv, Deploy
  PROVE  IndexerInv'
<1>1. IndexerTyped /\ SafeTo(cursor)
  BY DEF IndexerInv
<1>2. /\ upgraded' = TRUE
      /\ worker' = [w \in Workers |-> Idle]
      /\ unsent' = unsent \cup {e \in rows : \E w \in Workers : worker[w].news[e] > 0}
      /\ UNCHANGED <<tip, cursor, rows, quarantine, credited, sent, faults, dropped>>
  BY DEF Deploy
<1>3. IndexerTyped'
  BY <1>1, <1>2, IdleTyped DEF IndexerTyped
<1>4. \A w \in Workers : WorkerSound(w)'
  BY <1>2, <1>3, IdleSound
<1>5. SafeTo(cursor)'
  BY <1>1, <1>2, SafeStays DEF SafeTo
<1>6. ASSUME NEW e \in Event PROVE Credits(e)'
  <2>1. Credits(e)
    BY DEF IndexerInv
  <2>2. Recorded(e)' <=> Recorded(e)
    BY <1>2 DEF Recorded, Kept
  <2>3. \A w \in Workers : Pending(e)'[w] = 0
    BY <1>2, IdleTyped DEF Pending
  <2>4. Load(e)' = 0
    BY <2>3, WeightNothing DEF Load
  <2>5. Load(e) \in Nat /\ faults \in Nat /\ credited[e] \in Nat
    BY <1>1, LoadNat, NumbersTyped DEF IndexerTyped
  <2>6. Has(e) \in {0, 1} /\ Has(e)' = Has(e)
    BY <1>2, HasTyped DEF Has
  <2>7. PICK f \in Nat, n \in Nat, c \in Nat, b \in {0, 1} :
          f = faults /\ n = Load(e) /\ c = credited[e] /\ b = Has(e)
    BY <2>5, <2>6
  <2>8. Affords(f, n, c, b)
    BY <2>1, <2>7 DEF Credits, Affordable
  <2>9. Affords(f, 0, c, b)
    BY <2>8, AffordsOn
  <2>10. Affordable(e)'
    BY <1>2, <2>4, <2>6, <2>7, <2>9 DEF Affordable
  <2> QED
    BY <1>2, <2>1, <2>2, <2>10 DEF Credits, Scored
<1>7. ASSUME NEW e \in Event PROVE Notices(e)'
  <2>1. Notices(e)
    BY DEF IndexerInv
  <2>2. Recorded(e)' <=> Recorded(e)
    BY <1>2 DEF Recorded, Kept
  <2> QED
    BY <1>2, <2>1, <2>2 DEF Notices
<1> QED
  BY <1>3, <1>4, <1>5, <1>6, <1>7 DEF IndexerInv

------------------------------------------------------------------------------
(***************************************************************************)
(* The steps around the transaction.                                       *)
(***************************************************************************)
LEMMA AfterStoreFacts ==
  ASSUME IndexerInv, NEW w \in Workers
  PROVE  LET s == AfterStore(w)
         IN  /\ s \in WorkerRecord
             /\ s.to <= tip /\ s.end <= tip /\ s.tries = 0
             /\ \A e \in Event : s.news[e] = 0
             /\ s.at \notin {"storing", "announcing", "asking"}
             /\ w \in Pollers => s.at = "moving" /\ s.to = worker[w].to
             /\ w \in Admins => \/ s.at = "deleting" /\ s.batch = worker[w].batch
                                                     /\ worker[w].end = 0
                                \/ s.at = "parsing" /\ s.end # 0
                                \/ s.at = "idle"
<1>1. IndexerTyped /\ WorkerSound(w) /\ tip \in Nat
  BY NumbersTyped DEF IndexerInv
<1>2. /\ worker[w].batch \subseteq Event
      /\ worker[w].to \in Nat /\ worker[w].end \in Nat
      /\ worker[w].to <= tip /\ worker[w].end <= tip
  BY <1>1, WorkerTyped DEF WorkerSound
<1>3. PICK s : s = AfterStore(w)
  OBVIOUS
<1>4. CASE w \in Pollers
  <2>1. w \notin Admins
    BY <1>4, Bounds
  <2>2. s = [Idle EXCEPT !.at = "moving", !.to = worker[w].to]
    BY <1>3, <1>4, <2>1, Zenon DEF AfterStore, AfterPoll
  <2>3. s \in WorkerRecord
    BY <1>2, <2>2, IdleTyped DEF WorkerRecord
  <2>4. /\ s.at = "moving" /\ s.to = worker[w].to /\ s.end = 0 /\ s.tries = 0
        /\ s.news = Nothing
    BY <2>2, IdleTyped DEF WorkerRecord
  <2> QED
    BY <1>1, <1>2, <1>3, <2>1, <2>3, <2>4, IdleTyped
<1>5. CASE w \notin Pollers /\ worker[w].end = 0
  <2>1. w \in Admins
    BY <1>5 DEF Workers
  <2>2. s = [Idle EXCEPT !.at = "deleting", !.batch = worker[w].batch]
    BY <1>3, <1>5, <2>1, Zenon DEF AfterStore
  <2>3. s \in WorkerRecord
    BY <1>2, <2>2, IdleTyped DEF WorkerRecord
  <2>4. /\ s.at = "deleting" /\ s.batch = worker[w].batch /\ s.to = 0 /\ s.end = 0
        /\ s.tries = 0 /\ s.news = Nothing
    BY <2>2, IdleTyped DEF WorkerRecord
  <2> QED
    BY <1>1, <1>2, <1>3, <1>5, <2>3, <2>4, IdleTyped
<1>6. CASE w \notin Pollers /\ worker[w].end # 0 /\ worker[w].to < worker[w].end
  <2>1. s = Chunk(worker[w].to + 1, worker[w].end, worker[w].end)
    BY <1>3, <1>6 DEF AfterStore
  <2>2. PICK first \in Nat, last \in Nat : first = worker[w].to + 1 /\ last = worker[w].end
    BY <1>2
  <2>3. /\ s \in WorkerRecord /\ s.at = "parsing" /\ s.end = worker[w].end /\ s.tries = 0
        /\ s.to \in Nat /\ s.to <= worker[w].end
        /\ \A e \in Event : s.news[e] = 0
    <3>1. s = Chunk(first, last, last) /\ last <= tip
      BY <1>2, <2>1, <2>2
    <3> QED
      BY <1>1, <2>2, <3>1, ChunkFacts
  <2>4. s.to <= tip
    BY <1>1, <1>2, <2>3
  <2> QED
    BY <1>2, <1>3, <1>6, <2>3, <2>4
<1>7. CASE w \notin Pollers /\ worker[w].end # 0 /\ ~(worker[w].to < worker[w].end)
  <2>1. s = Idle
    BY <1>3, <1>7 DEF AfterStore
  <2> QED
    BY <1>1, <1>3, <1>7, <2>1, IdleTyped
<1> QED
  BY <1>4, <1>5, <1>6, <1>7

(* Where a worker stands after its chunk is stored, or has nothing to      *)
(* store.                                                                  *)
LEMMA AfterStoreSound ==
  ASSUME IndexerInv, NEW w \in Workers, Becomes(w, AfterStore(w)), tip' = tip,
         w \in Pollers =>
           \A e \in Event : Chain[e].ledger <= worker[w].to => Safe(e)',
         w \in Admins /\ worker[w].end = 0 => \A e \in worker[w].batch : Kept(e)'
  PROVE  /\ WorkerSound(w)'
         /\ worker' \in [Workers -> WorkerRecord]
         /\ \A v \in Workers \ {w} : worker'[v] = worker[v]
         /\ \A e \in Event : worker'[w].news[e] = 0
<1>1. IndexerTyped
  BY DEF IndexerInv
<1>2. PICK s : s = AfterStore(w)
  OBVIOUS
<1>3. /\ s \in WorkerRecord
      /\ s.to <= tip /\ s.end <= tip /\ s.tries = 0
      /\ \A e \in Event : s.news[e] = 0
      /\ s.at \notin {"storing", "announcing", "asking"}
      /\ w \in Pollers => s.at = "moving" /\ s.to = worker[w].to
      /\ w \in Admins => \/ s.at = "deleting" /\ s.batch = worker[w].batch
                                              /\ worker[w].end = 0
                         \/ s.at = "parsing" /\ s.end # 0
                         \/ s.at = "idle"
  BY <1>2, AfterStoreFacts
<1>4. /\ worker'[w] = s /\ worker' \in [Workers -> WorkerRecord]
      /\ \A v \in Workers \ {w} : worker'[v] = worker[v]
  BY <1>1, <1>2, <1>3, BecomesFacts
<1>5. Collecting(w)'
  BY <1>3, <1>4 DEF Collecting, At
<1>6. w \in Pollers => Reading(w)'
  BY <1>3, <1>4 DEF Reading, At, SafeTo
<1>7. w \in Admins => Redoing(w)'
  BY <1>3, <1>4 DEF Redoing, At
<1> QED
  BY <1>3, <1>4, <1>5, <1>6, <1>7, Bounds DEF WorkerSound

LEMMA ParseKeeps ==
  ASSUME IndexerInv, NEW w \in Workers, Parse(w)
  PROVE  IndexerInv'
<1>1. IndexerTyped /\ WorkerSound(w) /\ SafeTo(cursor)
  BY DEF IndexerInv
<1>2. PICK failed \in SUBSET {e \in worker[w].batch : Throws(e)} :
        /\ NoFault \/ Fault
        /\ quarantine' = quarantine \cup Quarantined(worker[w].batch, failed)
        /\ dropped' = dropped \cup failed
  BY DEF Parse
<1>3. /\ At(w, "parsing")
      /\ tip' = tip /\ cursor' = cursor /\ upgraded' = upgraded /\ rows' = rows
      /\ credited' = credited /\ sent' = sent /\ unsent' = unsent
      /\ Becomes(w, IF \E e \in worker[w].batch : Readable(e)
                    THEN [worker[w] EXCEPT !.at = "storing"] ELSE AfterStore(w))
  BY DEF Parse
<1>4. /\ worker[w] \in WorkerRecord /\ worker[w].batch \subseteq Event
      /\ worker[w].to \in Nat /\ worker[w].end \in Nat /\ worker[w].tries \in Nat
      /\ \A e \in Event : worker[w].news[e] \in Nat
  BY <1>1, WorkerTyped
<1>5. faults' \in 0 .. MaxFaults /\ faults' \in Nat /\ faults \in Nat /\ faults' >= faults
  BY <1>1, <1>2, FaultTyped
<1>6. quarantine' \subseteq Event /\ dropped' \subseteq Event
  BY <1>1, <1>2, <1>4 DEF Quarantined, IndexerTyped
<1>7. \A e \in Event : Safe(e) => Safe(e)'
  BY <1>2, <1>3, SafeStays
<1>8. ASSUME NEW e \in worker[w].batch, ~Readable(e) PROVE Safe(e)'
  BY <1>2, <1>8 DEF Readable, Known, Throws, Safe, Quarantined
<1>9. SafeTo(cursor)'
  BY <1>1, <1>3, <1>7 DEF SafeTo
<1>10. Grown
  BY <1>1, <1>3, <1>5, <1>7, NumbersTyped DEF Grown
<1>11. \A e \in Event : Readable(e)' <=> Readable(e)
  BY <1>3 DEF Readable, Known, Throws
<1>12. \A e \in Event : worker[w].news[e] = 0
  BY <1>1, <1>3, <1>4 DEF WorkerSound, Collecting, At
<1>13. w \in Pollers =>
         \A e \in Event : Chain[e].ledger <= worker[w].to => Safe(e) \/ e \in worker[w].batch
  BY <1>1, <1>3 DEF WorkerSound, Reading
<1>14. ~At(w, "storing") /\ ~At(w, "announcing")
  BY <1>3 DEF At
<1>15. CASE \E e \in worker[w].batch : Readable(e)
  <2>1. PICK s : s = [worker[w] EXCEPT !.at = "storing"]
    OBVIOUS
  <2>2. /\ s \in WorkerRecord /\ s.at = "storing" /\ s.batch = worker[w].batch
        /\ s.to = worker[w].to /\ s.end = worker[w].end /\ s.news = worker[w].news
        /\ s.tries = worker[w].tries
    BY <1>4, <2>1 DEF WorkerRecord
  <2>3. Becomes(w, s)
    BY <1>3, <1>15, <2>1
  <2>4. /\ worker'[w] = s /\ worker' \in [Workers -> WorkerRecord]
        /\ \A v \in Workers \ {w} : worker'[v] = worker[v]
    BY <1>1, <2>2, <2>3, BecomesFacts
  <2>5. IndexerTyped'
    BY <1>1, <1>3, <1>5, <1>6, <2>4 DEF IndexerTyped
  <2>6. Collecting(w)'
    BY <1>12, <2>2, <2>4 DEF Collecting, At
  <2>7. w \in Pollers => Reading(w)'
    BY <1>7, <1>8, <1>11, <1>13, <2>2, <2>4 DEF Reading, At
  <2>8. w \in Admins => Redoing(w)'
    <3>1. worker[w].end = 0 /\ w \in Admins => \A e \in worker[w].batch : Readable(e)
      BY <1>1, <1>3 DEF WorkerSound, Redoing
    <3> QED
      BY <1>4, <1>11, <2>2, <2>4, <3>1 DEF Redoing, At
  <2>9. WorkerSound(w)'
    BY <1>1, <1>3, <2>2, <2>4, <2>6, <2>7, <2>8 DEF WorkerSound
  <2> QED
    BY <1>3, <1>9, <1>10, <1>12, <1>14, <2>2, <2>4, <2>5, <2>9, QuietStep
<1>16. CASE ~ \E e \in worker[w].batch : Readable(e)
  <2>1. Becomes(w, AfterStore(w))
    BY <1>3, <1>16
  <2>2. w \in Pollers => \A e \in Event : Chain[e].ledger <= worker[w].to => Safe(e)'
    BY <1>7, <1>8, <1>13, <1>16
  <2>3. w \in Admins /\ worker[w].end = 0 => \A e \in worker[w].batch : Kept(e)'
    <3>1. worker[w].end = 0 /\ w \in Admins => \A e \in worker[w].batch : Readable(e)
      BY <1>1, <1>3 DEF WorkerSound, Redoing
    <3> QED
      BY <1>16, <3>1
  <2>4. /\ WorkerSound(w)'
        /\ worker' \in [Workers -> WorkerRecord]
        /\ \A v \in Workers \ {w} : worker'[v] = worker[v]
        /\ \A e \in Event : worker'[w].news[e] = 0
    BY <1>3, <2>1, <2>2, <2>3, AfterStoreSound
  <2>5. IndexerTyped'
    BY <1>1, <1>3, <1>5, <1>6, <2>4 DEF IndexerTyped
  <2> QED
    BY <1>3, <1>9, <1>10, <1>14, <2>4, <2>5, QuietStep
<1> QED
  BY <1>15, <1>16

LEMMA AnnounceKeeps ==
  ASSUME IndexerInv, NEW w \in Workers, Announce(w)
  PROVE  IndexerInv'
<1>1. IndexerTyped /\ WorkerSound(w) /\ SafeTo(cursor)
  BY DEF IndexerInv
<1>2. /\ At(w, "announcing") /\ Becomes(w, AfterStore(w))
      /\ sent' = [e \in Event |-> sent[e] + worker[w].news[e]]
      /\ tip' = tip /\ cursor' = cursor /\ upgraded' = upgraded /\ rows' = rows
      /\ quarantine' = quarantine /\ credited' = credited /\ faults' = faults
      /\ dropped' = dropped /\ unsent' = unsent
  BY DEF Announce
<1>3. /\ \A e \in Event : worker[w].news[e] \in Nat
      /\ worker[w].batch \subseteq Event
  BY <1>1, WorkerTyped
<1>4. faults \in Nat /\ faults' \in Nat /\ faults' >= faults
  BY <1>1, <1>2, NumbersTyped
<1>5. Grown /\ SafeTo(cursor)'
  BY <1>1, <1>2, <1>4, Still
<1>6. w \in Pollers => \A e \in Event : Chain[e].ledger <= worker[w].to => Safe(e)'
  BY <1>1, <1>2, <1>5 DEF WorkerSound, Reading, SafeTo, Grown
<1>7. w \in Admins /\ worker[w].end = 0 => \A e \in worker[w].batch : Kept(e)'
  <2>1. \A e \in worker[w].batch : Readable(e) => Kept(e)
    BY <1>1, <1>2 DEF WorkerSound, Collecting
  <2>2. w \in Admins /\ worker[w].end = 0 => \A e \in worker[w].batch : Readable(e)
    BY <1>1, <1>2 DEF WorkerSound, Redoing
  <2> QED
    BY <1>2, <2>1, <2>2 DEF Kept
<1>8. /\ WorkerSound(w)'
      /\ worker' \in [Workers -> WorkerRecord]
      /\ \A v \in Workers \ {w} : worker'[v] = worker[v]
      /\ \A e \in Event : worker'[w].news[e] = 0
  BY <1>2, <1>6, <1>7, AfterStoreSound
<1>9. sent' \in [Event -> Nat] /\ \A e \in Event : sent[e] \in Nat
  BY <1>1, <1>2, <1>3 DEF IndexerTyped
<1>10. IndexerTyped'
  BY <1>1, <1>2, <1>8, <1>9 DEF IndexerTyped
<1>11. \A v \in Workers : WorkerSound(v)'
  BY <1>5, <1>8, <1>10, OthersSound
<1>12. ASSUME NEW e \in Event PROVE Credits(e)' /\ Notices(e)'
  <2>1. Pending(e)[w] = 0 /\ Pending(e)'[w] = 0
    BY <1>2, <1>8 DEF Pending, At
  <2>2. Pending(e)'[w] <= Pending(e)[w]
    BY <2>1
  <2>3. Credits(e)' /\ (Recorded(e) => Recorded(e)')
    BY <1>2, <1>4, <1>8, <1>10, <2>2, CreditsStand
  <2>4. Notices(e)
    BY DEF IndexerInv
  <2>5. worker[w].news[e] > 0 => Recorded(e)
    BY <1>1, <1>2 DEF WorkerSound, Collecting
  <2>6. sent'[e] = sent[e] + worker[w].news[e]
    BY <1>2
  <2>7. sent'[e] > 0 => sent[e] > 0 \/ worker[w].news[e] > 0
    BY <1>3, <1>9, <2>6
  <2>8. sent[e] > 0 \/ worker[w].news[e] > 0 => sent'[e] > 0
    BY <1>3, <1>9, <2>6
  <2>9. Notices(e)'
    BY <1>2, <1>8, <2>3, <2>4, <2>5, <2>7, <2>8 DEF Notices
  <2> QED
    BY <2>3, <2>9
<1> QED
  BY <1>5, <1>10, <1>11, <1>12 DEF IndexerInv

(* A worker stops for good or for now; what it had collected is gone.      *)
LEMMA GiveUpKeeps ==
  ASSUME IndexerInv, NEW w \in Workers, GivesUp(w), Fault,
         UNCHANGED <<tip, upgraded, cursor, rows, quarantine, credited, sent, dropped>>
  PROVE  IndexerInv'
<1>1. IndexerTyped /\ SafeTo(cursor)
  BY DEF IndexerInv
<1>2. /\ Becomes(w, Idle)
      /\ unsent' = unsent \cup {e \in rows : worker[w].news[e] > 0}
  BY DEF GivesUp
<1>3. faults' \in 0 .. MaxFaults /\ faults' \in Nat /\ faults \in Nat /\ faults' >= faults
  BY <1>1, FaultTyped
<1>4. /\ worker'[w] = Idle /\ worker' \in [Workers -> WorkerRecord]
      /\ \A v \in Workers \ {w} : worker'[v] = worker[v]
  BY <1>1, <1>2, IdleTyped, BecomesFacts
<1>5. IndexerTyped'
  BY <1>1, <1>2, <1>3, <1>4 DEF IndexerTyped
<1>6. Grown /\ SafeTo(cursor)'
  BY <1>1, <1>3, Still
<1>7. \A v \in Workers : WorkerSound(v)'
  BY <1>4, <1>5, <1>6, IdleSound, OthersSound
<1>8. \A e \in Event : Pending(e)'[w] <= Pending(e)[w]
  <2> TAKE e \in Event
  <2>1. Pending(e)'[w] = 0
    BY <1>4, IdleTyped DEF Pending
  <2>2. Pending(e)[w] \in Nat
    BY <1>1, LoadNat
  <2> QED
    BY <2>1, <2>2
<1>9. \A e \in rows : worker[w].news[e] > 0 => e \in unsent'
  BY <1>2
<1>10. unsent \subseteq unsent'
  BY <1>2
<1>11. \A e \in Event : Credits(e)' /\ Notices(e)'
  BY <1>3, <1>4, <1>5, <1>8, <1>9, <1>10, BooksStand
<1> QED
  BY <1>5, <1>6, <1>7, <1>11 DEF IndexerInv

LEMMA CrashKeeps ==
  ASSUME IndexerInv, NEW w \in Workers, Crash(w)
  PROVE  IndexerInv'
BY GiveUpKeeps DEF Crash

------------------------------------------------------------------------------
(***************************************************************************)
(* The transaction.                                                        *)
(***************************************************************************)
LEMMA CollectedFacts ==
  ASSUME IndexerTyped, NEW w \in Workers, NEW fresh
  PROVE  /\ Collected(w, fresh) \in [Event -> Nat]
         /\ \A e \in Event :
              Collected(w, fresh)[e] = worker[w].news[e] + (IF e \in fresh THEN 1 ELSE 0)
BY WorkerTyped DEF Collected

(* What the chunk leaves in the table, and what the transaction has        *)
(* collected of it.                                                        *)
LEMMA StoreFacts ==
  ASSUME IndexerInv, NEW w \in Workers, At(w, "storing"), StoreChunk(w),
         tip' = tip, cursor' = cursor, upgraded' = upgraded,
         quarantine' = quarantine, dropped' = dropped, NoFault \/ Fault
  PROVE  LET done == Inserted(worker[w].batch)
         IN  /\ done \subseteq worker[w].batch
             /\ rows \subseteq rows' /\ rows' \subseteq Event
             /\ credited' \in [Event -> Nat]
             /\ faults' \in 0 .. MaxFaults
             /\ \A e \in worker[w].batch : Readable(e) => Kept(e)'
             /\ \A e \in Event : Collected(w, done)[e] > 0 =>
                  e \in worker[w].batch /\ Readable(e) /\ Recorded(e)'
             /\ Grown /\ SafeTo(cursor)'
             /\ w \in Pollers => \A e \in Event : Chain[e].ledger <= worker[w].to => Safe(e)'
<1>1. IndexerTyped /\ WorkerSound(w) /\ SafeTo(cursor)
  BY DEF IndexerInv
<1>2. PICK done : done = Inserted(worker[w].batch)
  OBVIOUS
<1>3. /\ worker[w].batch \subseteq Event
      /\ \A e \in Event : worker[w].news[e] \in Nat
  BY <1>1, WorkerTyped
<1>4. /\ done \subseteq worker[w].batch
      /\ \A e \in done : Readable(e) /\ e \notin rows /\ ~Kept(e)
  BY <1>2, InsertedFacts
<1>5. /\ rows' = rows \cup done
      /\ credited' = [e \in Event |-> credited[e]
           + (IF Scored(e) THEN Collected(w, done)[e] ELSE 0)]
  BY <1>2 DEF StoreChunk
<1>6. rows \subseteq rows' /\ rows' \subseteq Event
  BY <1>1, <1>3, <1>4, <1>5 DEF IndexerTyped
<1>7. /\ Collected(w, done) \in [Event -> Nat]
      /\ \A e \in Event :
           Collected(w, done)[e] = worker[w].news[e] + (IF e \in done THEN 1 ELSE 0)
  BY <1>1, CollectedFacts
<1>8. credited' \in [Event -> Nat]
  BY <1>1, <1>5, <1>7 DEF IndexerTyped
<1>9. faults' \in 0 .. MaxFaults /\ faults' \in Nat /\ faults \in Nat /\ faults' >= faults
  BY <1>1, FaultTyped
<1>10. \A e \in worker[w].batch : Readable(e) => Kept(e)'
  BY <1>2, <1>3, <1>5, InsertedKeeps DEF Kept
<1>11. ASSUME NEW e \in Event, Collected(w, done)[e] > 0
       PROVE  e \in worker[w].batch /\ Readable(e) /\ Recorded(e)'
  <2>1. CASE e \in done
    BY <1>4, <1>5, <2>1 DEF Recorded
  <2>2. CASE e \notin done
    <3>1. worker[w].news[e] > 0
      BY <1>3, <1>7, <1>11, <2>2
    <3>2. e \in worker[w].batch /\ Readable(e) /\ faults > 0
      BY <1>1, <3>1 DEF WorkerSound, Collecting
    <3> QED
      BY <1>9, <1>10, <3>2 DEF Recorded
  <2> QED
    BY <2>1, <2>2
<1>12. \A e \in Event : Safe(e) => Safe(e)'
  BY <1>6, SafeStays
<1>13. Grown /\ SafeTo(cursor)'
  BY <1>1, <1>6, <1>9, <1>12, NumbersTyped DEF Grown, SafeTo
<1>14. w \in Pollers => \A e \in Event : Chain[e].ledger <= worker[w].to => Safe(e)'
  <2>1. w \in Pollers =>
          \A e \in Event : Chain[e].ledger <= worker[w].to =>
            Safe(e) \/ (e \in worker[w].batch /\ Readable(e))
    BY <1>1 DEF WorkerSound, Reading
  <2>2. \A e \in Event : Kept(e)' => Safe(e)'
    BY DEF Safe
  <2> QED
    BY <1>10, <1>12, <2>1, <2>2
<1> QED
  BY <1>2, <1>4, <1>6, <1>8, <1>9, <1>10, <1>11, <1>13, <1>14

(* The books of an event after its chunk is committed: answered or given   *)
(* up, with nothing pending any more, or to be tried again for a fault.    *)
LEMMA StoreBooks ==
  ASSUME IndexerInv, IndexerTyped', NEW w \in Workers, At(w, "storing"), StoreChunk(w),
         tip' = tip, cursor' = cursor, upgraded' = upgraded,
         quarantine' = quarantine, dropped' = dropped, NoFault \/ Fault,
         sent' = sent, unsent \subseteq unsent',
         \A v \in Workers \ {w} : worker'[v] = worker[v],
         NEW e \in Event,
         NEW collected, collected = Collected(w, Inserted(worker[w].batch))[e],
         \/ Pending(e)'[w] = 0
         \/ Pending(e)'[w] = collected /\ faults' = faults + 1,
         e \in rows' /\ collected > 0 => worker'[w].news[e] > 0 \/ e \in unsent'
  PROVE  Credits(e)' /\ Notices(e)'
<1>1. IndexerTyped /\ WorkerSound(w) /\ Credits(e) /\ Notices(e)
  BY DEF IndexerInv
<1>2. PICK done : done = Inserted(worker[w].batch)
  OBVIOUS
<1>3. \A x \in done : x \notin rows /\ ~Kept(x)
  BY <1>2, InsertedFacts
<1>4. /\ rows \subseteq rows' /\ collected > 0 => Recorded(e)'
      /\ rows' = rows \cup done
  BY <1>2, StoreFacts DEF StoreChunk
<1>5. faults' \in Nat /\ faults \in Nat /\ faults' >= faults
  BY <1>1, FaultTyped
<1>6. PICK i \in {0, 1} : i = IF e \in done THEN 1 ELSE 0
  OBVIOUS
<1>7. PICK k \in Nat : k = worker[w].news[e]
  BY <1>1, WorkerTyped
<1>8. collected = k + i /\ collected \in Nat
  BY <1>1, <1>2, <1>6, <1>7, CollectedFacts
<1>9. credited'[e] = credited[e] + (IF Scored(e) THEN collected ELSE 0)
  BY <1>2 DEF StoreChunk
<1>10. credited[e] \in Nat /\ credited'[e] \in Nat
  BY <1>1 DEF IndexerTyped
<1>11. Recorded(e) => Recorded(e)'
  <2>1. rows \subseteq rows'
    BY <1>4
  <2> QED
    BY <1>5, <2>1, RecordedStays
<1>12. Pending(e)[w] = k
  BY <1>7 DEF Pending, At
<1>13. /\ Load(e)' = Load(e) - k + Pending(e)'[w] /\ k <= Load(e)
       /\ Load(e) \in Nat /\ Load(e)' \in Nat
  BY <1>1, <1>12, LoadMoves
<1>14. Has(e) \in {0, 1} /\ Has(e)' = Has(e) + i
  BY <1>3, <1>4, <1>6 DEF Has
<1>15. i = 1 => credited[e] = 0 /\ Has(e) = 0
  <2>1. i = 1 => ~Recorded(e) /\ e \notin rows
    BY <1>3, <1>6 DEF Recorded
  <2> QED
    BY <1>1, <1>10, <2>1 DEF Credits, Has
<1>16. Affordable(e)'
  <2>1. PICK f \in Nat, n \in Nat, c \in Nat, b \in {0, 1} :
          f = faults /\ n = Load(e) /\ c = credited[e] /\ b = Has(e)
    BY <1>5, <1>10, <1>13, <1>14
  <2>2. PICK g \in Nat, m \in Nat, d \in Nat :
          g = faults' /\ m = Load(e)' /\ d = credited'[e]
    BY <1>5, <1>10, <1>13
  <2>3. Affords(f, n, c, b) /\ k <= n /\ (i = 1 => c = 0 /\ b = 0)
    BY <1>1, <1>13, <1>15, <2>1 DEF Credits, Affordable
  <2>4. b + i \in {0, 1} /\ c + k + i \in Nat /\ d <= c + k + i
    BY <1>8, <1>9, <2>1, <2>2, <2>3
  <2>5. CASE Pending(e)'[w] = 0
    <3>1. Affords(f, n - k, c + k + i, b + i)
      BY <2>3, AffordsAnswered
    <3>2. m = n - k
      BY <1>13, <2>1, <2>2, <2>3, <2>5
    <3>3. PICK y \in Nat, a \in {0, 1} : y = c + k + i /\ a = b + i
      BY <2>4
    <3>4. g >= f /\ m <= m /\ d <= y
      BY <1>5, <2>1, <2>2, <2>4, <3>3
    <3>5. Affords(f, m, y, a)
      BY <3>1, <3>2, <3>3
    <3>6. Affords(g, m, d, a)
      BY <3>4, <3>5, AffordsOn, AffordsFewer
    <3> QED
      BY <1>14, <2>1, <2>2, <3>3, <3>6 DEF Affordable
  <2>6. CASE Pending(e)'[w] = collected /\ faults' = faults + 1
    <3>1. Affords(f + 1, n + i, c + k + i, b + i)
      BY <2>3, AffordsRetried
    <3>2. m = n + i /\ g = f + 1 /\ n + i \in Nat /\ f + 1 \in Nat
      BY <1>8, <1>13, <2>1, <2>2, <2>6
    <3>3. g >= f + 1 /\ m <= n + i /\ d + m <= (c + k + i) + (n + i) /\ b + i >= b + i
      BY <2>4, <3>2
    <3>4. Affords(g, m, d, b + i)
      BY <2>4, <3>1, <3>2, <3>3, AffordsLess
    <3> QED
      BY <1>14, <2>1, <2>2, <3>4 DEF Affordable
  <2> QED
    BY <2>5, <2>6
<1>17. Credits(e)'
  <2>1. credited'[e] > 0 => Scored(e) /\ Recorded(e)'
    BY <1>1, <1>4, <1>8, <1>9, <1>10, <1>11 DEF Credits
  <2>2. Scored(e) /\ e \in rows' => credited'[e] > 0
    BY <1>1, <1>4, <1>6, <1>8, <1>9, <1>10 DEF Credits
  <2> QED
    BY <1>16, <2>1, <2>2 DEF Credits, Scored
<1>18. Notices(e)'
  <2>1. sent'[e] > 0 => Recorded(e)'
    BY <1>1, <1>11 DEF Notices
  <2>2. CASE e \in done
    <3>1. e \in rows' /\ collected > 0
      BY <1>4, <1>6, <1>8, <2>2
    <3> QED
      BY <2>1, <3>1 DEF Notices
  <2>3. CASE e \notin done
    <3>1. worker[w].news[e] > 0 => collected > 0
      BY <1>7, <1>8
    <3> QED
      BY <1>1, <1>4, <2>1, <2>3, <3>1 DEF Notices
  <2> QED
    BY <2>2, <2>3
<1> QED
  BY <1>17, <1>18

LEMMA CommitKeeps ==
  ASSUME IndexerInv, NEW w \in Workers, Commit(w)
  PROVE  IndexerInv'
<1>1. IndexerTyped /\ WorkerSound(w)
  BY DEF IndexerInv
<1>2. PICK done : done = Inserted(worker[w].batch)
  OBVIOUS
<1>3. PICK s : s = [worker[w] EXCEPT !.at = "announcing", !.news = Collected(w, done)]
  OBVIOUS
<1>4. /\ At(w, "storing") /\ StoreChunk(w) /\ Becomes(w, s)
      /\ tip' = tip /\ cursor' = cursor /\ upgraded' = upgraded
      /\ quarantine' = quarantine /\ sent' = sent /\ faults' = faults
      /\ dropped' = dropped /\ unsent' = unsent
      /\ NoFault
  BY <1>2, <1>3, Zenon DEF Commit, NoFault
<1>5. /\ rows' \subseteq Event /\ credited' \in [Event -> Nat]
      /\ faults' \in 0 .. MaxFaults
      /\ \A e \in worker[w].batch : Readable(e) => Kept(e)'
      /\ \A e \in Event : Collected(w, done)[e] > 0 =>
           e \in worker[w].batch /\ Readable(e) /\ Recorded(e)'
      /\ Grown /\ SafeTo(cursor)'
      /\ w \in Pollers => \A e \in Event : Chain[e].ledger <= worker[w].to => Safe(e)'
  BY <1>2, <1>4, StoreFacts
<1>6. worker[w] \in WorkerRecord /\ Collected(w, done) \in [Event -> Nat]
  BY <1>1, WorkerTyped, CollectedFacts
<1>7. /\ s \in WorkerRecord /\ s.at = "announcing" /\ s.news = Collected(w, done)
      /\ s.batch = worker[w].batch /\ s.to = worker[w].to /\ s.end = worker[w].end
      /\ s.tries = worker[w].tries
  BY <1>3, <1>6 DEF WorkerRecord
<1>8. /\ worker'[w] = s /\ worker' \in [Workers -> WorkerRecord]
      /\ \A v \in Workers \ {w} : worker'[v] = worker[v]
  BY <1>1, <1>4, <1>7, BecomesFacts
<1>9. IndexerTyped'
  BY <1>1, <1>4, <1>5, <1>8 DEF IndexerTyped
<1>10. \A e \in Event : Readable(e)' <=> Readable(e)
  BY <1>4 DEF Readable, Known, Throws
<1>11. worker[w].batch \subseteq Event
  BY <1>1, WorkerTyped
<1>12. WorkerSound(w)'
  <2>1. Collecting(w)'
    BY <1>5, <1>7, <1>8, <1>10, <1>11 DEF Collecting, At
  <2>2. w \in Pollers => Reading(w)'
    BY <1>5, <1>7, <1>8 DEF Reading, At, SafeTo
  <2>3. w \in Admins => Redoing(w)'
    <3>1. w \in Admins /\ worker[w].end = 0 => \A e \in worker[w].batch : Readable(e)
      BY <1>1, <1>4 DEF WorkerSound, Redoing
    <3> QED
      BY <1>7, <1>8, <1>10, <1>11, <3>1 DEF Redoing, At
  <2> QED
    BY <1>1, <1>4, <1>7, <1>8, <2>1, <2>2, <2>3 DEF WorkerSound
<1>13. \A v \in Workers : WorkerSound(v)'
  BY <1>5, <1>8, <1>9, <1>12, OthersSound
<1>14. ASSUME NEW e \in Event PROVE Credits(e)' /\ Notices(e)'
  <2>1. PICK collected : collected = Collected(w, Inserted(worker[w].batch))[e]
    OBVIOUS
  <2>2. Pending(e)'[w] = 0
    BY <1>7, <1>8 DEF Pending
  <2>3. worker'[w].news[e] = collected
    BY <1>2, <1>7, <1>8, <2>1
  <2> QED
    BY <1>4, <1>8, <1>9, <2>1, <2>2, <2>3, StoreBooks
<1> QED
  BY <1>5, <1>9, <1>13, <1>14 DEF IndexerInv

(* An open transaction is tried again, with what it has collected so far.  *)
LEMMA RetryFacts ==
  ASSUME IndexerInv, NEW w \in Workers, At(w, "storing"), NEW collected \in [Event -> Nat],
         Retry(w, collected), Grown, tip' = tip, faults' > 0, upgraded' = upgraded,
         \A e \in Event : collected[e] > 0 => e \in worker[w].batch /\ Readable(e)
  PROVE  /\ worker' \in [Workers -> WorkerRecord]
         /\ \A v \in Workers \ {w} : worker'[v] = worker[v]
         /\ worker'[w].at = "storing" /\ worker'[w].news = collected
         /\ WorkerSound(w)'
<1>1. IndexerTyped /\ WorkerSound(w)
  BY DEF IndexerInv
<1>2. /\ worker[w] \in WorkerRecord /\ worker[w].batch \subseteq Event
      /\ worker[w].tries \in Nat
  BY <1>1, WorkerTyped
<1>3. PICK s : s = [worker[w] EXCEPT !.news = collected, !.tries = @ + 1]
  OBVIOUS
<1>4. /\ s \in WorkerRecord /\ s.at = "storing" /\ s.news = collected
      /\ s.batch = worker[w].batch /\ s.to = worker[w].to /\ s.end = worker[w].end
      /\ s.tries = worker[w].tries + 1
  <2>1. PICK n \in Nat : n = worker[w].tries + 1
    BY <1>2
  <2>2. s = [worker[w] EXCEPT !.news = collected, !.tries = n]
    BY <1>3, <2>1
  <2>3. s \in WorkerRecord
    BY <1>2, <2>2 DEF WorkerRecord
  <2>4. /\ s.at = worker[w].at /\ s.news = collected
        /\ s.batch = worker[w].batch /\ s.to = worker[w].to /\ s.end = worker[w].end
        /\ s.tries = n
    BY <1>2, <2>2 DEF WorkerRecord
  <2> QED
    BY <2>1, <2>3, <2>4 DEF At
<1>5. Becomes(w, s) /\ worker[w].tries < MaxRetries
  BY <1>3, Zenon DEF Retry, RetriesLeft
<1>6. /\ worker'[w] = s /\ worker' \in [Workers -> WorkerRecord]
      /\ \A v \in Workers \ {w} : worker'[v] = worker[v]
  BY <1>1, <1>4, <1>5, BecomesFacts
<1>7. \A e \in Event : (Readable(e)' <=> Readable(e)) /\ (Safe(e) => Safe(e)')
  BY DEF Readable, Known, Throws, Grown
<1>8. Collecting(w)'
  BY <1>2, <1>4, <1>6, <1>7 DEF Collecting, At
<1>9. w \in Pollers => Reading(w)'
  <2>1. w \in Pollers =>
          \A e \in Event : Chain[e].ledger <= worker[w].to =>
            Safe(e) \/ (e \in worker[w].batch /\ Readable(e))
    BY <1>1 DEF WorkerSound, Reading
  <2> QED
    BY <1>4, <1>6, <1>7, <2>1 DEF Reading, At
<1>10. w \in Admins => Redoing(w)'
  <2>1. w \in Admins /\ worker[w].end = 0 => \A e \in worker[w].batch : Readable(e)
    BY <1>1 DEF WorkerSound, Redoing
  <2> QED
    BY <1>2, <1>4, <1>6, <1>7, <2>1 DEF Redoing, At
<1>11. worker[w].tries + 1 <= MaxRetries
  BY <1>2, <1>5, Bounds
<1>12. WorkerSound(w)'
  BY <1>1, <1>4, <1>6, <1>8, <1>9, <1>10, <1>11 DEF WorkerSound
<1> QED
  BY <1>4, <1>6, <1>12

LEMMA CommitUnansweredKeeps ==
  ASSUME IndexerInv, NEW w \in Workers, CommitUnanswered(w)
  PROVE  IndexerInv'
<1>1. IndexerTyped /\ WorkerSound(w)
  BY DEF IndexerInv
<1>2. PICK done : done = Inserted(worker[w].batch)
  OBVIOUS
<1>3. /\ At(w, "storing") /\ StoreChunk(w) /\ Fault
      /\ tip' = tip /\ cursor' = cursor /\ upgraded' = upgraded
      /\ quarantine' = quarantine /\ sent' = sent /\ dropped' = dropped
  BY DEF CommitUnanswered
<1>4. /\ done \subseteq worker[w].batch
      /\ rows \subseteq rows' /\ rows' \subseteq Event /\ credited' \in [Event -> Nat]
      /\ faults' \in 0 .. MaxFaults
      /\ \A e \in Event : Collected(w, done)[e] > 0 =>
           e \in worker[w].batch /\ Readable(e) /\ Recorded(e)'
      /\ Grown /\ SafeTo(cursor)'
  BY <1>2, <1>3, StoreFacts
<1>5. worker[w].batch \subseteq Event /\ rows \subseteq Event /\ unsent \subseteq Event
  BY <1>1, WorkerTyped DEF IndexerTyped
<1>6. /\ Collected(w, done) \in [Event -> Nat]
      /\ \A e \in Event :
           Collected(w, done)[e] = worker[w].news[e] + (IF e \in done THEN 1 ELSE 0)
  BY <1>1, CollectedFacts
<1>7. faults \in Nat /\ faults' = faults + 1 /\ faults' > 0
  BY <1>1, <1>3, NumbersTyped DEF Fault
<1>8. CASE Retry(w, Collected(w, done))
  <2>1. /\ worker' \in [Workers -> WorkerRecord]
        /\ \A v \in Workers \ {w} : worker'[v] = worker[v]
        /\ worker'[w].at = "storing" /\ worker'[w].news = Collected(w, done)
        /\ WorkerSound(w)'
    BY <1>3, <1>4, <1>6, <1>7, <1>8, RetryFacts
  <2>2. unsent' = unsent
    BY <1>8 DEF Retry
  <2>3. IndexerTyped'
    BY <1>1, <1>3, <1>4, <2>1, <2>2 DEF IndexerTyped
  <2>4. \A v \in Workers : WorkerSound(v)'
    BY <1>4, <2>1, <2>3, OthersSound
  <2>5. ASSUME NEW e \in Event PROVE Credits(e)' /\ Notices(e)'
    <3>1. PICK collected : collected = Collected(w, Inserted(worker[w].batch))[e]
      OBVIOUS
    <3>2. Pending(e)'[w] = collected /\ worker'[w].news[e] = collected
      BY <1>2, <2>1, <3>1 DEF Pending
    <3> QED
      BY <1>3, <1>7, <2>1, <2>2, <2>3, <3>1, <3>2, StoreBooks
  <2> QED
    BY <1>4, <2>3, <2>4, <2>5 DEF IndexerInv
<1>9. CASE /\ Becomes(w, Idle)
           /\ unsent' = unsent \cup done \cup {e \in rows : worker[w].news[e] > 0}
  <2>1. /\ worker'[w] = Idle /\ worker' \in [Workers -> WorkerRecord]
        /\ \A v \in Workers \ {w} : worker'[v] = worker[v]
    BY <1>1, <1>9, IdleTyped, BecomesFacts
  <2>2. unsent \subseteq unsent' /\ unsent' \subseteq Event
    BY <1>4, <1>5, <1>9
  <2>3. IndexerTyped'
    BY <1>1, <1>3, <1>4, <2>1, <2>2 DEF IndexerTyped
  <2>4. \A v \in Workers : WorkerSound(v)'
    BY <1>4, <2>1, <2>3, IdleSound, OthersSound
  <2>5. ASSUME NEW e \in Event PROVE Credits(e)' /\ Notices(e)'
    <3>1. PICK collected : collected = Collected(w, Inserted(worker[w].batch))[e]
      OBVIOUS
    <3>2. Pending(e)'[w] = 0
      BY <2>1, IdleTyped DEF Pending
    <3>3. e \in rows' /\ collected > 0 => e \in unsent'
      <4>1. collected = worker[w].news[e] + (IF e \in done THEN 1 ELSE 0)
        BY <1>2, <1>6, <3>1
      <4>2. collected > 0 => worker[w].news[e] > 0 \/ e \in done
        BY <1>1, <4>1, WorkerTyped
      <4>3. rows' = rows \cup done
        BY <1>2, <1>3 DEF StoreChunk
      <4> QED
        BY <1>9, <4>2, <4>3
    <3> QED
      BY <1>3, <2>1, <2>2, <2>3, <3>1, <3>2, <3>3, StoreBooks
  <2> QED
    BY <1>4, <2>3, <2>4, <2>5 DEF IndexerInv
<1> QED
  BY <1>2, <1>8, <1>9 DEF CommitUnanswered

LEMMA RollBackKeeps ==
  ASSUME IndexerInv, NEW w \in Workers, RollBack(w)
  PROVE  IndexerInv'
<1>1. IndexerTyped /\ WorkerSound(w) /\ SafeTo(cursor)
  BY DEF IndexerInv
<1>2. /\ At(w, "storing") /\ Fault
      /\ tip' = tip /\ cursor' = cursor /\ upgraded' = upgraded
      /\ quarantine' = quarantine /\ sent' = sent /\ dropped' = dropped
  BY DEF RollBack
<1>3. PICK done : /\ done \subseteq Inserted(worker[w].batch)
                  /\ Undoes(w, done)
                  /\ Retry(w, Collected(w, done)) \/ GivesUp(w)
  <2>1. PICK last \in {0} \cup worker[w].batch :
          LET done == {e \in Inserted(worker[w].batch) : e <= last}
          IN  /\ Undoes(w, done)
              /\ Retry(w, Collected(w, done)) \/ GivesUp(w)
    BY DEF RollBack
  <2> QED
    BY <2>1
<1>4. rows' = rows /\ credited' = credited
  BY <1>3 DEF Undoes
<1>5. CASE GivesUp(w)
  BY <1>2, <1>4, <1>5, GiveUpKeeps
<1>6. CASE Retry(w, Collected(w, done))
  <2>1. /\ Collected(w, done) \in [Event -> Nat]
        /\ \A e \in Event :
             Collected(w, done)[e] = worker[w].news[e] + (IF e \in done THEN 1 ELSE 0)
        /\ \A e \in Event : worker[w].news[e] \in Nat
    BY <1>1, CollectedFacts, WorkerTyped
  <2>2. \A e \in done : e \in worker[w].batch /\ Readable(e) /\ e \notin rows /\ ~Kept(e)
    BY <1>3, InsertedFacts
  <2>3. \A e \in Event : Collected(w, done)[e] > 0 => e \in worker[w].batch /\ Readable(e)
    <3> SUFFICES ASSUME NEW e \in Event, Collected(w, done)[e] > 0
                 PROVE  e \in worker[w].batch /\ Readable(e)
      OBVIOUS
    <3>1. e \in done \/ worker[w].news[e] > 0
      BY <2>1
    <3> QED
      BY <1>1, <2>2, <3>1 DEF WorkerSound, Collecting
  <2>4. /\ faults \in Nat /\ faults' = faults + 1 /\ faults' > 0 /\ faults' \in Nat
        /\ faults' \in 0 .. MaxFaults /\ faults' >= faults
    BY <1>1, <1>2, NumbersTyped, FaultTyped DEF Fault
  <2>5. Grown /\ SafeTo(cursor)'
    BY <1>1, <1>2, <1>4, <2>4, Still
  <2>6. /\ worker' \in [Workers -> WorkerRecord]
        /\ \A v \in Workers \ {w} : worker'[v] = worker[v]
        /\ worker'[w].at = "storing" /\ worker'[w].news = Collected(w, done)
        /\ WorkerSound(w)'
    BY <1>2, <1>6, <2>1, <2>3, <2>4, <2>5, RetryFacts
  <2>7. unsent' = unsent
    BY <1>6 DEF Retry
  <2>8. IndexerTyped'
    BY <1>1, <1>2, <1>4, <2>4, <2>6, <2>7 DEF IndexerTyped
  <2>9. \A v \in Workers : WorkerSound(v)'
    BY <2>5, <2>6, <2>8, OthersSound
  <2>10. ASSUME NEW e \in Event PROVE Credits(e)' /\ Notices(e)'
    <3>1. Pending(e)[w] = worker[w].news[e]
      BY <1>2 DEF Pending, At
    <3>2. Pending(e)'[w] = worker[w].news[e] + (IF e \in done THEN 1 ELSE 0)
      BY <2>1, <2>6 DEF Pending
    <3>3. Notices(e) /\ Credits(e)
      BY DEF IndexerInv
    <3>4. Recorded(e) => Recorded(e)'
      BY <1>4, <2>4, RecordedStays
    <3>5. worker[w].news[e] > 0 => worker'[w].news[e] > 0
      BY <2>1, <2>6
    <3>6. Notices(e)'
      BY <1>2, <1>4, <2>6, <2>7, <3>3, <3>4, <3>5 DEF Notices
    <3>7. CASE e \notin done
      <4>1. Pending(e)'[w] <= Pending(e)[w]
        BY <2>1, <3>1, <3>2, <3>7
      <4>2. Credits(e)'
        BY <1>4, <2>4, <2>6, <2>8, <4>1, CreditsStand
      <4> QED
        BY <3>6, <4>2
    <3>8. CASE e \in done
      <4>1. e \notin rows /\ ~Kept(e)
        BY <2>2, <3>8
      <4>2. Has(e) = 0 /\ Has(e)' = 0 /\ credited'[e] = credited[e] /\ credited[e] \in Nat
        BY <1>1, <1>4, <4>1 DEF Has, IndexerTyped
      <4>3. /\ Load(e)' = Load(e) + 1 /\ Load(e) \in Nat
        <5>1. /\ Load(e)' = Load(e) - Pending(e)[w] + Pending(e)'[w]
              /\ Load(e) \in Nat /\ Load(e)' \in Nat
          BY <1>1, <2>6, <2>8, LoadMoves
        <5>2. Pending(e)'[w] = Pending(e)[w] + 1 /\ Pending(e)[w] \in Nat
          BY <2>1, <3>1, <3>2, <3>8
        <5> QED
          BY <5>1, <5>2
      <4>4. PICK f \in Nat, n \in Nat, c \in Nat :
              f = faults /\ n = Load(e) /\ c = credited[e]
        BY <2>4, <4>2, <4>3
      <4>5. Affords(f, n, c, 0)
        BY <3>3, <4>2, <4>4 DEF Credits, Affordable
      <4>6. Affords(f + 1, n + 1, c, 0)
        BY <4>5, AffordsCollect
      <4>7. Affordable(e)'
        BY <2>4, <4>2, <4>3, <4>4, <4>6 DEF Affordable
      <4>8. Credits(e)'
        BY <1>4, <3>3, <3>4, <4>2, <4>7 DEF Credits, Scored
      <4> QED
        BY <3>6, <4>8
    <3> QED
      BY <3>7, <3>8
  <2> QED
    BY <2>5, <2>8, <2>9, <2>10 DEF IndexerInv
<1> QED
  BY <1>3, <1>5, <1>6

------------------------------------------------------------------------------
(***************************************************************************)
(* The theorems.                                                           *)
(***************************************************************************)
LEMMA IndexerInit ==
  ASSUME Init
  PROVE  IndexerInv
<1>1. /\ tip = 0 /\ upgraded = FALSE /\ cursor = 0 /\ rows = {} /\ quarantine = {}
      /\ credited = Nothing /\ sent = Nothing
      /\ worker = [w \in Workers |-> Idle]
      /\ faults = 0 /\ dropped = {} /\ unsent = {}
  BY DEF Init
<1>2. IndexerTyped
  <2>1. tip \in 0 .. MaxLedger /\ cursor \in 0 .. tip /\ faults \in 0 .. MaxFaults
    BY <1>1, Bounds
  <2> QED
    BY <1>1, <2>1, IdleTyped DEF IndexerTyped
<1>3. SafeTo(cursor)
  BY <1>1, EventFields, Bounds DEF SafeTo
<1>4. \A w \in Workers : WorkerSound(w)
  BY <1>1, IdleTyped, Bounds DEF WorkerSound, Collecting, Reading, Redoing, At
<1>5. ASSUME NEW e \in Event PROVE Credits(e) /\ Notices(e)
  <2>1. Load(e) = 0
    <3>1. \A w \in Workers : Pending(e)[w] = 0
      BY <1>1, IdleTyped DEF Pending
    <3> QED
      BY <3>1, WeightNothing DEF Load
  <2>2. credited[e] = 0 /\ sent[e] = 0 /\ e \notin rows /\ Has(e) = 0
    BY <1>1 DEF Nothing, Has
  <2>3. Affords(0, 0, 0, 0)
    <3>1. 0 + 0 <= 0 /\ 0 <= 0 + 0 /\ 0 + 0 <= (0 + 1) * (0 + 1)
      OBVIOUS
    <3> QED
      BY <3>1 DEF Affords
  <2>4. Affordable(e)
    BY <1>1, <2>1, <2>2, <2>3 DEF Affordable
  <2> QED
    BY <2>2, <2>4 DEF Credits, Notices
<1> QED
  BY <1>2, <1>3, <1>4, <1>5 DEF IndexerInv

LEMMA IndexerStep ==
  ASSUME IndexerInv, [Next]_vars
  PROVE  IndexerInv'
<1>1. CASE CloseLedger
  BY <1>1, CloseLedgerKeeps
<1>2. CASE Deploy
  BY <1>2, DeployKeeps
<1>3. ASSUME NEW p \in Pollers, ReadCursor(p) \/ AskTip(p) \/ MoveCursor(p)
      PROVE  IndexerInv'
  BY <1>3, ReadCursorKeeps, AskTipKeeps, MoveCursorKeeps
<1>4. ASSUME NEW a \in Admins, NEW range \in Ranges, Reindex(a, range[1], range[2])
      PROVE  IndexerInv'
  BY <1>4, ReindexKeeps
<1>5. ASSUME NEW a \in Admins, NEW e \in quarantine, Reprocess(a, e)
      PROVE  IndexerInv'
  BY <1>5, ReprocessKeeps
<1>6. ASSUME NEW a \in Admins, DeleteQuarantined(a)
      PROVE  IndexerInv'
  BY <1>6, DeleteQuarantinedKeeps
<1>7. ASSUME NEW w \in Workers, Parse(w) \/ Announce(w) \/ Crash(w)
      PROVE  IndexerInv'
  BY <1>7, ParseKeeps, AnnounceKeeps, CrashKeeps
<1>8. ASSUME NEW w \in Workers, Commit(w) \/ CommitUnanswered(w) \/ RollBack(w)
      PROVE  IndexerInv'
  BY <1>8, CommitKeeps, CommitUnansweredKeeps, RollBackKeeps
<1>9. CASE UNCHANGED vars
  <2>1. /\ tip' = tip /\ upgraded' = upgraded /\ cursor' = cursor /\ rows' = rows
        /\ quarantine' = quarantine /\ credited' = credited /\ sent' = sent
        /\ worker' = worker /\ faults' = faults /\ dropped' = dropped
        /\ unsent' = unsent
    BY <1>9 DEF vars
  <2>2. IndexerTyped'
    BY <2>1 DEF IndexerInv, IndexerTyped
  <2>3. SafeTo(cursor)' /\ \A w \in Workers : WorkerSound(w)'
    BY <2>1 DEF IndexerInv, WorkerSound, Collecting, Reading, Redoing, SafeTo, Safe, Kept,
                Recorded, Readable, Known, Throws, At
  <2>4. \A e \in Event : Credits(e)' /\ Notices(e)'
    BY <2>1 DEF IndexerInv, Credits, Notices, Affordable, Load, Pending, Has, Recorded,
                Kept, Weight, Units, Scored
  <2> QED
    BY <2>2, <2>3, <2>4 DEF IndexerInv
<1> QED
  BY <1>1, <1>2, <1>3, <1>4, <1>5, <1>6, <1>7, <1>8, <1>9 DEF Next, Work

LEMMA IndexerAlways == Spec => []IndexerInv
<1>1. Init => IndexerInv
  BY IndexerInit
<1>2. IndexerInv /\ [Next]_vars => IndexerInv'
  BY IndexerStep
<1> QED
  BY <1>1, <1>2, PTL DEF Spec

(* The row of an event, its score change and its announcements are of one  *)
(* piece: a score moves only for an event that has its row (or had its     *)
(* slot taken while a failed attempt was tried again), for each of those,  *)
(* and never more often than the faults so far can have made it; webhooks, *)
(* stream and notifications hear of rows, and of every row whose process   *)
(* did not die with the news (storeEvents and withTransaction).            *)
THEOREM IndexerRecordsAgree == Spec => []RecordsAgree
<1>1. IndexerInv => RecordsAgree
  <2> SUFFICES ASSUME IndexerInv PROVE RecordsAgree
    OBVIOUS
  <2>1. IndexerTyped /\ \A w \in Workers : WorkerSound(w)
    BY DEF IndexerInv
  <2>2. TypeOK
    <3>1. ASSUME NEW w \in Workers
          PROVE  /\ worker[w].at \in {"idle", "asking", "parsing", "storing", "announcing",
                                      "moving", "deleting"}
                 /\ worker[w].batch \subseteq Event
                 /\ worker[w].to \in 0 .. tip /\ worker[w].end \in 0 .. tip
                 /\ worker[w].tries \in 0 .. MaxRetries
                 /\ \A e \in Event : worker[w].news[e] > 0 => e \in worker[w].batch
      <4>1. worker[w] \in WorkerRecord /\ WorkerSound(w) /\ tip \in Nat
        BY <2>1, WorkerTyped, NumbersTyped
      <4>2. \A e \in Event : worker[w].news[e] > 0 => e \in worker[w].batch
        BY <4>1 DEF WorkerSound, Collecting
      <4>3. /\ worker[w].to <= tip /\ worker[w].end <= tip
            /\ worker[w].tries <= MaxRetries
        BY <4>1 DEF WorkerSound
      <4> QED
        BY <4>1, <4>2, <4>3, Bounds DEF WorkerRecord
    <3> QED
      BY <2>1, <3>1 DEF IndexerTyped, TypeOK
  <2>3. CreditsFollowRows
    <3> SUFFICES ASSUME NEW e \in Event
                 PROVE  /\ credited[e] > 0 => Scored(e) /\ Recorded(e)
                        /\ Scored(e) /\ e \in rows => credited[e] > 0
                        /\ credited[e] <= MostCredits
      BY DEF CreditsFollowRows
    <3>1. Credits(e)
      BY DEF IndexerInv
    <3>2. faults \in Nat /\ credited[e] \in Nat /\ Load(e) \in Nat
      BY <2>1, NumbersTyped, LoadNat DEF IndexerTyped
    <3>3. PICK f \in Nat, n \in Nat, c \in Nat :
            f = faults /\ n = Load(e) /\ c = credited[e]
      BY <3>2
    <3>4. Affords(f, n, c, Has(e))
      BY <3>1, <3>3 DEF Credits, Affordable
    <3>5. c <= ((2 + f) * (2 + f)) \div 4
      BY <3>4, AffordsBound
    <3> QED
      BY <3>1, <3>3, <3>5 DEF Credits, MostCredits
  <2>4. NoticesFollowRows
    BY DEF IndexerInv, Notices, NoticesFollowRows
  <2> QED
    BY <2>2, <2>3, <2>4 DEF RecordsAgree
<1> QED
  BY <1>1, IndexerAlways, PTL

(* The cursor passes no event that is neither in the table (or refused     *)
(* because its slot is taken) nor set aside, however many pollers and      *)
(* re-reads run at once and wherever they fail (pollOnce).                 *)
THEOREM IndexerCursorCovers == Spec => []CursorCovers
<1>1. IndexerInv => CursorCovers
  BY DEF IndexerInv, SafeTo, Safe, CursorCovers
<1> QED
  BY <1>1, IndexerAlways, PTL

(* A slow poller never takes the cursor back (updateLastIndexedLedger).    *)
THEOREM CursorAdvances == Spec => CursorNeverBack
<1>1. IndexerInv /\ [Next]_vars => [cursor' >= cursor]_cursor
  <2> SUFFICES ASSUME IndexerInv, Next, cursor' # cursor PROVE cursor' >= cursor
    BY DEF vars
  <2>1. IndexerTyped
    BY DEF IndexerInv
  <2>2. PICK p \in Pollers : MoveCursor(p)
    BY DEF Next, CloseLedger, Deploy, ReadCursor, AskTip, Reindex, Reprocess,
           DeleteQuarantined, Work, Parse, Commit, Announce, CommitUnanswered, RollBack, Crash
  <2>3. cursor' = Advanced(worker[p].to)
    BY <2>2 DEF MoveCursor
  <2>4. cursor \in Nat /\ worker[p].to \in Nat
    BY <2>1, NumbersTyped, WorkerTyped DEF Workers
  <2> QED
    BY <2>3, <2>4 DEF Advanced
<1> QED
  BY <1>1, IndexerAlways, PTL DEF Spec, CursorNeverBack

------------------------------------------------------------------------------
(***************************************************************************)
(* The scores the indexer's transaction writes (ScoreTable): what the      *)
(* scores table holds and what a commit of the indexer makes of it, for    *)
(* any moves of the chain, any threshold and any number of readers.  The   *)
(* row a transaction has written is locked until it ends, so the score     *)
(* computed by the statement still fits the row at the commit.             *)
(***************************************************************************)

(* The score the statement left in the row is that of the row as committed *)
(* and of the deltas of the chunk.                                         *)
ValueFits == Locked => bulk.value = Upserted(table, bulk.delta)

TableInv == ScoreTypeOK /\ ValueFits

------------------------------------------------------------------------------
(* Arithmetic of the two statements. *)

LEMMA ClampInRange ==
  ASSUME NEW x \in Int
  PROVE  /\ Clamp(x) \in MinScore .. MaxScore
         /\ Clamp(x) \in Scores
         /\ x \in MinScore .. MaxScore => Clamp(x) = x
  BY DEF Clamp, AtMost, AtLeast, MinScore, MaxScore, Scores

(* updateUserScoresBulk computes the new score over the start score: what  *)
(* is left of the delta there is the delta without its excess.             *)
LEMMA DetourDropsExcess ==
  ASSUME NEW delta \in Int
  PROVE  Clamp(StartScore + delta) = StartScore + delta - Excess(delta)
<1>1. CASE delta > MaxScore - StartScore
  BY <1>1 DEF Excess, Clamp, AtMost, AtLeast, MinScore, MaxScore, StartScore
<1>2. CASE delta < MinScore - StartScore
  BY <1>2 DEF Excess, Clamp, AtMost, AtLeast, MinScore, MaxScore, StartScore
<1>3. CASE delta \in MinScore - StartScore .. MaxScore - StartScore
  BY <1>3 DEF Excess, Clamp, AtMost, AtLeast, MinScore, MaxScore, StartScore
<1> QED
  BY <1>1, <1>2, <1>3 DEF MinScore, MaxScore, StartScore

LEMMA ExcessIsInt ==
  ASSUME NEW delta \in Int
  PROVE  Excess(delta) \in Int
  BY DEF Excess, MinScore, MaxScore, StartScore

(* The row gets the clamped sum of itself and of what is left of the delta. *)
LEMMA UpsertAdds ==
  ASSUME NEW row \in Scores \cup {NoScore}, NEW delta \in Int
  PROVE  Upserted(row, delta) = Clamp(Score(row) + delta - Excess(delta))
<1> DEFINE detour == Clamp(StartScore + delta)
<1>1. detour = StartScore + delta - Excess(delta) /\ Excess(delta) \in Int
  BY DetourDropsExcess, ExcessIsInt
<1>2. detour \in MinScore .. MaxScore /\ Clamp(detour) = detour
  <2>1. StartScore + delta \in Int
    BY DEF StartScore
  <2>2. detour \in MinScore .. MaxScore
    BY <2>1, ClampInRange
  <2>3. detour \in Int
    BY <2>2 DEF MinScore, MaxScore
  <2> QED
    BY <2>2, <2>3, ClampInRange
<1>3. CASE row = NoScore
  <2>1. Upserted(row, delta) = detour /\ Score(row) = StartScore
    BY <1>3 DEF Upserted, Score
  <2> HIDE DEF detour
  <2> QED
    BY <1>1, <1>2, <2>1
<1>4. CASE row # NoScore
  <2>1. row \in Int /\ Score(row) = row
    BY <1>4 DEF Scores, Score
  <2>2. Upserted(row, delta) = Clamp(row + detour - StartScore)
    BY <1>4 DEF Upserted
  <2> HIDE DEF detour
  <2>3. row + detour - StartScore = row + delta - Excess(delta)
    BY <1>1, <2>1 DEF StartScore
  <2> QED
    BY <2>1, <2>2, <2>3
<1> QED
  BY <1>3, <1>4

(* decrease_score and update_score of the contract. *)
LEMMA ChainInRange ==
  ASSUME NEW x \in Scores, NEW delta \in Int
  PROVE  AtMost(MaxScore, AtLeast(0, x + delta)) \in Scores
  BY DEF AtMost, AtLeast, Scores, MaxScore

LEMMA UpsertInRange ==
  ASSUME NEW row \in Scores \cup {NoScore}, NEW delta \in Int
  PROVE  Upserted(row, delta) \in Scores
<1>1. Clamp(StartScore + delta) \in Int
  <2>1. StartScore + delta \in Int
    BY DEF StartScore
  <2> QED
    BY <2>1, ClampInRange DEF Scores
<1>2. CASE row = NoScore
  <2>1. StartScore + delta \in Int
    BY DEF StartScore
  <2> QED
    BY <1>2, <2>1, ClampInRange DEF Upserted
<1>3. CASE row # NoScore
  <2>1. row \in Int
    BY <1>3 DEF Scores, MaxScore
  <2>2. row + Clamp(StartScore + delta) - StartScore \in Int
    BY <1>1, <2>1 DEF StartScore
  <2> QED
    BY <1>3, <2>2, ClampInRange DEF Upserted
<1> QED
  BY <1>2, <1>3

------------------------------------------------------------------------------
LEMMA TableInvInit == ScoreInit => TableInv
<1> SUFFICES ASSUME ScoreInit PROVE TableInv
  OBVIOUS
<1>1. ScoreTypeOK
  BY DEF ScoreInit, ScoreTypeOK, NoBulk, NoJob, Scores, StartScore, MaxScore
<1>2. ValueFits
  BY DEF ScoreInit, ValueFits, Locked, NoBulk
<1> QED
  BY <1>1, <1>2 DEF TableInv

(* The transaction of the indexer. *)
LEMMA BulkKeepsInv ==
  TableInv /\ (BulkStep \/ BulkRollBack) => TableInv'
<1> SUFFICES ASSUME TableInv, BulkStep \/ BulkRollBack
             PROVE  TableInv'
  OBVIOUS
<1> USE ScoreAssumption DEF TableInv, ScoreTypeOK
<1>1. CASE BulkInsert
  <2> DEFINE move == emitted[bulk.size + 1]
  <2>1. bulk.size + 1 \in 1 .. Len(emitted)
    BY <1>1 DEF BulkInsert
  <2>2. move \in Moves
    BY <2>1
  <2>3. move.table \in Int
    BY <2>2
  <2>4. bulk' = [bulk EXCEPT !.at = "inserting", !.size = bulk.size + 1,
                             !.delta = bulk.delta + move.table,
                             !.ended = IF move.ends THEN bulk.ended + 1 ELSE bulk.ended]
    BY <1>1 DEF BulkInsert
  <2> HIDE DEF move
  <2> DEFINE ended == IF move.ends THEN bulk.ended + 1 ELSE bulk.ended
  <2>5. ended \in Nat /\ bulk.delta + move.table \in Int /\ bulk.size + 1 \in Nat
    BY <2>3
  <2>6. bulk' = [bulk EXCEPT !.at = "inserting", !.size = bulk.size + 1,
                             !.delta = bulk.delta + move.table, !.ended = ended]
    BY <2>4
  <2> HIDE DEF ended
  <2>7. bulk' \in [at : {"idle", "inserting", "written", "cleared"}, size : Nat,
                   delta : Int, ended : Nat, value : Scores \cup {NoScore}]
    BY <2>5, <2>6
  <2>8. bulk'.at = "inserting" /\ bulk'.size = bulk.size + 1
    BY <2>6
  <2>9. ScoreTypeOK'
    BY <1>1, <2>1, <2>7, <2>8 DEF BulkInsert
  <2>10. ValueFits'
    BY <2>8 DEF ValueFits, Locked
  <2> QED
    BY <2>9, <2>10
<1>2. CASE BulkWrite
  <2>1. Upserted(table, bulk.delta) \in Scores
    BY UpsertInRange
  <2>2. bulk' = [bulk EXCEPT !.at = "written", !.value = Upserted(table, bulk.delta)]
    BY <1>2 DEF BulkWrite
  <2>3. /\ bulk'.at = "written" /\ bulk'.size = bulk.size /\ bulk'.delta = bulk.delta
        /\ bulk'.value = Upserted(table, bulk.delta)
    BY <2>2
  <2>4. ScoreTypeOK'
    BY <1>2, <2>1, <2>2, <2>3 DEF BulkWrite
  <2>5. ValueFits'
    BY <1>2, <2>3 DEF BulkWrite, ValueFits, Upserted
  <2> QED
    BY <2>4, <2>5
<1>3. CASE BulkClear
  <2>1. bulk' = [bulk EXCEPT !.at = "cleared"]
    BY <1>3 DEF BulkClear
  <2>2. ScoreTypeOK'
    BY <1>3, <2>1 DEF BulkClear
  <2>3. ValueFits'
    BY <1>3, <2>1 DEF BulkClear, ValueFits, Locked, Upserted
  <2> QED
    BY <2>2, <2>3
<1>4. CASE BulkCommit
  <2>1. table' \in Scores
    <3>1. bulk.value = Upserted(table, bulk.delta)
      BY <1>4 DEF BulkCommit, ValueFits, Locked
    <3> QED
      BY <1>4, <3>1, UpsertInRange DEF BulkCommit
  <2>2. emitted' \in Seq(Moves)
    BY <1>4 DEF BulkCommit
  <2>3. bulk' = NoBulk
    BY <1>4 DEF BulkCommit
  <2>4. Len(emitted') \in Nat
    BY <2>2
  <2>5. ScoreTypeOK'
    BY <1>4, <2>1, <2>2, <2>3, <2>4 DEF BulkCommit, NoBulk
  <2>6. ValueFits'
    BY <2>3 DEF NoBulk, ValueFits, Locked
  <2> QED
    BY <2>5, <2>6
<1>5. CASE BulkRollBack
  <2>1. CASE bulk' = NoBulk
    BY <1>5, <2>1 DEF BulkRollBack, NoBulk, ValueFits, Locked
  <2>2. CASE bulk' = [NoBulk EXCEPT !.at = "inserting", !.delta = bulk.delta]
    <3>1. bulk' = [at |-> "inserting", size |-> 0, delta |-> bulk.delta, ended |-> 0,
                   value |-> NoScore]
      BY <2>2 DEF NoBulk
    <3> QED
      BY <1>5, <3>1 DEF BulkRollBack, ValueFits, Locked
  <2> QED
    BY <1>5, <2>1, <2>2 DEF BulkRollBack
<1> QED
  BY <1>1, <1>2, <1>3, <1>4, <1>5 DEF BulkStep

(* A writer outside the transaction waits for the row's lock. *)
LEMMA OthersKeepInv ==
  TableInv /\ [ScoreNext]_scoreVars /\ ~BulkStep /\ ~BulkRollBack => TableInv'
<1> SUFFICES ASSUME TableInv, [ScoreNext]_scoreVars, ~BulkStep, ~BulkRollBack
             PROVE  TableInv'
  OBVIOUS
<1> USE ScoreAssumption DEF TableInv, ScoreTypeOK
<1>1. ASSUME NEW move \in Moves, Emit(move)
      PROVE  TableInv'
  <2>1. move.chain \in Int
    OBVIOUS
  <2>2. chain' \in Scores
    BY <1>1, <2>1, ChainInRange DEF Emit
  <2>3. /\ emitted' \in Seq(Moves)
        /\ Len(emitted') = Len(emitted) + 1
    BY <1>1 DEF Emit
  <2>4. open' \in Nat
    BY <1>1 DEF Emit
  <2>5. ScoreTypeOK'
    BY <1>1, <2>2, <2>3, <2>4 DEF Emit
  <2>6. ValueFits'
    BY <1>1 DEF Emit, ValueFits, Locked, Upserted
  <2> QED
    BY <2>5, <2>6
<1>2. CASE Approve
  BY <1>2 DEF Approve, ValueFits, Locked, Upserted
<1>3. ASSUME NEW r \in Readers, Read(r) \/ Fill(r)
      PROVE  TableInv'
  <2>1. Score(table) \in Scores
    BY DEF Score, StartScore, MaxScore, Scores
  <2>2. CASE Read(r)
    BY <2>1, <2>2 DEF Read, ValueFits, Locked, Upserted
  <2>3. CASE Fill(r)
    BY <2>3 DEF Fill, ValueFits, Locked, Upserted
  <2> QED
    BY <1>3, <2>2, <2>3
<1>4. CASE Expire
  BY <1>4 DEF Expire, ValueFits, Locked, Upserted
<1>5. ASSUME NEW delta \in {OnTimeDelta, LateDelta}, Update(delta)
      PROVE  TableInv'
  <2>1. delta \in Int /\ StartScore + delta \in Scores
    BY DEF OnTimeDelta, LateDelta, StartScore, Scores, MaxScore
  <2>2. ASSUME table # NoScore PROVE Clamp(table + delta) \in Scores
    <3>1. table + delta \in Int
      BY <2>1, <2>2 DEF Scores
    <3> QED
      BY <3>1, ClampInRange
  <2>3. table' \in Scores
    BY <1>5, <2>1, <2>2 DEF Update
  <2>4. ScoreTypeOK'
    BY <1>5, <2>3 DEF Update
  <2>5. ValueFits'
    BY <1>5 DEF Update, ValueFits, Locked
  <2> QED
    BY <2>4, <2>5
<1>6. CASE UpdateClear
  BY <1>6 DEF UpdateClear, ValueFits, Locked, Upserted
<1>7. CASE JobRead
  BY <1>7 DEF JobRead, NoJob, ValueFits, Locked, Upserted
<1>8. CASE JobAsk
  <2>1. StartScore \in Scores
    BY DEF StartScore, Scores, MaxScore
  <2>2. job' \in {NoJob} \cup {[job EXCEPT !.at = "writing", !.found = chain],
                              [job EXCEPT !.at = "writing", !.found = StartScore]}
    BY <1>8 DEF JobAsk
  <2>3. NoScore \notin Scores
    BY DEF Scores
  <2>4. ASSUME NEW found \in Scores, job' = [job EXCEPT !.at = "writing", !.found = found]
        PROVE  ScoreTypeOK'
    BY <1>8, <2>3, <2>4 DEF JobAsk
  <2>5. ASSUME job' = NoJob PROVE ScoreTypeOK'
    BY <1>8, <2>5 DEF JobAsk, NoJob
  <2>6. ScoreTypeOK'
    BY <2>1, <2>2, <2>4, <2>5
  <2>7. ValueFits'
    BY <1>8 DEF JobAsk, ValueFits, Locked, Upserted
  <2> QED
    BY <2>6, <2>7
<1>9. CASE JobWrite
  <2>1. ScoreTypeOK'
    BY <1>9 DEF JobWrite, NoJob
  <2>2. ValueFits'
    BY <1>9 DEF JobWrite, ValueFits, Locked
  <2> QED
    BY <2>1, <2>2
<1>10. CASE JobClear
  BY <1>10 DEF JobClear, NoJob, ValueFits, Locked, Upserted
<1>11. CASE OthersMove
  BY <1>11 DEF OthersMove, ValueFits, Locked, Upserted
<1>12. CASE UNCHANGED scoreVars
  BY <1>12 DEF scoreVars, ValueFits, Locked, Upserted
<1> QED
  BY <1>1, <1>2, <1>3, <1>4, <1>5, <1>6, <1>7, <1>8, <1>9, <1>10, <1>11, <1>12
     DEF ScoreNext, Job

LEMMA TableInvNext == TableInv /\ [ScoreNext]_scoreVars => TableInv'
  BY BulkKeepsInv, OthersKeepInv

------------------------------------------------------------------------------
(* Scores in the table, in the cache, on the chain and in the memory of    *)
(* readers and job stay between 0 and MaxScore, whatever the deltas are.   *)
THEOREM ScoreTypeCorrect == ScoreSpec => []ScoreTypeOK
<1>1. TableInv => ScoreTypeOK
  BY DEF TableInv
<1> QED
  BY <1>1, TableInvInit, TableInvNext, PTL DEF ScoreSpec

(* A commit of the indexer moves the score as it is then by the deltas of  *)
(* the chunk, for every score, every sum of deltas and every interleaving  *)
(* with requests and the job, and what it loses of a sum is what lies      *)
(* beyond the moves there are from the start score.                        *)
THEOREM CommitsAddDeltas == ScoreSpec => BulkAddsDeltas
<1>1. TableInv /\ [ScoreNext]_scoreVars
        => [BulkCommit => table' = Clamp(Score(table) + bulk.delta - Excess(bulk.delta))]_scoreVars
  <2> SUFFICES ASSUME TableInv, BulkCommit
               PROVE  table' = Clamp(Score(table) + bulk.delta - Excess(bulk.delta))
    OBVIOUS
  <2>1. bulk.value = Upserted(table, bulk.delta)
    BY DEF TableInv, ValueFits, BulkCommit, Locked
  <2>2. bulk.delta \in Int /\ table \in Scores \cup {NoScore}
    BY DEF TableInv, ScoreTypeOK
  <2> QED
    BY <2>1, <2>2, UpsertAdds DEF BulkCommit
<1> QED
  BY <1>1, TableInvInit, TableInvNext, PTL DEF ScoreSpec, BulkAddsDeltas
==============================================================================
