------------------------- MODULE RemittanceNftProofs -------------------------
(***************************************************************************)
(* Theorems about the tokens and the minter list of the RemittanceNFT, for *)
(* any holders, addresses, scores, limits and settings.                    *)
(***************************************************************************)
EXTENDS RemittanceNft, FiniteSetTheorems, SequenceTheorems, WellFoundedInduction, TLAPS

------------------------------------------------------------------------------
(***************************************************************************)
(* The loop that writes the list anew.                                     *)
(***************************************************************************)
LEMMA SmallestOf ==
  ASSUME NEW S \in SUBSET Nat, NEW x \in S
  PROVE  \E least \in S : \A y \in S : least <= y
<1> DEFINE R == OpToRel(<, Nat)
<1>1. R = {ss \in Nat \X Nat : ss[1] < ss[2]}
  BY DEF OpToRel
<1>2. IsWellFoundedOn(R, Nat)
  BY NatLessThanWellFounded
<1> HIDE DEF R
<1>3. PICK least \in S : \A y \in S : ~ (<<y, least>> \in R)
  BY <1>2, WFMin
<1>4. \A y \in S : least \in Nat /\ y \in Nat /\ ~ (y < least)
  BY <1>1, <1>3
<1>5. \A y \in S : least <= y
  BY <1>4
<1> QED
  BY <1>5

(* One turn of the loop.                                                   *)
Turn(list, m, n, before) == IF list[n] = m THEN before ELSE Append(before, list[n])

Turns(list, m, f, n) ==
  /\ f \in [0 .. n -> Seq(People)]
  /\ f[0] = <<>>
  /\ \A i \in 1 .. n : f[i] = Turn(list, m, i, f[i - 1])

LEMMA LoopRuns ==
  ASSUME NEW list \in Seq(People), NEW m, NEW n \in 0 .. Len(list)
  PROVE  \E f : Turns(list, m, f, n)
<1> DEFINE stuck == {k \in 0 .. Len(list) : ~ \E f : Turns(list, m, f, k)}
<1>1. SUFFICES ASSUME stuck # {} PROVE FALSE
  OBVIOUS
<1>2. Len(list) \in Nat /\ stuck \subseteq Nat
  BY LenProperties
<1>3. PICK k \in stuck : \A j \in stuck : k <= j
  <2> HIDE DEF stuck
  <2> QED
    BY <1>1, <1>2, SmallestOf
<1>4. CASE k = 0
  <2>1. PICK f : f = [i \in 0 .. 0 |-> <<>>]
    OBVIOUS
  <2>2. Turns(list, m, f, 0)
    BY <2>1 DEF Turns
  <2> QED
    BY <1>3, <1>4, <2>2
<1>5. CASE k > 0
  <2>1. k - 1 \in 0 .. Len(list) /\ k - 1 \notin stuck /\ k \in 1 .. Len(list) /\ k \in Nat
    BY <1>2, <1>3, <1>5
  <2>2. PICK f : Turns(list, m, f, k - 1)
    BY <2>1
  <2>3. list[k] \in People
    BY <2>1, ElementOfSeq
  <2>4. PICK last : last = Turn(list, m, k, f[k - 1])
    OBVIOUS
  <2>5. f[k - 1] \in Seq(People)
    BY <2>1, <2>2 DEF Turns
  <2>6. last \in Seq(People)
    BY <2>3, <2>4, <2>5, AppendProperties DEF Turn
  <2>7. PICK g : g = [i \in 0 .. k |-> IF i = k THEN last ELSE f[i]]
    OBVIOUS
  <2>8. ASSUME NEW i \in 0 .. k PROVE g[i] \in Seq(People)
    <3>1. CASE i = k
      BY <2>6, <2>7, <3>1
    <3>2. CASE i # k
      <4>1. i \in 0 .. k - 1 /\ g[i] = f[i]
        BY <2>1, <2>7, <3>2
      <4> QED
        BY <2>2, <4>1 DEF Turns
    <3> QED
      BY <3>1, <3>2
  <2>11. g \in [0 .. k -> Seq(People)]
    BY <2>7, <2>8
  <2>12. g[0] = <<>>
    <3>1. 0 \in 0 .. k /\ 0 # k /\ g[0] = f[0]
      BY <1>5, <2>1, <2>7
    <3> QED
      BY <2>2, <3>1 DEF Turns
  <2>9. ASSUME NEW i \in 1 .. k PROVE g[i] = Turn(list, m, i, g[i - 1])
    <3>1. CASE i = k
      <4>1. g[i - 1] = f[k - 1] /\ g[i] = last
        BY <2>1, <2>7, <3>1
      <4> QED
        BY <2>4, <3>1, <4>1
    <3>2. CASE i # k
      <4>1. i \in 1 .. k - 1 /\ g[i] = f[i] /\ g[i - 1] = f[i - 1]
        BY <2>1, <2>7, <3>2
      <4> QED
        BY <2>2, <4>1 DEF Turns
    <3> QED
      BY <3>1, <3>2
  <2>10. Turns(list, m, g, k)
    BY <2>9, <2>11, <2>12 DEF Turns
  <2> QED
    BY <1>3, <2>10
<1> QED
  BY <1>2, <1>3, <1>4, <1>5

LEMMA KeptTurns ==
  ASSUME NEW list \in Seq(People), NEW m
  PROVE  Turns(list, m, Kept(list, m), Len(list))
<1> DEFINE Whole(f) == [n \in 0 .. Len(list) |->
             IF n = 0 THEN <<>>
             ELSE IF list[n] = m THEN f[n - 1] ELSE Append(f[n - 1], list[n])]
<1>1. Len(list) \in Nat
  BY LenProperties
<1>2. PICK f : Turns(list, m, f, Len(list))
  <2>1. Len(list) \in 0 .. Len(list)
    BY <1>1
  <2> HIDE DEF Whole
  <2> QED
    BY <2>1, LoopRuns
<1>3. f = Whole(f)
  <2>1. ASSUME NEW n \in 0 .. Len(list)
        PROVE  f[n] = IF n = 0 THEN <<>>
                      ELSE IF list[n] = m THEN f[n - 1] ELSE Append(f[n - 1], list[n])
    <3>1. CASE n = 0
      BY <1>2, <3>1 DEF Turns
    <3>2. CASE n # 0
      <4>1. n \in 1 .. Len(list)
        BY <1>1, <3>2
      <4> QED
        BY <1>2, <3>2, <4>1 DEF Turns, Turn
    <3> QED
      BY <3>1, <3>2
  <2>2. f = [n \in 0 .. Len(list) |-> f[n]]
    BY <1>2 DEF Turns
  <2> QED
    BY <2>1, <2>2
<1>4. Kept(list, m) = CHOOSE g : g = Whole(g)
  BY DEF Kept
<1>5. PICK k : k = Kept(list, m)
  OBVIOUS
<1>6. k = Whole(k)
  <2> HIDE DEF Whole
  <2> QED
    BY <1>3, <1>4, <1>5
<1>7. \A n \in 0 .. Len(list) : k[n] = f[n]
  <2> DEFINE apart == {n \in 0 .. Len(list) : k[n] # f[n]}
  <2>1. SUFFICES ASSUME apart # {} PROVE FALSE
    OBVIOUS
  <2>2. apart \subseteq Nat
    BY <1>1
  <2>3. PICK n \in apart : \A j \in apart : n <= j
    <3> HIDE DEF apart
    <3> QED
      BY <2>1, <2>2, SmallestOf
  <2>4. n # 0
    BY <1>1, <1>3, <1>6, <2>3
  <2>5. n - 1 \in 0 .. Len(list) /\ k[n - 1] = f[n - 1]
    BY <1>1, <2>2, <2>3, <2>4
  <2> QED
    BY <1>3, <1>6, <2>3, <2>4, <2>5
<1>8. k \in [0 .. Len(list) -> Seq(People)]
  BY <1>2, <1>6, <1>7 DEF Turns
<1> HIDE DEF Whole
<1>9. k[0] = <<>> /\ \A i \in 1 .. Len(list) : k[i] = Turn(list, m, i, k[i - 1])
  BY <1>1, <1>2, <1>7 DEF Turns
<1> QED
  BY <1>5, <1>8, <1>9 DEF Turns

------------------------------------------------------------------------------
(***************************************************************************)
(* The minter list as a set of entries.                                    *)
(***************************************************************************)
Entries(s) == {s[i] : i \in DOMAIN s}

Distinct(s) == \A i, j \in DOMAIN s : s[i] = s[j] => i = j

ListSound(s) == s \in Seq(People) /\ Distinct(s)

LEMMA LengthCounts ==
  ASSUME NEW list, ListSound(list)
  PROVE  /\ IsFiniteSet(Entries(list))
         /\ Cardinality(Entries(list)) = Len(list)
         /\ Len(list) \in Nat
         /\ Entries(list) \subseteq People
<1>1. /\ Len(list) \in Nat
      /\ DOMAIN list = 1 .. Len(list)
      /\ list \in [1 .. Len(list) -> People]
  BY LenProperties DEF ListSound
<1>2. PICK S : S = 1 .. Len(list)
  OBVIOUS
<1>3. IsFiniteSet(S) /\ Cardinality(S) = Len(list)
  BY <1>1, <1>2, FS_Interval
<1>4. list \in Bijection(S, Entries(list))
  BY <1>1, <1>2 DEF ListSound, Distinct, Entries, Bijection, Injection, Surjection, IsInjective
<1>5. ExistsBijection(S, Entries(list))
  BY <1>4 DEF ExistsBijection
<1>6. IsFiniteSet(Entries(list)) /\ Cardinality(Entries(list)) = Cardinality(S)
  BY <1>3, <1>5, FS_Bijection
<1>7. Entries(list) \subseteq People
  BY <1>1 DEF Entries
<1> QED
  BY <1>1, <1>3, <1>6, <1>7

LEMMA EmptyEntries ==
  ListSound(<<>>) /\ Entries(<<>>) = {}
<1>1. <<>> \in Seq(People) /\ Len(<<>>) = 0
  BY EmptySeq
<1>2. DOMAIN <<>> = {}
  OBVIOUS
<1> QED
  BY <1>1, <1>2 DEF ListSound, Distinct, Entries

LEMMA AppendEntries ==
  ASSUME NEW list, ListSound(list), NEW m \in People, m \notin Entries(list)
  PROVE  /\ ListSound(Append(list, m))
         /\ Entries(Append(list, m)) = Entries(list) \cup {m}
<1>1. PICK n : n = Len(list) /\ n \in Nat /\ DOMAIN list = 1 .. n
  BY LenProperties DEF ListSound
<1>2. PICK s : s = Append(list, m)
  OBVIOUS
<1>3. /\ s \in Seq(People)
      /\ Len(s) = n + 1
      /\ \A i \in 1 .. n : s[i] = list[i]
      /\ s[n + 1] = m
  BY <1>1, <1>2, AppendProperties DEF ListSound
<1>4. DOMAIN s = 1 .. n + 1
  BY <1>3, LenProperties
<1>5. \A i \in 1 .. n : list[i] # m
  BY <1>1 DEF Entries
<1>6. \A i \in 1 .. n + 1 : i \in 1 .. n \/ i = n + 1
  BY <1>1
<1>7. \A i \in 1 .. n : i \in 1 .. n + 1
  BY <1>1
<1>8. n + 1 \in 1 .. n + 1
  BY <1>1
<1>9. \A i, j \in 1 .. n : list[i] = list[j] => i = j
  BY <1>1 DEF ListSound, Distinct
<1>10. Distinct(s)
  <2>1. SUFFICES ASSUME NEW i \in 1 .. n + 1, NEW j \in 1 .. n + 1, s[i] = s[j]
                 PROVE  i = j
    BY <1>4 DEF Distinct
  <2>2. CASE i \in 1 .. n /\ j \in 1 .. n
    BY <1>3, <1>9, <2>1, <2>2
  <2>3. CASE i \in 1 .. n /\ j = n + 1
    BY <1>3, <1>5, <2>1, <2>3
  <2>4. CASE i = n + 1 /\ j \in 1 .. n
    BY <1>3, <1>5, <2>1, <2>4
  <2> QED
    BY <1>6, <2>2, <2>3, <2>4
<1>11. Entries(s) = Entries(list) \cup {m}
  BY <1>1, <1>3, <1>4, <1>6, <1>7, <1>8 DEF Entries
<1> QED
  BY <1>2, <1>3, <1>10, <1>11 DEF ListSound

(* A list written anew without an address has every other entry, once.     *)
LEMMA WithoutEntries ==
  ASSUME NEW list, ListSound(list), NEW m
  PROVE  /\ ListSound(Without(list, m))
         /\ Entries(Without(list, m)) = Entries(list) \ {m}
<1>1. PICK n : n = Len(list) /\ n \in Nat /\ DOMAIN list = 1 .. n
  BY LenProperties DEF ListSound
<1>2. PICK f : f = Kept(list, m) /\ Turns(list, m, f, n)
  BY <1>1, KeptTurns DEF ListSound
<1> DEFINE Before(k) == {list[i] : i \in 1 .. k}
<1> DEFINE Good(k) == ListSound(f[k]) /\ Entries(f[k]) = Before(k) \ {m}
<1> DEFINE bad == {k \in 0 .. n : ~Good(k)}
<1>3. \A k \in 0 .. n : Good(k)
  <2>1. SUFFICES ASSUME bad # {} PROVE FALSE
    OBVIOUS
  <2>2. bad \subseteq Nat
    BY <1>1
  <2>3. PICK k \in bad : \A j \in bad : k <= j
    <3> HIDE DEF bad
    <3> QED
      BY <2>1, <2>2, SmallestOf
  <2>4. CASE k = 0
    <3>1. f[k] = <<>>
      BY <1>2, <2>4 DEF Turns
    <3>2. Before(k) = {}
      BY <2>4
    <3>3. Good(k)
      BY <3>1, <3>2, EmptyEntries
    <3> QED
      BY <2>3, <3>3
  <2>5. CASE k # 0
    <3>1. k \in 1 .. n /\ k - 1 \in 0 .. n /\ k \in Nat
      BY <1>1, <2>2, <2>3, <2>5
    <3>2. k - 1 \notin bad
      BY <2>3, <3>1
    <3>3. Good(k - 1)
      BY <3>1, <3>2
    <3>4. Before(k) = Before(k - 1) \cup {list[k]}
      <4>1. \A i \in 1 .. k : i \in 1 .. k - 1 \/ i = k
        BY <3>1
      <4>2. \A i \in 1 .. k - 1 : i \in 1 .. k
        BY <3>1
      <4>3. k \in 1 .. k
        BY <3>1
      <4> QED
        BY <4>1, <4>2, <4>3
    <3>5. list[k] \notin Before(k - 1)
      <4>1. \A i \in 1 .. k - 1 : i \in 1 .. n /\ i # k
        BY <1>1, <3>1
      <4> QED
        BY <1>1, <3>1, <4>1 DEF ListSound, Distinct
    <3>6. list[k] \in People
      BY <1>1, <3>1, ElementOfSeq DEF ListSound
    <3>7. f[k] = Turn(list, m, k, f[k - 1])
      BY <1>2, <3>1 DEF Turns
    <3>8. PICK before : before = f[k - 1]
      OBVIOUS
    <3>9. ListSound(before) /\ Entries(before) = Before(k - 1) \ {m}
      BY <3>3, <3>8
    <3> HIDE DEF Before
    <3>10. CASE list[k] = m
      <4>1. f[k] = before
        BY <3>7, <3>8, <3>10 DEF Turn
      <4>2. Before(k) \ {m} = Before(k - 1) \ {m}
        BY <3>4, <3>10
      <4>3. Good(k)
        BY <3>9, <4>1, <4>2
      <4> QED
        BY <2>3, <4>3
    <3>11. CASE list[k] # m
      <4>1. f[k] = Append(before, list[k])
        BY <3>7, <3>8, <3>11 DEF Turn
      <4>2. list[k] \notin Entries(before)
        BY <3>5, <3>9
      <4>3. ListSound(Append(before, list[k]))
            /\ Entries(Append(before, list[k])) = Entries(before) \cup {list[k]}
        BY <3>6, <3>9, <4>2, AppendEntries
      <4>4. Before(k) \ {m} = (Before(k - 1) \ {m}) \cup {list[k]}
        BY <3>4, <3>11
      <4>5. Good(k)
        BY <3>9, <4>1, <4>3, <4>4
      <4> QED
        BY <2>3, <4>5
    <3> QED
      BY <3>10, <3>11
  <2> QED
    BY <2>4, <2>5
<1>4. Without(list, m) = f[n]
  BY <1>1, <1>2 DEF Without
<1>5. n \in 0 .. n
  BY <1>1
<1>6. Before(n) = Entries(list)
  BY <1>1 DEF Entries
<1> HIDE DEF Before
<1> QED
  BY <1>3, <1>4, <1>5, <1>6

------------------------------------------------------------------------------
(***************************************************************************)
(* The two copies of the allow-list.                                       *)
(***************************************************************************)
Sound(r) ==
  /\ ListSound(r.list)
  /\ r.marked = Entries(r.list)
  /\ Len(r.list) <= MaxMinters

LEMMA AddSound ==
  ASSUME NEW r, Sound(r), NEW m \in People
  PROVE  /\ Sound(AddMinter(r, m))
         /\ AddMinter(r, m).marked \subseteq r.marked \cup {m}
         /\ Len(r.list) < MaxMinters => m \in AddMinter(r, m).marked
<1>1. PICK list, marked : list = r.list /\ marked = r.marked
  OBVIOUS
<1>2. ListSound(list) /\ marked = Entries(list) /\ Len(list) <= MaxMinters
  BY <1>1 DEF Sound
<1>3. Len(list) \in Nat /\ MaxMinters \in Nat
  BY <1>2, LengthCounts, RegistryAssumption
<1>4. CASE m \in marked \/ Len(list) >= MaxMinters
  <2>1. AddMinter(r, m) = r
    BY <1>1, <1>4 DEF AddMinter
  <2> QED
    BY <1>1, <1>3, <1>4, <2>1
<1>5. CASE m \notin marked /\ ~ (Len(list) >= MaxMinters)
  <2>1. AddMinter(r, m) = [marked |-> marked \cup {m}, list |-> Append(list, m)]
    BY <1>1, <1>5 DEF AddMinter
  <2>2. /\ ListSound(Append(list, m))
        /\ Entries(Append(list, m)) = marked \cup {m}
    BY <1>2, <1>5, AppendEntries
  <2>3. Len(Append(list, m)) = Len(list) + 1
    BY <1>2, AppendProperties DEF ListSound
  <2>4. Len(Append(list, m)) <= MaxMinters
    BY <1>3, <1>5, <2>3
  <2>5. Sound(AddMinter(r, m))
    BY <2>1, <2>2, <2>4 DEF Sound
  <2> QED
    BY <1>1, <2>1, <2>5
<1> QED
  BY <1>4, <1>5

LEMMA RemoveSound ==
  ASSUME NEW r, Sound(r), NEW m
  PROVE  /\ Sound(RemoveMinter(r, m))
         /\ RemoveMinter(r, m).marked = r.marked \ {m}
         /\ m \in r.marked => Len(RemoveMinter(r, m).list) < MaxMinters
<1>1. PICK list, marked : list = r.list /\ marked = r.marked
  OBVIOUS
<1>2. ListSound(list) /\ marked = Entries(list) /\ Len(list) <= MaxMinters
  BY <1>1 DEF Sound
<1>3. CASE m \notin marked
  <2>1. RemoveMinter(r, m) = r
    BY <1>1, <1>3 DEF RemoveMinter
  <2> QED
    BY <1>1, <1>3, <2>1
<1>4. CASE m \in marked
  <2>1. PICK left : left = Without(list, m)
    OBVIOUS
  <2>2. RemoveMinter(r, m) = [marked |-> marked \ {m}, list |-> left]
    BY <1>1, <1>4, <2>1 DEF RemoveMinter
  <2>3. ListSound(left) /\ Entries(left) = marked \ {m}
    BY <1>2, <2>1, WithoutEntries
  <2>4. /\ IsFiniteSet(marked)
        /\ Cardinality(marked) = Len(list)
        /\ Len(list) \in Nat
    BY <1>2, LengthCounts
  <2>5. Len(left) = Cardinality(marked \ {m}) /\ Len(left) \in Nat
    BY <2>3, LengthCounts
  <2>6. Cardinality(marked \ {m}) = Cardinality(marked) - 1
    BY <1>4, <2>4, FS_RemoveElement
  <2>7. Len(left) < MaxMinters
    BY <1>2, <2>4, <2>5, <2>6, RegistryAssumption
  <2>8. Len(left) <= MaxMinters
    BY <2>5, <2>7, RegistryAssumption
  <2>9. Sound(RemoveMinter(r, m))
    BY <2>2, <2>3, <2>8 DEF Sound
  <2> QED
    BY <1>1, <2>2, <2>7, <2>9
<1> QED
  BY <1>3, <1>4

(* The incoming admin always finds a place: that of the outgoing one.      *)
LEMMA ReconciledSound ==
  ASSUME Sound(Registry), NEW outgoing \in minters, NEW incoming \in People
  PROVE  /\ Sound(Reconciled(outgoing, incoming))
         /\ incoming \in Reconciled(outgoing, incoming).marked
         /\ outgoing # incoming => outgoing \notin Reconciled(outgoing, incoming).marked
<1>1. Registry.marked = minters
  BY DEF Registry
<1>2. CASE outgoing = incoming
  BY <1>1, <1>2 DEF Reconciled
<1>3. CASE outgoing # incoming
  <2>1. PICK r : r = RemoveMinter(Registry, outgoing)
    OBVIOUS
  <2>2. Sound(r) /\ r.marked = minters \ {outgoing} /\ Len(r.list) < MaxMinters
    BY <1>1, <2>1, RemoveSound
  <2>3. Reconciled(outgoing, incoming) = AddMinter(r, incoming)
    BY <1>3, <2>1 DEF Reconciled
  <2> QED
    BY <1>3, <2>2, <2>3, AddSound
<1> QED
  BY <1>2, <1>3

RegistryInv ==
  /\ RegistryTypeOK
  /\ Sound(Registry)
  /\ AdminIsMinter

LEMMA RegistryFromInv ==
  ASSUME RegistryInv
  PROVE  RegistrySound
<1>1. ListSound(minterList) /\ minters = Entries(minterList) /\ Len(minterList) <= MaxMinters
  BY DEF RegistryInv, Sound, Registry
<1>2. Len(minterList) = Cardinality(minters)
  BY <1>1, LengthCounts
<1>3. Listed = minters
  BY <1>1 DEF Listed, Entries
<1> QED
  BY <1>1, <1>2, <1>3 DEF RegistrySound, MinterListMatches, RegistryInv

LEMMA RegistryInitially ==
  ASSUME RegistryInit
  PROVE  RegistryInv
<1> USE DEF RegistryInit
<1>1. /\ admin \in People
      /\ proposed \in People \cup {NoOne}
      /\ governance \in People \cup {NoOne}
  BY DEF Handover!Init
<1>2. ListSound(<<>>) /\ Entries(<<>>) = {} /\ Len(<<>>) = 0
  BY EmptyEntries, EmptySeq
<1>3. PICK none : none = <<>>
  OBVIOUS
<1>4. ListSound(minterList) /\ Entries(minterList) = {admin}
  <2>1. minterList = Append(none, admin)
    BY <1>3
  <2>2. ListSound(none) /\ Entries(none) = {}
    BY <1>2, <1>3
  <2>3. admin \notin Entries(none)
    BY <2>2
  <2>4. ListSound(Append(none, admin)) /\ Entries(Append(none, admin)) = Entries(none) \cup {admin}
    BY <1>1, <2>2, <2>3, AppendEntries
  <2> QED
    BY <2>1, <2>2, <2>4
<1>5. Len(minterList) = 1
  OBVIOUS
<1>6. Len(minterList) <= MaxMinters
  BY <1>5, RegistryAssumption
<1>7. Sound(Registry)
  BY <1>4, <1>6 DEF Sound, Registry
<1>8. minters \subseteq People /\ minterList \in Seq(People)
  BY <1>1, <1>4 DEF ListSound
<1>9. scoreRecorder \in People \cup {NoOne}
  OBVIOUS
<1>10. AdminIsMinter
  BY DEF AdminIsMinter
<1> QED
  BY <1>1, <1>7, <1>8, <1>9, <1>10 DEF RegistryInv, RegistryTypeOK

(* A list that becomes a sound one stays of the right type.                *)
LEMMA BecomesSound ==
  ASSUME NEW r, Sound(r), Become(r)
  PROVE  /\ Sound(Registry)'
         /\ minters' = r.marked
         /\ minters' \subseteq People
         /\ (minterList \in Seq(People))'
<1>1. minters' = r.marked /\ minterList' = r.list
  BY DEF Become
<1>2. Sound(Registry)'
  BY <1>1 DEF Sound, Registry
<1>3. minters' \subseteq People
  BY <1>1, LengthCounts DEF Sound
<1> QED
  BY <1>1, <1>2, <1>3 DEF Sound, ListSound

LEMMA RegistryStep ==
  ASSUME RegistryInv, RegistryNext \/ UNCHANGED registryVars
  PROVE  /\ RegistryInv'
         /\ admin' # admin => admin \notin minters'
<1> USE DEF RegistryInv
<1>1. Sound(Registry) /\ admin \in minters /\ admin \in People
  BY DEF AdminIsMinter, RegistryTypeOK
<1>2. Registry.marked = minters
  BY DEF Registry
<1>3. ASSUME NEW m \in People, AuthorizeMinter(m)
      PROVE  RegistryInv' /\ admin' = admin
  <2>1. Sound(AddMinter(Registry, m)) /\ minters \subseteq AddMinter(Registry, m).marked
    <3>1. minters \subseteq AddMinter(Registry, m).marked
      BY DEF AddMinter, Registry
    <3> QED
      BY <1>1, <3>1, AddSound
  <2>2. /\ Become(AddMinter(Registry, m))
        /\ UNCHANGED <<admin, proposed, governance, proposedBy, scoreRecorder>>
    BY <1>3 DEF AuthorizeMinter, handoverVars
  <2>3. /\ Sound(Registry)'
        /\ minters \subseteq minters'
        /\ minters' \subseteq People
        /\ (minterList \in Seq(People))'
    BY <2>1, <2>2, BecomesSound
  <2> QED
    BY <1>1, <2>2, <2>3 DEF RegistryTypeOK, AdminIsMinter
<1>4. ASSUME NEW m \in People, RevokeMinter(m)
      PROVE  RegistryInv' /\ admin' = admin
  <2>1. Sound(RemoveMinter(Registry, m)) /\ RemoveMinter(Registry, m).marked = minters \ {m}
    BY <1>1, <1>2, RemoveSound
  <2>2. /\ m # admin
        /\ Become(RemoveMinter(Registry, m))
        /\ UNCHANGED <<admin, proposed, governance, proposedBy, scoreRecorder>>
    BY <1>4 DEF RevokeMinter, handoverVars
  <2>3. /\ Sound(Registry)'
        /\ minters' = minters \ {m}
        /\ minters' \subseteq People
        /\ (minterList \in Seq(People))'
    BY <2>1, <2>2, BecomesSound
  <2> QED
    BY <1>1, <2>2, <2>3 DEF RegistryTypeOK, AdminIsMinter
<1>5. ASSUME NEW m \in People, SetScoreRecorder(m)
      PROVE  RegistryInv' /\ admin' = admin
  BY <1>5 DEF SetScoreRecorder, handoverVars, RegistryTypeOK, AdminIsMinter, Sound, Registry
<1>6. ASSUME NEW incoming \in People, Become(Reconciled(admin, incoming)),
             admin' = incoming, proposed' \in People \cup {NoOne},
             UNCHANGED <<governance, scoreRecorder>>
      PROVE  RegistryInv' /\ (admin' # admin => admin \notin minters')
  <2>1. /\ Sound(Reconciled(admin, incoming))
        /\ incoming \in Reconciled(admin, incoming).marked
        /\ admin # incoming => admin \notin Reconciled(admin, incoming).marked
    BY <1>1, ReconciledSound
  <2>2. /\ Sound(Registry)'
        /\ minters' = Reconciled(admin, incoming).marked
        /\ minters' \subseteq People
        /\ (minterList \in Seq(People))'
    BY <1>6, <2>1, BecomesSound
  <2> QED
    BY <1>6, <2>1, <2>2 DEF RegistryTypeOK, AdminIsMinter
<1>7. CASE AcceptAdmin
  <2>1. proposed \in People /\ admin' = proposed /\ proposed' = NoOne
        /\ UNCHANGED <<governance, scoreRecorder>> /\ Become(Reconciled(admin, proposed))
    BY <1>7, RegistryAssumption DEF AcceptAdmin, Handover!AcceptAdmin, RegistryTypeOK
  <2> QED
    BY <1>6, <2>1
<1>8. ASSUME NEW new \in People, NEW caller \in People, SetAdmin(new, caller)
      PROVE  RegistryInv' /\ (admin' # admin => admin \notin minters')
  <2>1. admin' = new /\ proposed' \in People \cup {NoOne}
        /\ UNCHANGED <<governance, scoreRecorder>> /\ Become(Reconciled(admin, new))
    BY <1>8 DEF SetAdmin, Handover!SetAdmin, Handover!ProposalAfterSetAdmin, RegistryTypeOK
  <2> QED
    BY <1>6, <2>1
<1>9. ASSUME NEW p \in People, Handover!ProposeAdmin(p),
             UNCHANGED <<minters, minterList, scoreRecorder>>
      PROVE  RegistryInv' /\ admin' = admin
  BY <1>9 DEF Handover!ProposeAdmin, RegistryTypeOK, AdminIsMinter, Sound, Registry
<1>10. ASSUME NEW g \in People, Handover!SetGovernance(g),
              UNCHANGED <<minters, minterList, scoreRecorder>>
       PROVE  RegistryInv' /\ admin' = admin
  BY <1>10 DEF Handover!SetGovernance, RegistryTypeOK, AdminIsMinter, Sound, Registry
<1>11. CASE UNCHANGED registryVars
  BY <1>11 DEF registryVars, handoverVars, RegistryTypeOK, AdminIsMinter, Sound, Registry
<1> QED
  BY <1>3, <1>4, <1>5, <1>7, <1>8, <1>9, <1>10, <1>11 DEF RegistryNext

------------------------------------------------------------------------------
(***************************************************************************)
(* Scores and their histories.                                             *)
(***************************************************************************)
Scores == 0 .. MaxScore

Explains(h, s) ==
  h # <<>> =>
    /\ h[Len(h)][2] = s
    /\ \A i \in 1 .. Len(h) - 1 : h[i][2] = h[i + 1][1]

HistoryOf(h, s) ==
  /\ h \in Seq(Scores \X Scores)
  /\ Len(h) <= MaxHistory
  /\ Explains(h, s)

LEMMA NoHistory ==
  ASSUME NEW s
  PROVE  HistoryOf(<<>>, s)
<1>1. <<>> \in Seq(Scores \X Scores) /\ Len(<<>>) = 0
  BY EmptySeq
<1>2. 0 <= MaxHistory
  BY NftAssumption
<1> QED
  BY <1>1, <1>2 DEF HistoryOf, Explains

(* An address without a token has no history.                              *)
LEMMA HistoryNeedsToken ==
  ASSUME NEW h, HistoryOf(h, NoToken)
  PROVE  h = <<>>
<1>1. SUFFICES ASSUME h # <<>> PROVE FALSE
  OBVIOUS
<1>2. h \in Seq(Scores \X Scores) /\ h[Len(h)][2] = NoToken
  BY <1>1 DEF HistoryOf, Explains
<1>3. Len(h) \in Nat \ {0}
  BY <1>1, <1>2, EmptySeq
<1>4. Len(h) \in 1 .. Len(h)
  BY <1>3
<1>5. h[Len(h)] \in Scores \X Scores
  BY <1>2, <1>4, ElementOfSeq
<1>6. h[Len(h)][2] \in Nat
  BY <1>5, NftAssumption DEF Scores
<1> QED
  BY <1>2, <1>6, NftAssumption

LEMMA HistoryGrows ==
  ASSUME NEW h, NEW old \in Scores, NEW new \in Scores, HistoryOf(h, old)
  PROVE  HistoryOf(AppendHistory(h, <<old, new>>), new)
<1>1. PICK n : n = Len(h) /\ n \in Nat /\ n <= MaxHistory /\ h \in Seq(Scores \X Scores)
  BY LenProperties DEF HistoryOf
<1>2. MaxHistory \in Nat \ {0}
  BY NftAssumption
<1>3. PICK m : m = AtLeast(1, n - MaxHistory + 2)
  OBVIOUS
<1>4. m \in 1 .. n + 1 /\ n - m + 1 <= MaxHistory - 1 /\ n - m + 1 \in Nat /\ m \in Int /\ n \in Int
  BY <1>1, <1>2, <1>3 DEF AtLeast
<1>5. \A i \in m .. n : h[i] \in Scores \X Scores
  <2>1. \A i \in m .. n : i \in 1 .. Len(h)
    BY <1>1, <1>4
  <2> QED
    BY <1>1, <2>1, ElementOfSeq
<1>6. PICK k : k = n - m + 1 /\ k \in Nat
  BY <1>4
<1>7. PICK s : s = SubSeq(h, m, n)
  OBVIOUS
<1>8. /\ s \in Seq(Scores \X Scores)
      /\ Len(s) = k
      /\ \A i \in 1 .. k : s[i] = h[m + i - 1]
  <2>1. /\ s \in Seq(Scores \X Scores)
        /\ Len(s) = IF m <= n THEN n - m + 1 ELSE 0
        /\ \A i \in 1 .. n - m + 1 : s[i] = h[m + i - 1]
    BY <1>4, <1>5, <1>7, SubSeqProperties
  <2> QED
    BY <1>4, <1>6, <2>1
<1>9. PICK entry \in Scores \X Scores : entry = <<old, new>>
  <2>1. <<old, new>> \in Scores \X Scores
    OBVIOUS
  <2> QED
    BY <2>1
<1>10. PICK g : g = Append(s, entry)
  OBVIOUS
<1>11. /\ g \in Seq(Scores \X Scores)
       /\ Len(g) = k + 1
       /\ \A i \in 1 .. k : g[i] = s[i]
       /\ g[k + 1] = entry
  BY <1>8, <1>9, <1>10, AppendProperties
<1>12. AppendHistory(h, <<old, new>>) = g
  BY <1>1, <1>3, <1>7, <1>9, <1>10 DEF AppendHistory
<1>13. Len(g) <= MaxHistory
  BY <1>2, <1>4, <1>6, <1>11
<1>14. g[Len(g)][2] = new
  BY <1>9, <1>11
<1>15. ASSUME NEW i \in 1 .. Len(g) - 1 PROVE g[i][2] = g[i + 1][1]
  <2>1. i \in 1 .. k /\ g[i] = h[m + i - 1]
    BY <1>6, <1>8, <1>11
  <2>2. h # <<>>
    <3>1. n # 0
      BY <1>1, <1>4, <1>6, <2>1
    <3> QED
      BY <1>1, <3>1, EmptySeq
  <2>3. h[n][2] = old /\ \A j \in 1 .. n - 1 : h[j][2] = h[j + 1][1]
    BY <1>1, <2>2 DEF HistoryOf, Explains
  <2>4. CASE i = k
    <3>1. m + i - 1 = n /\ g[i + 1] = entry
      BY <1>1, <1>4, <1>6, <1>11, <2>4
    <3> QED
      BY <1>9, <2>1, <2>3, <3>1
  <2>5. CASE i # k
    <3>1. i + 1 \in 1 .. k /\ m + i - 1 \in 1 .. n - 1 /\ m + (i + 1) - 1 = (m + i - 1) + 1
      BY <1>1, <1>4, <1>6, <2>1, <2>5
    <3>2. g[i + 1] = h[m + (i + 1) - 1]
      BY <1>8, <1>11, <3>1
    <3> QED
      BY <2>1, <2>3, <3>1, <3>2
  <2> QED
    BY <2>4, <2>5
<1>16. Explains(g, new)
  BY <1>14, <1>15 DEF Explains
<1> QED
  BY <1>11, <1>12, <1>13, <1>16 DEF HistoryOf

------------------------------------------------------------------------------
(***************************************************************************)
(* The inductive invariant.                                                *)
(***************************************************************************)
ScoresSound ==
  /\ score \in [Users -> Scores \cup {NoToken}]
  /\ scoreHistory \in [Users -> Seq(Scores \X Scores)]
  /\ \A u \in Users : HistoryOf(scoreHistory[u], score[u])

MarksSound ==
  /\ seized \subseteq Users
  /\ IsFiniteSet(seized)
  /\ cooldown \in [Users -> Nat \cup {NoLedger}]
  /\ MarksFollowToken

(* An approval is newer than the last burn or remint.                      *)
BurnsSound ==
  /\ burned \subseteq Users
  /\ remintApproval \subseteq Users
  /\ remintApproval \subseteq approvedSince

CountsSound == defaultCount \in [Users -> 0 .. MaxDefaults]

SettingsSound ==
  /\ burnThreshold \in Nat \ {0}
  /\ minRepayment \in Nat
  /\ nftPaused \in BOOLEAN
  /\ ledger \in 1 .. MaxLedger

TokensInv == ScoresSound /\ MarksSound /\ BurnsSound /\ CountsSound

NftInv == RegistryInv /\ TokensInv /\ SettingsSound

LEMMA RecordsFromInv ==
  ASSUME NftInv
  PROVE  RecordsAgree
<1> USE DEF NftInv, TokensInv
<1>1. RegistryTypeOK
  BY DEF RegistryInv
<1>2. /\ score \in [Users -> 0 .. MaxScore \cup {NoToken}]
      /\ scoreHistory \in [Users -> Seq((0 .. MaxScore) \X (0 .. MaxScore))]
      /\ \A u \in Users : Len(scoreHistory[u]) <= MaxHistory
  BY DEF ScoresSound, HistoryOf, Scores
<1>3. TypeOK
  BY <1>1, <1>2 DEF TypeOK, MarksSound, BurnsSound, CountsSound, SettingsSound
<1>4. HistoryTellsScore
  BY DEF HistoryTellsScore, ScoresSound, HistoryOf, Explains
<1>5. MarksFollowToken
  BY DEF MarksSound
<1> QED
  BY <1>3, <1>4, <1>5 DEF RecordsAgree

LEMMA NftInitially ==
  ASSUME Init
  PROVE  NftInv
<1> USE DEF Init
<1>1. RegistryInv
  BY RegistryInitially
<1>2. ScoresSound
  <2>1. <<>> \in Seq(Scores \X Scores)
    BY EmptySeq
  <2>2. \A u \in Users : HistoryOf(scoreHistory[u], score[u])
    BY NoHistory
  <2> QED
    BY <2>1, <2>2 DEF ScoresSound
<1>3. MarksSound
  BY FS_EmptySet DEF MarksSound, MarksFollowToken
<1>4. BurnsSound
  BY DEF BurnsSound
<1>5. CountsSound
  <2>1. 0 \in 0 .. MaxDefaults
    BY NftAssumption
  <2> QED
    BY <2>1 DEF CountsSound
<1>6. SettingsSound
  <2>1. 1 \in 1 .. MaxLedger /\ DefaultThreshold \in Nat \ {0}
    BY NftAssumption
  <2> QED
    BY <2>1 DEF SettingsSound
<1> QED
  BY <1>1, <1>2, <1>3, <1>4, <1>5, <1>6 DEF NftInv, TokensInv

------------------------------------------------------------------------------
(***************************************************************************)
(* The steps of the tokens.                                                *)
(***************************************************************************)
LEMMA ScoreKinds ==
  ASSUME ScoresSound, NEW u \in Users
  PROVE  /\ HasToken(u) <=> score[u] \in Scores
         /\ HistoryOf(scoreHistory[u], score[u])
         /\ scoreHistory[u] \in Seq(Scores \X Scores)
         /\ ~HasToken(u) => scoreHistory[u] = <<>> /\ score[u] = NoToken
<1>1. score[u] \in Scores \cup {NoToken} /\ NoToken \notin Scores
  BY NftAssumption DEF ScoresSound, Scores
<1>2. HistoryOf(scoreHistory[u], score[u]) /\ scoreHistory[u] \in Seq(Scores \X Scores)
  BY DEF ScoresSound
<1>3. HasToken(u) <=> score[u] \in Scores
  BY <1>1 DEF HasToken
<1>4. ASSUME ~HasToken(u) PROVE scoreHistory[u] = <<>> /\ score[u] = NoToken
  BY <1>2, <1>4, HistoryNeedsToken DEF HasToken
<1> QED
  BY <1>2, <1>3, <1>4

(* A score and the history that explains it are written together.          *)
LEMMA ScoreWritten ==
  ASSUME ScoresSound, NEW u \in Users, NEW s \in Scores \cup {NoToken}, NEW h, HistoryOf(h, s),
         score' = [score EXCEPT ![u] = s],
         scoreHistory' = [scoreHistory EXCEPT ![u] = h]
  PROVE  ScoresSound'
<1>1. h \in Seq(Scores \X Scores)
  BY DEF HistoryOf
<1>2. /\ score \in [Users -> Scores \cup {NoToken}]
      /\ scoreHistory \in [Users -> Seq(Scores \X Scores)]
  BY DEF ScoresSound
<1>3. score' \in [Users -> Scores \cup {NoToken}]
  BY <1>2
<1>4. scoreHistory' \in [Users -> Seq(Scores \X Scores)]
  BY <1>1, <1>2
<1>5. ASSUME NEW v \in Users PROVE HistoryOf(scoreHistory'[v], score'[v])
  <2>1. CASE v = u
    BY <1>2, <2>1
  <2>2. CASE v # u
    <3>1. scoreHistory'[v] = scoreHistory[v] /\ score'[v] = score[v]
      BY <1>2, <2>2
    <3> QED
      BY <3>1 DEF ScoresSound
  <2> QED
    BY <2>1, <2>2
<1> QED
  BY <1>3, <1>4, <1>5 DEF ScoresSound

LEMMA RescoreSound ==
  ASSUME TokensInv, NEW u \in Users, HasToken(u), NEW new \in Scores, Rescore(u, new)
  PROVE  /\ TokensInv'
         /\ UNCHANGED <<burned, seized>>
<1> USE DEF TokensInv
<1>1. score[u] \in Scores /\ HistoryOf(scoreHistory[u], score[u])
  BY ScoreKinds
<1>2. PICK h : h = AppendHistory(scoreHistory[u], <<score[u], new>>)
  OBVIOUS
<1>3. HistoryOf(h, new)
  BY <1>1, <1>2, HistoryGrows
<1>4. /\ score' = [score EXCEPT ![u] = new]
      /\ scoreHistory' = [scoreHistory EXCEPT ![u] = h]
      /\ UNCHANGED <<seized, cooldown, burned, remintApproval, approvedSince, defaultCount>>
  BY <1>2 DEF Rescore
<1>5. ScoresSound'
  BY <1>3, <1>4, ScoreWritten
<1>6. \A v \in Users : HasToken(v) => score'[v] # NoToken
  BY <1>4, NftAssumption DEF HasToken, ScoresSound, Scores
<1>7. MarksSound'
  BY <1>4, <1>6 DEF MarksSound, MarksFollowToken, HasToken
<1>8. BurnsSound' /\ CountsSound'
  BY <1>4 DEF BurnsSound, CountsSound
<1> QED
  BY <1>4, <1>5, <1>7, <1>8

(* A token is created without history, seized flag and cooldown.           *)
LEMMA NewToken ==
  ASSUME ScoresSound, MarksSound, NEW u \in Users, ~HasToken(u), NEW initial \in Nat,
         score' = [score EXCEPT ![u] = AtMost(initial, MaxScore)],
         UNCHANGED scoreHistory,
         seized' = seized,
         cooldown' = cooldown
  PROVE  ScoresSound' /\ MarksSound'
<1>1. PICK s : s = AtMost(initial, MaxScore)
  OBVIOUS
<1>2. s \in Scores
  BY <1>1, NftAssumption DEF AtMost, Scores
<1>3. scoreHistory[u] = <<>> /\ scoreHistory \in [Users -> Seq(Scores \X Scores)]
  BY ScoreKinds DEF ScoresSound
<1>4. HistoryOf(<<>>, s)
  BY NoHistory
<1>5. scoreHistory' = [scoreHistory EXCEPT ![u] = <<>>]
  BY <1>3
<1>6. ScoresSound'
  BY <1>1, <1>2, <1>4, <1>5, ScoreWritten
<1>7. \A v \in Users : HasToken(v) => score'[v] # NoToken
  BY <1>1, <1>2, NftAssumption DEF HasToken, ScoresSound, Scores
<1>8. MarksSound'
  BY <1>7 DEF MarksSound, MarksFollowToken, HasToken
<1> QED
  BY <1>6, <1>8

LEMMA MintSound ==
  ASSUME TokensInv, NEW u \in Users, NEW initial \in MintScores, NEW minter, Mint(u, initial, minter)
  PROVE  TokensInv' /\ UNCHANGED <<burned, seized>>
<1> USE DEF TokensInv
<1>1. /\ ~HasToken(u)
      /\ initial \in Nat
      /\ score' = [score EXCEPT ![u] = AtMost(initial, MaxScore)]
      /\ UNCHANGED <<scoreHistory, seized, cooldown, burned, remintApproval, approvedSince,
                     defaultCount>>
  BY NftAssumption DEF Mint
<1>2. ScoresSound' /\ MarksSound'
  BY <1>1, NewToken
<1>3. BurnsSound' /\ CountsSound'
  BY <1>1 DEF BurnsSound, CountsSound
<1> QED
  BY <1>1, <1>2, <1>3

(* The approval that is spent was given after the burn: it is in the       *)
(* history of fresh ones.                                                  *)
LEMMA AdminRemintSound ==
  ASSUME TokensInv, NEW u \in Users, NEW initial \in MintScores, AdminRemint(u, initial)
  PROVE  /\ TokensInv'
         /\ seized' = seized
         /\ burned' = burned \ {u}
         /\ u \in approvedSince
<1> USE DEF TokensInv
<1>1. /\ ~HasToken(u)
      /\ initial \in Nat
      /\ u \in remintApproval
      /\ score' = [score EXCEPT ![u] = AtMost(initial, MaxScore)]
      /\ seized' = seized \ {u}
      /\ cooldown' = [cooldown EXCEPT ![u] = NoLedger]
      /\ burned' = burned \ {u}
      /\ remintApproval' = remintApproval \ {u}
      /\ approvedSince' = approvedSince \ {u}
      /\ UNCHANGED <<scoreHistory, defaultCount>>
  BY NftAssumption DEF AdminRemint
<1>2. u \notin seized /\ cooldown[u] = NoLedger
  BY <1>1 DEF MarksSound, MarksFollowToken
<1>3. seized' = seized /\ cooldown' = cooldown
  BY <1>1, <1>2 DEF MarksSound
<1>4. ScoresSound' /\ MarksSound'
  BY <1>1, <1>3, NewToken
<1>5. BurnsSound' /\ CountsSound' /\ u \in approvedSince
  BY <1>1 DEF BurnsSound, CountsSound
<1> QED
  BY <1>1, <1>3, <1>4, <1>5

LEMMA ApproveRemintSound ==
  ASSUME TokensInv, NEW u \in Users, ApproveRemint(u)
  PROVE  TokensInv' /\ UNCHANGED <<burned, seized>>
BY DEF TokensInv, ApproveRemint, ScoresSound, MarksSound, MarksFollowToken, HasToken,
       BurnsSound, CountsSound, HistoryOf, Explains

LEMMA SeizeSound ==
  ASSUME TokensInv, NEW u \in Users, NEW minter, SeizeCollateral(u, minter)
  PROVE  TokensInv' /\ burned' = burned /\ seized \subseteq seized'
<1> USE DEF TokensInv
<1>1. /\ HasToken(u)
      /\ seized' = seized \cup {u}
      /\ UNCHANGED <<score, scoreHistory, cooldown, burned, remintApproval, approvedSince,
                     defaultCount>>
  BY DEF SeizeCollateral
<1>2. IsFiniteSet(seized')
  BY <1>1, FS_AddElement DEF MarksSound
<1>3. MarksSound'
  BY <1>1, <1>2 DEF MarksSound, MarksFollowToken, HasToken
<1>4. ScoresSound' /\ BurnsSound' /\ CountsSound'
  BY <1>1 DEF ScoresSound, BurnsSound, CountsSound
<1> QED
  BY <1>1, <1>3, <1>4

(* Whatever was kept beside a burned token goes with it.                   *)
LEMMA BurnInternalSound ==
  ASSUME TokensInv, NEW u \in Users, NEW now, now \ {u} = seized \ {u}, BurnInternal(u, now)
  PROVE  /\ ScoresSound' /\ MarksSound' /\ BurnsSound'
         /\ seized' = seized \ {u}
         /\ u \in burned'
         /\ burned \subseteq burned'
         /\ score'[u] = NoToken
<1> USE DEF TokensInv
<1>1. /\ score' = [score EXCEPT ![u] = NoToken]
      /\ scoreHistory' = [scoreHistory EXCEPT ![u] = <<>>]
      /\ seized' = seized \ {u}
      /\ remintApproval' = remintApproval \ {u}
      /\ cooldown' = [cooldown EXCEPT ![u] = NoLedger]
      /\ burned' = burned \cup {u}
      /\ approvedSince' = approvedSince \ {u}
  BY DEF BurnInternal, HistoryAfterBurn, ApprovalAfterBurn
<1>2. HistoryOf(<<>>, NoToken)
  BY NoHistory
<1>3. ScoresSound'
  BY <1>1, <1>2, ScoreWritten
<1>4. IsFiniteSet(seized')
  BY <1>1, FS_RemoveElement DEF MarksSound
<1>5. /\ score'[u] = NoToken
      /\ \A v \in Users \ {u} : score'[v] = score[v] /\ cooldown'[v] = cooldown[v]
      /\ cooldown'[u] = NoLedger
      /\ cooldown' \in [Users -> Nat \cup {NoLedger}]
  BY <1>1 DEF ScoresSound, MarksSound
<1>6. MarksSound'
  BY <1>1, <1>4, <1>5 DEF MarksSound, MarksFollowToken, HasToken
<1>7. BurnsSound'
  BY <1>1 DEF BurnsSound
<1> QED
  BY <1>1, <1>3, <1>5, <1>6, <1>7

(* What a step may do to the seized tokens: one is lost only by burning.   *)
KeepsSeized ==
  Cardinality(seized') < Cardinality(seized)
    => \E u \in seized : HasToken(u) /\ u \in burned' /\ score'[u] = NoToken

LEMMA MoreSeized ==
  ASSUME MarksSound, MarksSound', seized \subseteq seized'
  PROVE  KeepsSeized
<1>1. IsFiniteSet(seized) /\ IsFiniteSet(seized')
  BY DEF MarksSound
<1>2. Cardinality(seized) \in Nat /\ Cardinality(seized') \in Nat
  BY <1>1, FS_CardinalityType
<1>3. Cardinality(seized) <= Cardinality(seized')
  BY <1>1, FS_Subset
<1> QED
  BY <1>2, <1>3 DEF KeepsSeized

LEMMA BurnSound ==
  ASSUME TokensInv, NEW u \in Users, NEW minter, Burn(u, minter)
  PROVE  TokensInv' /\ burned \subseteq burned' /\ KeepsSeized
<1>1. HasToken(u) /\ BurnInternal(u, seized) /\ UNCHANGED defaultCount
  BY DEF Burn
<1>2. /\ ScoresSound' /\ MarksSound' /\ BurnsSound'
      /\ seized' = seized \ {u}
      /\ u \in burned'
      /\ burned \subseteq burned'
      /\ score'[u] = NoToken
  BY <1>1, BurnInternalSound
<1>3. CountsSound'
  BY <1>1 DEF TokensInv, CountsSound
<1>4. CASE u \in seized
  BY <1>1, <1>2, <1>3, <1>4 DEF TokensInv, KeepsSeized
<1>5. CASE u \notin seized
  <2>1. seized' = seized
    BY <1>2, <1>5
  <2>2. KeepsSeized
    BY <1>2, <2>1, MoreSeized DEF TokensInv
  <2> QED
    BY <1>2, <1>3, <2>2 DEF TokensInv
<1> QED
  BY <1>4, <1>5

LEMMA RecordDefaultSound ==
  ASSUME TokensInv, NEW u \in Users, NEW minter, RecordDefault(u, minter)
  PROVE  TokensInv' /\ burned \subseteq burned' /\ KeepsSeized
<1> USE DEF TokensInv
<1>1. PICK count : count = defaultCount[u] + 1
  OBVIOUS
<1>2. /\ HasToken(u)
      /\ count <= MaxDefaults
      /\ defaultCount' = [defaultCount EXCEPT ![u] = count]
      /\ \/ BurnInternal(u, seized \cup {u})
         \/ /\ seized' = seized \cup {u}
            /\ UNCHANGED <<score, scoreHistory, burned, remintApproval, cooldown, approvedSince>>
  BY <1>1 DEF RecordDefault
<1>3. CountsSound'
  <2>1. defaultCount[u] \in 0 .. MaxDefaults /\ MaxDefaults \in Nat
    BY NftAssumption DEF CountsSound
  <2>2. count \in 0 .. MaxDefaults
    BY <1>1, <1>2, <2>1
  <2> QED
    BY <1>2, <2>2 DEF CountsSound
<1>4. CASE BurnInternal(u, seized \cup {u})
  <2>1. (seized \cup {u}) \ {u} = seized \ {u}
    OBVIOUS
  <2>2. /\ ScoresSound' /\ MarksSound' /\ BurnsSound'
        /\ seized' = seized \ {u}
        /\ u \in burned'
        /\ burned \subseteq burned'
        /\ score'[u] = NoToken
    BY <1>4, <2>1, BurnInternalSound
  <2>3. CASE u \in seized
    BY <1>2, <1>3, <2>2, <2>3 DEF KeepsSeized
  <2>4. CASE u \notin seized
    <3>1. seized' = seized
      BY <2>2, <2>4
    <3>2. KeepsSeized
      BY <2>2, <3>1, MoreSeized
    <3> QED
      BY <1>3, <2>2, <3>2
  <2> QED
    BY <2>3, <2>4
<1>5. CASE /\ seized' = seized \cup {u}
           /\ UNCHANGED <<score, scoreHistory, burned, remintApproval, cooldown, approvedSince>>
  <2>1. IsFiniteSet(seized')
    BY <1>5, FS_AddElement DEF MarksSound
  <2>2. MarksSound'
    BY <1>2, <1>5, <2>1 DEF MarksSound, MarksFollowToken, HasToken
  <2>3. ScoresSound' /\ BurnsSound'
    BY <1>5 DEF ScoresSound, BurnsSound
  <2>4. KeepsSeized
    BY <1>5, <2>2, MoreSeized
  <2> QED
    BY <1>3, <1>5, <2>2, <2>3, <2>4
<1> QED
  BY <1>2, <1>4, <1>5

LEMMA TransferSound ==
  ASSUME TokensInv, SettingsSound, NEW u \in Users, NEW v \in Users, NEW minter,
         Transfer(u, v, minter)
  PROVE  TokensInv' /\ burned' = burned /\ KeepsSeized
<1> USE DEF TokensInv
<1>1. /\ u # v
      /\ HasToken(u) /\ ~HasToken(v)
      /\ score' = [score EXCEPT ![u] = NoToken, ![v] = score[u]]
      /\ scoreHistory' =
           IF scoreHistory[u] = <<>> THEN scoreHistory
           ELSE [scoreHistory EXCEPT ![u] = <<>>, ![v] = scoreHistory[u]]
      /\ defaultCount' =
           IF defaultCount[u] = 0 THEN defaultCount
           ELSE [defaultCount EXCEPT ![u] = 0, ![v] = defaultCount[u]]
      /\ seized' = IF u \in seized THEN (seized \ {u}) \cup {v} ELSE seized
      /\ remintApproval' = remintApproval \ {u}
      /\ cooldown' = [cooldown EXCEPT ![u] = NoLedger, ![v] = ledger + TransferCooldown]
      /\ UNCHANGED <<burned, approvedSince>>
  BY DEF Transfer, SeizedMoved, CooldownMoved
<1>2. /\ score[u] \in Scores /\ HistoryOf(scoreHistory[u], score[u])
      /\ scoreHistory[u] \in Seq(Scores \X Scores)
      /\ scoreHistory[v] = <<>>
  BY <1>1, ScoreKinds
<1>3. /\ score'[u] = NoToken
      /\ score'[v] = score[u]
      /\ \A w \in Users \ {u, v} : score'[w] = score[w]
      /\ score' \in [Users -> Scores \cup {NoToken}]
  BY <1>1, <1>2 DEF ScoresSound
<1>4. /\ scoreHistory'[u] = <<>>
      /\ scoreHistory'[v] = scoreHistory[u]
      /\ \A w \in Users \ {u, v} : scoreHistory'[w] = scoreHistory[w]
      /\ scoreHistory' \in [Users -> Seq(Scores \X Scores)]
  <2>1. scoreHistory \in [Users -> Seq(Scores \X Scores)] /\ <<>> \in Seq(Scores \X Scores)
    BY EmptySeq DEF ScoresSound
  <2>2. CASE scoreHistory[u] = <<>>
    BY <1>1, <1>2, <2>1, <2>2
  <2>3. CASE scoreHistory[u] # <<>>
    BY <1>1, <1>2, <2>1, <2>3
  <2> QED
    BY <2>2, <2>3
<1>5. ScoresSound'
  <2>1. ASSUME NEW w \in Users PROVE HistoryOf(scoreHistory'[w], score'[w])
    <3>1. CASE w = u
      BY <1>3, <1>4, <3>1, NoHistory
    <3>2. CASE w = v
      BY <1>2, <1>3, <1>4, <3>2
    <3>3. CASE w \notin {u, v}
      <4>1. scoreHistory'[w] = scoreHistory[w] /\ score'[w] = score[w]
        BY <1>3, <1>4, <3>3
      <4> QED
        BY <4>1, ScoreKinds
    <3> QED
      BY <3>1, <3>2, <3>3
  <2> QED
    BY <1>3, <1>4, <2>1 DEF ScoresSound
<1>6. v \notin seized /\ IsFiniteSet(seized) /\ cooldown \in [Users -> Nat \cup {NoLedger}]
  BY <1>1 DEF MarksSound, MarksFollowToken
<1>7. IsFiniteSet(seized') /\ Cardinality(seized') = Cardinality(seized)
  <2>1. CASE u \in seized
    <3>1. IsFiniteSet(seized \ {u}) /\ Cardinality(seized \ {u}) = Cardinality(seized) - 1
      BY <1>6, <2>1, FS_RemoveElement
    <3>2. v \notin seized \ {u}
      BY <1>6
    <3>3. PICK rest : rest = seized \ {u}
      OBVIOUS
    <3>4. IsFiniteSet(rest \cup {v}) /\ Cardinality(rest \cup {v}) = Cardinality(rest) + 1
      BY <3>1, <3>2, <3>3, FS_AddElement
    <3>5. seized' = rest \cup {v}
      BY <1>1, <2>1, <3>3
    <3>6. Cardinality(seized) \in Nat
      BY <1>6, FS_CardinalityType
    <3> QED
      BY <3>1, <3>3, <3>4, <3>5, <3>6
  <2>2. CASE u \notin seized
    BY <1>1, <1>6, <2>2
  <2> QED
    BY <2>1, <2>2
<1>8. /\ cooldown'[u] = NoLedger
      /\ \A w \in Users \ {u, v} : cooldown'[w] = cooldown[w]
      /\ cooldown' \in [Users -> Nat \cup {NoLedger}]
  <2>1. ledger + TransferCooldown \in Nat
    BY NftAssumption DEF SettingsSound
  <2> QED
    BY <1>1, <1>6, <2>1
<1>9. score'[v] # NoToken
  BY <1>2, <1>3, NftAssumption DEF Scores
<1>10. u \notin seized' /\ seized' \subseteq seized \cup {v}
  BY <1>1
<1>11. seized' \subseteq Users
  BY <1>10 DEF MarksSound
<1>12. MarksFollowToken'
  <2>1. SUFFICES ASSUME NEW w \in Users, w \in seized' \/ cooldown'[w] # NoLedger
                 PROVE  score'[w] # NoToken
    BY DEF MarksFollowToken, HasToken
  <2>2. CASE w = v
    BY <1>9, <2>2
  <2>3. CASE w # v
    <3>1. w # u
      BY <1>8, <1>10, <2>1
    <3>2. w \in seized \/ cooldown[w] # NoLedger
      BY <1>8, <1>10, <2>1, <2>3, <3>1
    <3>3. score[w] # NoToken
      BY <3>2 DEF MarksSound, MarksFollowToken, HasToken
    <3> QED
      BY <1>3, <2>3, <3>1, <3>3
  <2> QED
    BY <2>2, <2>3
<1>13. MarksSound'
  BY <1>7, <1>8, <1>11, <1>12 DEF MarksSound
<1>14. BurnsSound'
  BY <1>1 DEF BurnsSound
<1>15. CountsSound'
  <2>1. defaultCount[u] \in 0 .. MaxDefaults /\ 0 \in 0 .. MaxDefaults
    BY NftAssumption DEF CountsSound
  <2> QED
    BY <1>1, <2>1 DEF CountsSound
<1>16. KeepsSeized
  <2>1. Cardinality(seized) \in Nat
    BY <1>6, FS_CardinalityType
  <2> QED
    BY <1>7, <2>1 DEF KeepsSeized
<1> QED
  BY <1>1, <1>5, <1>13, <1>14, <1>15, <1>16

LEMMA ScoreMovesSound ==
  ASSUME TokensInv, SettingsSound, NEW u \in Users,
         \/ \E amount \in Amounts, writer \in People \cup {NoOne} : UpdateScore(u, amount, writer)
         \/ \E penalty \in Penalties, writer \in People \cup {NoOne} : DecreaseScore(u, penalty, writer)
         \/ \E delta \in Deltas : ApplyScoreDelta(u, delta)
  PROVE  TokensInv' /\ UNCHANGED <<burned, seized>>
<1>1. MinCreditScore \in Scores /\ MaxScore \in Nat /\ MinCreditScore \in Nat
  BY NftAssumption DEF Scores
<1>2. HasToken(u) => score[u] \in Scores
  BY ScoreKinds DEF TokensInv
<1>3. ASSUME NEW amount \in Amounts, NEW writer, UpdateScore(u, amount, writer)
      PROVE  TokensInv' /\ UNCHANGED <<burned, seized>>
  <2>1. /\ HasToken(u)
        /\ Rescore(u, AtMost(score[u] + amount \div PointUnit, MaxScore))
        /\ amount >= minRepayment
    BY <1>3 DEF UpdateScore
  <2>2. amount \in Nat /\ PointUnit \in Nat \ {0}
    BY <2>1, NftAssumption DEF SettingsSound
  <2>3. amount \div PointUnit \in Nat
    BY <2>2
  <2>4. AtMost(score[u] + amount \div PointUnit, MaxScore) \in Scores
    BY <1>1, <1>2, <2>1, <2>3 DEF AtMost, Scores
  <2> QED
    BY <2>1, <2>4, RescoreSound
<1>4. ASSUME NEW penalty \in Penalties, NEW writer, DecreaseScore(u, penalty, writer)
      PROVE  TokensInv' /\ UNCHANGED <<burned, seized>>
  <2>1. HasToken(u) /\ Rescore(u, Penalized(score[u], penalty))
    BY <1>4 DEF DecreaseScore
  <2>2. penalty \in Nat
    BY NftAssumption
  <2>3. Penalized(score[u], penalty) \in Scores
    BY <1>1, <1>2, <2>1, <2>2 DEF Penalized, AtLeast, Scores
  <2> QED
    BY <2>1, <2>3, RescoreSound
<1>5. ASSUME NEW delta \in Deltas, ApplyScoreDelta(u, delta)
      PROVE  TokensInv' /\ UNCHANGED <<burned, seized>>
  <2>1. HasToken(u) /\ Rescore(u, AtMost(AtLeast(score[u] + delta, 0), MaxScore))
    BY <1>5 DEF ApplyScoreDelta
  <2>2. delta \in Int
    BY NftAssumption
  <2>3. AtMost(AtLeast(score[u] + delta, 0), MaxScore) \in Scores
    BY <1>1, <1>2, <2>1, <2>2 DEF AtMost, AtLeast, Scores
  <2> QED
    BY <2>1, <2>3, RescoreSound
<1> QED
  BY <1>3, <1>4, <1>5

(* The actions that move tokens, scores and the marks beside them.         *)
TokenStep ==
  \/ TokenNext
  \/ \E u \in Users, initial \in MintScores : AdminRemint(u, initial)
  \/ \E u \in Users : ApproveRemint(u)
  \/ \E u \in Users, delta \in Deltas : ApplyScoreDelta(u, delta)

LEMMA UnseizedStep ==
  ASSUME seized' = seized, MarksSound
  PROVE  KeepsSeized
<1>1. Cardinality(seized) \in Nat
  BY FS_CardinalityType DEF MarksSound
<1> QED
  BY <1>1 DEF KeepsSeized

LEMMA TokenStepSound ==
  ASSUME TokensInv, SettingsSound, TokenStep
  PROVE  /\ TokensInv'
         /\ KeepsSeized
         /\ \A u \in Users : u \in burned /\ u \notin burned' => u \in approvedSince
<1> DEFINE Good == /\ TokensInv'
                   /\ KeepsSeized
                   /\ \A u \in Users : u \in burned /\ u \notin burned' => u \in approvedSince
<1>1. ASSUME TokensInv', burned \subseteq burned', KeepsSeized PROVE Good
  BY <1>1
<1>2. ASSUME TokensInv', UNCHANGED <<burned, seized>> PROVE Good
  BY <1>2, UnseizedStep DEF TokensInv
<1>3. ASSUME NEW u \in Users, NEW caller \in People \cup {NoOne},
             \/ \E initial \in MintScores : Mint(u, initial, caller)
             \/ \E amount \in Amounts : UpdateScore(u, amount, caller)
             \/ \E penalty \in Penalties : DecreaseScore(u, penalty, caller)
             \/ SeizeCollateral(u, caller)
             \/ RecordDefault(u, caller)
             \/ Burn(u, caller)
             \/ \E v \in Users : Transfer(u, v, caller)
      PROVE  Good
  <2> HIDE DEF Good
  <2>1. CASE \E initial \in MintScores : Mint(u, initial, caller)
    BY <1>2, <2>1, MintSound
  <2>2. CASE \/ \E amount \in Amounts : UpdateScore(u, amount, caller)
             \/ \E penalty \in Penalties : DecreaseScore(u, penalty, caller)
    BY <1>2, <2>2, ScoreMovesSound
  <2>3. CASE SeizeCollateral(u, caller)
    <3>1. TokensInv' /\ burned' = burned /\ seized \subseteq seized'
      BY <2>3, SeizeSound
    <3>2. KeepsSeized
      BY <3>1, MoreSeized DEF TokensInv
    <3> QED
      BY <1>1, <3>1, <3>2
  <2>4. CASE RecordDefault(u, caller)
    BY <1>1, <2>4, RecordDefaultSound
  <2>5. CASE Burn(u, caller)
    BY <1>1, <2>5, BurnSound
  <2>6. CASE \E v \in Users : Transfer(u, v, caller)
    BY <1>1, <2>6, TransferSound
  <2> QED
    BY <1>3, <2>1, <2>2, <2>3, <2>4, <2>5, <2>6
<1>4. ASSUME NEW u \in Users, NEW initial \in MintScores, AdminRemint(u, initial)
      PROVE  Good
  <2>1. /\ TokensInv'
        /\ seized' = seized
        /\ burned' = burned \ {u}
        /\ u \in approvedSince
    BY <1>4, AdminRemintSound
  <2> QED
    BY <2>1, UnseizedStep DEF TokensInv
<1> HIDE DEF Good
<1>5. ASSUME NEW u \in Users, ApproveRemint(u) PROVE Good
  BY <1>2, <1>5, ApproveRemintSound
<1>6. ASSUME NEW u \in Users, \E delta \in Deltas : ApplyScoreDelta(u, delta) PROVE Good
  BY <1>2, <1>6, ScoreMovesSound
<1>7. Good
  BY <1>3, <1>4, <1>5, <1>6 DEF TokenStep, TokenNext
<1> QED
  BY <1>7 DEF Good

LEMMA StillTokens ==
  ASSUME TokensInv, UNCHANGED tokenVars
  PROVE  /\ TokensInv'
         /\ KeepsSeized
         /\ \A u \in Users : u \in burned /\ u \notin burned' => u \in approvedSince
<1>1. UNCHANGED <<score, scoreHistory, seized, defaultCount, burned, remintApproval,
                  cooldown, approvedSince>>
  BY DEF tokenVars
<1>2. TokensInv'
  BY <1>1 DEF TokensInv, ScoresSound, MarksSound, MarksFollowToken, HasToken, BurnsSound, CountsSound
<1>3. KeepsSeized
  BY <1>1, UnseizedStep DEF TokensInv
<1> QED
  BY <1>1, <1>2, <1>3

(* Only the admin's settings, the pause and the ledger move here.          *)
LEMMA SettingsStep ==
  ASSUME SettingsSound,
         \/ \E threshold \in Thresholds : SetDefaultBurnThreshold(threshold)
         \/ \E amount \in MinRepayments : SetMinRepaymentAmount(amount)
         \/ \E flag \in BOOLEAN : SetPaused(flag)
         \/ CloseLedger
  PROVE  SettingsSound' /\ UNCHANGED <<tokenVars, registryVars>>
<1> USE DEF SettingsSound
<1>1. ASSUME NEW threshold \in Thresholds, SetDefaultBurnThreshold(threshold)
      PROVE  SettingsSound' /\ UNCHANGED <<tokenVars, registryVars>>
  <2>1. threshold \in Nat \ {0}
    BY <1>1, NftAssumption DEF SetDefaultBurnThreshold
  <2> QED
    BY <1>1, <2>1 DEF SetDefaultBurnThreshold
<1>2. ASSUME NEW amount \in MinRepayments, SetMinRepaymentAmount(amount)
      PROVE  SettingsSound' /\ UNCHANGED <<tokenVars, registryVars>>
  <2>1. amount \in Nat
    BY <1>2, NftAssumption DEF SetMinRepaymentAmount
  <2> QED
    BY <1>2, <2>1 DEF SetMinRepaymentAmount
<1>3. ASSUME NEW flag \in BOOLEAN, SetPaused(flag)
      PROVE  SettingsSound' /\ UNCHANGED <<tokenVars, registryVars>>
  BY <1>3 DEF SetPaused
<1>4. CASE CloseLedger
  <2>1. ledger' \in 1 .. MaxLedger
    BY <1>4, NftAssumption DEF CloseLedger
  <2> QED
    BY <1>4, <2>1 DEF CloseLedger, settingVars
<1> QED
  BY <1>1, <1>2, <1>3, <1>4

LEMMA TokenStepElsewhere ==
  ASSUME TokenStep
  PROVE  UNCHANGED <<registryVars, settingVars, ledger>>
BY DEF TokenStep, TokenNext, Mint, UpdateScore, DecreaseScore, ApplyScoreDelta, Rescore,
       SeizeCollateral, RecordDefault, Burn, BurnInternal, Transfer, AdminRemint, ApproveRemint

LEMMA SettingsKept ==
  ASSUME SettingsSound, UNCHANGED <<settingVars, ledger>>
  PROVE  SettingsSound'
BY DEF SettingsSound, settingVars

LEMMA NftStep ==
  ASSUME NftInv, [Next]_vars
  PROVE  /\ NftInv'
         /\ KeepsSeized
         /\ \A u \in Users : u \in burned /\ u \notin burned' => u \in approvedSince
         /\ admin' # admin => admin \notin minters'
<1> USE DEF NftInv
<1>1. CASE TokenStep
  <2>1. UNCHANGED <<registryVars, settingVars, ledger>>
    BY <1>1, TokenStepElsewhere
  <2>2. SettingsSound'
    BY <2>1, SettingsKept
  <2> QED
    BY <1>1, <2>1, <2>2, TokenStepSound, RegistryStep
<1>2. CASE \/ \E threshold \in Thresholds : SetDefaultBurnThreshold(threshold)
           \/ \E amount \in MinRepayments : SetMinRepaymentAmount(amount)
           \/ \E flag \in BOOLEAN : SetPaused(flag)
           \/ CloseLedger
  <2>1. SettingsSound' /\ UNCHANGED tokenVars /\ UNCHANGED registryVars
    BY <1>2, SettingsStep
  <2> QED
    BY <2>1, StillTokens, RegistryStep
<1>3. CASE RegistryNext /\ UNCHANGED <<tokenVars, settingVars, ledger>>
  BY <1>3, StillTokens, RegistryStep, SettingsKept
<1>4. CASE UNCHANGED vars
  <2>1. UNCHANGED registryVars /\ UNCHANGED tokenVars /\ UNCHANGED <<settingVars, ledger>>
    BY <1>4 DEF vars
  <2> QED
    BY <2>1, StillTokens, RegistryStep, SettingsKept
<1>5. Next => \/ TokenStep
              \/ \E threshold \in Thresholds : SetDefaultBurnThreshold(threshold)
              \/ \E amount \in MinRepayments : SetMinRepaymentAmount(amount)
              \/ \E flag \in BOOLEAN : SetPaused(flag)
              \/ CloseLedger
              \/ RegistryNext /\ UNCHANGED <<tokenVars, settingVars, ledger>>
  BY DEF Next, AdminNext, TokenStep
<1> QED
  BY <1>1, <1>2, <1>3, <1>4, <1>5

LEMMA NftInvariant ==
  Spec => []NftInv
<1>1. Init => NftInv
  BY NftInitially
<1>2. NftInv /\ [Next]_vars => NftInv'
  BY NftStep
<1> QED
  BY <1>1, <1>2, PTL DEF Spec

------------------------------------------------------------------------------
(* What is kept beside a token agrees with it: the history ends at the     *)
(* score, link by link, and no seized flag or cooldown is left at an       *)
(* address without a token, through any burns, remints and transfers.      *)
THEOREM TokenRecordsAgree ==
  Spec => []RecordsAgree
<1>1. NftInv => RecordsAgree
  BY RecordsFromInv
<1> QED
  BY <1>1, NftInvariant, PTL

(* The markers and the bounded list are one set, within the cap, and the   *)
(* admin is always in it: remove_authorized_minter writes the list anew    *)
(* with every other entry once, and so makes room before the incoming      *)
(* admin is added.                                                         *)
THEOREM MinterRegistrySound ==
  Spec => []RegistrySound
<1>1. NftInv => RegistrySound
  BY RegistryFromInv DEF NftInv
<1> QED
  BY <1>1, NftInvariant, PTL

(* The number of seized tokens falls only in a step that burns one of      *)
(* them: neither transfer nor admin_remint loses a seized flag.            *)
THEOREM SeizedUntilBurned ==
  Spec => SeizureOutlivesTransfer
<1>1. NftInv /\ [Next]_vars => KeepsSeized
  BY NftStep
<1>2. Spec => [][KeepsSeized]_vars
  BY <1>1, NftInvariant, PTL DEF Spec
<1> QED
  BY <1>2 DEF KeepsSeized, SeizureOutlivesTransfer

(* A burned address is reminted only on an approval given after the burn,  *)
(* and whoever hands the admin role over can no longer mint.               *)
THEOREM MintRulesHold ==
  Spec => MintRules
<1> DEFINE Fresh == \A u \in Users : u \in burned /\ u \notin burned' => u \in approvedSince
<1> DEFINE Past == admin' # admin => admin \notin minters'
<1>1. NftInv /\ [Next]_vars => Fresh
  BY NftStep
<1>2. NftInv /\ [Next]_vars => [Past]_registryVars
  BY NftStep
<1> HIDE DEF Fresh, Past
<1>3. Spec => [][Fresh]_vars /\ [][Past]_registryVars
  BY <1>1, <1>2, NftInvariant, PTL DEF Spec
<1> QED
  BY <1>3 DEF Fresh, Past, MintRules, RemintFreshlyApproved, PastAdminCannotMint
==============================================================================
