-------------------------- MODULE LendingPoolProofs --------------------------
(***************************************************************************)
(* Theorems about LendingPool for every set of providers, every amount and *)
(* every setting of the market.                                            *)
(***************************************************************************)
EXTENDS LendingPool, FiniteSetTheorems, TLAPS

------------------------------------------------------------------------------
(* Integer division: what rounding down means for a product. *)
LEMMA DivFloor ==
  ASSUME NEW x \in Nat, NEW y \in Nat \ {0}
  PROVE  /\ x \div y \in Nat
         /\ y * (x \div y) <= x
         /\ x < y * (x \div y) + y
OBVIOUS

LEMMA MulMono ==
  ASSUME NEW a \in Nat, NEW b \in Nat, NEW c \in Nat, a <= b
  PROVE  /\ a * c <= b * c
         /\ c * a <= c * b
OBVIOUS

LEMMA MulNat ==
  ASSUME NEW a \in Nat, NEW b \in Nat
  PROVE  /\ a * b \in Nat
         /\ a * b = b * a
OBVIOUS

LEMMA MulCancel ==
  ASSUME NEW a \in Nat, NEW b \in Nat, NEW c \in Nat \ {0}, c * a < c * b
  PROVE  a < b
<1>1. CASE a < b
  BY <1>1
<1>2. CASE b <= a
  BY <1>2, MulMono
<1> QED
  BY <1>1, <1>2

(***************************************************************************)
(* The conversions between shares and assets.                              *)
(***************************************************************************)

(* calc_shares_to_mint never mints more than the exchange rate allows.     *)
LEMMA MintBound ==
  ASSUME NEW amount \in Nat, NEW assets \in Nat, NEW cur \in Nat \ {0}
  PROVE  /\ CalcSharesToMint(amount, assets, cur) \in Nat
         /\ CalcSharesToMint(amount, assets, cur) * (assets + 1)
              <= amount * (cur + 1)
<1>1. CASE assets = 0
  <2>1. CalcSharesToMint(amount, assets, cur) = amount
    BY <1>1 DEF CalcSharesToMint
  <2>2. amount * (assets + 1) <= amount * (cur + 1)
    BY <1>1, MulMono
  <2> QED
    BY <2>1, <2>2
<1>2. CASE assets # 0
  <2> DEFINE x == amount * (cur + 1)
             y == assets + 1
  <2>1. CalcSharesToMint(amount, assets, cur) = x \div y
    BY <1>2 DEF CalcSharesToMint, VirtualShares, VirtualAssets
  <2>2. x \in Nat /\ y \in Nat \ {0}
    BY MulNat
  <2> HIDE DEF x, y
  <2>3. x \div y \in Nat /\ y * (x \div y) <= x
    BY <2>2, DivFloor
  <2>4. (x \div y) * y <= x
    BY <2>2, <2>3, MulNat
  <2> QED
    BY <2>1, <2>3, <2>4 DEF x, y
<1> QED
  BY <1>1, <1>2

(* calc_assets_to_redeem never pays more than the exchange rate allows.    *)
LEMMA RedeemBound ==
  ASSUME NEW burnt \in Nat, NEW assets \in Nat, NEW cur \in Nat
  PROVE  /\ CalcAssetsToRedeem(burnt, assets, cur) \in Nat
         /\ CalcAssetsToRedeem(burnt, assets, cur) * (cur + 1)
              <= burnt * (assets + 1)
<1> DEFINE x == burnt * (assets + 1)
           y == cur + 1
<1>1. CalcAssetsToRedeem(burnt, assets, cur) = x \div y
  BY DEF CalcAssetsToRedeem, VirtualShares, VirtualAssets
<1>2. x \in Nat /\ y \in Nat \ {0}
  BY MulNat
<1> HIDE DEF x, y
<1>3. x \div y \in Nat /\ y * (x \div y) <= x
  BY <1>2, DivFloor
<1>4. (x \div y) * y <= x
  BY <1>2, <1>3, MulNat
<1> QED
  BY <1>1, <1>3, <1>4 DEF x, y

(* principal_share takes part of the basis, and all of it only with the    *)
(* last share.                                                             *)
LEMMA PrincipalShareBound ==
  ASSUME NEW deposits \in Nat \ {0}, NEW cur \in Nat \ {0},
         NEW burnt \in Nat \ {0}, burnt <= cur
  PROVE  /\ PrincipalShare(deposits, burnt, cur) \in 0 .. deposits
         /\ PrincipalShare(deposits, burnt, cur) = deposits <=> burnt = cur
<1> DEFINE x    == burnt * deposits
           part == x \div cur
<1>1. x \in Nat
  BY MulNat
<1>2. PrincipalShare(deposits, burnt, cur) = IF part < deposits THEN part ELSE deposits
  BY DEF PrincipalShare
<1>3. part \in Nat /\ cur * part <= x /\ x < cur * part + cur
  <2> HIDE DEF x
  <2> QED
    BY <1>1, DivFloor
<1>4. CASE burnt = cur
  <2>1. x = cur * deposits
    BY <1>4
  <2>2. CASE part < deposits
    <3>1. cur * (part + 1) <= cur * deposits
      BY <2>2, <1>3, MulMono
    <3>2. cur * (part + 1) = cur * part + cur
      BY <1>3
    <3> HIDE DEF part, x
    <3>3. cur * part \in Nat /\ cur * deposits \in Nat
      BY <1>3, MulNat
    <3> QED
      BY <3>1, <3>2, <3>3, <1>3, <2>1
  <2> QED
    BY <2>2, <1>2, <1>4
<1>5. CASE burnt < cur
  <2>1. x < cur * deposits
    <3>1. (burnt + 1) * deposits <= cur * deposits
      BY <1>5, MulMono
    <3>2. (burnt + 1) * deposits = burnt * deposits + deposits
      OBVIOUS
    <3>3. burnt * deposits \in Nat /\ cur * deposits \in Nat
      BY MulNat
    <3> QED
      BY <3>1, <3>2, <3>3
  <2>2. cur * part < cur * deposits
    <3> HIDE DEF part, x
    <3>1. cur * part \in Nat /\ cur * deposits \in Nat
      BY <1>3, MulNat
    <3> QED
      BY <3>1, <2>1, <1>1, <1>3
  <2>3. part < deposits
    <3> HIDE DEF part
    <3> QED
      BY <2>2, <1>3, MulCancel
  <2> QED
    BY <2>3, <1>2, <1>3, <1>5
<1> QED
  BY <1>4, <1>5

(***************************************************************************)
(* Share units: totalShares as a cardinality.                              *)
(***************************************************************************)

(* The units from m + 1 to n of one provider's position. *)
Chunk(p, m, n) == {p} \X ((m + 1) .. n)

LEMMA ChunkCardinality ==
  ASSUME NEW p, NEW m \in Nat, NEW n \in Nat, m <= n
  PROVE  IsFiniteSet(Chunk(p, m, n)) /\ Cardinality(Chunk(p, m, n)) = n - m
<1>1. IsFiniteSet({p}) /\ Cardinality({p}) = 1
  BY FS_Singleton
<1>2. IsFiniteSet((m + 1) .. n) /\ Cardinality((m + 1) .. n) = n - m
  <2> DEFINE a == m + 1
  <2>1. a \in Int /\ n \in Int
    OBVIOUS
  <2> HIDE DEF a
  <2>2. /\ IsFiniteSet(a .. n)
        /\ Cardinality(a .. n) = IF a > n THEN 0 ELSE n - a + 1
    BY <2>1, FS_Interval
  <2>3. (IF a > n THEN 0 ELSE n - a + 1) = n - m
    BY DEF a
  <2> QED
    BY <2>2, <2>3 DEF a
<1>3. /\ IsFiniteSet(Chunk(p, m, n))
      /\ Cardinality(Chunk(p, m, n)) = Cardinality({p}) * Cardinality((m + 1) .. n)
  BY <1>1, <1>2, FS_Product DEF Chunk
<1> QED
  BY <1>1, <1>2, <1>3

(* What the positions look like after one of them changed.                 *)
LEMMA UnitsGrow ==
  ASSUME NEW p \in Providers, NEW k \in Nat,
         shares \in [Providers -> Nat],
         shares' = [shares EXCEPT ![p] = shares[p] + k]
  PROVE  /\ ShareUnits' = ShareUnits \cup Chunk(p, shares[p], shares[p] + k)
         /\ ShareUnits \cap Chunk(p, shares[p], shares[p] + k) = {}
<1>1. ASSUME NEW q \in Providers
      PROVE  shares'[q] = IF q = p THEN shares[p] + k ELSE shares[q]
  OBVIOUS
<1>2. ASSUME NEW q \in Providers, NEW i
      PROVE  /\ <<q, i>> \in ShareUnits  <=> i \in 1 .. shares[q]
             /\ <<q, i>> \in ShareUnits' <=> i \in 1 .. shares'[q]
  BY DEF ShareUnits, Position
<1>3. \A u \in ShareUnits \cup ShareUnits' :
        \E q \in Providers, i \in Nat : u = <<q, i>>
  BY <1>1 DEF ShareUnits, Position
<1>4. \A u \in Chunk(p, shares[p], shares[p] + k) :
        \E i \in Nat : u = <<p, i>> /\ i \in shares[p] + 1 .. shares[p] + k
  BY DEF Chunk
<1>5. ASSUME NEW q \in Providers, NEW i \in Nat
      PROVE  <<q, i>> \in Chunk(p, shares[p], shares[p] + k)
               <=> q = p /\ i \in shares[p] + 1 .. shares[p] + k
  BY DEF Chunk
<1>6. ASSUME NEW q \in Providers, NEW i \in Nat
      PROVE  <<q, i>> \in ShareUnits'
               <=> <<q, i>> \in ShareUnits \cup Chunk(p, shares[p], shares[p] + k)
  BY <1>1, <1>2, <1>5
<1>7. ASSUME NEW q \in Providers, NEW i \in Nat
      PROVE  ~(<<q, i>> \in ShareUnits /\ <<q, i>> \in Chunk(p, shares[p], shares[p] + k))
  BY <1>2, <1>5
<1> QED
  BY <1>3, <1>4, <1>6, <1>7

LEMMA UnitsShrink ==
  ASSUME NEW p \in Providers, NEW k \in Nat, k <= shares[p],
         shares \in [Providers -> Nat],
         shares' = [shares EXCEPT ![p] = shares[p] - k]
  PROVE  /\ ShareUnits' = ShareUnits \ Chunk(p, shares[p] - k, shares[p])
         /\ ShareUnits \cap Chunk(p, shares[p] - k, shares[p])
              = Chunk(p, shares[p] - k, shares[p])
<1>1. ASSUME NEW q \in Providers
      PROVE  shares'[q] = IF q = p THEN shares[p] - k ELSE shares[q]
  OBVIOUS
<1>2. ASSUME NEW q \in Providers, NEW i
      PROVE  /\ <<q, i>> \in ShareUnits  <=> i \in 1 .. shares[q]
             /\ <<q, i>> \in ShareUnits' <=> i \in 1 .. shares'[q]
  BY DEF ShareUnits, Position
<1>3. \A u \in ShareUnits \cup ShareUnits' :
        \E q \in Providers, i \in Nat : u = <<q, i>>
  BY <1>1 DEF ShareUnits, Position
<1>4. \A u \in Chunk(p, shares[p] - k, shares[p]) :
        \E i \in Nat : u = <<p, i>> /\ i \in shares[p] - k + 1 .. shares[p]
  BY DEF Chunk
<1>5. ASSUME NEW q \in Providers, NEW i \in Nat
      PROVE  <<q, i>> \in Chunk(p, shares[p] - k, shares[p])
               <=> q = p /\ i \in shares[p] - k + 1 .. shares[p]
  BY DEF Chunk
<1>6. ASSUME NEW q \in Providers, NEW i \in Nat
      PROVE  <<q, i>> \in ShareUnits'
               <=> <<q, i>> \in ShareUnits \ Chunk(p, shares[p] - k, shares[p])
  BY <1>1, <1>2, <1>5
<1>7. ASSUME NEW q \in Providers, NEW i \in Nat,
             <<q, i>> \in Chunk(p, shares[p] - k, shares[p])
      PROVE  <<q, i>> \in ShareUnits
  BY <1>2, <1>5, <1>7
<1> QED
  BY <1>3, <1>4, <1>6, <1>7

------------------------------------------------------------------------------
(***************************************************************************)
(* Type correctness and the share ledger.  They are proved together: the   *)
(* type of totalShares depends on no position exceeding it, which the      *)
(* balance of the ledger gives.                                            *)
(***************************************************************************)
ShareInv ==
  /\ TypeOK
  /\ IsFiniteSet(ShareUnits)
  /\ ShareLedgerBalanced

LEMMA PositionWithinTotal ==
  ASSUME ShareInv, NEW p \in Providers
  PROVE  shares[p] \in Nat /\ shares[p] <= totalShares
<1>1. shares[p] \in Nat
  BY DEF ShareInv, TypeOK
<1>2. IsFiniteSet(Chunk(p, 0, shares[p])) /\ Cardinality(Chunk(p, 0, shares[p])) = shares[p]
  BY <1>1, ChunkCardinality
<1>3. Chunk(p, 0, shares[p]) = Position(p)
  BY DEF Chunk, Position
<1>4. Position(p) \in SUBSET ShareUnits
  BY DEF ShareUnits
<1>5. Cardinality(Position(p)) <= Cardinality(ShareUnits)
  BY <1>4, FS_Subset DEF ShareInv
<1> QED
  BY <1>1, <1>2, <1>3, <1>5 DEF ShareInv, ShareLedgerBalanced

LEMMA ShareInvInit == Init => ShareInv
<1> SUFFICES ASSUME Init PROVE ShareInv
  OBVIOUS
<1>1. TypeOK
  <2>1. idle \in 0 .. Supply /\ outstanding \in MinInt .. MaxInt
    BY PoolAssumption DEF Init, MinInt
  <2>2. /\ shares \in [Providers -> Nat]
        /\ depositedAt \in [Providers -> Nat \cup {NoStamp}]
    BY DEF Init
  <2>3. cooldown \in 0 .. MaxCooldown
    BY PoolAssumption DEF Init
  <2>4. tokenAllowed \in BOOLEAN /\ poolPaused \in BOOLEAN
    BY DEF Init
  <2> QED
    BY <2>1, <2>2, <2>3, <2>4 DEF Init, TypeOK
<1>2. ShareUnits = {}
  BY DEF Init, ShareUnits, Position
<1> QED
  BY <1>1, <1>2, FS_EmptySet DEF Init, ShareInv, ShareLedgerBalanced

LEMMA ShareInvDeposit ==
  ASSUME ShareInv, NEW p \in Providers, NEW amount \in Amounts, Deposit(p, amount)
  PROVE  ShareInv'
<1> DEFINE minted == CalcSharesToMint(amount, TotalPoolAssets, totalShares)
<1> USE DEF ShareInv
<1>1. amount \in Nat /\ minted \in Nat
  <2>1. amount \in Nat /\ TotalPoolAssets \in Int /\ totalShares \in Nat
    BY PoolAssumption DEF Deposit, TypeOK, TotalPoolAssets, MinInt
  <2>2. CASE totalShares = 0 \/ TotalPoolAssets <= 0
    BY <2>1, <2>2 DEF CalcSharesToMint
  <2>3. CASE totalShares # 0 /\ TotalPoolAssets > 0
    BY <2>1, <2>3, MintBound
  <2> QED
    BY <2>1, <2>2, <2>3
<1>2. /\ shares \in [Providers -> Nat]
      /\ shares[p] \in Nat
      /\ shares' = [shares EXCEPT ![p] = shares[p] + minted]
      /\ totalShares' = totalShares + minted
  BY DEF Deposit, TypeOK, NewShares
<1> HIDE DEF minted
<1>3. TypeOK'
  <2>1. /\ idle' = idle + amount /\ idle + amount <= Supply
        /\ depositedAt' = [depositedAt EXCEPT ![p] = ledger]
        /\ totalDeposits' = totalDeposits + amount
        /\ depositorCount' \in {depositorCount, depositorCount + 1}
        /\ UNCHANGED <<outstanding, settings, ledger>>
    BY DEF Deposit
  <2> QED
    BY <2>1, <1>1, <1>2, PoolAssumption DEF TypeOK, settings, MinInt
<1>4. /\ IsFiniteSet(Chunk(p, shares[p], shares[p] + minted))
      /\ Cardinality(Chunk(p, shares[p], shares[p] + minted)) = minted
  <2>1. shares[p] + minted \in Nat /\ shares[p] <= shares[p] + minted
    BY <1>1, <1>2
  <2>2. (shares[p] + minted) - shares[p] = minted
    BY <1>1, <1>2
  <2> QED
    BY <2>1, <2>2, <1>2, ChunkCardinality
<1>5. /\ ShareUnits' = ShareUnits \cup Chunk(p, shares[p], shares[p] + minted)
      /\ ShareUnits \cap Chunk(p, shares[p], shares[p] + minted) = {}
  BY <1>1, <1>2, UnitsGrow
<1>6. /\ IsFiniteSet(ShareUnits')
      /\ Cardinality(ShareUnits') = Cardinality(ShareUnits) + minted - 0
  BY <1>4, <1>5, FS_Union, FS_EmptySet
<1> QED
  BY <1>1, <1>2, <1>3, <1>6 DEF ShareLedgerBalanced, TypeOK

LEMMA ShareInvRedeem ==
  ASSUME ShareInv, NEW p \in Providers, NEW burnt \in Nat, RedeemShares(p, burnt)
  PROVE  ShareInv'
<1> DEFINE paid == CalcAssetsToRedeem(burnt, TotalPoolAssets, totalShares)
<1> USE DEF ShareInv
<1>1. /\ burnt > 0 /\ burnt <= shares[p] /\ paid > 0 /\ paid <= idle
      /\ idle' = idle - paid
      /\ shares' = [shares EXCEPT ![p] = shares[p] - burnt]
      /\ depositedAt' = [depositedAt EXCEPT ![p] = StampAfter(p, burnt)]
      /\ depositorCount' = IF burnt = shares[p] /\ depositorCount > 0
                           THEN depositorCount - 1 ELSE depositorCount
      /\ totalShares' = totalShares - burnt
      /\ totalDeposits' = totalDeposits - PrincipalShare(totalDeposits, burnt, totalShares)
      /\ UNCHANGED <<outstanding, settings, ledger>>
  BY DEF RedeemShares
<1>2. shares[p] \in Nat /\ shares[p] <= totalShares
  BY PositionWithinTotal
<1>3. paid \in Int
  <2>1. totalShares \in Nat /\ TotalPoolAssets \in Int
    BY PoolAssumption DEF TypeOK, TotalPoolAssets, MinInt
  <2>2. CASE TotalPoolAssets < 0
    BY <2>2 DEF CalcAssetsToRedeem
  <2>3. CASE TotalPoolAssets \in Nat
    BY <2>1, <2>3, RedeemBound
  <2> QED
    BY <2>1, <2>2, <2>3
<1>4. PrincipalShare(totalDeposits, burnt, totalShares) \in 0 .. totalDeposits
  <2>1. totalDeposits \in Nat /\ totalShares \in Nat
    BY DEF TypeOK
  <2>2. CASE totalDeposits = 0
    BY <2>1, <2>2 DEF PrincipalShare
  <2>3. CASE totalDeposits # 0
    BY <2>1, <2>3, <1>1, <1>2, PrincipalShareBound
  <2> QED
    BY <2>2, <2>3
<1> HIDE DEF paid
<1>5. TypeOK'
  <2>1. StampAfter(p, burnt) \in Nat \cup {NoStamp}
    BY DEF StampAfter, TypeOK
  <2>2. idle' \in 0 .. Supply
    BY <1>1, <1>3, PoolAssumption DEF TypeOK
  <2>3. shares' \in [Providers -> Nat] /\ totalShares' \in Nat /\ depositorCount' \in Nat
    BY <1>1, <1>2 DEF TypeOK
  <2>4. depositedAt' \in [Providers -> Nat \cup {NoStamp}]
    BY <1>1, <2>1 DEF TypeOK
  <2>5. totalDeposits' \in Nat
    BY <1>1, <1>4 DEF TypeOK
  <2> QED
    BY <2>2, <2>3, <2>4, <2>5, <1>1 DEF TypeOK, settings
<1>6. /\ IsFiniteSet(Chunk(p, shares[p] - burnt, shares[p]))
      /\ Cardinality(Chunk(p, shares[p] - burnt, shares[p])) = burnt
  <2>1. shares[p] - burnt \in Nat /\ shares[p] - burnt <= shares[p]
    BY <1>1, <1>2
  <2>2. shares[p] - (shares[p] - burnt) = burnt
    BY <1>1, <1>2
  <2> QED
    BY <2>1, <2>2, <1>2, ChunkCardinality
<1>7. /\ ShareUnits' = ShareUnits \ Chunk(p, shares[p] - burnt, shares[p])
      /\ ShareUnits \cap Chunk(p, shares[p] - burnt, shares[p])
           = Chunk(p, shares[p] - burnt, shares[p])
  BY <1>1, UnitsShrink DEF TypeOK
<1>8. /\ IsFiniteSet(ShareUnits')
      /\ Cardinality(ShareUnits') = Cardinality(ShareUnits) - burnt
  BY <1>6, <1>7, FS_Difference
<1> QED
  BY <1>1, <1>5, <1>8 DEF ShareLedgerBalanced

(* Every other step leaves the positions alone. *)
LEMMA ShareInvOther ==
  ASSUME ShareInv, LoanManagerNext \/ AdminNext \/ CloseLedger
  PROVE  ShareInv' /\ UNCHANGED holdings
<1> USE PoolAssumption DEF ShareInv
<1>1. UNCHANGED holdings
  BY DEF LoanManagerNext, AdminNext, CloseLedger, Disburse, SettleOutstanding,
         AdjustOutstanding, Receive, ReceiveAndSettle, SetMaxPoolSize,
         SetWithdrawalCooldown,
         AllowToken, DisallowToken, Pause, Unpause, poolVars
<1>2. TypeOK'
  <2> USE DEF TypeOK, MinInt, Fits, holdings, settings
  <2>1. ASSUME NEW amount \in Amounts, Disburse(amount) PROVE TypeOK'
    BY <2>1 DEF Disburse
  <2>2. ASSUME NEW amount \in Amounts, SettleOutstanding(amount) PROVE TypeOK'
    BY <2>2 DEF SettleOutstanding, SaturatingSub
  <2>3. ASSUME NEW delta \in Amounts, AdjustOutstanding(delta) PROVE TypeOK'
    BY <2>3 DEF AdjustOutstanding
  <2>4. ASSUME NEW amount \in Amounts, Receive(amount) PROVE TypeOK'
    BY <2>4 DEF Receive
  <2>7. ASSUME NEW amount \in Amounts, NEW principal \in Amounts,
               ReceiveAndSettle(amount, principal)
        PROVE  TypeOK'
    BY <2>7 DEF ReceiveAndSettle, SaturatingSub
  <2>5. CASE AdminNext
    <3>1. ASSUME NEW max \in Caps, SetMaxPoolSize(max) PROVE TypeOK'
      BY <3>1 DEF SetMaxPoolSize
    <3>2. ASSUME NEW ledgers \in Cooldowns, SetWithdrawalCooldown(ledgers) PROVE TypeOK'
      BY <3>2 DEF SetWithdrawalCooldown
    <3>3. CASE AllowToken \/ DisallowToken
      BY <3>3 DEF AllowToken, DisallowToken
    <3>4. CASE Pause \/ Unpause
      BY <3>4 DEF Pause, Unpause
    <3> QED
      BY <2>5, <3>1, <3>2, <3>3, <3>4 DEF AdminNext
  <2>6. CASE CloseLedger
    BY <2>6 DEF CloseLedger, poolVars
  <2> QED
    BY <2>1, <2>2, <2>3, <2>4, <2>5, <2>6, <2>7 DEF LoanManagerNext
<1>3. ShareUnits' = ShareUnits
  BY <1>1 DEF ShareUnits, Position, holdings
<1> QED
  BY <1>1, <1>2, <1>3 DEF ShareLedgerBalanced, holdings

LEMMA ShareInvNext == ShareInv /\ [Next]_vars => ShareInv'
<1> SUFFICES ASSUME ShareInv, [Next]_vars PROVE ShareInv'
  OBVIOUS
<1>1. ASSUME NEW p \in Providers, NEW amount \in Amounts, Deposit(p, amount)
      PROVE  ShareInv'
  BY <1>1, ShareInvDeposit
<1>2. ASSUME NEW p \in Providers, NEW burnt \in 1 .. shares[p],
             Withdraw(p, burnt) \/ EmergencyWithdraw(p, burnt)
      PROVE  ShareInv'
  <2>1. burnt \in Nat
    BY DEF ShareInv, TypeOK
  <2> QED
    BY <2>1, <1>2, ShareInvRedeem DEF Withdraw, EmergencyWithdraw
<1>3. CASE LoanManagerNext \/ AdminNext \/ CloseLedger
  BY <1>3, ShareInvOther
<1>4. CASE UNCHANGED vars
  BY <1>4 DEF vars, poolVars, holdings, settings, ShareInv, TypeOK, ShareUnits,
              Position, ShareLedgerBalanced
<1> QED
  BY <1>1, <1>2, <1>3, <1>4 DEF Next, ProviderNext

(* Every field of the contract keeps its type: the pool never pays out     *)
(* more than it holds, and no counter turns negative but outstanding.      *)
THEOREM TypeCorrect == Spec => []TypeOK
<1>1. ShareInv => TypeOK
  BY DEF ShareInv
<1> QED
  BY <1>1, ShareInvInit, ShareInvNext, PTL DEF Spec

(* TotalShares always equals the shares held, so deposit and redeem_shares *)
(* price against the real number of shares.                                *)
THEOREM SharesBalanced == Spec => []ShareLedgerBalanced
<1>1. ShareInv => ShareLedgerBalanced
  BY DEF ShareInv
<1> QED
  BY <1>1, ShareInvInit, ShareInvNext, PTL DEF Spec

------------------------------------------------------------------------------
(***************************************************************************)
(* What hangs on a position: its stamp, the depositor count, the basis.    *)
(***************************************************************************)
PositionInv ==
  /\ ShareInv
  /\ DepositorCountExact
  /\ StampIffShares
  /\ BasisIffShares

Depositors == {p \in Providers : shares[p] > 0}

LEMMA PositionInvInit == Init => PositionInv
<1> SUFFICES ASSUME Init PROVE PositionInv
  OBVIOUS
<1>1. {p \in Providers : shares[p] > 0} = {}
  BY DEF Init
<1>2. StampIffShares
  BY DEF Init, StampIffShares
<1> QED
  BY <1>1, <1>2, ShareInvInit, FS_EmptySet
     DEF Init, PositionInv, DepositorCountExact, BasisIffShares

LEMMA DepositorsFinite == IsFiniteSet(Depositors)
<1>1. Depositors \in SUBSET Providers
  BY DEF Depositors
<1> QED
  BY <1>1, PoolAssumption, FS_Subset

LEMMA PositionInvDeposit ==
  ASSUME PositionInv, NEW p \in Providers, NEW amount \in Amounts, Deposit(p, amount)
  PROVE  DepositorCountExact' /\ StampIffShares' /\ BasisIffShares'
<1> DEFINE minted == CalcSharesToMint(amount, TotalPoolAssets, totalShares)
<1> USE DEF PositionInv, ShareInv
<1>1. /\ minted > 0 /\ amount > 0
      /\ shares' = [shares EXCEPT ![p] = shares[p] + minted]
      /\ depositedAt' = [depositedAt EXCEPT ![p] = ledger]
      /\ depositorCount' = IF shares[p] = 0 THEN depositorCount + 1 ELSE depositorCount
      /\ totalShares' = totalShares + minted
      /\ totalDeposits' = totalDeposits + amount
  BY DEF Deposit, NewShares, IsNewDepositor
<1>2. minted \in Int /\ amount \in Int
  <2>1. amount \in Nat /\ TotalPoolAssets \in Int /\ totalShares \in Nat
    BY <1>1, PoolAssumption DEF TypeOK, TotalPoolAssets, MinInt
  <2>2. CASE totalShares = 0 \/ TotalPoolAssets <= 0
    BY <2>1, <2>2 DEF CalcSharesToMint
  <2>3. CASE totalShares # 0 /\ TotalPoolAssets > 0
    BY <2>1, <2>3, MintBound
  <2> QED
    BY <2>1, <2>2, <2>3
<1> HIDE DEF minted
<1>3. shares \in [Providers -> Nat] /\ depositorCount = Cardinality(Depositors)
  BY DEF TypeOK, DepositorCountExact, Depositors
<1>4. Depositors' = Depositors \cup {p}
  BY <1>1, <1>2, <1>3 DEF Depositors
<1>5. p \in Depositors <=> shares[p] # 0
  BY <1>3 DEF Depositors
<1>6. Cardinality(Depositors') = depositorCount'
  BY <1>1, <1>3, <1>4, <1>5, DepositorsFinite, FS_AddElement
<1>7. StampIffShares'
  <2>1. ledger # NoStamp
    BY PoolAssumption DEF TypeOK
  <2>2. ASSUME NEW q \in Providers
        PROVE  depositedAt'[q] # NoStamp <=> shares'[q] > 0
    <3>1. CASE q = p
      BY <3>1, <2>1, <1>1, <1>2, <1>3 DEF TypeOK
    <3>2. CASE q # p
      BY <3>2, <1>1, <1>3 DEF TypeOK, StampIffShares
    <3> QED
      BY <3>1, <3>2
  <2> QED
    BY <2>2 DEF StampIffShares
<1>8. BasisIffShares'
  BY <1>1, <1>2 DEF BasisIffShares, TypeOK
<1> QED
  BY <1>6, <1>7, <1>8 DEF DepositorCountExact, Depositors

LEMMA PositionInvRedeem ==
  ASSUME PositionInv, NEW p \in Providers, NEW burnt \in Nat, RedeemShares(p, burnt)
  PROVE  DepositorCountExact' /\ StampIffShares' /\ BasisIffShares'
<1> USE DEF PositionInv, ShareInv
<1>1. /\ burnt > 0 /\ burnt <= shares[p]
      /\ shares' = [shares EXCEPT ![p] = shares[p] - burnt]
      /\ depositedAt' = [depositedAt EXCEPT ![p] = StampAfter(p, burnt)]
      /\ depositorCount' = IF burnt = shares[p] /\ depositorCount > 0
                           THEN depositorCount - 1 ELSE depositorCount
      /\ totalShares' = totalShares - burnt
      /\ totalDeposits' = totalDeposits - PrincipalShare(totalDeposits, burnt, totalShares)
  BY DEF RedeemShares
<1>2. /\ shares \in [Providers -> Nat] /\ shares[p] <= totalShares
      /\ depositorCount = Cardinality(Depositors)
  BY PositionWithinTotal DEF TypeOK, DepositorCountExact, Depositors
<1>3. Cardinality(Depositors') = depositorCount'
  <2>1. p \in Depositors
    BY <1>1, <1>2 DEF Depositors
  <2>2. CASE burnt = shares[p]
    <3>1. Depositors' = Depositors \ {p}
      BY <2>2, <1>1, <1>2 DEF Depositors
    <3>2. Cardinality(Depositors') = depositorCount - 1 /\ Cardinality(Depositors') \in Nat
      BY <3>1, <2>1, <1>2, DepositorsFinite, FS_RemoveElement, FS_CardinalityType
    <3> QED
      BY <3>2, <2>2, <1>1 DEF TypeOK
  <2>3. CASE burnt # shares[p]
    <3>1. Depositors' = Depositors
      BY <2>1, <2>3, <1>1, <1>2 DEF Depositors
    <3> QED
      BY <3>1, <2>3, <1>1, <1>2
  <2> QED
    BY <2>2, <2>3
<1>4. StampIffShares'
  <2>1. ASSUME NEW q \in Providers
        PROVE  depositedAt'[q] # NoStamp <=> shares'[q] > 0
    <3>1. CASE q = p /\ burnt = shares[p]
      BY <3>1, <1>1, <1>2 DEF TypeOK, StampAfter
    <3>2. CASE q = p /\ burnt # shares[p]
      BY <3>2, <1>1, <1>2 DEF TypeOK, StampAfter, StampIffShares
    <3>3. CASE q # p
      BY <3>3, <1>1, <1>2 DEF TypeOK, StampIffShares
    <3> QED
      BY <3>1, <3>2, <3>3
  <2> QED
    BY <2>1 DEF StampIffShares
<1>5. BasisIffShares'
  <2>1. totalShares \in Nat \ {0} /\ totalDeposits \in Nat \ {0}
    BY <1>1, <1>2 DEF TypeOK, BasisIffShares
  <2>2. burnt <= totalShares /\ burnt \in Nat \ {0}
    BY <1>1, <1>2 DEF TypeOK
  <2>3. /\ PrincipalShare(totalDeposits, burnt, totalShares) \in 0 .. totalDeposits
        /\ PrincipalShare(totalDeposits, burnt, totalShares) = totalDeposits
             <=> burnt = totalShares
    BY <2>1, <2>2, PrincipalShareBound
  <2> QED
    BY <2>1, <2>2, <2>3, <1>1 DEF BasisIffShares
<1> QED
  BY <1>3, <1>4, <1>5 DEF DepositorCountExact, Depositors

LEMMA PositionInvNext == PositionInv /\ [Next]_vars => PositionInv'
<1> SUFFICES ASSUME PositionInv, [Next]_vars PROVE PositionInv'
  OBVIOUS
<1>1. ShareInv'
  BY ShareInvNext DEF PositionInv
<1>2. ASSUME NEW p \in Providers, NEW amount \in Amounts, Deposit(p, amount)
      PROVE  PositionInv'
  BY <1>1, <1>2, PositionInvDeposit DEF PositionInv
<1>3. ASSUME NEW p \in Providers, NEW burnt \in 1 .. shares[p],
             Withdraw(p, burnt) \/ EmergencyWithdraw(p, burnt)
      PROVE  PositionInv'
  <2>1. burnt \in Nat
    BY DEF PositionInv, ShareInv, TypeOK
  <2> QED
    BY <2>1, <1>1, <1>3, PositionInvRedeem DEF PositionInv, Withdraw, EmergencyWithdraw
<1>4. CASE LoanManagerNext \/ AdminNext \/ CloseLedger
  <2>1. UNCHANGED holdings
    BY <1>4, ShareInvOther DEF PositionInv
  <2> QED
    BY <1>1, <2>1 DEF PositionInv, DepositorCountExact, StampIffShares,
                      BasisIffShares, holdings
<1>5. CASE UNCHANGED vars
  BY <1>1, <1>5 DEF vars, poolVars, holdings, PositionInv, DepositorCountExact,
                    StampIffShares, BasisIffShares
<1> QED
  BY <1>2, <1>3, <1>4, <1>5 DEF Next, ProviderNext

(* The counter kept by deposit and redeem_shares is the number of          *)
(* positions, however they are opened, topped up and closed.               *)
THEOREM DepositorsCounted == Spec => []DepositorCountExact
<1>1. PositionInv => DepositorCountExact
  BY DEF PositionInv
<1> QED
  BY <1>1, PositionInvInit, PositionInvNext, PTL DEF Spec

(* A position has a deposit stamp as long as it exists.                    *)
THEOREM StampsKept == Spec => []StampIffShares
<1>1. PositionInv => StampIffShares
  BY DEF PositionInv
<1> QED
  BY <1>1, PositionInvInit, PositionInvNext, PTL DEF Spec

(* The principal basis vanishes with the last share and not before.        *)
THEOREM BasisFollowsShares == Spec => []BasisIffShares
<1>1. PositionInv => BasisIffShares
  BY DEF PositionInv
<1> QED
  BY <1>1, PositionInvInit, PositionInvNext, PTL DEF Spec

(* No provider leaves in the ledger of its deposit, whatever the cooldown  *)
(* and whichever entry point it uses: the stamp exists because the position *)
(* does, and one of the two guards then applies.                           *)
THEOREM NoFlashExit == Spec => NoSameLedgerExit
<1>1. PositionInv /\ [Next]_vars
        => [\A p \in Providers :
              shares'[p] < shares[p] => depositedAt[p] + MinimumHold <= ledger]_vars
  <2> SUFFICES ASSUME PositionInv, [Next]_vars,
                      NEW p \in Providers, shares'[p] < shares[p]
               PROVE  depositedAt[p] + MinimumHold <= ledger
    OBVIOUS
  <2> USE DEF PositionInv, ShareInv
  <2>1. shares[p] \in Nat
    BY DEF TypeOK
  <2>2. ASSUME NEW q \in Providers, NEW amount \in Amounts, Deposit(q, amount)
        PROVE  FALSE
    <3> DEFINE minted == CalcSharesToMint(amount, TotalPoolAssets, totalShares)
    <3>1. minted > 0 /\ shares' = [shares EXCEPT ![q] = shares[q] + minted]
      BY <2>2 DEF Deposit, NewShares
    <3>2. amount \in Nat /\ TotalPoolAssets \in Int /\ totalShares \in Nat
      BY <2>2, PoolAssumption DEF Deposit, TypeOK, TotalPoolAssets, MinInt
    <3>3. minted \in Int
      <4>1. CASE totalShares = 0 \/ TotalPoolAssets <= 0
        BY <3>2, <4>1 DEF CalcSharesToMint
      <4>2. CASE totalShares # 0 /\ TotalPoolAssets > 0
        BY <3>2, <4>2, MintBound
      <4> QED
        BY <3>2, <4>1, <4>2
    <3> HIDE DEF minted
    <3> QED
      BY <3>1, <3>3, <2>1 DEF TypeOK
  <2>3. ASSUME NEW q \in Providers, NEW burnt \in 1 .. shares[q],
               Withdraw(q, burnt) \/ EmergencyWithdraw(q, burnt)
        PROVE  depositedAt[p] + MinimumHold <= ledger
    <3>1. RedeemShares(q, burnt)
      BY <2>3 DEF Withdraw, EmergencyWithdraw
    <3>2. q = p
      BY <3>1 DEF RedeemShares, TypeOK
    <3>3. depositedAt[p] # NoStamp
      BY <3>1, <3>2, <2>1 DEF RedeemShares, StampIffShares, TypeOK
    <3>4. depositedAt[p] \in Nat /\ ledger \in Nat /\ cooldown \in Nat
      BY <3>3, PoolAssumption DEF TypeOK
    <3>5. CASE HeldForMinimum(p)
      BY <3>5, <3>3, <3>4, PoolAssumption DEF HeldForMinimum
    <3>6. CASE MinimumHoldElapsed(p) /\ CooldownElapsed(p)
      BY <3>6, <3>5, <3>3, <3>4, PoolAssumption DEF MinimumHoldElapsed, CooldownElapsed
    <3> QED
      BY <2>3, <3>2, <3>5, <3>6 DEF Withdraw, EmergencyWithdraw
  <2>4. CASE LoanManagerNext \/ AdminNext \/ CloseLedger
    BY <2>4, <2>1, ShareInvOther DEF holdings
  <2>5. CASE UNCHANGED vars
    BY <2>5, <2>1 DEF vars, poolVars, holdings
  <2> QED
    BY <2>2, <2>3, <2>4, <2>5 DEF Next, ProviderNext
<1> QED
  BY <1>1, PositionInvInit, PositionInvNext, PTL DEF Spec, NoSameLedgerExit

------------------------------------------------------------------------------
(* The share price. *)

(* A product grows with its left factor, also below zero.                  *)
LEMMA FactorLess ==
  ASSUME NEW a \in Int, NEW b \in Int, NEW c \in Nat \ {0}, a * c < b * c
  PROVE  a < b
<1>1. CASE a < b
  BY <1>1
<1>2. CASE b <= a
  <2>1. (a - b) * c \in Nat
    <3>1. a - b \in Nat
      BY <1>2
    <3> QED
      BY <3>1, MulNat
  <2>2. (a - b) * c = a * c - b * c
    OBVIOUS
  <2>3. a * c \in Int /\ b * c \in Int
    OBVIOUS
  <2> QED
    BY <2>1, <2>2, <2>3
<1> QED
  BY <1>1, <1>2

(* A deposit adds at least its shares' worth of assets.                    *)
LEMMA DepositKeepsPrice ==
  ASSUME ShareInv, totalShares > 0, NEW p \in Providers, NEW amount \in Amounts,
         Deposit(p, amount)
  PROVE  ~PriceFalls
<1> DEFINE A == TotalPoolAssets
           S == totalShares
           m == CalcSharesToMint(amount, A, S)
<1>1. amount \in Nat /\ A \in Int /\ S \in Nat \ {0}
  BY PoolAssumption DEF Deposit, ShareInv, TypeOK, TotalPoolAssets, MinInt
<1>2. m > 0 /\ TotalPoolAssets' = A + amount /\ totalShares' = S + m
  BY <1>1 DEF Deposit, ShareInv, TypeOK, TotalPoolAssets, MinInt
<1>3. A \in Nat
  BY <1>1, <1>2 DEF CalcSharesToMint
<1>4. m \in Nat /\ m * (A + 1) <= amount * (S + 1)
  <2> HIDE DEF A, S
  <2> QED
    BY <1>1, <1>3, MintBound
<1> HIDE DEF m, A, S
<1>5. (A + amount + 1) * (S + 1) = (A + 1) * (S + 1) + amount * (S + 1)
  BY <1>1
<1>6. (A + 1) * (S + m + 1) = (A + 1) * (S + 1) + m * (A + 1)
  BY <1>1, <1>4
<1>7. (A + 1) * (S + 1) \in Int /\ amount * (S + 1) \in Int /\ m * (A + 1) \in Int
  BY <1>1, <1>4
<1>8. ~((A + amount + 1) * (S + 1) < (A + 1) * (S + m + 1))
  BY <1>4, <1>5, <1>6, <1>7
<1> QED
  BY <1>2, <1>8 DEF PriceFalls, VirtualAssets, VirtualShares, A, S

(* A redemption takes at most its shares' worth of assets.                 *)
LEMMA RedeemKeepsPrice ==
  ASSUME ShareInv, NEW p \in Providers, NEW burnt \in 1 .. shares[p],
         RedeemShares(p, burnt)
  PROVE  ~PriceFalls
<1> DEFINE A == TotalPoolAssets
           S == totalShares
           paid == CalcAssetsToRedeem(burnt, A, S)
<1>1. burnt \in Nat /\ A \in Int /\ S \in Nat
  BY PoolAssumption DEF ShareInv, TypeOK, TotalPoolAssets, MinInt
<1>2. A \in Nat
  BY <1>1 DEF RedeemShares, CalcAssetsToRedeem
<1>3. paid \in Nat /\ paid * (S + 1) <= burnt * (A + 1)
  <2> HIDE DEF A, S
  <2> QED
    BY <1>1, <1>2, RedeemBound
<1>4. TotalPoolAssets' = A - paid /\ totalShares' = S - burnt
  <2>1. idle' = idle - paid /\ outstanding' = outstanding /\ totalShares' = S - burnt
    BY DEF RedeemShares
  <2>2. idle \in Int /\ outstanding \in Int
    BY PoolAssumption DEF ShareInv, TypeOK, MinInt
  <2> HIDE DEF paid
  <2> QED
    BY <2>1, <2>2, <1>3 DEF TotalPoolAssets
<1> HIDE DEF paid, A, S
<1>5. (A - paid + 1) * (S + 1) = (A + 1) * (S + 1) - paid * (S + 1)
  BY <1>1, <1>2, <1>3
<1>6. (A + 1) * (S - burnt + 1) = (A + 1) * (S + 1) - burnt * (A + 1)
  BY <1>1, <1>2
<1>7. (A + 1) * (S + 1) \in Int /\ paid * (S + 1) \in Int /\ burnt * (A + 1) \in Int
  BY <1>1, <1>2, <1>3
<1>8. ~((A - paid + 1) * (S + 1) < (A + 1) * (S - burnt + 1))
  BY <1>3, <1>5, <1>6, <1>7
<1> QED
  BY <1>4, <1>8 DEF PriceFalls, VirtualAssets, VirtualShares, A, S

(* At a constant number of shares the price falls only if the assets do.   *)
LEMMA PriceFallsWithAssets ==
  ASSUME NEW i \in Int, NEW o \in Int, NEW j \in Int, NEW q \in Int,
         NEW c \in Nat \ {0},
         j + q >= i + o \/ q < o,
         (j + q + 1) * c < (i + o + 1) * c
  PROVE  q < o
<1> DEFINE a == j + q + 1
           b == i + o + 1
<1>1. a \in Int /\ b \in Int /\ a * c < b * c
  OBVIOUS
<1> HIDE DEF a, b
<1>2. a < b
  BY <1>1, FactorLess
<1> QED
  BY <1>2 DEF a, b

(* Every other step leaves the shares alone, so that the price falls only  *)
(* with the assets, and of those only the outstanding part can fall.       *)
LEMMA OtherStepsLowerOutstanding ==
  ASSUME ShareInv, LoanManagerNext \/ AdminNext \/ CloseLedger \/ UNCHANGED vars,
         PriceFalls
  PROVE  outstanding' < outstanding
<1>1. idle \in Int /\ outstanding \in Int /\ totalShares \in Nat /\ MinInt \in Int
  BY PoolAssumption DEF ShareInv, TypeOK, MinInt
<1>2. totalShares' = totalShares
  BY DEF LoanManagerNext, AdminNext, CloseLedger, Disburse, SettleOutstanding,
         AdjustOutstanding, Receive, ReceiveAndSettle, SetMaxPoolSize,
         SetWithdrawalCooldown,
         AllowToken, DisallowToken, Pause, Unpause, poolVars, holdings, vars
<1> DEFINE Kept == /\ idle' \in Int /\ outstanding' \in Int
                   /\ \/ idle' + outstanding' >= idle + outstanding
                      \/ outstanding' < outstanding
<1>3. Kept
  <2>1. ASSUME NEW amount \in Amounts,
               Disburse(amount) \/ Receive(amount) \/ AdjustOutstanding(amount)
        PROVE  Kept
    <3>1. amount \in Int
      BY PoolAssumption
    <3>2. CASE Disburse(amount)
      BY <1>1, <3>1, <3>2 DEF Disburse
    <3>3. CASE Receive(amount)
      BY <1>1, <3>1, <3>3 DEF Receive
    <3>4. CASE AdjustOutstanding(amount)
      BY <1>1, <3>1, <3>4 DEF AdjustOutstanding
    <3> QED
      BY <2>1, <3>2, <3>3, <3>4
  <2>2. ASSUME NEW amount \in Amounts, SettleOutstanding(amount)
        PROVE  Kept
    <3>1. amount \in Int
      BY PoolAssumption
    <3>2. idle' = idle /\ outstanding' = SaturatingSub(outstanding, amount)
      BY <2>2 DEF SettleOutstanding
    <3>3. outstanding' \in Int
      BY <1>1, <3>1, <3>2 DEF SaturatingSub
    <3> QED
      BY <1>1, <3>2, <3>3
  <2>4. ASSUME NEW amount \in Amounts, NEW principal \in Amounts,
               ReceiveAndSettle(amount, principal)
        PROVE  Kept
    <3>1. amount \in Nat /\ principal \in Nat
      BY <2>4, PoolAssumption DEF ReceiveAndSettle
    <3>2. idle' = idle + amount /\ outstanding' = SaturatingSub(outstanding, principal)
      BY <2>4 DEF ReceiveAndSettle
    <3>3. idle' \in Int /\ outstanding' \in Int
      BY <1>1, <3>1, <3>2 DEF SaturatingSub
    <3>4. CASE SaturatingSub(outstanding, principal) < outstanding
      BY <3>2, <3>3, <3>4
    <3>5. CASE SaturatingSub(outstanding, principal) >= outstanding
      BY <1>1, <3>1, <3>2, <3>3, <3>5 DEF SaturatingSub
    <3>6. SaturatingSub(outstanding, principal) \in Int
      BY <1>1, <3>1 DEF SaturatingSub
    <3> QED
      BY <1>1, <3>4, <3>5, <3>6
  <2>3. CASE AdminNext \/ CloseLedger \/ UNCHANGED vars
    BY <1>1, <2>3 DEF AdminNext, CloseLedger, SetMaxPoolSize,
         SetWithdrawalCooldown, AllowToken, DisallowToken, Pause, Unpause,
         poolVars, vars
  <2> QED
    BY <2>1, <2>2, <2>3, <2>4 DEF LoanManagerNext
<1>4. (idle' + outstanding' + 1) * (totalShares + 1)
        < (idle + outstanding + 1) * (totalShares + 1)
  BY <1>2 DEF PriceFalls, TotalPoolAssets, VirtualAssets, VirtualShares
<1>5. idle' \in Int /\ outstanding' \in Int /\ totalShares + 1 \in Nat \ {0}
  BY <1>1, <1>3
<1>6. idle' + outstanding' >= idle + outstanding \/ outstanding' < outstanding
  BY <1>3
<1> QED
  BY <1>1, <1>4, <1>5, <1>6, PriceFallsWithAssets

(* Holders are diluted by nobody but the LoanManager writing principal     *)
(* off: mints and redemptions both round in favour of the pool.            *)
THEOREM HoldersNotDiluted == Spec => OnlyWriteOffsLowerPrice
<1>1. ShareInv /\ [Next]_vars
        => [totalShares > 0 /\ PriceFalls => outstanding' < outstanding]_vars
  <2> SUFFICES ASSUME ShareInv, [Next]_vars, totalShares > 0, PriceFalls
               PROVE  outstanding' < outstanding
    OBVIOUS
  <2>1. ASSUME NEW p \in Providers, NEW amount \in Amounts, Deposit(p, amount)
        PROVE  FALSE
    BY <2>1, DepositKeepsPrice
  <2>2. ASSUME NEW p \in Providers, NEW burnt \in 1 .. shares[p],
               Withdraw(p, burnt) \/ EmergencyWithdraw(p, burnt)
        PROVE  FALSE
    BY <2>2, RedeemKeepsPrice DEF Withdraw, EmergencyWithdraw
  <2>3. CASE LoanManagerNext \/ AdminNext \/ CloseLedger \/ UNCHANGED vars
    BY <2>3, OtherStepsLowerOutstanding
  <2> QED
    BY <2>1, <2>2, <2>3 DEF Next, ProviderNext
<1> QED
  BY <1>1, ShareInvInit, ShareInvNext, PTL DEF Spec, OnlyWriteOffsLowerPrice

(* Redeeming every share at once leaves the virtual asset behind: the sum  *)
(* of all claims never exceeds the pool.                                   *)
THEOREM ClaimsAlwaysCovered == Spec => []ClaimsCovered
<1>1. ShareInv => ClaimsCovered
  <2> SUFFICES ASSUME ShareInv, TotalPoolAssets >= 0
               PROVE  CalcAssetsToRedeem(totalShares, TotalPoolAssets, totalShares)
                        <= TotalPoolAssets
    BY DEF ClaimsCovered
  <2> DEFINE A == TotalPoolAssets
             S == totalShares
             paid == CalcAssetsToRedeem(S, A, S)
  <2>1. A \in Nat /\ S \in Nat
    BY PoolAssumption DEF ShareInv, TypeOK, TotalPoolAssets, MinInt
  <2> HIDE DEF A, S
  <2>2. paid \in Nat /\ paid * (S + 1) <= S * (A + 1)
    BY <2>1, RedeemBound
  <2> HIDE DEF paid
  <2>3. S * (A + 1) < (A + 1) * (S + 1)
    <3>1. (A + 1) * (S + 1) = S * (A + 1) + (A + 1)
      BY <2>1
    <3>2. S * (A + 1) \in Nat
      BY <2>1, MulNat
    <3> QED
      BY <2>1, <3>1, <3>2
  <2>4. paid * (S + 1) < (A + 1) * (S + 1)
    <3>1. paid * (S + 1) \in Nat /\ S * (A + 1) \in Nat /\ (A + 1) * (S + 1) \in Nat
      BY <2>1, <2>2, MulNat
    <3> QED
      BY <2>2, <2>3, <3>1
  <2>5. paid < A + 1
    <3> DEFINE b == A + 1
               c == S + 1
    <3>1. b \in Int /\ c \in Nat \ {0} /\ paid * c < b * c
      BY <2>1, <2>4
    <3> HIDE DEF b, c
    <3>2. paid < b
      BY <2>2, <3>1, FactorLess
    <3> QED
      BY <3>2 DEF b
  <2>6. paid <= A
    BY <2>1, <2>2, <2>5
  <2> QED
    BY <2>6 DEF paid, A, S
<1> QED
  BY <1>1, ShareInvInit, ShareInvNext, PTL DEF Spec

(* A deposit redeemed at once returns at most what it brought: the shares  *)
(* it mints are bounded by the rate before, and what they redeem for by    *)
(* the rate after, which the deposit did not raise.                        *)
THEOREM NoRoundTripProfit == Spec => []RoundTripNeverProfits
<1>1. ShareInv => RoundTripNeverProfits
  <2> SUFFICES ASSUME ShareInv, NEW amount \in Amounts,
                      totalShares > 0, amount > 0, TotalPoolAssets >= 0,
                      CalcSharesToMint(amount, TotalPoolAssets, totalShares) > 0
               PROVE  CalcAssetsToRedeem(
                        CalcSharesToMint(amount, TotalPoolAssets, totalShares),
                        TotalPoolAssets + amount,
                        totalShares + CalcSharesToMint(amount, TotalPoolAssets, totalShares))
                        <= amount
    BY DEF RoundTripNeverProfits
  <2> DEFINE A == TotalPoolAssets
             S == totalShares
             m == CalcSharesToMint(amount, A, S)
             paid == CalcAssetsToRedeem(m, A + amount, S + m)
  <2>1. A \in Nat /\ S \in Nat \ {0} /\ amount \in Nat
    BY PoolAssumption DEF ShareInv, TypeOK, TotalPoolAssets, MinInt
  <2> HIDE DEF A, S
  <2>2. m \in Nat /\ m * (A + 1) <= amount * (S + 1)
    BY <2>1, MintBound
  <2> HIDE DEF m
  <2>3. paid \in Nat /\ paid * (S + m + 1) <= m * (A + amount + 1)
    <3>1. A + amount \in Nat /\ S + m \in Nat
      BY <2>1, <2>2
    <3> QED
      BY <3>1, <2>2, RedeemBound
  <2> HIDE DEF paid
  <2>4. /\ m * (A + amount + 1) = m * (A + 1) + m * amount
        /\ amount * (S + m + 1) = amount * (S + 1) + m * amount
    BY <2>1, <2>2
  <2>5. /\ m * (A + 1) \in Int /\ m * amount \in Int /\ amount * (S + 1) \in Int
        /\ paid * (S + m + 1) \in Int
    BY <2>1, <2>2, <2>3
  <2>6. paid * (S + m + 1) <= amount * (S + m + 1)
    BY <2>2, <2>3, <2>4, <2>5
  <2>7. paid <= amount
    <3> DEFINE c == S + m + 1
    <3>1. c \in Nat \ {0} /\ paid * c <= amount * c
      BY <2>1, <2>2, <2>6
    <3> HIDE DEF c
    <3>2. CASE amount < paid
      <4>1. (amount + 1) * c <= paid * c
        BY <2>1, <2>3, <3>1, <3>2, MulMono
      <4>2. (amount + 1) * c = amount * c + c
        BY <2>1, <3>1
      <4>3. amount * c \in Int /\ paid * c \in Int
        BY <2>1, <2>3, <3>1
      <4> QED
        BY <3>1, <4>1, <4>2, <4>3
    <3> QED
      BY <2>1, <2>3, <3>2
  <2> QED
    BY <2>7 DEF paid, m, A, S
<1> QED
  BY <1>1, ShareInvInit, ShareInvNext, PTL DEF Spec
(* The five records of the pool agree, for any number of providers and any *)
(* order of operations.                                                    *)
THEOREM PoolLedgersAgree == Spec => []LedgersAgree
<1> QED
  BY TypeCorrect, SharesBalanced, BasisFollowsShares, DepositorsCounted,
     StampsKept, PTL DEF LedgersAgree
==============================================================================
