------------------------ MODULE RaffleInstanceProofs ------------------------
(***************************************************************************)
(* Proofs about RaffleInstance, for every configuration of the raffle: its *)
(* types, the sums over its tiers, and the draw.  The storage keys of the  *)
(* draw agree with the status, the timeout fallback is dead code, and      *)
(* neither tickets nor commitments move once a draw has begun.             *)
(***************************************************************************)
EXTENDS RaffleInstance, FiniteSetTheorems, SequenceTheorems, WellFoundedInduction, TLAPS

-----------------------------------------------------------------------------
(* Arithmetic of fees and discounts.                                        *)

LEMMA WholeType == Whole \in Nat \ {0}
  BY DEF Whole

\* Division by the basis-point denominator.
LEMMA DivBound ==
    ASSUME NEW x \in Nat, NEW a \in Nat, x < a * Whole + Whole
    PROVE  x \div Whole \in Nat /\ x \div Whole <= a
  BY DEF Whole

\* A product with a share is at most the product with the whole.
LEMMA ProductBound ==
    ASSUME NEW a \in Nat, NEW bp \in 0..Whole
    PROVE  a * bp \in Nat /\ a * bp <= a * Whole
  BY DEF Whole

\* A share in basis points is at most the amount, rounded down or, as
\* claim_prize computes it, rounded up.
LEMMA ShareBound ==
    ASSUME NEW a \in Nat, NEW bp \in 0..Whole
    PROVE  /\ Share(a, bp) \in Nat /\ Share(a, bp) <= a
           /\ ShareUp(a, bp) \in Nat /\ ShareUp(a, bp) <= a
<1> DEFINE x == a * bp
           w == a * Whole
<1>1. x \in Nat /\ w \in Nat /\ x <= w
  BY ProductBound, WholeType
<1>2. x < w + Whole /\ x + (Whole - 1) < w + Whole /\ x + (Whole - 1) \in Nat
  <2> HIDE DEF x, w
  <2> QED BY <1>1, WholeType
<1>3. x \div Whole \in Nat /\ x \div Whole <= a
  BY <1>1, <1>2, DivBound
<1>4. (x + (Whole - 1)) \div Whole \in Nat /\ (x + (Whole - 1)) \div Whole <= a
  BY <1>2, DivBound
<1> QED BY <1>3, <1>4 DEF Share, ShareUp

-----------------------------------------------------------------------------
(* What purchases and prizes are worth.                                     *)

\* A discount of more than the whole makes the price negative, which the token
\* refuses.
LEMMA PriceType ==
    ASSUME ticketsSold \in Nat, NEW q \in 1..MaxPerTx
    PROVE  TicketPrice * q \in Nat /\ NetToPay(q) \in Int
<1> DEFINE gross == TicketPrice * q
<1>1. gross \in Nat
  BY MoneyAssumption, TicketAssumption
<1> HIDE DEF gross
<1>2. Share(gross, EarlyBirdBp) \in Int
  <2>1. gross * EarlyBirdBp \in Int
    BY <1>1, MoneyAssumption
  <2> QED BY <2>1, WholeType DEF Share
<1>3. Discount(q) \in Int
  BY <1>2 DEF Discount, gross
<1> QED BY <1>1, <1>3 DEF NetToPay, gross

LEMMA FeeBound ==
    ASSUME NEW a \in Nat, feeBp \in 0..Whole
    PROVE  /\ ProtocolFee(a) \in Nat /\ ProtocolFee(a) <= a
           /\ ClaimFee(a) \in Nat /\ ClaimFee(a) <= a
  BY ShareBound DEF ProtocolFee, ClaimFee

LEMMA TreasuryBound ==
    ASSUME NEW fee \in Nat
    PROVE  ToTreasury(fee) \in 0..fee
  BY DEF ToTreasury

LEMMA TierPrizeType ==
    ASSUME NEW t \in Tiers
    PROVE  TierPrize(t) \in Nat /\ TierPrize(t) <= PrizeAmount
<1>1. PrizeAmount \in Nat /\ Prizes \in Seq(0..Whole)
  BY MoneyAssumption
<1>2. Prizes[t] \in 0..Whole
  BY <1>1, ElementOfSeq DEF Tiers
<1> QED BY <1>1, <1>2, ShareBound DEF TierPrize

-----------------------------------------------------------------------------
(* Induction up to a bound, and functions defined by it.                    *)

LEMMA LeastOf ==
    ASSUME NEW T, T \subseteq Nat, T # {}
    PROVE  \E x \in T : \A y \in T : ~(y < x)
<1>1. PICK x \in T : \A y \in T : ~(<<y, x>> \in OpToRel(<, Nat))
  BY WFMin, NatLessThanWellFounded, Zenon
<1>2. \A y \in T : y < x => <<y, x>> \in OpToRel(<, Nat)
  BY Zenon DEF OpToRel
<1> QED BY <1>1, <1>2, Zenon

\* Induction for a property given as a set.
LEMMA UpTo ==
    ASSUME NEW N \in Nat, NEW T, 0 \in T,
           \A n \in 0..N : n \in T /\ n < N => n + 1 \in T
    PROVE  \A n \in 0..N : n \in T
<1> DEFINE W == {n \in 0..N : n \notin T}
<1> SUFFICES ASSUME W # {} PROVE FALSE
  OBVIOUS
<1>1. PICK x \in W : \A y \in W : ~(y < x)
  <2>1. W \subseteq Nat
    OBVIOUS
  <2> HIDE DEF W
  <2> QED BY <2>1, LeastOf
<1>2. x \in 0..N /\ x \notin T /\ x # 0
  BY <1>1
<1>3. x - 1 \in 0..N /\ x - 1 < x /\ x - 1 < N /\ (x - 1) + 1 = x
  BY <1>2
<1>4. x - 1 \in T
  BY <1>1, <1>3
<1> QED BY <1>2, <1>3, <1>4

Solvable(N, S, a, step) ==
    \E g \in [0..N -> S] : g[0] = a /\ \A n \in 1..N : g[n] = step[<<n, g[n - 1]>>]

\* A recursion over 0..N that stays within S has a solution.
LEMMA RecursionExists ==
    ASSUME NEW N \in Nat, NEW S, NEW a \in S, NEW step \in [(1..N) \X S -> S]
    PROVE  Solvable(N, S, a, step)
<1> DEFINE Solves(g, m) == g[0] = a /\ \A n \in 1..m : g[n] = step[<<n, g[n - 1]>>]
           T == {m \in 0..N : \E g \in [0..m -> S] : Solves(g, m)}
<1>1. 0 \in T
  <2> DEFINE g == [x \in 0..0 |-> a]
  <2>1. g \in [0..0 -> S] /\ g[0] = a
    OBVIOUS
  <2> HIDE DEF g
  <2> QED BY <2>1
<1>2. ASSUME NEW m \in 0..N, m \in T, m < N
      PROVE  m + 1 \in T
  <2>1. PICK g \in [0..m -> S] : Solves(g, m)
    BY <1>2
  <2> DEFINE v == step[<<m + 1, g[m]>>]
             h == [x \in 0..(m + 1) |-> IF x <= m THEN g[x] ELSE v]
  <2>2. m + 1 \in 1..N /\ g[m] \in S
    BY <1>2
  <2>3. v \in S
    BY <2>2
  <2> HIDE DEF v
  <2>4. h \in [0..(m + 1) -> S]
    BY <2>3
  <2>5. \A x \in 0..m : h[x] = g[x]
    OBVIOUS
  <2>6. h[m + 1] = v
    OBVIOUS
  <2> HIDE DEF h
  <2>7. \A n \in 1..(m + 1) : h[n] = step[<<n, h[n - 1]>>]
    <3> TAKE n \in 1..(m + 1)
    <3>1. CASE n <= m
      <4>1. n \in 1..m /\ n \in 0..m /\ n - 1 \in 0..m
        BY <3>1
      <4> QED BY <2>1, <2>5, <4>1
    <3>2. CASE n = m + 1
      <4>1. n - 1 = m /\ m \in 0..m
        BY <3>2
      <4> QED BY <2>5, <2>6, <3>2, <4>1 DEF v
    <3> QED BY <3>1, <3>2
  <2>8. h[0] = a
    BY <2>1, <2>5
  <2> QED BY <2>2, <2>4, <2>7, <2>8
<1> HIDE DEF T
<1>3. N \in T
  <2>1. N \in 0..N
    OBVIOUS
  <2> QED BY <1>1, <1>2, <2>1, UpTo
<1> QED BY <1>3 DEF T, Solvable

-----------------------------------------------------------------------------
(* Sums over the tiers.                                                     *)

\* v gives every tier a natural number.
Gives(v) == \A t \in Tiers : v[t] \in Nat

\* g is the sum over the tiers in S, step by step.
Adds(g, v, S) ==
    /\ g \in [0..Len(Prizes) -> Nat] /\ g[0] = 0
    /\ \A t \in Tiers : g[t] = g[t - 1] + (IF t \in S THEN v[t] ELSE 0)

LEMMA TiersCount == Len(Prizes) \in Nat /\ Tiers = 1..Len(Prizes)
  BY MoneyAssumption, LenProperties DEF Tiers

LEMMA TierSumAdds ==
    ASSUME NEW v, NEW S, Gives(v)
    PROVE  \E g : Adds(g, v, S) /\ TierSum(v, S) = g[Len(Prizes)]
<1> DEFINE N == Len(Prizes)
           w == [t \in 1..N |-> IF t \in S THEN v[t] ELSE 0]
           step == [x \in (1..N) \X Nat |-> x[2] + w[x[1]]]
           F(h) == [t \in 0..Len(Prizes) |->
                       IF t = 0 THEN 0 ELSE h[t - 1] + (IF t \in S THEN v[t] ELSE 0)]
<1>1. N \in Nat /\ Tiers = 1..N
  BY TiersCount
<1>2. \A t \in 1..N : w[t] \in Nat /\ w[t] = IF t \in S THEN v[t] ELSE 0
  BY <1>1 DEF Gives
<1> HIDE DEF w
<1>3. step \in [(1..N) \X Nat -> Nat]
  BY <1>1, <1>2
<1>4. \A t \in 1..N, y \in Nat : step[<<t, y>>] = y + w[t]
  OBVIOUS
<1> HIDE DEF step
<1>5. PICK g \in [0..N -> Nat] : g[0] = 0 /\ \A t \in 1..N : g[t] = step[<<t, g[t - 1]>>]
  <2>1. 0 \in Nat
    OBVIOUS
  <2> HIDE DEF N
  <2>2. Solvable(N, Nat, 0, step)
    BY <1>1, <1>3, <2>1, RecursionExists
  <2> QED BY <2>2 DEF Solvable
<1>6. \A t \in 1..N : g[t] = g[t - 1] + w[t]
  <2> TAKE t \in 1..N
  <2>1. t - 1 \in 0..N
    BY <1>1
  <2>2. g[t - 1] \in Nat
    BY <2>1
  <2> QED BY <1>4, <1>5, <2>2
<1>7. g = F(g)
  BY <1>1, <1>2, <1>5, <1>6
<1> DEFINE s == CHOOSE h : h = F(h)
<1>8. s = F(s)
  BY <1>7
<1>9. TierSum(v, S) = s[Len(Prizes)]
  BY Zenon DEF TierSum
<1> HIDE DEF s
<1>10. \A t \in 0..N : s[t] = IF t = 0 THEN 0 ELSE s[t - 1] + (IF t \in S THEN v[t] ELSE 0)
  BY <1>8
<1> DEFINE T == {t \in 0..N : s[t] = g[t]}
<1>11. \A t \in 0..N : t \in T
  <2>1. 0 \in T
    BY <1>1, <1>5, <1>10
  <2>2. ASSUME NEW t \in 0..N, t \in T, t < N PROVE t + 1 \in T
    <3>1. t + 1 \in 0..N /\ t + 1 # 0 /\ (t + 1) - 1 = t /\ t + 1 \in 1..N
      BY <1>1, <2>2
    <3>2. s[t + 1] = s[t] + w[t + 1] /\ g[t + 1] = g[t] + w[t + 1]
      BY <1>2, <1>6, <1>10, <3>1
    <3> QED BY <2>2, <3>1, <3>2
  <2> HIDE DEF T
  <2> QED BY <1>1, <2>1, <2>2, UpTo
<1>12. s[N] = g[N]
  BY <1>1, <1>11
<1>13. Adds(g, v, S)
  BY <1>1, <1>2, <1>5, <1>6 DEF Adds
<1> QED BY <1>9, <1>12, <1>13

\* A sum splits.
LEMMA TierSumSplits ==
    ASSUME NEW v, Gives(v), NEW S \in SUBSET Tiers, NEW R \in SUBSET S
    PROVE  TierSum(v, S) = TierSum(v, R) + TierSum(v, S \ R)
<1> DEFINE N == Len(Prizes)
<1>1. N \in Nat /\ Tiers = 1..N
  BY TiersCount
<1>2. PICK g : Adds(g, v, S) /\ TierSum(v, S) = g[N]
  BY TierSumAdds
<1>3. PICK h : Adds(h, v, R) /\ TierSum(v, R) = h[N]
  BY TierSumAdds
<1>4. PICK k : Adds(k, v, S \ R) /\ TierSum(v, S \ R) = k[N]
  BY TierSumAdds
<1> DEFINE T == {t \in 0..N : g[t] = h[t] + k[t]}
<1>5. 0 \in T
  BY <1>1, <1>2, <1>3, <1>4 DEF Adds
<1>6. ASSUME NEW t \in 0..N, t \in T, t < N PROVE t + 1 \in T
  <2>1. t + 1 \in Tiers /\ t + 1 \in 0..N /\ (t + 1) - 1 = t
    BY <1>1, <1>6
  <2>2. /\ g[t] \in Nat /\ h[t] \in Nat /\ k[t] \in Nat
        /\ g[t + 1] = g[t] + (IF t + 1 \in S THEN v[t + 1] ELSE 0)
        /\ h[t + 1] = h[t] + (IF t + 1 \in R THEN v[t + 1] ELSE 0)
        /\ k[t + 1] = k[t] + (IF t + 1 \in S \ R THEN v[t + 1] ELSE 0)
    BY <1>2, <1>3, <1>4, <2>1 DEF Adds
  <2>3. v[t + 1] \in Nat
    BY <2>1 DEF Gives
  <2>4. g[t] = h[t] + k[t]
    BY <1>6
  <2>5. g[t + 1] = h[t + 1] + k[t + 1]
    <3>1. CASE t + 1 \in R
      BY <2>2, <2>3, <2>4, <3>1
    <3>2. CASE t + 1 \in S \ R
      BY <2>2, <2>3, <2>4, <3>2
    <3>3. CASE t + 1 \notin S
      BY <2>2, <2>3, <2>4, <3>3
    <3> QED BY <3>1, <3>2, <3>3
  <2> QED BY <2>1, <2>5
<1>7. N \in T
  <2>1. N \in 0..N
    BY <1>1
  <2> HIDE DEF T, N
  <2> QED BY <1>1, <1>5, <1>6, <2>1, UpTo
<1> QED BY <1>2, <1>3, <1>4, <1>7

LEMMA TierSumOfOne ==
    ASSUME NEW v, Gives(v), NEW r \in Tiers
    PROVE  TierSum(v, {r}) = v[r]
<1> DEFINE N == Len(Prizes)
<1>1. N \in Nat /\ Tiers = 1..N /\ v[r] \in Nat
  BY TiersCount DEF Gives
<1>2. PICK g : Adds(g, v, {r}) /\ TierSum(v, {r}) = g[N]
  BY TierSumAdds
<1> DEFINE T == {t \in 0..N : g[t] = IF t < r THEN 0 ELSE v[r]}
<1>3. 0 \in T
  BY <1>1, <1>2 DEF Adds
<1>4. ASSUME NEW t \in 0..N, t \in T, t < N PROVE t + 1 \in T
  <2>1. t + 1 \in Tiers /\ t + 1 \in 0..N /\ (t + 1) - 1 = t
    BY <1>1, <1>4
  <2>2. g[t + 1] = g[t] + (IF t + 1 \in {r} THEN v[t + 1] ELSE 0)
    BY <1>2, <2>1 DEF Adds
  <2>3. g[t] = IF t < r THEN 0 ELSE v[r]
    BY <1>4
  <2>4. g[t + 1] = IF t + 1 < r THEN 0 ELSE v[r]
    BY <1>1, <2>2, <2>3
  <2> QED BY <2>1, <2>4
<1>5. N \in T
  <2>1. N \in 0..N
    BY <1>1
  <2> HIDE DEF T, N
  <2> QED BY <1>1, <1>3, <1>4, <2>1, UpTo
<1> QED BY <1>1, <1>2, <1>5

\* A share rounded down, in whole units.
LEMMA ShareScaled ==
    ASSUME NEW a \in Nat, NEW bp \in 0..Whole
    PROVE  Whole * Share(a, bp) <= a * bp
<1> DEFINE x == a * bp
<1>1. x \in Nat
  BY ProductBound
<1> HIDE DEF x
<1>2. Whole * (x \div Whole) <= x
  BY <1>1 DEF Whole
<1> QED BY <1>2 DEF x, Share

\* The prizes of the tiers, rounded down, are at most the prize: the shares are a
\* whole (init).
LEMMA TierTotalBound == TierTotal(Tiers) <= PrizeAmount
<1> DEFINE N == Len(Prizes)
           A == PrizeAmount
           v == [t \in Tiers |-> TierPrize(t)]
<1>1. N \in Nat /\ Tiers = 1..N /\ A \in Nat
  BY TiersCount, MoneyAssumption
<1>2. \A t \in Tiers : Prizes[t] \in 0..Whole
  BY MoneyAssumption, ElementOfSeq DEF Tiers
<1>3. \A t \in Tiers : v[t] \in Nat /\ Whole * v[t] <= A * Prizes[t]
  BY <1>1, <1>2, TierPrizeType, ShareScaled DEF TierPrize
<1>4. Gives(v) /\ Gives(Prizes)
  BY <1>2, <1>3, WholeType DEF Gives
<1> HIDE DEF v
<1>5. PICK g : Adds(g, v, Tiers) /\ TierSum(v, Tiers) = g[N]
  BY <1>4, TierSumAdds
<1>6. PICK h : Adds(h, Prizes, Tiers) /\ TierSum(Prizes, Tiers) = h[N]
  BY <1>4, TierSumAdds
<1> DEFINE T == {t \in 0..N : Whole * g[t] <= A * h[t]}
<1>7. 0 \in T
  <2>1. g[0] = 0 /\ h[0] = 0
    BY <1>5, <1>6 DEF Adds
  <2> QED BY <1>1, <2>1, WholeType
<1>8. ASSUME NEW t \in 0..N, t \in T, t < N PROVE t + 1 \in T
  <2>1. t + 1 \in Tiers /\ t + 1 \in 0..N /\ (t + 1) - 1 = t
    BY <1>1, <1>8
  <2>2. /\ g[t] \in Nat /\ h[t] \in Nat
        /\ g[t + 1] = g[t] + v[t + 1]
        /\ h[t + 1] = h[t] + Prizes[t + 1]
    BY <1>5, <1>6, <2>1 DEF Adds
  <2>3. v[t + 1] \in Nat /\ Prizes[t + 1] \in Nat /\ Whole * v[t + 1] <= A * Prizes[t + 1]
    BY <1>2, <1>3, <2>1, WholeType
  <2>4. Whole * g[t] <= A * h[t]
    BY <1>8
  <2>5. Whole * g[t + 1] <= A * h[t + 1]
    <3> DEFINE x == g[t]
               y == v[t + 1]
               p == h[t]
               q == Prizes[t + 1]
    <3>1. /\ x \in Nat /\ y \in Nat /\ p \in Nat /\ q \in Nat
          /\ Whole * x <= A * p /\ Whole * y <= A * q
      BY <2>2, <2>3, <2>4
    <3> HIDE DEF x, y, p, q, A
    <3>2. A * (p + q) = A * p + A * q
      BY <1>1, <3>1
    <3>3. A * p \in Nat /\ A * q \in Nat
      BY <1>1, <3>1
    <3>4. Whole * (x + y) <= A * (p + q)
      <4> DEFINE u == A * p
                 z == A * q
      <4> HIDE DEF u, z
      <4>1. u \in Nat /\ z \in Nat /\ Whole * x <= u /\ Whole * y <= z /\ A * (p + q) = u + z
        BY <3>1, <3>2, <3>3 DEF u, z
      <4> QED BY <3>1, <4>1 DEF Whole
    <3> QED BY <2>2, <3>4 DEF x, y, p, q
  <2> QED BY <2>1, <2>5
<1>9. N \in T
  <2>1. N \in 0..N
    BY <1>1
  <2> HIDE DEF T, N
  <2> QED BY <1>1, <1>7, <1>8, <2>1, UpTo
<1>10. h[N] = Whole
  BY <1>6, ConfigAssumption DEF ValidConfig
<1>11. g[N] \in Nat /\ Whole * g[N] <= A * Whole
  <2>1. N \in 0..N
    BY <1>1
  <2> QED BY <1>5, <1>9, <1>10, <2>1 DEF Adds
<1>12. g[N] <= A
  <2> HIDE DEF A
  <2> QED BY <1>1, <1>11 DEF Whole
<1> QED BY <1>5, <1>12 DEF TierTotal, v

\* What the proofs use of these sums.
LEMMA TierTotals ==
    /\ \A S \in SUBSET Tiers : TierTotal(S) \in Nat
    /\ \A S \in SUBSET Tiers : \A T \in SUBSET S :
          TierTotal(S) = TierTotal(T) + TierTotal(S \ T)
    /\ \A t \in Tiers : TierTotal({t}) = TierPrize(t)
    /\ TierTotal(Tiers) <= PrizeAmount
<1> DEFINE v == [t \in Tiers |-> TierPrize(t)]
<1>1. Gives(v) /\ \A t \in Tiers : v[t] = TierPrize(t)
  BY TierPrizeType DEF Gives
<1>2. \A S : TierTotal(S) = TierSum(v, S)
  BY DEF TierTotal
<1> HIDE DEF v
<1>3. \A S : TierSum(v, S) \in Nat
  <2> TAKE S
  <2>1. PICK g : Adds(g, v, S) /\ TierSum(v, S) = g[Len(Prizes)]
    BY <1>1, TierSumAdds
  <2>2. Len(Prizes) \in 0..Len(Prizes)
    BY TiersCount
  <2> QED BY <2>1, <2>2 DEF Adds
<1>4. \A S \in SUBSET Tiers : \A T \in SUBSET S :
        TierSum(v, S) = TierSum(v, T) + TierSum(v, S \ T)
  BY <1>1, TierSumSplits
<1>5. \A t \in Tiers : TierSum(v, {t}) = TierPrize(t)
  BY <1>1, TierSumOfOne
<1> QED BY <1>2, <1>3, <1>4, <1>5, TierTotalBound

-----------------------------------------------------------------------------
(* Statuses and time.                                                       *)

\* The transition table of raffle-shared, read backwards.
LEMMA TransitionTable ==
    ASSUME NEW s, NEW t, CanTransition(s, t)
    PROVE  /\ t = "Active" => s = "PendingPrize"
           /\ t \in {"Drawing", "Failed"} => s = "Active"
           /\ t = "Finalized" => s = "Drawing"
           /\ t = "Claimed" => s = "Finalized"
           /\ t = "Cancelled" => s \in {"Active", "Drawing"}
  BY DEF CanTransition, AllowedTransitions

LEMMA LedgerType ==
    ASSUME now \in 0..MaxTime
    PROVE  Ledger \in Nat
  BY TimeAssumption DEF Ledger

-----------------------------------------------------------------------------
(* Type correctness needs the ticket records to be complete while they are  *)
(* drawn from.                                                               *)

TypeInv == TypeOK /\ TicketsStored

LEMMA TypeInit == Init => TypeInv
<1> SUFFICES ASSUME Init PROVE TypeInv
  OBVIOUS
<1>1. SaleType /\ TicketsStored
  BY TicketAssumption DEF Init, SaleType, TicketsStored
<1>2. DrawType
  BY SourceAssumption DEF Init, DrawType, Statuses
<1>3. MoneyType /\ ClockType
  BY MoneyAssumption, TimeAssumption DEF Init, MoneyType, ClockType
<1>4. FlagType
  BY DEF Init, FlagType
<1>5. PaidType
  BY DEF Init, PaidType
<1> QED BY <1>1, <1>2, <1>3, <1>4, <1>5 DEF TypeInv, TypeOK

LEMMA TypeDeposit == TypeInv /\ DepositPrize => TypeInv'
<1> SUFFICES ASSUME TypeInv, DepositPrize PROVE TypeInv'
  OBVIOUS
<1> USE DEF TypeInv, TypeOK, DepositPrize
<1>1. status = "PendingPrize"
  BY TransitionTable
<1>2. SaleType' /\ TicketsStored'
  BY <1>1 DEF SaleType, TicketsStored, saleVars
<1>3. DrawType'
  BY DEF DrawType, Statuses, resultVars, drawVars
<1>4. MoneyType'
  BY MoneyAssumption DEF MoneyType
<1>5. FlagType'
  BY DEF FlagType, drawVars, pauseVars
<1>6. ClockType' /\ PaidType'
  BY DEF ClockType, PaidType, paidVars
<1> QED BY <1>2, <1>3, <1>4, <1>5, <1>6

LEMMA TypeSell ==
    ASSUME TypeInv, NEW payer \in Buyers, NEW owner \in Buyers,
           NEW q \in 1..MaxPerTx, NEW price \in Int, Sell(payer, owner, q, price)
    PROVE  TypeInv'
<1>p. price \in Nat
  BY DEF Sell
<1> DEFINE new == [i \in 1..q |-> [owner |-> owner, payer |-> payer]]
<1>q. q \in Nat /\ MaxTickets \in Nat
  BY TicketAssumption
<1>1. new \in Seq(Ticket) /\ Len(new) = q
  BY <1>q DEF Ticket
<1>2. tickets' \in Seq(Ticket) /\ Len(tickets') = Len(tickets) + q
  <2> HIDE DEF new
  <2>1. tickets' = tickets \o new
    BY DEF Sell, new
  <2>2. tickets \in Seq(Ticket)
    BY DEF TypeInv, TypeOK, SaleType
  <2> QED BY <1>1, <2>1, <2>2, ConcatProperties
<1>3. /\ ProtocolFee(price) \in Nat
      /\ ToTreasury(ProtocolFee(price)) \in Nat
      /\ ToTreasury(ProtocolFee(price)) <= price
  BY <1>p, FeeBound, TreasuryBound DEF TypeInv, TypeOK, MoneyType
<1>4. MoneyType'
  BY <1>p, <1>3 DEF Sell, TypeInv, TypeOK, MoneyType
<1>5. /\ ticketsSold' \in 0..MaxTickets
      /\ ticketsSold <= ticketsSold'
      /\ Len(tickets') = ticketsSold'
  <2>1. status = "Active" /\ ticketsSold' = ticketsSold + q /\ ticketsSold + q <= MaxTickets
    BY DEF Sell, CanBuy
  <2>2. ticketsSold \in Nat
    BY <1>q DEF TypeInv, TypeOK, SaleType
  <2>3. Len(tickets) = ticketsSold
    BY <2>1 DEF TypeInv, TicketsStored
  <2> QED BY <1>2, <1>q, <2>1, <2>2, <2>3
<1>6. ticketCount' \in [Buyers -> Nat]
  BY <1>q DEF Sell, Credit, TypeInv, TypeOK, SaleType
<1>7. SaleType'
  <2>1. ticketsSold \in Nat /\ ticketsSold' \in Nat
    BY <1>5, <1>q DEF TypeInv, TypeOK, SaleType
  <2>2. refunded' \subseteq 1..ticketsSold /\ commits' \subseteq 1..ticketsSold
    BY DEF Sell, TypeInv, TypeOK, SaleType
  <2>3. 1..ticketsSold \subseteq 1..ticketsSold'
    BY <1>5, <2>1
  <2> QED BY <1>2, <1>5, <1>6, <2>1, <2>2, <2>3 DEF SaleType
<1>8. request' \in Nat \cup {None} /\ asked' \subseteq Oracles \cup {NoOracle}
  BY LedgerType
     DEF Sell, AfterSale, RequestRandomness, TypeInv, TypeOK, DrawType, ClockType
<1>9. status' \in Statuses
  BY DEF Sell, AfterSale, TransitionToDrawing, TypeInv, TypeOK, DrawType, Statuses
<1>10. DrawType'
  BY <1>8, <1>9 DEF Sell, TypeInv, TypeOK, DrawType, resultVars
<1>11. FlagType'
  BY DEF Sell, AfterSale, TransitionToDrawing, TypeInv, TypeOK, FlagType, pauseVars
<1>12. ClockType' /\ PaidType'
  BY DEF Sell, TypeInv, TypeOK, ClockType, PaidType, paidVars
<1>13. TicketsStored'
  BY <1>5 DEF TicketsStored
<1> QED BY <1>4, <1>7, <1>10, <1>11, <1>12, <1>13 DEF TypeInv, TypeOK


\* An action that leaves a group of variables alone keeps its types.
LEMMA TypeFrame ==
    ASSUME TypeInv
    PROVE  /\ UNCHANGED <<saleVars, refunded, commits>> => SaleType'
           /\ UNCHANGED <<status, resultVars, drawVars, oracle>> => DrawType'
           /\ UNCHANGED <<moneyVars, feeBp>> => MoneyType'
           /\ UNCHANGED <<prizeDeposited, drawingLock, pauseVars>> => FlagType'
           /\ UNCHANGED <<pendingAdminCancel, now>> => ClockType'
           /\ UNCHANGED paidVars => PaidType'
<1> USE DEF TypeInv, TypeOK
<1>1. UNCHANGED <<saleVars, refunded, commits>> => SaleType'
  BY DEF SaleType, saleVars
<1>2. UNCHANGED <<status, resultVars, drawVars, oracle>> => DrawType'
  BY DEF DrawType, resultVars, drawVars
<1>3. UNCHANGED <<moneyVars, feeBp>> => MoneyType'
  BY DEF MoneyType, moneyVars
<1>4. UNCHANGED <<prizeDeposited, drawingLock, pauseVars>> => FlagType'
  BY DEF FlagType, pauseVars
<1>5. UNCHANGED <<pendingAdminCancel, now>> => ClockType'
  BY DEF ClockType
<1>6. UNCHANGED paidVars => PaidType'
  BY DEF PaidType, paidVars
<1> QED BY <1>1, <1>2, <1>3, <1>4, <1>5, <1>6

\* The ticket records stay complete when neither they nor the count change and
\* the raffle does not come back from a settled status.
LEMMA StoredFrame ==
    ASSUME TypeInv, UNCHANGED saleVars,
           \/ status' = status
           \/ status' \in {"Cancelled", "Claimed", "Failed"}
           \/ status \notin {"Cancelled", "Claimed", "Failed"}
    PROVE  TicketsStored'
  BY DEF TypeInv, TicketsStored, saleVars

LEMMA TypeCommit ==
    ASSUME TypeInv, NEW i, SubmitCommit(i)
    PROVE  TypeInv'
<1> USE DEF SubmitCommit
<1>1. tickets \in Seq(Ticket) /\ Len(tickets) <= ticketsSold /\ ticketsSold \in Nat
  BY TicketAssumption DEF TypeInv, TypeOK, SaleType
<1>2. i \in 1..ticketsSold
  BY <1>1, LenProperties
<1>3. SaleType'
  BY <1>2 DEF TypeInv, TypeOK, SaleType, saleVars
<1>4. TicketsStored'
  BY StoredFrame
<1>5. DrawType' /\ MoneyType' /\ FlagType' /\ ClockType' /\ PaidType'
  BY TypeFrame DEF drawVars
<1> QED BY <1>3, <1>4, <1>5 DEF TypeInv, TypeOK

\* What a completed draw writes.
LEMMA TypeDoFinalize ==
    ASSUME TypeInv, NEW from, DoFinalize(from),
           status \notin {"Cancelled", "Claimed", "Failed"},
           UNCHANGED <<asked, oracle>>
    PROVE  DrawType' /\ drawingLock' \in BOOLEAN
<1>1. tickets \in Seq(Ticket) /\ ticketsSold \in 0..MaxTickets
  BY DEF TypeInv, TypeOK, SaleType
<1>2. Len(tickets) = ticketsSold
  BY DEF TypeInv, TicketsStored
<1>3. \A i \in 1..ticketsSold : tickets[i].owner \in Buyers /\ i \in 1..MaxTickets
  <2> TAKE i \in 1..ticketsSold
  <2>1. tickets[i] \in Ticket
    BY <1>1, <1>2, ElementOfSeq
  <2>2. MaxTickets \in Nat
    BY TicketAssumption
  <2> QED BY <1>1, <2>1, <2>2 DEF Ticket
<1>4. winners' \in [Tiers -> Winner]
  <2>1. PICK win \in Draws :
           winners' = [t \in Tiers |-> [address |-> tickets[win[t]].owner,
                                        ticket  |-> win[t],
                                        claimed |-> FALSE]]
    BY DEF DoFinalize
  <2>2. win \in [Tiers -> 1..ticketsSold]
    BY DEF Draws
  <2> QED BY <1>3, <2>1, <2>2 DEF Winner
<1>5. finalizedAt' \in Nat
  BY TimeAssumption DEF DoFinalize, TypeInv, TypeOK, ClockType
<1>6. status' \in Statuses /\ request' = None /\ quorumSubmitted' = {}
  BY DEF DoFinalize, ClearRequest, Statuses
<1>7. drawingLock' \in BOOLEAN
  BY DEF DoFinalize, ClearRequest
<1> QED BY <1>4, <1>5, <1>6, <1>7 DEF TypeInv, TypeOK, DrawType

LEMMA TypeFinalize ==
    ASSUME TypeInv, FinalizeRaffle
    PROVE  TypeInv'
<1>1. CASE FinalizeFailed
  <2> USE <1>1 DEF FinalizeFailed
  <2>1. SaleType' /\ MoneyType' /\ FlagType' /\ ClockType' /\ PaidType'
    BY TypeFrame DEF drawVars
  <2>2. DrawType'
    BY DEF TypeInv, TypeOK, DrawType, drawVars, resultVars, Statuses
  <2>3. TicketsStored'
    BY StoredFrame
  <2> QED BY <2>1, <2>2, <2>3 DEF TypeInv, TypeOK
<1>2. CASE FinalizeRequest
  <2> USE <1>2 DEF FinalizeRequest
  <2>1. SaleType' /\ MoneyType' /\ ClockType' /\ PaidType'
    BY TypeFrame
  <2>2. status = "Active"
    BY TransitionTable DEF TransitionToDrawing
  <2>3. Ledger \in Nat
    BY LedgerType DEF TypeInv, TypeOK, ClockType
  <2>4. request' \in Nat /\ asked' \subseteq Oracles \cup {NoOracle}
    BY <2>3 DEF RequestRandomness, TypeInv, TypeOK, DrawType
  <2>5. quorumSubmitted' \subseteq Oracles
    BY DEF TypeInv, TypeOK, DrawType
  <2>6. DrawType'
    BY <2>4, <2>5 DEF TransitionToDrawing, TypeInv, TypeOK, DrawType, resultVars, Statuses
  <2>7. FlagType'
    BY DEF TransitionToDrawing, TypeInv, TypeOK, FlagType, pauseVars
  <2>8. TicketsStored'
    BY <2>2, StoredFrame
  <2> QED BY <2>1, <2>6, <2>7, <2>8 DEF TypeInv, TypeOK
<1>3. CASE FinalizeDraw
  <2> USE <1>3 DEF FinalizeDraw
  <2>1. SaleType' /\ MoneyType' /\ ClockType' /\ PaidType'
    BY TypeFrame
  <2>2. status = "Active"
    BY TransitionTable
  <2>3. DrawType' /\ drawingLock' \in BOOLEAN
    BY <2>2, TypeDoFinalize
  <2>4. FlagType'
    BY <2>3 DEF TypeInv, TypeOK, FlagType, pauseVars
  <2>5. TicketsStored'
    BY <2>2, StoredFrame
  <2> QED BY <2>1, <2>3, <2>4, <2>5 DEF TypeInv, TypeOK
<1> QED BY <1>1, <1>2, <1>3 DEF FinalizeRaffle

LEMMA TypeAnswer ==
    ASSUME TypeInv, Answer
    PROVE  TypeInv'
<1>0. PICK o \in Oracles : ProvideRandomness(o) \/ ProvideQuorumRandomness(o)
  BY DEF Answer
<1>1. SaleType' /\ MoneyType' /\ ClockType' /\ PaidType'
  BY <1>0, TypeFrame DEF ProvideRandomness, ProvideQuorumRandomness
<1>2. UNCHANGED <<saleVars, prizeDeposited, pauseVars, asked, oracle>>
  BY <1>0 DEF ProvideRandomness, ProvideQuorumRandomness
<1>3. CASE DoFinalize(status)
  <2>1. status = "Drawing"
    BY <1>3, TransitionTable DEF DoFinalize
  <2>2. DrawType' /\ drawingLock' \in BOOLEAN
    BY <1>2, <1>3, <2>1, TypeDoFinalize
  <2>3. FlagType'
    BY <1>2, <2>2 DEF TypeInv, TypeOK, FlagType, pauseVars
  <2>4. TicketsStored'
    BY <1>2, <2>1, StoredFrame
  <2> QED BY <1>1, <2>2, <2>3, <2>4 DEF TypeInv, TypeOK
<1>4. CASE /\ quorumSubmitted' = quorumSubmitted \cup {o}
           /\ UNCHANGED <<status, resultVars, drawingLock, request>>
  <2>1. DrawType'
    BY <1>2, <1>4 DEF TypeInv, TypeOK, DrawType, resultVars
  <2>2. FlagType'
    BY <1>2, <1>4, TypeFrame
  <2>3. TicketsStored'
    BY <1>2, <1>4, StoredFrame
  <2> QED BY <1>1, <2>1, <2>2, <2>3 DEF TypeInv, TypeOK
<1> QED BY <1>0, <1>3, <1>4 DEF ProvideRandomness, ProvideQuorumRandomness


\* Marking tiers as claimed keeps the winner list and the history well formed.
LEMMA TypeMarkClaimed ==
    ASSUME TypeInv, NEW S, MarkClaimed(S),
           UNCHANGED <<finalizedAt, drawVars, oracle, ticketPaid, prizePaid>>
    PROVE  DrawType' /\ PaidType'
<1>1. winners' = << >> \/ winners' \in [Tiers -> Winner]
  <2>1. CASE winners = << >>
    BY <2>1 DEF MarkClaimed, Claimed
  <2>2. CASE winners \in [Tiers -> Winner]
    BY <2>2 DEF MarkClaimed, Claimed, Winner
  <2> QED BY <2>1, <2>2 DEF TypeInv, TypeOK, DrawType
<1>2. status' \in Statuses
  BY DEF MarkClaimed, TypeInv, TypeOK, DrawType, Statuses
<1>3. DrawType'
  BY <1>1, <1>2 DEF TypeInv, TypeOK, DrawType, drawVars
<1>4. PaidType'
  BY DEF MarkClaimed, TypeInv, TypeOK, PaidType
<1> QED BY <1>3, <1>4

LEMMA TypeClaim ==
    ASSUME TypeInv, NEW t \in Tiers, ClaimPrize(t)
    PROVE  TypeInv'
<1> USE DEF ClaimPrize
<1> DEFINE prize == TierPrize(t)
           fee == ClaimFee(prize)
<1>1. prize \in Nat /\ fee \in Nat /\ fee <= prize /\ ToTreasury(fee) \in 0..fee
  BY TierPrizeType, FeeBound, TreasuryBound DEF TypeInv, TypeOK, MoneyType
<1>2. /\ balance >= prize
      /\ balance' = balance - (prize - fee) - ToTreasury(fee)
      /\ accumulatedFees' = accumulatedFees + fee
      /\ feeBp' = feeBp
  OBVIOUS
<1> HIDE DEF fee, prize
<1>3. MoneyType'
  BY <1>1, <1>2 DEF TypeInv, TypeOK, MoneyType
<1>4. DrawType' /\ PaidType'
  BY TypeMarkClaimed
<1>5. SaleType' /\ FlagType' /\ ClockType'
  BY TypeFrame DEF drawVars
<1>6. TicketsStored'
  BY StoredFrame
<1> QED BY <1>3, <1>4, <1>5, <1>6 DEF TypeInv, TypeOK

LEMMA TypeSweep ==
    ASSUME TypeInv, NEW start, NEW limit, SweepUnclaimed(start, limit)
    PROVE  TypeInv'
<1> USE DEF SweepUnclaimed
<1> DEFINE page == SweepPage(start, limit)
<1>1. page \subseteq Tiers
  BY DEF SweepPage, Unclaimed, TypeInv, TypeOK, DrawType
<1>2. TierTotal(page) \in Nat
  BY <1>1, TierTotals
<1>3. balance >= TierTotal(page) /\ balance' = balance - TierTotal(page)
  OBVIOUS
<1>4. MoneyType'
  BY <1>2, <1>3 DEF TypeInv, TypeOK, MoneyType
<1>5. DrawType' /\ PaidType'
  BY TypeMarkClaimed
<1>6. SaleType' /\ FlagType' /\ ClockType'
  BY TypeFrame DEF drawVars
<1>7. TicketsStored'
  BY StoredFrame
<1> QED BY <1>4, <1>5, <1>6, <1>7 DEF TypeInv, TypeOK

LEMMA TypeReturnPrize ==
    ASSUME TypeInv, ReturnPrize,
           UNCHANGED <<accumulatedFees, feeBp, drawingLock, pauseVars,
                       ticketPaid, tierPaid>>
    PROVE  MoneyType' /\ FlagType' /\ PaidType'
<1>1. MoneyType'
  BY MoneyAssumption DEF ReturnPrize, TypeInv, TypeOK, MoneyType
<1>2. FlagType'
  BY DEF ReturnPrize, TypeInv, TypeOK, FlagType, pauseVars
<1>3. PaidType'
  BY DEF ReturnPrize, TypeInv, TypeOK, PaidType
<1> QED BY <1>1, <1>2, <1>3

LEMMA TypeRefundPrize ==
    ASSUME TypeInv, RefundPrize
    PROVE  TypeInv'
<1> USE DEF RefundPrize
<1>1. SaleType' /\ DrawType' /\ ClockType'
  BY TypeFrame
<1>2. MoneyType' /\ FlagType' /\ PaidType'
  BY TypeReturnPrize DEF drawVars
<1>3. TicketsStored'
  BY StoredFrame
<1> QED BY <1>1, <1>2, <1>3 DEF TypeInv, TypeOK

\* The price of a set of tickets.
LEMMA RefundAmount ==
    ASSUME NEW S \in SUBSET (1..MaxTickets)
    PROVE  /\ IsFiniteSet(S)
           /\ Cardinality(S) \in Nat
           /\ TicketPrice * Cardinality(S) \in Nat
<1>1. IsFiniteSet(1..MaxTickets)
  BY FS_Interval, TicketAssumption
<1>2. IsFiniteSet(S) /\ Cardinality(S) \in Nat
  BY <1>1, FS_Subset, FS_CardinalityType
<1> QED BY <1>2, MoneyAssumption

LEMMA TypePayRefunds ==
    ASSUME TypeInv, NEW S \in SUBSET DOMAIN tickets, NEW to,
           \A i \in S : to[i] \in Buyers,
           PayRefunds(S, to)
    PROVE  TypeInv'
<1> USE DEF PayRefunds
<1>1. tickets \in Seq(Ticket) /\ Len(tickets) <= ticketsSold
      /\ ticketsSold \in 0..MaxTickets /\ MaxTickets \in Nat
  BY TicketAssumption DEF TypeInv, TypeOK, SaleType
<1>2. S \subseteq 1..ticketsSold /\ S \subseteq 1..MaxTickets
  BY <1>1, LenProperties
<1>3. SaleType'
  BY <1>2 DEF TypeInv, TypeOK, SaleType, saleVars
<1>4. MoneyType'
  <2> DEFINE amount == TicketPrice * Cardinality(S)
  <2>1. amount \in Nat
    BY <1>2, RefundAmount
  <2>2. balance >= amount /\ balance' = balance - amount
    OBVIOUS
  <2> HIDE DEF amount
  <2> QED BY <2>1, <2>2 DEF TypeInv, TypeOK, MoneyType
<1>5. PaidType'
  <2>1. ticketPaid \in [1..MaxTickets -> Seq(Buyers)]
    BY DEF TypeInv, TypeOK, PaidType
  <2>2. ASSUME NEW i \in 1..MaxTickets
        PROVE  (IF i \in S THEN Append(ticketPaid[i], to[i]) ELSE ticketPaid[i]) \in Seq(Buyers)
    <3>1. ticketPaid[i] \in Seq(Buyers)
      BY <2>1
    <3> QED BY <3>1, AppendProperties
  <2>3. ticketPaid' \in [1..MaxTickets -> Seq(Buyers)]
    BY <2>2
  <2> QED BY <2>3 DEF TypeInv, TypeOK, PaidType
<1>6. DrawType' /\ FlagType' /\ ClockType'
  BY TypeFrame DEF drawVars
<1>7. TicketsStored'
  BY StoredFrame
<1> QED BY <1>3, <1>4, <1>5, <1>6, <1>7 DEF TypeInv, TypeOK

\* Owners and payers of stored tickets are buyers.
LEMMA HolderType ==
    ASSUME TypeInv, NEW i \in DOMAIN tickets
    PROVE  tickets[i].owner \in Buyers /\ tickets[i].payer \in Buyers
<1>1. tickets \in Seq(Ticket)
  BY DEF TypeInv, TypeOK, SaleType
<1>2. tickets[i] \in Ticket
  BY <1>1, LenProperties
<1> QED BY <1>2 DEF Ticket

LEMMA TypeRefunds ==
    ASSUME TypeInv,
           \/ \E i \in 1..MaxTickets : RefundTicket(i)
           \/ \E b \in Buyers, ids \in SUBSET (1..MaxTickets) : BatchRefundTickets(b, ids)
    PROVE  TypeInv'
<1>1. ASSUME NEW i \in 1..MaxTickets, RefundTicket(i)
      PROVE  TypeInv'
  <2> DEFINE to == [j \in {i} |-> tickets[j].owner]
  <2>1. {i} \subseteq DOMAIN tickets /\ PayRefunds({i}, to)
    BY <1>1 DEF RefundTicket
  <2>2. \A j \in {i} : to[j] \in Buyers
    BY <2>1, HolderType
  <2> HIDE DEF to
  <2> QED BY <2>1, <2>2, TypePayRefunds
<1>2. ASSUME NEW b \in Buyers, NEW ids \in SUBSET (1..MaxTickets), BatchRefundTickets(b, ids)
      PROVE  TypeInv'
  <2> DEFINE to == [j \in ids |-> tickets[j].payer]
             S == ids \ refunded
  <2>1. S \subseteq DOMAIN tickets /\ PayRefunds(S, to)
    BY <1>2 DEF BatchRefundTickets
  <2>2. \A j \in S : to[j] \in Buyers
    BY <2>1, HolderType
  <2> HIDE DEF to, S
  <2> QED BY <2>1, <2>2, TypePayRefunds
<1> QED BY <1>1, <1>2

LEMMA TypeSettle ==
    ASSUME TypeInv, Settle
    PROVE  TypeInv'
  BY TypeClaim, TypeSweep, TypeRefundPrize, TypeRefunds DEF Settle


\* Both cancellations, immediate and executed after the timelock.
LEMMA TypeCancel ==
    ASSUME TypeInv, CancelRaffle \/ ScheduleAdminCancel \/ ExecuteAdminCancel
    PROVE  TypeInv'
<1> USE DEF CancelRaffle, ScheduleAdminCancel, ExecuteAdminCancel
<1>1. SaleType' /\ MoneyType' /\ FlagType' /\ PaidType'
  BY TypeFrame DEF drawVars
<1>2. DrawType'
  BY DEF TypeInv, TypeOK, DrawType, drawVars, resultVars, Statuses
<1>3. ClockType'
  BY TimeAssumption DEF TypeInv, TypeOK, ClockType
<1>4. TicketsStored'
  BY StoredFrame
<1> QED BY <1>1, <1>2, <1>3, <1>4 DEF TypeInv, TypeOK

\* The settings of an admin: pause switches, fee and oracle.
LEMMA TypeSettings ==
    ASSUME TypeInv,
           \/ \E on \in BOOLEAN : PauseSwitch(on)
           \/ \E f \in FeeSettings : SetProtocolFeeBp(f)
           \/ \E o \in Oracles : UpdateOracleAddress(o)
    PROVE  TypeInv'
<1>1. ASSUME NEW on \in BOOLEAN, PauseSwitch(on)
      PROVE  TypeInv'
  <2> USE <1>1 DEF PauseSwitch
  <2>1. SaleType' /\ DrawType' /\ MoneyType' /\ ClockType' /\ PaidType'
    BY TypeFrame
  <2>2. FlagType'
    BY DEF SetPaused, SetSalesPaused, SetGlobalPaused, TypeInv, TypeOK,
           FlagType, drawVars
  <2>3. TicketsStored'
    BY StoredFrame
  <2> QED BY <2>1, <2>2, <2>3 DEF TypeInv, TypeOK
<1>2. ASSUME NEW f \in FeeSettings, SetProtocolFeeBp(f)
      PROVE  TypeInv'
  <2> USE <1>2 DEF SetProtocolFeeBp
  <2>1. SaleType' /\ DrawType' /\ FlagType' /\ ClockType' /\ PaidType'
    BY TypeFrame DEF drawVars
  <2>2. MoneyType'
    BY MoneyAssumption, WholeType DEF TypeInv, TypeOK, MoneyType, moneyVars
  <2>3. TicketsStored'
    BY StoredFrame
  <2> QED BY <2>1, <2>2, <2>3 DEF TypeInv, TypeOK
<1>3. ASSUME NEW o \in Oracles, UpdateOracleAddress(o)
      PROVE  TypeInv'
  <2> USE <1>3 DEF UpdateOracleAddress
  <2>1. SaleType' /\ MoneyType' /\ FlagType' /\ ClockType' /\ PaidType'
    BY TypeFrame DEF drawVars
  <2>2. DrawType'
    BY DEF TypeInv, TypeOK, DrawType, drawVars, resultVars
  <2>3. TicketsStored'
    BY StoredFrame
  <2> QED BY <2>1, <2>2, <2>3 DEF TypeInv, TypeOK
<1> QED BY <1>1, <1>2, <1>3

\* What the storage says is owed.
LEMMA EntitlementType ==
    ASSUME TypeInv
    PROVE  TokenEntitlement \in Nat
<1>1. Unrefunded \in SUBSET (1..MaxTickets)
  BY TicketAssumption DEF Unrefunded, TypeInv, TypeOK, SaleType
<1>2. OutstandingTicketRefunds \in Nat
  BY <1>1, RefundAmount DEF OutstandingTicketRefunds
<1>3. Unclaimed \in SUBSET Tiers
  BY DEF Unclaimed, TypeInv, TypeOK, DrawType
<1>4. OutstandingPrize \in Nat
  BY <1>3, TierTotals, MoneyAssumption DEF OutstandingPrize
<1>5. accumulatedFees \in Nat
  BY DEF TypeInv, TypeOK, MoneyType
<1> QED BY <1>2, <1>4, <1>5 DEF TokenEntitlement

LEMMA TypeTransfer ==
    ASSUME TypeInv, NEW amount \in Int, balance - amount \in Nat, TakeOut(amount)
    PROVE  TypeInv'
<1> USE DEF TakeOut
<1>1. SaleType' /\ DrawType' /\ FlagType' /\ ClockType' /\ PaidType'
  BY TypeFrame DEF drawVars
<1>2. MoneyType'
  BY DEF TypeInv, TypeOK, MoneyType
<1>3. TicketsStored'
  BY StoredFrame
<1> QED BY <1>1, <1>2, <1>3 DEF TypeInv, TypeOK

\* Withdrawal of fees, rescue, dust and donations.
LEMMA TypeFunds ==
    ASSUME TypeInv,
           \/ \E a \in Amounts : WithdrawFees(a) \/ RescueTokens(a) \/ Donate(a)
           \/ SweepDust
    PROVE  TypeInv'
<1>1. balance \in Nat /\ accumulatedFees \in Nat /\ TokenEntitlement \in Nat
  BY EntitlementType DEF TypeInv, TypeOK, MoneyType
<1>2. Amounts \subseteq Nat
  BY MoneyAssumption
<1>3. ASSUME NEW a \in Amounts, WithdrawFees(a)
      PROVE  TypeInv'
  <2> USE <1>3 DEF WithdrawFees
  <2>1. SaleType' /\ DrawType' /\ FlagType' /\ ClockType' /\ PaidType'
    BY TypeFrame DEF drawVars
  <2>2. MoneyType'
    BY <1>1, <1>2 DEF TypeInv, TypeOK, MoneyType
  <2>3. TicketsStored'
    BY StoredFrame
  <2> QED BY <2>1, <2>2, <2>3 DEF TypeInv, TypeOK
<1>4. ASSUME NEW a \in Amounts, RescueTokens(a)
      PROVE  TypeInv'
  <2>1. balance - a \in Nat /\ a \in Int /\ TakeOut(a)
    BY <1>1, <1>2, <1>4 DEF RescueTokens
  <2> QED BY <2>1, TypeTransfer
<1>5. ASSUME NEW a \in Amounts, Donate(a)
      PROVE  TypeInv'
  <2>1. balance - (-a) \in Nat /\ -a \in Int /\ TakeOut(-a)
    BY <1>1, <1>2, <1>5 DEF Donate
  <2> QED BY <2>1, TypeTransfer
<1>6. ASSUME SweepDust
      PROVE  TypeInv'
  <2>1. TakeOut(balance - TokenEntitlement)
    BY <1>6 DEF SweepDust
  <2>2. balance - TokenEntitlement \in Int
    BY <1>1
  <2>3. balance - (balance - TokenEntitlement) \in Nat
    BY <1>1
  <2> QED BY <2>1, <2>2, <2>3, TypeTransfer
<1> QED BY <1>3, <1>4, <1>5, <1>6

LEMMA TypeWipe ==
    ASSUME TypeInv, WipeStorage
    PROVE  TypeInv'
<1> USE DEF WipeStorage
<1>1. SaleType'
  BY TicketAssumption DEF TypeInv, TypeOK, SaleType
<1>2. DrawType'
  BY DEF TypeInv, TypeOK, DrawType, resultVars
<1>3. MoneyType' /\ ClockType'
  BY DEF TypeInv, TypeOK, MoneyType, ClockType
<1>4. FlagType'
  BY DEF TypeInv, TypeOK, FlagType
<1>5. PaidType'
  BY TypeFrame
<1>6. TicketsStored'
  BY DEF TicketsStored
<1> QED BY <1>1, <1>2, <1>3, <1>4, <1>5, <1>6 DEF TypeInv, TypeOK

LEMMA TypeEmergency ==
    ASSUME TypeInv, EmergencyWithdraw
    PROVE  TypeInv'
<1> USE DEF EmergencyWithdraw
<1>1. SaleType' /\ ClockType'
  BY TypeFrame
<1>2. MoneyType' /\ FlagType' /\ PaidType'
  BY TypeReturnPrize DEF drawVars
<1>3. DrawType'
  BY DEF TypeInv, TypeOK, DrawType, drawVars, resultVars, Statuses
<1>4. TicketsStored'
  BY StoredFrame
<1> QED BY <1>1, <1>2, <1>3, <1>4 DEF TypeInv, TypeOK

LEMMA TypeTick ==
    ASSUME TypeInv, Tick
    PROVE  TypeInv'
<1> USE DEF Tick
<1>1. SaleType' /\ DrawType' /\ MoneyType' /\ FlagType' /\ PaidType'
  BY TypeFrame DEF drawVars
<1>2. ClockType'
  BY TimeAssumption DEF TypeInv, TypeOK, ClockType
<1>3. TicketsStored'
  BY StoredFrame
<1> QED BY <1>1, <1>2, <1>3 DEF TypeInv, TypeOK

LEMMA TypePurchase ==
    ASSUME TypeInv, Purchase
    PROVE  TypeInv'
<1>0. ticketsSold \in Nat
  BY TicketAssumption DEF TypeInv, TypeOK, SaleType
<1>1. PICK b \in Buyers, q \in 1..MaxPerTx :
         BuyTickets(b, q) \/ \E r \in Buyers \ {b} : BuyTicketsFor(b, r, q)
  BY DEF Purchase
<1>2. TicketPrice * q \in Int /\ NetToPay(q) \in Int
  BY <1>0, PriceType
<1>3. CASE BuyTickets(b, q)
  BY <1>2, <1>3, TypeSell DEF BuyTickets
<1>4. ASSUME NEW r \in Buyers \ {b}, BuyTicketsFor(b, r, q)
      PROVE  TypeInv'
  BY <1>2, <1>4, TypeSell DEF BuyTicketsFor
<1> QED BY <1>1, <1>3, <1>4

LEMMA TypeNext == TypeInv /\ [Next]_vars => TypeInv'
<1> SUFFICES ASSUME TypeInv, [Next]_vars PROVE TypeInv'
  OBVIOUS
<1>1. CASE DepositPrize
  BY <1>1, TypeDeposit
<1>2. CASE Purchase
  BY <1>2, TypePurchase
<1>3. CASE \E i \in 1..MaxTickets : SubmitCommit(i)
  BY <1>3, TypeCommit
<1>4. CASE FinalizeRaffle
  BY <1>4, TypeFinalize
<1>5. CASE Answer
  BY <1>5, TypeAnswer
<1>6. CASE Settle
  BY <1>6, TypeSettle
<1>7. CASE Administer
  BY <1>7, TypeCancel, TypeSettings, TypeFunds, TypeWipe, TypeEmergency DEF Administer
<1>8. CASE Tick
  BY <1>8, TypeTick
<1>9. CASE UNCHANGED vars
  <2>1. SaleType' /\ DrawType' /\ MoneyType' /\ FlagType' /\ ClockType' /\ PaidType'
    BY <1>9, TypeFrame
       DEF vars, saleVars, resultVars, drawVars, moneyVars, pauseVars, paidVars
  <2>2. TicketsStored'
    BY <1>9, StoredFrame DEF vars, saleVars
  <2> QED BY <2>1, <2>2 DEF TypeInv, TypeOK
<1> QED BY <1>1, <1>2, <1>3, <1>4, <1>5, <1>6, <1>7, <1>8, <1>9 DEF Next

\* Every reachable state is well typed, whatever the raffle's configuration: in
\* particular no purchase oversells the supply, no amount paid out exceeds the
\* balance, and every draw finds the ticket records it indexes.
THEOREM TypeCorrect == Spec => [](TypeOK /\ TicketsStored)
<1>1. TypeInv => TypeOK /\ TicketsStored
  BY DEF TypeInv
<1> QED BY <1>1, TypeInit, TypeNext, PTL DEF Spec

-----------------------------------------------------------------------------
(* The draw.                                                                *)

DrawInv == TypeInv /\ DrawStateAgrees

LEMMA LaterStillBound ==
    ASSUME NEW a \in Int, NEW b \in Int, NEW c \in Int, NEW r \in Int,
           b <= c, r <= a + b
    PROVE  r <= a + c
  OBVIOUS

\* Most actions leave the keys of the draw alone.
LEMMA DrawFrame ==
    ASSUME DrawInv,
           UNCHANGED <<resultVars, drawingLock, request>>,
           now' \in 0..MaxTime, now <= now',
           \/ status' = status
           \/ status \in {"Active", "Drawing"} /\ status' = "Cancelled"
           \/ status = "Active" /\ status' = "Failed"
           \/ status = "PendingPrize" /\ status' = "Active"
    PROVE  DrawStateAgrees'
<1>1. /\ (status = "Drawing" => drawingLock)'
      /\ (status = "Drawing" /\ Source = "External" => request # None)'
      /\ (drawingLock => status \in {"Drawing", "Cancelled"})'
  BY DEF DrawInv, DrawStateAgrees
<1>2. now \in Int /\ now' \in Int /\ StartLedger \in Int /\ now <= now'
  BY TimeAssumption DEF DrawInv, TypeInv, TypeOK, ClockType
<1>3. (request # None => drawingLock /\ request <= Ledger)'
  <2>1. request' = request /\ drawingLock' = drawingLock
    OBVIOUS
  <2>2. CASE request = None
    BY <2>1, <2>2
  <2>3. CASE request # None
    <3>1. drawingLock /\ request <= StartLedger + now
      BY <2>3 DEF DrawInv, DrawStateAgrees, Ledger
    <3>2. request \in Int
      BY <2>3 DEF DrawInv, TypeInv, TypeOK, DrawType
    <3>4. request <= StartLedger + now'
      BY <1>2, <3>1, <3>2, LaterStillBound
    <3> QED BY <2>1, <3>1, <3>4 DEF Ledger
  <2> QED BY <2>2, <2>3
<1>4. ((winners # << >>) <=> (status \in {"Finalized", "Claimed"}))'
  BY DEF DrawInv, DrawStateAgrees, resultVars
<1>5. ((finalizedAt # None) <=> (winners # << >>))'
  BY DEF DrawInv, DrawStateAgrees, resultVars
<1> QED BY <1>1, <1>3, <1>4, <1>5 DEF DrawStateAgrees

LEMMA TiersNonEmpty ==
    ASSUME NEW f, DOMAIN f = Tiers
    PROVE  f # << >>
<1>1. 1 \in Tiers
  <2>1. Len(Prizes) \in Nat /\ Len(Prizes) > 0
    BY MoneyAssumption, LenProperties
  <2> QED BY <2>1 DEF Tiers
<1>2. DOMAIN << >> = {}
  OBVIOUS
<1> QED BY <1>1, <1>2

\* A draw begins with the lock taken and, where oracles answer, a request.
LEMMA DrawBegins ==
    ASSUME DrawInv, TransitionToDrawing, UNCHANGED <<resultVars, now>>,
           (Source # "External" /\ request' = request) \/ (request' = Ledger)
    PROVE  DrawStateAgrees'
<1>1. status = "Active" /\ status' = "Drawing" /\ drawingLock'
  BY TransitionTable DEF TransitionToDrawing
<1>2. request = None
  BY <1>1 DEF DrawInv, DrawStateAgrees, TransitionToDrawing
<1>3. Ledger \in Nat /\ Ledger' = Ledger
  BY LedgerType DEF DrawInv, TypeInv, TypeOK, ClockType, Ledger
<1>4. (request # None => drawingLock /\ request <= Ledger)'
  BY <1>1, <1>2, <1>3
<1>6. (status = "Drawing" /\ Source = "External" => request # None)'
  BY <1>3 DEF None
<1>5. winners = << >> /\ finalizedAt = None
  BY <1>1 DEF DrawInv, DrawStateAgrees
<1> QED BY <1>1, <1>4, <1>5, <1>6 DEF DrawStateAgrees, resultVars

LEMMA DrawEnds ==
    ASSUME DrawInv, NEW from, DoFinalize(from)
    PROVE  DrawStateAgrees'
<1>1. status' = "Finalized" /\ drawingLock' = FALSE /\ request' = None
  BY DEF DoFinalize, ClearRequest
<1>2. winners' # << >>
  <2>1. DOMAIN winners' = Tiers
    BY DEF DoFinalize
  <2> QED BY <2>1, TiersNonEmpty
<1>3. finalizedAt' \in Nat
  BY TimeAssumption DEF DoFinalize, DrawInv, TypeInv, TypeOK, ClockType
<1>4. finalizedAt' # None
  BY <1>3 DEF None
<1> QED BY <1>1, <1>2, <1>4 DEF DrawStateAgrees

\* Marking claims keeps the winner list non-empty.
LEMMA DrawClaimed ==
    ASSUME DrawInv, NEW S, status = "Finalized", MarkClaimed(S),
           UNCHANGED <<finalizedAt, drawVars, now>>
    PROVE  DrawStateAgrees'
<1>1. status' \in {"Finalized", "Claimed"}
  BY DEF MarkClaimed
<1>2. winners # << >> /\ finalizedAt # None /\ ~drawingLock /\ request = None
  BY DEF DrawInv, DrawStateAgrees
<1>3. DOMAIN winners = Tiers
  BY <1>2 DEF DrawInv, TypeInv, TypeOK, DrawType
<1>4. winners' # << >>
  <2>1. DOMAIN winners' = Tiers
    BY <1>3 DEF MarkClaimed, Claimed
  <2> QED BY <2>1, TiersNonEmpty
<1> QED BY <1>1, <1>2, <1>4 DEF DrawStateAgrees, drawVars

LEMMA DrawSell ==
    ASSUME DrawInv, NEW payer, NEW owner, NEW q, NEW price,
           Sell(payer, owner, q, price)
    PROVE  DrawStateAgrees'
<1>1. UNCHANGED <<resultVars, now>>
  BY DEF Sell
<1>2. CASE TransitionToDrawing
  <2>1. status # status'
    BY <1>2 DEF TransitionToDrawing
  <2>2. (Source # "External" /\ request' = request) \/ (request' = Ledger)
    BY <2>1 DEF Sell, AfterSale, RequestRandomness
  <2> QED BY <1>1, <1>2, <2>2, DrawBegins
<1>3. CASE UNCHANGED <<status, drawingLock, request, asked>>
  <2>1. now' \in 0..MaxTime /\ now <= now'
    BY <1>1, TimeAssumption DEF DrawInv, TypeInv, TypeOK, ClockType
  <2> QED BY <1>1, <1>3, <2>1, DrawFrame
<1> QED BY <1>2, <1>3 DEF Sell, AfterSale

LEMMA DrawFinalize ==
    ASSUME DrawInv, FinalizeRaffle
    PROVE  DrawStateAgrees'
<1>0. now \in 0..MaxTime /\ now <= now
  BY TimeAssumption DEF DrawInv, TypeInv, TypeOK, ClockType
<1>1. CASE FinalizeFailed
  <2>1. status = "Active" /\ status' = "Failed"
    BY <1>1, TransitionTable DEF FinalizeFailed
  <2>2. UNCHANGED <<resultVars, drawingLock, request, now>>
    BY <1>1 DEF FinalizeFailed, drawVars
  <2> QED BY <1>0, <2>1, <2>2, DrawFrame
<1>2. CASE FinalizeRequest
  BY <1>2, DrawBegins DEF FinalizeRequest, RequestRandomness
<1>3. CASE FinalizeDraw
  BY <1>3, DrawEnds DEF FinalizeDraw
<1> QED BY <1>1, <1>2, <1>3 DEF FinalizeRaffle

LEMMA DrawAnswer ==
    ASSUME DrawInv, Answer
    PROVE  DrawStateAgrees'
<1>0. PICK o \in Oracles : ProvideRandomness(o) \/ ProvideQuorumRandomness(o)
  BY DEF Answer
<1>1. now' \in 0..MaxTime /\ now <= now'
  BY <1>0, TimeAssumption
     DEF ProvideRandomness, ProvideQuorumRandomness, DrawInv, TypeInv, TypeOK, ClockType
<1>2. CASE DoFinalize(status)
  BY <1>2, DrawEnds
<1>3. CASE UNCHANGED <<status, resultVars, drawingLock, request>>
  BY <1>1, <1>3, DrawFrame
<1> QED BY <1>0, <1>2, <1>3 DEF ProvideRandomness, ProvideQuorumRandomness

LEMMA DrawSettle ==
    ASSUME DrawInv, Settle
    PROVE  DrawStateAgrees'
<1>0. now \in 0..MaxTime /\ now <= now
  BY TimeAssumption DEF DrawInv, TypeInv, TypeOK, ClockType
<1>1. ASSUME NEW t \in Tiers, ClaimPrize(t)
      PROVE  DrawStateAgrees'
  BY <1>1, DrawClaimed DEF ClaimPrize
<1>2. ASSUME NEW start, NEW limit, SweepUnclaimed(start, limit)
      PROVE  DrawStateAgrees'
  <2>1. MarkClaimed(SweepPage(start, limit)) /\ status = "Finalized"
        /\ UNCHANGED <<finalizedAt, drawVars, now>>
    BY <1>2 DEF SweepUnclaimed
  <2> QED BY <2>1, DrawClaimed
<1>3. CASE RefundPrize
  <2>1. UNCHANGED <<status, resultVars, drawingLock, request, now>>
    BY <1>3 DEF RefundPrize, drawVars
  <2> QED BY <1>0, <2>1, DrawFrame
<1>4. ASSUME NEW S, NEW to, PayRefunds(S, to)
      PROVE  DrawStateAgrees'
  <2>1. UNCHANGED <<status, resultVars, drawingLock, request, now>>
    BY <1>4 DEF PayRefunds, drawVars
  <2> QED BY <1>0, <2>1, DrawFrame
<1>5. ASSUME NEW i, RefundTicket(i)
      PROVE  DrawStateAgrees'
  BY <1>4, <1>5 DEF RefundTicket
<1>6. ASSUME NEW b, NEW ids, BatchRefundTickets(b, ids)
      PROVE  DrawStateAgrees'
  BY <1>4, <1>6 DEF BatchRefundTickets
<1> QED BY <1>1, <1>2, <1>3, <1>5, <1>6 DEF Settle

LEMMA DrawAdminister ==
    ASSUME DrawInv, Administer
    PROVE  DrawStateAgrees'
<1>0. now \in 0..MaxTime /\ now <= now
  BY TimeAssumption DEF DrawInv, TypeInv, TypeOK, ClockType
<1>1. CASE CancelRaffle \/ ExecuteAdminCancel
  <2>1. status \in {"Active", "Drawing"} /\ status' = "Cancelled"
    BY <1>1, TransitionTable DEF CancelRaffle, ExecuteAdminCancel, CancelFrom
  <2>2. UNCHANGED <<resultVars, drawingLock, request, now>>
    BY <1>1 DEF CancelRaffle, ExecuteAdminCancel, drawVars
  <2> QED BY <1>0, <2>1, <2>2, DrawFrame
<1>2. CASE \/ ScheduleAdminCancel
           \/ \E on \in BOOLEAN : PauseSwitch(on)
           \/ \E f \in FeeSettings : SetProtocolFeeBp(f)
           \/ \E o \in Oracles : UpdateOracleAddress(o)
  <2>1. UNCHANGED <<status, resultVars, drawingLock, request, now>>
    BY <1>2 DEF ScheduleAdminCancel, PauseSwitch, SetProtocolFeeBp,
                UpdateOracleAddress, drawVars
  <2> QED BY <1>0, <2>1, DrawFrame
<1>3. CASE \/ \E a \in Amounts : WithdrawFees(a) \/ RescueTokens(a) \/ Donate(a)
           \/ SweepDust
  <2>1. UNCHANGED <<status, resultVars, drawingLock, request, now>>
    BY <1>3 DEF WithdrawFees, RescueTokens, Donate, SweepDust, TakeOut, drawVars
  <2> QED BY <1>0, <2>1, DrawFrame
<1>4. CASE WipeStorage
  BY <1>4 DEF WipeStorage, DrawInv, DrawStateAgrees, resultVars
<1>5. CASE EmergencyWithdraw
  <2>1. status = "Drawing" /\ status' = "Cancelled"
        /\ UNCHANGED <<resultVars, drawingLock, request, now>>
    BY <1>5 DEF EmergencyWithdraw, drawVars
  <2> QED BY <1>0, <2>1, DrawFrame
<1> QED BY <1>1, <1>2, <1>3, <1>4, <1>5 DEF Administer

LEMMA DrawNext == DrawInv /\ [Next]_vars => DrawInv'
<1> SUFFICES ASSUME DrawInv, [Next]_vars PROVE DrawInv'
  OBVIOUS
<1>0. TypeInv'
  BY TypeNext DEF DrawInv
<1>t. now \in 0..MaxTime /\ now \in Nat /\ MaxTime \in Nat
  BY TimeAssumption DEF DrawInv, TypeInv, TypeOK, ClockType
<1>n. now' \in 0..MaxTime
  BY <1>0 DEF TypeInv, TypeOK, ClockType
<1>1. CASE DepositPrize
  <2>1. status = "PendingPrize" /\ status' = "Active"
        /\ UNCHANGED <<resultVars, drawingLock, request, now>>
    BY <1>1, TransitionTable DEF DepositPrize, drawVars
  <2>2. DrawStateAgrees'
    BY <1>t, <2>1, DrawFrame
  <2> QED BY <1>0, <2>2 DEF DrawInv
<1>2. CASE Purchase
  BY <1>0, <1>2, DrawSell DEF Purchase, BuyTickets, BuyTicketsFor, DrawInv
<1>3. CASE \E i \in 1..MaxTickets : SubmitCommit(i)
  <2>1. UNCHANGED <<status, resultVars, drawingLock, request, now>>
    BY <1>3 DEF SubmitCommit, drawVars
  <2>2. DrawStateAgrees'
    BY <1>t, <2>1, DrawFrame
  <2> QED BY <1>0, <2>2 DEF DrawInv
<1>4. CASE FinalizeRaffle
  BY <1>0, <1>4, DrawFinalize DEF DrawInv
<1>5. CASE Answer
  BY <1>0, <1>5, DrawAnswer DEF DrawInv
<1>6. CASE Settle
  BY <1>0, <1>6, DrawSettle DEF DrawInv
<1>7. CASE Administer
  BY <1>0, <1>7, DrawAdminister DEF DrawInv
<1>8. CASE Tick
  <2>1. UNCHANGED <<status, resultVars, drawingLock, request>> /\ now <= now'
    BY <1>t, <1>8 DEF Tick, drawVars
  <2>2. DrawStateAgrees'
    BY <1>n, <2>1, DrawFrame
  <2> QED BY <1>0, <2>2 DEF DrawInv
<1>9. CASE UNCHANGED vars
  <2>1. UNCHANGED <<status, resultVars, drawingLock, request, now>>
    BY <1>9 DEF vars, resultVars
  <2>2. DrawStateAgrees'
    BY <1>t, <2>1, DrawFrame
  <2> QED BY <1>0, <2>2 DEF DrawInv
<1> QED BY <1>1, <1>2, <1>3, <1>4, <1>5, <1>6, <1>7, <1>8, <1>9 DEF Next

LEMMA DrawInit == Init => DrawInv
<1> SUFFICES ASSUME Init PROVE DrawInv
  OBVIOUS
<1>1. DrawStateAgrees
  BY DEF Init, DrawStateAgrees
<1> QED BY <1>1, TypeInit DEF DrawInv

\* The lock, the request, the winners and the finalization time agree with the
\* status in every reachable state, so the guards of finalize_raffle,
\* provide_randomness and provide_quorum_randomness never contradict each other.
THEOREM DrawKeysAgree == Spec => []DrawStateAgrees
<1>1. DrawInv => DrawStateAgrees
  BY DEF DrawInv
<1> QED BY <1>1, DrawInit, DrawNext, PTL DEF Spec

\* While a raffle is being drawn neither finalize_raffle nor trigger_randomness_fallback
\* gets past its checks, for any source, timeout or interleaving: both demand a free
\* lock in a status that implies the lock.
THEOREM OnlyOraclesFinishDraws == Spec => []OnlyOraclesFinish
<1>1. DrawStateAgrees => OnlyOraclesFinish
  BY DEF DrawStateAgrees, OnlyOraclesFinish, FinalizeReady, FallbackGuard
<1> QED BY <1>1, DrawKeysAgree, PTL

\* Only purchases, commitments and the wiping of a settled raffle touch what the
\* seed is drawn over.
LEMMA TicketsOnlyWhileActive ==
    ASSUME Next
    PROVE  \/ status = "Active" /\ status' # "Finalized"
           \/ status \in {"Cancelled", "Claimed", "Failed"} /\ status' = status
           \/ UNCHANGED <<tickets, ticketsSold, ticketCount, commits>>
<1>1. ASSUME NEW payer, NEW owner, NEW q, NEW price, Sell(payer, owner, q, price)
      PROVE  status = "Active" /\ status' # "Finalized"
  BY <1>1 DEF Sell, CanBuy, AfterSale, TransitionToDrawing
<1>2. ASSUME NEW i, SubmitCommit(i)
      PROVE  status = "Active" /\ status' # "Finalized"
  BY <1>2 DEF SubmitCommit, CommitWindow
<1>3. CASE DepositPrize \/ FinalizeRaffle \/ Answer \/ Tick
  BY <1>3 DEF DepositPrize, FinalizeRaffle, FinalizeFailed, FinalizeRequest,
              FinalizeDraw, Answer, ProvideRandomness, ProvideQuorumRandomness,
              Tick, saleVars
<1>4. CASE Settle
  BY <1>4 DEF Settle, ClaimPrize, SweepUnclaimed, RefundPrize, RefundTicket,
              BatchRefundTickets, PayRefunds, saleVars
<1>5. CASE Administer
  BY <1>5 DEF Administer, CancelRaffle, ScheduleAdminCancel, ExecuteAdminCancel,
              PauseSwitch, SetProtocolFeeBp, UpdateOracleAddress, WithdrawFees,
              RescueTokens, Donate, SweepDust, TakeOut, WipeStorage,
              EmergencyWithdraw, saleVars
<1> QED BY <1>1, <1>2, <1>3, <1>4, <1>5 DEF Next, Purchase, BuyTickets, BuyTicketsFor

\* No entrypoint, in any order with the others, changes the tickets or the
\* commitments of a raffle being drawn, or in the call that draws it: whoever
\* learns the seed first has nothing left to move.
THEOREM NoLastLookHolds == Spec => NoLastLook
<1>1. ASSUME [Next]_vars
      PROVE  [status = "Drawing" \/ status' = "Finalized" =>
                 UNCHANGED <<tickets, ticketsSold, ticketCount, commits>>]_vars
  BY <1>1, TicketsOnlyWhileActive
<1> QED BY <1>1, PTL DEF Spec, NoLastLook

\* Winners are written by a completed draw or by a claim.
LEMMA WinnersOnlyFromDraw ==
    ASSUME DrawInv, [Next]_vars, status \in {"Cancelled", "Failed", "Claimed"}
    PROVE  status' = status /\ UNCHANGED winners
<1> USE DEF resultVars
<1>s. status \notin {"PendingPrize", "Active", "Drawing", "Finalized"}
  OBVIOUS
<1>d. ASSUME NEW from, DoFinalize(from), from = status \/ status = "Active"
      PROVE  FALSE
  BY <1>s, <1>d, TransitionTable DEF DoFinalize
<1>1. CASE DepositPrize
  BY <1>1, <1>s, TransitionTable DEF DepositPrize
<1>2. CASE Purchase
  BY <1>2, <1>s DEF Purchase, BuyTickets, BuyTicketsFor, Sell, CanBuy
<1>3. CASE \E i \in 1..MaxTickets : SubmitCommit(i)
  BY <1>3 DEF SubmitCommit
<1>4. CASE FinalizeRaffle
  BY <1>4, <1>s DEF FinalizeRaffle, FinalizeFailed, FinalizeRequest, FinalizeDraw,
                    FinalizeReady
<1>5. CASE Answer
  BY <1>5, <1>d DEF Answer, ProvideRandomness, ProvideQuorumRandomness
<1>6. CASE Settle
  BY <1>6, <1>s DEF Settle, ClaimPrize, SweepUnclaimed, RefundPrize, RefundTicket,
                    BatchRefundTickets, PayRefunds
<1>7. CASE Administer
  <2>1. CASE CancelRaffle \/ ExecuteAdminCancel
    BY <2>1, <1>s, TransitionTable DEF CancelRaffle, ExecuteAdminCancel, CancelFrom
  <2>2. CASE EmergencyWithdraw
    BY <2>2, <1>s DEF EmergencyWithdraw
  <2>3. CASE ~(CancelRaffle \/ ExecuteAdminCancel \/ EmergencyWithdraw)
    BY <1>7, <2>3 DEF Administer, ScheduleAdminCancel, PauseSwitch,
          SetProtocolFeeBp, UpdateOracleAddress, WithdrawFees, RescueTokens,
          Donate, SweepDust, TakeOut, WipeStorage
  <2> QED BY <2>1, <2>2, <2>3
<1>8. CASE Tick \/ UNCHANGED vars
  BY <1>8 DEF Tick, vars
<1> QED BY <1>1, <1>2, <1>3, <1>4, <1>5, <1>6, <1>7, <1>8 DEF Next

\* A settled, cancelled or failed raffle never leaves that status and never gets
\* winners, whatever answers, seeds or finalizations still arrive.
THEOREM TerminalForeverHolds == Spec => TerminalForever
<1>1. ASSUME DrawInv, [Next]_vars
      PROVE  [(status \in {"Cancelled", "Failed", "Claimed"}) =>
                 status' = status /\ (winners = << >> => winners' = << >>)]_vars
  BY <1>1, WinnersOnlyFromDraw
<1> QED BY <1>1, DrawInit, DrawNext, PTL DEF Spec, TerminalForever

=============================================================================
