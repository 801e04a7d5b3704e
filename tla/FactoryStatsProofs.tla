------------------------- MODULE FactoryStatsProofs -------------------------
(***************************************************************************)
(* Proofs about FactoryStats, for any number of raffles, sales, partners   *)
(* and pages: the totals agree with the sales, the boards hold the best    *)
(* results, and a listing is complete.                                     *)
(***************************************************************************)
EXTENDS FactoryStats, FiniteSetTheorems, SequenceTheorems, WellFoundedInduction, TLAPS

LEMMA StatsConstants ==
    /\ Amounts \subseteq Nat /\ Limits \subseteq Nat
    /\ MaxAmount \in Nat /\ MaxRaffles \in Nat /\ MaxCalls \in Nat
    /\ LeaderboardCap \in Nat /\ LeaderboardCap >= 1
    /\ DefaultPageLimit \in Nat /\ DefaultPageLimit >= 1
    /\ MaxPageLimit \in Nat /\ MaxPageLimit >= 1
    /\ Results \subseteq [tickets : Nat, prize : Nat, price : Nat, maxTickets : Nat,
                          ebPct : 0..100, ebBp : 0..10000]
    /\ "all" \notin Creators /\ "partners" \notin Creators
  BY StatsAssumption

-----------------------------------------------------------------------------
(* Induction up to a bound, and functions defined by it.                    *)

LEMMA LeastOf ==
    ASSUME NEW T, T \subseteq Nat, T # {}
    PROVE  \E x \in T : \A y \in T : ~(y < x)
<1>1. PICK x \in T : \A y \in T : ~(<<y, x>> \in OpToRel(<, Nat))
  BY WFMin, NatLessThanWellFounded, Zenon
<1>2. \A y \in T : y < x => <<y, x>> \in OpToRel(<, Nat)
  BY Zenon DEF OpToRel
<1> QED BY <1>1, <1>2, Zenon

\* Induction for a property given as a set.
LEMMA UpTo ==
    ASSUME NEW N \in Nat, NEW T, 0 \in T,
           \A n \in 0..N : n \in T /\ n < N => n + 1 \in T
    PROVE  \A n \in 0..N : n \in T
<1> DEFINE W == {n \in 0..N : n \notin T}
<1> SUFFICES ASSUME W # {} PROVE FALSE
  OBVIOUS
<1>1. PICK x \in W : \A y \in W : ~(y < x)
  <2>1. W \subseteq Nat
    OBVIOUS
  <2> HIDE DEF W
  <2> QED BY <2>1, LeastOf
<1>2. x \in 0..N /\ x \notin T /\ x # 0
  BY <1>1
<1>3. x - 1 \in 0..N /\ x - 1 < x /\ x - 1 < N /\ (x - 1) + 1 = x
  BY <1>2
<1>4. x - 1 \in T
  BY <1>1, <1>3
<1> QED BY <1>2, <1>3, <1>4

Solvable(N, S, a, step) ==
    \E g \in [0..N -> S] : g[0] = a /\ \A n \in 1..N : g[n] = step[<<n, g[n - 1]>>]

\* A recursion over 0..N that stays within S has a solution.
LEMMA RecursionExists ==
    ASSUME NEW N \in Nat, NEW S, NEW a \in S, NEW step \in [(1..N) \X S -> S]
    PROVE  Solvable(N, S, a, step)
<1> DEFINE Solves(g, m) == g[0] = a /\ \A n \in 1..m : g[n] = step[<<n, g[n - 1]>>]
           T == {m \in 0..N : \E g \in [0..m -> S] : Solves(g, m)}
<1>1. 0 \in T
  <2> DEFINE g == [x \in 0..0 |-> a]
  <2>1. g \in [0..0 -> S] /\ g[0] = a
    OBVIOUS
  <2> HIDE DEF g
  <2> QED BY <2>1
<1>2. ASSUME NEW m \in 0..N, m \in T, m < N
      PROVE  m + 1 \in T
  <2>1. PICK g \in [0..m -> S] : Solves(g, m)
    BY <1>2
  <2> DEFINE v == step[<<m + 1, g[m]>>]
             h == [x \in 0..(m + 1) |-> IF x <= m THEN g[x] ELSE v]
  <2>2. m + 1 \in 1..N /\ g[m] \in S
    BY <1>2
  <2>3. v \in S
    BY <2>2
  <2> HIDE DEF v
  <2>4. h \in [0..(m + 1) -> S]
    BY <2>3
  <2>5. \A x \in 0..m : h[x] = g[x]
    OBVIOUS
  <2>6. h[m + 1] = v
    OBVIOUS
  <2> HIDE DEF h
  <2>7. \A n \in 1..(m + 1) : h[n] = step[<<n, h[n - 1]>>]
    <3> TAKE n \in 1..(m + 1)
    <3>1. CASE n <= m
      <4>1. n \in 1..m /\ n \in 0..m /\ n - 1 \in 0..m
        BY <3>1
      <4> QED BY <2>1, <2>5, <4>1
    <3>2. CASE n = m + 1
      <4>1. n - 1 = m /\ m \in 0..m
        BY <3>2
      <4> QED BY <2>5, <2>6, <3>2, <4>1 DEF v
    <3> QED BY <3>1, <3>2
  <2>8. h[0] = a
    BY <2>1, <2>5
  <2> QED BY <2>2, <2>4, <2>7, <2>8
<1> HIDE DEF T
<1>3. N \in T
  <2>1. N \in 0..N
    OBVIOUS
  <2> QED BY <1>1, <1>2, <2>1, UpTo
<1> QED BY <1>3 DEF T, Solvable

LEMMA MinOfTwo ==
    ASSUME NEW x \in Int, NEW y \in Int
    PROVE  Min({x, y}) = IF x <= y THEN x ELSE y
<1> DEFINE m == IF x <= y THEN x ELSE y
<1>1. m \in {x, y} /\ \A z \in {x, y} : m <= z
  OBVIOUS
<1>2. \A w \in {x, y} : (\A z \in {x, y} : w <= z) => w = m
  OBVIOUS
<1> HIDE DEF m
<1>3. Min({x, y}) \in {x, y} /\ \A z \in {x, y} : Min({x, y}) <= z
  BY <1>1 DEF Min
<1> QED BY <1>2, <1>3 DEF m

LEMMA SeqDomain ==
    ASSUME NEW E, NEW s \in Seq(E)
    PROVE  /\ DOMAIN s = 1..Len(s) /\ Len(s) \in Nat
           /\ \A i \in 1..Len(s) : s[i] \in E
  BY LenProperties, ElementOfSeq

LEMMA FunctionIsSeq ==
    ASSUME NEW S, NEW n \in Nat, NEW f \in [1..n -> S]
    PROVE  f \in Seq(S) /\ Len(f) = n
<1>1. f \in Seq(S)
  BY SeqDef
<1>2. DOMAIN f = 1..Len(f) /\ Len(f) \in Nat /\ DOMAIN f = 1..n
  BY <1>1, LenProperties
<1> QED BY <1>1, <1>2

-----------------------------------------------------------------------------
(* Sums.                                                                    *)

\* What the recursion of Total computes, step by step.
LEMMA TotalSteps ==
    ASSUME NEW v \in Seq(Nat)
    PROVE  \E g \in [0..Len(v) -> Nat] :
             /\ g[0] = 0
             /\ \A n \in 1..Len(v) : g[n] = g[n - 1] + v[n]
             /\ Total(v) = g[Len(v)]
<1> DEFINE N == Len(v)
           step == [x \in (1..N) \X Nat |-> x[2] + v[x[1]]]
           F(h) == [n \in 0..Len(v) |-> IF n = 0 THEN 0 ELSE h[n - 1] + v[n]]
<1>1. N \in Nat /\ \A i \in 1..N : v[i] \in Nat
  BY SeqDomain
<1>2. step \in [(1..N) \X Nat -> Nat]
  BY <1>1
<1>3. \A n \in 1..N, y \in Nat : step[<<n, y>>] = y + v[n]
  OBVIOUS
<1> HIDE DEF step
<1>4. PICK g \in [0..N -> Nat] : g[0] = 0 /\ \A n \in 1..N : g[n] = step[<<n, g[n - 1]>>]
  <2>1. 0 \in Nat
    OBVIOUS
  <2> HIDE DEF N
  <2>2. Solvable(N, Nat, 0, step)
    BY <1>1, <1>2, <2>1, RecursionExists
  <2> QED BY <2>2 DEF Solvable
<1>5. \A n \in 1..N : g[n] = g[n - 1] + v[n]
  <2> TAKE n \in 1..N
  <2>1. n - 1 \in 0..N
    BY <1>1
  <2>2. g[n - 1] \in Nat
    BY <2>1
  <2> QED BY <1>3, <1>4, <2>2
<1>6. g = F(g)
  BY <1>1, <1>4, <1>5
<1> DEFINE s == CHOOSE h : h = F(h)
<1>7. s = F(s)
  BY <1>6
<1>8. Total(v) = s[Len(v)]
  BY Zenon DEF Total
<1> HIDE DEF s
<1>9. \A n \in 0..N : s[n] = IF n = 0 THEN 0 ELSE s[n - 1] + v[n]
  BY <1>7
<1> DEFINE T == {n \in 0..N : s[n] \in Nat}
<1>10. \A n \in 0..N : n \in T
  <2>1. 0 \in T
    BY <1>1, <1>9
  <2>2. ASSUME NEW n \in 0..N, n \in T, n < N PROVE n + 1 \in T
    <3>1. n + 1 \in 0..N /\ n + 1 # 0 /\ (n + 1) - 1 = n /\ n + 1 \in 1..N
      BY <1>1, <2>2
    <3>2. s[n + 1] = s[n] + v[n + 1]
      BY <1>9, <3>1
    <3>3. s[n] \in Nat /\ v[n + 1] \in Nat
      BY <1>1, <2>2, <3>1
    <3> QED BY <3>1, <3>2, <3>3
  <2> HIDE DEF T
  <2> QED BY <1>1, <2>1, <2>2, UpTo
<1>11. s \in [0..N -> Nat]
  BY <1>7, <1>10
<1>12. s[0] = 0
  BY <1>1, <1>9
<1>13. \A n \in 1..N : s[n] = s[n - 1] + v[n]
  BY <1>1, <1>9
<1> HIDE DEF T
<1> QED BY <1>8, <1>11, <1>12, <1>13

IsSum(g, v, N) == g[0] = 0 /\ \A n \in 1..N : g[n] = g[n - 1] + v[n]

LEMMA SumsAgree ==
    ASSUME NEW N \in Nat, NEW v, NEW g, NEW h, IsSum(g, v, N), IsSum(h, v, N)
    PROVE  g[N] = h[N]
<1> DEFINE T == {n \in 0..N : g[n] = h[n]}
<1>1. 0 \in T
  BY DEF IsSum
<1>2. ASSUME NEW n \in 0..N, n \in T, n < N PROVE n + 1 \in T
  <2>1. n + 1 \in 1..N /\ (n + 1) - 1 = n /\ n + 1 \in 0..N
    BY <1>2
  <2>2. g[n + 1] = g[n] + v[n + 1] /\ h[n + 1] = h[n] + v[n + 1]
    BY <2>1 DEF IsSum
  <2> QED BY <1>2, <2>1, <2>2
<1> HIDE DEF T
<1>3. N \in T
  BY <1>1, <1>2, UpTo
<1> QED BY <1>3 DEF T

LEMMA TotalOfAppend ==
    ASSUME NEW v \in Seq(Nat), NEW x \in Nat
    PROVE  Total(Append(v, x)) = Total(v) + x
<1> DEFINE w == Append(v, x)
           N == Len(v)
<1>1. /\ w \in Seq(Nat) /\ Len(w) = N + 1 /\ N \in Nat
      /\ \A i \in 1..N : w[i] = v[i]
      /\ w[N + 1] = x
  BY AppendProperties, SeqDomain
<1> HIDE DEF w
<1>2. PICK g \in [0..N -> Nat] : /\ g[0] = 0
                                 /\ \A n \in 1..N : g[n] = g[n - 1] + v[n]
                                 /\ Total(v) = g[N]
  BY TotalSteps
<1>3. PICK h \in [0..(N + 1) -> Nat] : /\ h[0] = 0
                                       /\ \A n \in 1..(N + 1) : h[n] = h[n - 1] + w[n]
                                       /\ Total(w) = h[N + 1]
  <2>1. \E h \in [0..Len(w) -> Nat] : /\ h[0] = 0
                                      /\ \A n \in 1..Len(w) : h[n] = h[n - 1] + w[n]
                                      /\ Total(w) = h[Len(w)]
    BY <1>1, TotalSteps
  <2> QED BY <1>1, <2>1
<1>4. \A n \in 1..N : h[n] = h[n - 1] + v[n]
  BY <1>1, <1>3
<1>5. IsSum(g, v, N) /\ IsSum(h, v, N)
  BY <1>2, <1>3, <1>4 DEF IsSum
<1>6. g[N] = h[N]
  BY <1>1, <1>5, SumsAgree
<1>7. N + 1 \in 1..(N + 1) /\ (N + 1) - 1 = N
  BY <1>1
<1>8. h[N + 1] = h[N] + x
  BY <1>1, <1>3, <1>7
<1> QED BY <1>2, <1>3, <1>6, <1>8 DEF w

LEMMA TotalOfNone == Total(<< >>) = 0
<1> DEFINE v == << >>
<1>1. v \in Seq(Nat) /\ Len(v) = 0
  BY EmptySeq
<1> HIDE DEF v
<1>2. Total(v) = 0
  BY <1>1, TotalSteps
<1> QED BY <1>2 DEF v

-----------------------------------------------------------------------------
(* Sales.                                                                   *)

Raffles == [creator : Creators, asset : Assets]

Sold == [raffle : Nat, owner : Buyers, amount : Nat]

\* Sales are of registered raffles, and the totals are theirs.
SalesInv ==
    /\ registry \in Seq(Raffles) /\ sales \in Seq(Sold)
    /\ totalVolume \in [Assets -> Nat]
    /\ \A i \in 1..Len(sales) : sales[i].raffle \in 1..Len(registry)
    /\ \A a \in Assets : totalVolume[a] = Total(Charges(a))
    /\ participants = {sales[i].owner : i \in DOMAIN sales}
    /\ IsFiniteSet(participants) /\ participantCount = Cardinality(participants)

LEMMA ChargesType ==
    ASSUME SalesInv, NEW a
    PROVE  /\ Charges(a) \in Seq(Nat) /\ Len(Charges(a)) = Len(sales)
           /\ \A i \in 1..Len(sales) :
                Charges(a)[i] = IF registry[sales[i].raffle].asset = a THEN sales[i].amount ELSE 0
<1>1. DOMAIN sales = 1..Len(sales) /\ Len(sales) \in Nat
  BY SeqDomain DEF SalesInv
<1>2. \A i \in 1..Len(sales) : sales[i].amount \in Nat
  <2>1. \A i \in 1..Len(sales) : sales[i] \in Sold
    BY SeqDomain DEF SalesInv
  <2> QED BY <2>1 DEF Sold
<1>3. Charges(a) \in [1..Len(sales) -> Nat]
  BY <1>1, <1>2 DEF Charges
<1>4. \A i \in 1..Len(sales) :
        Charges(a)[i] = IF registry[sales[i].raffle].asset = a THEN sales[i].amount ELSE 0
  BY <1>1 DEF Charges
<1> QED BY <1>1, <1>3, <1>4, FunctionIsSeq

LEMMA SalesInit == Init => SalesInv
<1> SUFFICES ASSUME Init PROVE SalesInv
  OBVIOUS
<1>1. /\ registry = << >> /\ sales = << >> /\ participants = {} /\ participantCount = 0
      /\ totalVolume = [a \in Assets |-> 0]
  BY DEF Init
<1>2. registry \in Seq(Raffles) /\ sales \in Seq(Sold) /\ Len(sales) = 0 /\ DOMAIN sales = {}
  BY <1>1, EmptySeq
<1>3. \A a : Charges(a) = << >>
  BY <1>2 DEF Charges
<1>4. IsFiniteSet({}) /\ Cardinality({}) = 0
  BY FS_EmptySet
<1>5. participants = {sales[i].owner : i \in DOMAIN sales}
  BY <1>1, <1>2
<1> QED BY <1>1, <1>2, <1>3, <1>4, <1>5, TotalOfNone DEF SalesInv

LEMMA RegisterSales ==
    ASSUME SalesInv, NEW c \in Creators, NEW b \in Assets, RegisterRaffle(c, b)
    PROVE  SalesInv'
<1> DEFINE e == [creator |-> c, asset |-> b]
<1>1. registry \in Seq(Raffles) /\ e \in Raffles
  BY DEF SalesInv, Raffles
<1>2. registry' = Append(registry, e) /\ UNCHANGED salesVars
  BY DEF RegisterRaffle
<1> HIDE DEF e
<1>3. /\ registry' \in Seq(Raffles) /\ Len(registry') = Len(registry) + 1 /\ Len(registry) \in Nat
      /\ \A i \in 1..Len(registry) : registry'[i] = registry[i]
  BY <1>1, <1>2, AppendProperties, SeqDomain
<1>4. DOMAIN sales = 1..Len(sales)
  BY SeqDomain DEF SalesInv
<1>5. \A i \in 1..Len(sales) : registry'[sales[i].raffle] = registry[sales[i].raffle]
  BY <1>3 DEF SalesInv
<1>6. \A a : Charges(a)' = Charges(a)
  BY <1>2, <1>4, <1>5 DEF Charges, salesVars
<1>7. \A i \in 1..Len(sales) : sales[i].raffle \in 1..Len(registry')
  BY <1>3 DEF SalesInv
<1>8. \A a \in Assets : totalVolume'[a] = Total(Charges(a)')
  BY <1>2, <1>6 DEF SalesInv, salesVars
<1> QED BY <1>2, <1>3, <1>7, <1>8 DEF SalesInv, salesVars

LEMMA SaleTotals ==
    ASSUME SalesInv, NEW r, NEW o \in Buyers, NEW b \in Assets, NEW n \in Amounts,
           Sale(r, o, b, n)
    PROVE  SalesInv'
<1> DEFINE e == [raffle |-> r, owner |-> o, amount |-> n]
<1>1. n \in Nat
  BY StatsConstants
<1>2. /\ r \in DOMAIN registry /\ b = registry[r].asset
      /\ totalVolume' = [totalVolume EXCEPT ![b] = @ + n]
      /\ participants' = participants \cup {o}
      /\ participantCount' = participantCount + (IF o \in participants THEN 0 ELSE 1)
      /\ sales' = Append(sales, e)
      /\ registry' = registry
  BY DEF Sale, RecordVolume, TrackParticipant, RequireFactoryRaffle, registryVars
<1>3. DOMAIN registry = 1..Len(registry) /\ Len(registry) \in Nat
  BY SeqDomain DEF SalesInv
<1>4. e \in Sold
  BY <1>1, <1>2, <1>3 DEF Sold
<1>5. e.raffle = r /\ e.owner = o /\ e.amount = n
  OBVIOUS
<1> HIDE DEF e
<1>6. /\ sales' \in Seq(Sold) /\ Len(sales') = Len(sales) + 1 /\ Len(sales) \in Nat
      /\ \A i \in 1..Len(sales) : sales'[i] = sales[i]
      /\ sales'[Len(sales) + 1] = e
  BY <1>2, <1>4, AppendProperties, SeqDomain DEF SalesInv
<1>7. DOMAIN sales = 1..Len(sales) /\ DOMAIN sales' = 1..(Len(sales) + 1)
  <2>1. DOMAIN sales' = 1..Len(sales')
    BY <1>6, LenProperties
  <2> QED BY <1>6, <2>1, SeqDomain DEF SalesInv
<1>8. \A i \in 1..Len(sales') : sales'[i].raffle \in 1..Len(registry')
  <2> TAKE i \in 1..Len(sales')
  <2>1. i \in 1..Len(sales) \/ i = Len(sales) + 1
    BY <1>6
  <2> QED BY <1>2, <1>3, <1>5, <1>6, <2>1 DEF SalesInv
<1>9. participants' = {sales'[i].owner : i \in DOMAIN sales'}
  <2>1. participants = {sales[i].owner : i \in 1..Len(sales)}
    BY <1>7 DEF SalesInv
  <2>2. \A i \in 1..(Len(sales) + 1) : i \in 1..Len(sales) \/ i = Len(sales) + 1
    BY <1>6
  <2>3. \A i \in 1..Len(sales) : i \in 1..(Len(sales) + 1)
    BY <1>6
  <2>4. Len(sales) + 1 \in 1..(Len(sales) + 1)
    BY <1>6
  <2> QED BY <1>2, <1>5, <1>6, <1>7, <2>1, <2>2, <2>3, <2>4
<1>10. IsFiniteSet(participants') /\ participantCount' = Cardinality(participants')
  <2>1. IsFiniteSet(participants) /\ participantCount = Cardinality(participants)
    BY DEF SalesInv
  <2>2. /\ IsFiniteSet(participants \cup {o})
        /\ Cardinality(participants \cup {o})
             = IF o \in participants THEN Cardinality(participants) ELSE Cardinality(participants) + 1
    BY <2>1, FS_AddElement
  <2>3. participantCount \in Nat
    BY <2>1, FS_CardinalityType
  <2> QED BY <1>2, <2>1, <2>2, <2>3
<1>11. totalVolume' \in [Assets -> Nat]
  BY <1>1, <1>2 DEF SalesInv
<1>12. ASSUME NEW a \in Assets
       PROVE  totalVolume'[a] = Total(Charges(a)')
  <2> DEFINE x == IF a = b THEN n ELSE 0
             v == Charges(a)
             N == Len(sales)
  <2>1. /\ v \in Seq(Nat) /\ Len(v) = N
        /\ \A i \in 1..N :
             v[i] = IF registry[sales[i].raffle].asset = a THEN sales[i].amount ELSE 0
    BY ChargesType
  <2>2. x \in Nat
    BY <1>1
  <2>3. Charges(a)' = [i \in 1..(N + 1) |->
          IF registry[sales'[i].raffle].asset = a THEN sales'[i].amount ELSE 0]
    BY <1>2, <1>7 DEF Charges
  <2> DEFINE w == Charges(a)'
  <2>4. \A i \in 1..N : w[i] = v[i] /\ i \in 1..(N + 1)
    <3> TAKE i \in 1..N
    <3>1. i \in 1..(N + 1)
      BY <1>6
    <3> QED BY <1>6, <2>1, <2>3, <3>1
  <2>5. w[N + 1] = x /\ N + 1 \in 1..(N + 1)
    <3>1. N + 1 \in 1..(N + 1)
      BY <1>6
    <3> QED BY <1>2, <1>5, <1>6, <2>3, <3>1
  <2>6. \A i \in 1..(N + 1) : i \in 1..N \/ i = N + 1
    BY <1>6
  <2>7. \A i \in 1..N : v[i] \in Nat
    BY <2>1, SeqDomain
  <2> HIDE DEF v, x
  <2>8. w \in [1..(N + 1) -> Nat]
    <3>1. \A i \in 1..(N + 1) : w[i] \in Nat
      BY <2>2, <2>4, <2>5, <2>6, <2>7
    <3> DEFINE G == [i \in 1..(N + 1) |->
            IF registry[sales'[i].raffle].asset = a THEN sales'[i].amount ELSE 0]
    <3>2. w = G
      BY <2>3
    <3> QED BY <3>1, <3>2
  <2> HIDE DEF w, N
  <2>9. w \in Seq(Nat) /\ Len(w) = N + 1
    <3>1. N + 1 \in Nat
      BY <1>6 DEF N
    <3> QED BY <2>8, <3>1, FunctionIsSeq
  <2>10. w = Append(v, x)
    <3>1. /\ Append(v, x) \in Seq(Nat) /\ Len(Append(v, x)) = N + 1
          /\ \A i \in 1..N : Append(v, x)[i] = v[i]
          /\ Append(v, x)[N + 1] = x
      BY <2>1, <2>2, AppendProperties
    <3>2. \A i \in 1..(N + 1) : w[i] = Append(v, x)[i]
      BY <2>4, <2>5, <2>6, <3>1
    <3> QED BY <2>9, <3>1, <3>2, SeqEqual
  <2>11. Total(w) = Total(v) + x
    BY <2>1, <2>2, <2>10, TotalOfAppend
  <2>12. Total(v) = totalVolume[a] /\ totalVolume[a] \in Nat
    BY DEF SalesInv, v
  <2>13. totalVolume'[a] = totalVolume[a] + x
    BY <1>2, <2>12 DEF SalesInv, x
  <2> QED BY <2>11, <2>12, <2>13 DEF w
<1> QED BY <1>2, <1>6, <1>8, <1>9, <1>10, <1>11, <1>12 DEF SalesInv

LEMMA SalesNext ==
    ASSUME SalesInv, [Next]_vars
    PROVE  SalesInv'
<1>1. ASSUME UNCHANGED <<registry, sales, totalVolume, participants, participantCount>>
      PROVE  SalesInv'
  <2>1. \A a : Charges(a)' = Charges(a)
    BY <1>1 DEF Charges
  <2> QED BY <1>1, <2>1 DEF SalesInv
<1>2. ASSUME NEW r \in 1..MaxRaffles, NEW b \in Buyers, NEW q \in Buyers, NEW a \in Assets,
             NEW n \in Amounts, Gift(r, b, q, a, n)
      PROVE  SalesInv'
  BY <1>2, SaleTotals DEF Gift
<1>3. ASSUME NEW r \in 1..MaxRaffles, NEW d \in Results, RecordLeaderboardEntry(r, d)
      PROVE  SalesInv'
  BY <1>1, <1>3 DEF RecordLeaderboardEntry, registryVars, salesVars
<1>4. ASSUME NEW q \in Partners, NEW on \in BOOLEAN, SetWhitelistStatus(q, on)
      PROVE  SalesInv'
  BY <1>1, <1>4 DEF SetWhitelistStatus, registryVars, salesVars
<1>5. ASSUME NEW v \in Creators \cup {"all", "partners"}, NEW l \in Limits, StartListing(v, l)
      PROVE  SalesInv'
  BY <1>1, <1>5 DEF StartListing, registryVars, salesVars
<1>6. ASSUME ReadPage
      PROVE  SalesInv'
  BY <1>1, <1>6 DEF ReadPage, registryVars, salesVars
<1>7. ASSUME UNCHANGED vars
      PROVE  SalesInv'
  BY <1>1, <1>7 DEF vars, registryVars, salesVars
<1> QED BY <1>2, <1>3, <1>4, <1>5, <1>6, <1>7, RegisterSales, SaleTotals DEF Next

\* The volume of each token is the sum of the charges of the sales in it, and a
\* participant counts once (record_volume, track_participant), however many raffles,
\* buyers, tokens and sales there are.
THEOREM TotalsAlwaysAgree == Spec => []TotalsAgree
<1>1. SalesInv => TotalsAgree
  BY DEF SalesInv, TotalsAgree
<1> QED BY <1>1, SalesInit, SalesNext, PTL DEF Spec

-----------------------------------------------------------------------------
(* Lists.                                                                   *)

\* The list names every member of the set once.
Indexes(s, S) == IsInjective(s) /\ Range(s) = S

\* A list that has grown at its end.
Extends(s, u) == Len(s) <= Len(u) /\ \A i \in 1..Len(s) : u[i] = s[i]

LEMMA IndexesByPlace ==
    ASSUME NEW E, NEW s \in Seq(E), NEW S
    PROVE  Indexes(s, S) <=>
             /\ \A i, k \in 1..Len(s) : s[i] = s[k] => i = k
             /\ \A i \in 1..Len(s) : s[i] \in S
             /\ \A x \in S : \E i \in 1..Len(s) : s[i] = x
<1>1. DOMAIN s = 1..Len(s)
  BY SeqDomain
<1> QED BY <1>1 DEF Indexes, IsInjective, Range

LEMMA AppendIndexes ==
    ASSUME NEW E, NEW s \in Seq(E), NEW S, NEW e \in E, Indexes(s, S), e \notin S
    PROVE  /\ Append(s, e) \in Seq(E) /\ Indexes(Append(s, e), S \cup {e})
           /\ Extends(s, Append(s, e))
<1> DEFINE u == Append(s, e)
<1>1. /\ u \in Seq(E) /\ Len(u) = Len(s) + 1 /\ Len(s) \in Nat
      /\ \A i \in 1..Len(s) : u[i] = s[i]
      /\ u[Len(s) + 1] = e
  BY AppendProperties, SeqDomain
<1> HIDE DEF u
<1>2. /\ \A i, k \in 1..Len(s) : s[i] = s[k] => i = k
      /\ \A i \in 1..Len(s) : s[i] \in S
      /\ \A x \in S : \E i \in 1..Len(s) : s[i] = x
  BY IndexesByPlace
<1>3. \A i \in 1..Len(u) : i \in 1..Len(s) \/ i = Len(s) + 1
  BY <1>1
<1>4. \A i \in 1..Len(s) : i \in 1..Len(u)
  BY <1>1
<1>5. Len(s) + 1 \in 1..Len(u)
  BY <1>1
<1>6. \A i, k \in 1..Len(u) : u[i] = u[k] => i = k
  BY <1>1, <1>2, <1>3
<1>7. \A i \in 1..Len(u) : u[i] \in S \cup {e}
  BY <1>1, <1>2, <1>3
<1>8. \A x \in S \cup {e} : \E i \in 1..Len(u) : u[i] = x
  BY <1>1, <1>2, <1>4, <1>5
<1>9. Indexes(u, S \cup {e})
  BY <1>1, <1>6, <1>7, <1>8, IndexesByPlace
<1> QED BY <1>1, <1>9 DEF Extends, u

LEMMA Removed ==
    ASSUME NEW E, NEW s \in Seq(E), NEW i \in 1..Len(s)
    PROVE  /\ RemoveAt(s, i) \in Seq(E) /\ Len(RemoveAt(s, i)) = Len(s) - 1
           /\ \A k \in 1..(Len(s) - 1) : RemoveAt(s, i)[k] = IF k < i THEN s[k] ELSE s[k + 1]
<1> DEFINE n == Len(s)
           u == SubSeq(s, 1, i - 1)
           v == SubSeq(s, i + 1, n)
           t == RemoveAt(s, i)
<1>1. n \in Nat /\ i \in Nat /\ i >= 1 /\ i <= n /\ i - 1 \in Int /\ i + 1 \in Int
      /\ \A k \in 1..n : s[k] \in E
  BY SeqDomain
<1>2. u \in Seq(E) /\ Len(u) = i - 1 /\ \A k \in 1..(i - 1) : u[k] = s[k]
  <2>1. \A k \in 1..(i - 1) : s[k] \in E
    BY <1>1
  <2>2. /\ u \in Seq(E) /\ Len(u) = IF 1 <= i - 1 THEN i - 1 - 1 + 1 ELSE 0
        /\ \A k \in 1..(i - 1 - 1 + 1) : u[k] = s[1 + k - 1]
    BY <1>1, <2>1, SubSeqProperties
  <2>3. i - 1 - 1 + 1 = i - 1 /\ \A k \in 1..(i - 1) : 1 + k - 1 = k
    BY <1>1
  <2> HIDE DEF u
  <2> QED BY <1>1, <2>2, <2>3
<1>3. v \in Seq(E) /\ Len(v) = n - i /\ \A k \in 1..(n - i) : v[k] = s[i + k]
  <2>1. \A k \in (i + 1)..n : s[k] \in E
    BY <1>1
  <2>2. /\ v \in Seq(E) /\ Len(v) = IF i + 1 <= n THEN n - (i + 1) + 1 ELSE 0
        /\ \A k \in 1..(n - (i + 1) + 1) : v[k] = s[i + 1 + k - 1]
    BY <1>1, <2>1, SubSeqProperties
  <2>3. n - (i + 1) + 1 = n - i /\ \A k \in 1..(n - i) : i + 1 + k - 1 = i + k
    BY <1>1
  <2> HIDE DEF v, n
  <2> QED BY <1>1, <2>2, <2>3
<1>4. t = u \o v
  BY DEF RemoveAt
<1> HIDE DEF u, v, t
<1>5. t \in Seq(E) /\ Len(t) = n - 1
      /\ \A k \in 1..(n - 1) : t[k] = IF k <= i - 1 THEN u[k] ELSE v[k - (i - 1)]
  <2>1. Len(u) + Len(v) = n - 1
    BY <1>1, <1>2, <1>3
  <2>2. /\ t \in Seq(E) /\ Len(t) = Len(u) + Len(v)
        /\ \A k \in 1..(Len(u) + Len(v)) : t[k] = IF k <= Len(u) THEN u[k] ELSE v[k - Len(u)]
    BY <1>2, <1>3, <1>4, ConcatProperties
  <2> QED BY <1>2, <2>1, <2>2
<1>6. \A k \in 1..(n - 1) : t[k] = IF k < i THEN s[k] ELSE s[k + 1]
  <2> TAKE k \in 1..(n - 1)
  <2>1. CASE k < i
    BY <1>1, <1>2, <1>5, <2>1
  <2>2. CASE k >= i
    <3>1. k - (i - 1) \in 1..(n - i) /\ i + (k - (i - 1)) = k + 1 /\ ~(k <= i - 1)
      BY <1>1, <2>2
    <3>2. v[k - (i - 1)] = s[i + (k - (i - 1))]
      BY <1>3, <3>1
    <3> QED BY <1>1, <1>5, <2>2, <3>1, <3>2
  <2> QED BY <1>1, <2>1, <2>2
<1> QED BY <1>5, <1>6 DEF t

LEMMA RemovedIndexes ==
    ASSUME NEW E, NEW s \in Seq(E), NEW i \in 1..Len(s), NEW S, Indexes(s, S)
    PROVE  RemoveAt(s, i) \in Seq(E) /\ Indexes(RemoveAt(s, i), S \ {s[i]})
<1> DEFINE n == Len(s)
           t == RemoveAt(s, i)
           At(k) == IF k < i THEN k ELSE k + 1
<1>1. n \in Nat /\ i \in Nat /\ i <= n
  BY SeqDomain
<1>2. /\ t \in Seq(E) /\ Len(t) = n - 1
      /\ \A k \in 1..(n - 1) : t[k] = s[At(k)]
  BY Removed
<1>3. /\ \A k \in 1..(n - 1) : At(k) \in 1..n /\ At(k) # i
      /\ \A k, m \in 1..(n - 1) : At(k) = At(m) => k = m
      /\ \A m \in 1..n : m # i => \E k \in 1..(n - 1) : At(k) = m
  <2>1. \A k \in 1..(n - 1) : At(k) \in 1..n /\ At(k) # i
    BY <1>1
  <2>2. \A k, m \in 1..(n - 1) : At(k) = At(m) => k = m
    BY <1>1
  <2>3. ASSUME NEW m \in 1..n, m # i PROVE \E k \in 1..(n - 1) : At(k) = m
    <3>1. CASE m < i
      <4>1. m \in 1..(n - 1) /\ At(m) = m
        BY <1>1, <3>1
      <4> QED BY <4>1
    <3>2. CASE m > i
      <4>1. m - 1 \in 1..(n - 1) /\ At(m - 1) = m
        BY <1>1, <3>2
      <4> QED BY <4>1
    <3> QED BY <1>1, <2>3, <3>1, <3>2
  <2> QED BY <2>1, <2>2, <2>3
<1>4. /\ \A j, k \in 1..n : s[j] = s[k] => j = k
      /\ \A j \in 1..n : s[j] \in S
      /\ \A x \in S : \E j \in 1..n : s[j] = x
  BY IndexesByPlace
<1> HIDE DEF t, At
<1>5. \A j, k \in 1..Len(t) : t[j] = t[k] => j = k
  BY <1>2, <1>3, <1>4, SMTT(30)
<1>6. \A j \in 1..Len(t) : t[j] \in S \ {s[i]}
  <2> TAKE j \in 1..Len(t)
  <2>1. t[j] = s[At(j)] /\ At(j) \in 1..n /\ At(j) # i
    BY <1>2, <1>3
  <2>2. s[At(j)] \in S /\ s[At(j)] # s[i]
    BY <1>4, <2>1
  <2> QED BY <2>1, <2>2
<1>7. ASSUME NEW x \in S \ {s[i]} PROVE \E j \in 1..Len(t) : t[j] = x
  <2>1. PICK m \in 1..n : s[m] = x
    BY <1>4
  <2>2. PICK k \in 1..(n - 1) : At(k) = m
    BY <1>3, <1>7, <2>1
  <2> QED BY <1>2, <2>1, <2>2
<1>8. Indexes(t, S \ {s[i]})
  BY <1>2, <1>5, <1>6, <1>7, IndexesByPlace
<1> QED BY <1>2, <1>8 DEF t

Views == Creators \cup {"all", "partners"}

Items == Nat \cup Partners

\* The index of a creator and the list of partners are complete.
Lists ==
    /\ registry \in Seq(Raffles)
    /\ creatorRaffles \in [Creators -> Seq(Nat)]
    /\ partnersList \in Seq(Partners)
    /\ \A c \in Creators :
          Indexes(creatorRaffles[c], {i \in DOMAIN registry : registry[i].creator = c})
    /\ Indexes(partnersList, partners)

\* Every view pages through a list of what it should show.
LEMMA ListedIndexes ==
    ASSUME Lists, NEW v \in Views
    PROVE  Listed(v) \in Seq(Items) /\ Indexes(Listed(v), Members(v))
<1>1. Seq(Nat) \subseteq Seq(Items) /\ Seq(Partners) \subseteq Seq(Items)
  BY SeqMonotonic DEF Items
<1>2. CASE v = "all"
  <2>1. Len(registry) \in Nat /\ DOMAIN registry = 1..Len(registry)
    BY SeqDomain DEF Lists
  <2>2. RaffleSlots \in [1..Len(registry) -> Nat] /\ \A i \in 1..Len(registry) : RaffleSlots[i] = i
    BY <2>1 DEF RaffleSlots
  <2>3. RaffleSlots \in Seq(Nat) /\ Len(RaffleSlots) = Len(registry)
    BY <2>1, <2>2, FunctionIsSeq
  <2>4. Indexes(RaffleSlots, 1..Len(registry))
    BY <2>2, <2>3, IndexesByPlace
  <2> QED BY <1>1, <1>2, <2>1, <2>3, <2>4 DEF Listed, Members
<1>3. CASE v = "partners"
  <2>1. Listed(v) = partnersList /\ Members(v) = partners
    BY <1>3 DEF Listed, Members
  <2> QED BY <1>1, <2>1 DEF Lists
<1>4. CASE v \in Creators
  <2>1. v # "all" /\ v # "partners"
    BY <1>4, StatsConstants
  <2>2. /\ Listed(v) = creatorRaffles[v]
        /\ Members(v) = {i \in DOMAIN registry : registry[i].creator = v}
    BY <2>1 DEF Listed, Members
  <2> QED BY <1>1, <1>4, <2>2 DEF Lists
<1> QED BY <1>2, <1>3, <1>4 DEF Views

LEMMA ListsInit == Init => Lists
<1> SUFFICES ASSUME Init PROVE Lists
  OBVIOUS
<1> DEFINE e == << >>
<1>1. /\ registry = e /\ partnersList = e /\ partners = {}
      /\ creatorRaffles = [c \in Creators |-> e]
  BY DEF Init
<1>2. DOMAIN e = {} /\ (\A S : e \in Seq(S)) /\ Indexes(e, {})
  BY EmptySeq DEF Indexes, IsInjective, Range
<1> HIDE DEF e
<1>3. \A c \in Creators : {i \in DOMAIN registry : registry[i].creator = c} = {}
  BY <1>1, <1>2
<1> QED BY <1>1, <1>2, <1>3 DEF Lists

LEMMA ExtendsItself ==
    ASSUME NEW E, NEW s \in Seq(E)
    PROVE  Extends(s, s)
  BY SeqDomain DEF Extends

\* A new raffle is added to the end of one creator's index.
LEMMA RegisterLists ==
    ASSUME Lists, NEW c \in Creators, NEW b \in Assets, RegisterRaffle(c, b)
    PROVE  Lists' /\ \A v \in Views : Extends(Listed(v), Listed(v)')
<1> DEFINE e == [creator |-> c, asset |-> b]
           n == Len(registry) + 1
           Own(d) == {i \in DOMAIN registry : registry[i].creator = d}
<1>1. registry \in Seq(Raffles) /\ e \in Raffles /\ e.creator = c
  BY DEF Lists, Raffles
<1>2. /\ registry' = Append(registry, e)
      /\ creatorRaffles' = [creatorRaffles EXCEPT ![c] = Append(@, n)]
      /\ partners' = partners /\ partnersList' = partnersList
  BY DEF RegisterRaffle, partnerVars
<1> HIDE DEF e
<1>3. /\ registry' \in Seq(Raffles) /\ Len(registry') = n /\ Len(registry) \in Nat
      /\ \A i \in 1..Len(registry) : registry'[i] = registry[i]
      /\ registry'[n] = e
  BY <1>1, <1>2, AppendProperties, SeqDomain
<1>4. DOMAIN registry = 1..Len(registry) /\ DOMAIN registry' = 1..n
  BY <1>1, <1>3, LenProperties
<1>5. n \in Nat /\ n \notin DOMAIN registry
      /\ \A i \in 1..n : i \in 1..Len(registry) \/ i = n
  BY <1>3, <1>4
<1>6. \A i \in 1..Len(registry) : i \in 1..n
  BY <1>3
<1>7. n \in 1..n
  BY <1>3
<1> HIDE DEF n
<1>8. ASSUME NEW d \in Creators
      PROVE  /\ creatorRaffles'[d] \in Seq(Nat)
             /\ Indexes(creatorRaffles'[d], {i \in DOMAIN registry' : registry'[i].creator = d})
             /\ Extends(creatorRaffles[d], creatorRaffles'[d])
  <2>1. creatorRaffles[d] \in Seq(Nat) /\ Indexes(creatorRaffles[d], Own(d))
    BY DEF Lists
  <2>2. CASE d = c
    <3>1. creatorRaffles'[d] = Append(creatorRaffles[d], n)
      BY <1>2, <2>2 DEF Lists
    <3>2. {i \in DOMAIN registry' : registry'[i].creator = d} = Own(d) \cup {n}
      BY <1>1, <1>3, <1>4, <1>5, <1>6, <1>7, <2>2
    <3>3. n \notin Own(d)
      BY <1>5
    <3> HIDE DEF Own
    <3>4. /\ Append(creatorRaffles[d], n) \in Seq(Nat)
          /\ Indexes(Append(creatorRaffles[d], n), Own(d) \cup {n})
          /\ Extends(creatorRaffles[d], Append(creatorRaffles[d], n))
      BY <1>5, <2>1, <3>3, AppendIndexes
    <3> QED BY <3>1, <3>2, <3>4
  <2>3. CASE d # c
    <3>1. creatorRaffles'[d] = creatorRaffles[d]
      BY <1>2, <2>3 DEF Lists
    <3>2. {i \in DOMAIN registry' : registry'[i].creator = d} = Own(d)
      BY <1>1, <1>3, <1>4, <1>5, <1>6, <2>3
    <3> HIDE DEF Own
    <3> QED BY <2>1, <3>1, <3>2, ExtendsItself
  <2> QED BY <2>2, <2>3
<1>9. Lists'
  <2>1. creatorRaffles' \in [Creators -> Seq(Nat)]
    BY <1>2, <1>8 DEF Lists
  <2> QED BY <1>2, <1>3, <1>8, <2>1 DEF Lists
<1>10. ASSUME NEW v \in Views
       PROVE  Extends(Listed(v), Listed(v)')
  <2>1. CASE v = "all"
    <3>1. Listed(v) = RaffleSlots /\ Listed(v)' = RaffleSlots'
      BY <2>1 DEF Listed
    <3>2. RaffleSlots = [i \in 1..Len(registry) |-> i] /\ RaffleSlots' = [i \in 1..n |-> i]
      BY <1>4 DEF RaffleSlots
    <3>3. RaffleSlots \in [1..Len(registry) -> Nat] /\ RaffleSlots' \in [1..n -> Nat]
      BY <1>3, <1>5, <3>2
    <3>4. Len(RaffleSlots) = Len(registry) /\ Len(RaffleSlots') = n
      BY <1>3, <1>5, <3>3, FunctionIsSeq
    <3>5. Len(registry) <= n
      BY <1>3 DEF n
    <3>6. \A i \in 1..Len(registry) : RaffleSlots'[i] = RaffleSlots[i]
      BY <1>6, <3>2
    <3> QED BY <3>1, <3>4, <3>5, <3>6 DEF Extends
  <2>2. CASE v = "partners"
    <3>1. Listed(v) = partnersList /\ Listed(v)' = partnersList
      BY <1>2, <2>2 DEF Listed
    <3> QED BY <3>1, ExtendsItself DEF Lists
  <2>3. CASE v \in Creators
    <3>1. v # "all" /\ v # "partners"
      BY <2>3, StatsConstants
    <3>2. Listed(v) = creatorRaffles[v] /\ Listed(v)' = creatorRaffles'[v]
      BY <3>1 DEF Listed
    <3> QED BY <1>8, <2>3, <3>2
  <2> QED BY <2>1, <2>2, <2>3 DEF Views
<1> QED BY <1>9, <1>10

LEMMA UnchangedLists ==
    ASSUME Lists, UNCHANGED <<registry, creatorRaffles, partners, partnersList>>
    PROVE  Lists' /\ \A v \in Views : Extends(Listed(v), Listed(v)') /\ Members(v)' = Members(v)
<1>1. Lists'
  BY DEF Lists
<1>2. \A v : Listed(v)' = Listed(v) /\ Members(v)' = Members(v)
  BY DEF Listed, RaffleSlots, Members
<1>3. \A v \in Views : Extends(Listed(v), Listed(v))
  BY ListedIndexes, ExtendsItself
<1> QED BY <1>1, <1>2, <1>3

LEMMA ExistingFound ==
    ASSUME Lists, NEW q \in Range(partnersList)
    PROVE  Existing(q) \in 1..Len(partnersList) /\ partnersList[Existing(q)] = q
<1> DEFINE S == {i \in DOMAIN partnersList : partnersList[i] = q}
<1>1. DOMAIN partnersList = 1..Len(partnersList) /\ Len(partnersList) \in Nat
  BY SeqDomain DEF Lists
<1>2. S # {} /\ S \subseteq Nat
  BY <1>1 DEF Range
<1>3. PICK x \in S : \A y \in S : ~(y < x)
  <2> HIDE DEF S
  <2> QED BY <1>2, LeastOf
<1>4. \A y \in S : x <= y
  BY <1>1, <1>3
<1>5. Min(S) \in S
  <2> HIDE DEF S
  <2> QED BY <1>3, <1>4 DEF Min
<1>6. Existing(q) \in S
  BY <1>5 DEF Existing
<1> QED BY <1>1, <1>6

\* The list of partners grows at its end, unless a partner is taken out of it.
LEMMA WhitelistLists ==
    ASSUME Lists, NEW q \in Partners, NEW on \in BOOLEAN, SetWhitelistStatus(q, on)
    PROVE  /\ Lists'
           /\ \A v \in Views : \/ Extends(Listed(v), Listed(v)')
                               \/ v = "partners" /\ q \in Range(partnersList) /\ ~on
<1>1. /\ registry' = registry /\ creatorRaffles' = creatorRaffles
      /\ partners' = IF on THEN partners \cup {q} ELSE partners \ {q}
      /\ partnersList' =
          IF q \notin Range(partnersList)
          THEN IF on THEN Append(partnersList, q) ELSE partnersList
          ELSE IF on THEN partnersList ELSE RemoveAt(partnersList, Existing(q))
  BY DEF SetWhitelistStatus, registryVars
<1>2. partnersList \in Seq(Partners) /\ Indexes(partnersList, partners)
      /\ Range(partnersList) = partners
  BY DEF Lists, Indexes
<1>3. \/ q \in partners /\ ~on
      \/ Extends(partnersList, partnersList')
  <2>1. CASE q \notin partners /\ on
    BY <1>1, <1>2, <2>1, AppendIndexes
  <2>2. CASE q \notin partners /\ ~on
    BY <1>1, <1>2, <2>2, ExtendsItself
  <2>3. CASE q \in partners /\ on
    BY <1>1, <1>2, <2>3, ExtendsItself
  <2> QED BY <2>1, <2>2, <2>3
<1>4. partnersList' \in Seq(Partners) /\ Indexes(partnersList', partners')
  <2>1. CASE q \notin partners /\ on
    BY <1>1, <1>2, <2>1, AppendIndexes
  <2>2. CASE q \notin partners /\ ~on
    <3>1. partners' = partners /\ partnersList' = partnersList
      BY <1>1, <1>2, <2>2
    <3> QED BY <1>2, <3>1
  <2>3. CASE q \in partners /\ on
    <3>1. partners' = partners /\ partnersList' = partnersList
      BY <1>1, <1>2, <2>3
    <3> QED BY <1>2, <3>1
  <2>4. CASE q \in partners /\ ~on
    <3>1. Existing(q) \in 1..Len(partnersList) /\ partnersList[Existing(q)] = q
      BY <1>2, <2>4, ExistingFound
    <3>2. partnersList' = RemoveAt(partnersList, Existing(q)) /\ partners' = partners \ {q}
      BY <1>1, <1>2, <2>4
    <3> QED BY <1>2, <3>1, <3>2, RemovedIndexes
  <2> QED BY <2>1, <2>2, <2>3, <2>4
<1>5. Lists'
  BY <1>1, <1>4 DEF Lists
<1>6. ASSUME NEW v \in Views, v # "partners"
      PROVE  Listed(v)' = Listed(v)
  BY <1>1, <1>6 DEF Listed, RaffleSlots
<1>7. ASSUME NEW v \in Views, v # "partners"
      PROVE  Extends(Listed(v), Listed(v)')
  BY <1>6, <1>7, ListedIndexes, ExtendsItself
<1>8. Listed("partners") = partnersList /\ Listed("partners")' = partnersList'
  BY DEF Listed
<1> QED BY <1>2, <1>3, <1>5, <1>7, <1>8

-----------------------------------------------------------------------------
(* The client.                                                              *)

IsClient(c) ==
    c \in [view : {c.view}, limit : Nat, offset : Nat, seen : Seq(Items), more : BOOLEAN,
           owed : {c.owed}, shifted : BOOLEAN]

\* A listing in progress that was not disturbed has shown a prefix of its list, and
\* what it owes is on the list.
InProgress(c, L) ==
    /\ c.offset = Len(c.seen) /\ c.offset <= Len(L)
    /\ \A i \in 1..c.offset : c.seen[i] = L[i]
    /\ \A x \in c.owed : \E i \in 1..Len(L) : L[i] = x

ClientInv ==
    /\ IsClient(client)
    /\ client.more => client.view \in Views
    /\ ~client.shifted /\ client.more => InProgress(client, Listed(client.view))
    /\ ~client.shifted /\ ~client.more =>
          IsInjective(client.seen) /\ client.owed \subseteq Range(client.seen)

LEMMA ExtendedProgress ==
    ASSUME NEW c, NEW L \in Seq(Items), NEW K \in Seq(Items), IsClient(c), InProgress(c, L),
           Extends(L, K)
    PROVE  InProgress(c, K)
<1>1. Len(L) \in Nat /\ Len(K) \in Nat /\ Len(L) <= Len(K) /\ c.offset \in Nat
  BY SeqDomain DEF Extends, IsClient
<1>2. \A i \in 1..Len(L) : i \in 1..Len(K) /\ K[i] = L[i]
  BY <1>1 DEF Extends
<1>3. c.offset <= Len(K)
  BY <1>1 DEF InProgress
<1>4. \A i \in 1..c.offset : i \in 1..Len(L)
  BY <1>1 DEF InProgress
<1> QED BY <1>2, <1>3, <1>4 DEF InProgress

\* A client that is left alone while its list grows.
LEMMA ClientWaits ==
    ASSUME Lists, Lists', ClientInv, client' = client,
           client.more => Extends(Listed(client.view), Listed(client.view)')
    PROVE  ClientInv'
<1>1. ASSUME ~client.shifted, client.more
      PROVE  InProgress(client, Listed(client.view)')
  <2>1. client.view \in Views /\ IsClient(client) /\ InProgress(client, Listed(client.view))
    BY <1>1 DEF ClientInv
  <2>2. Listed(client.view) \in Seq(Items)
    BY <2>1, ListedIndexes
  <2>3. Listed(client.view)' \in Seq(Items)
    <3>1. \A v \in Views : Lists' => Listed(v)' \in Seq(Items)
      <4> TAKE v \in Views
      <4>1. (Lists => Listed(v) \in Seq(Items))'
        BY ListedIndexes, PTL
      <4> QED BY <4>1
    <3> QED BY <2>1, <3>1
  <2> QED BY <1>1, <2>1, <2>2, <2>3, ExtendedProgress
<1>2. IsClient(client)' /\ (client.more => client.view \in Views)'
  BY DEF ClientInv
<1>3. (~client.shifted /\ ~client.more =>
          IsInjective(client.seen) /\ client.owed \subseteq Range(client.seen))'
  BY DEF ClientInv
<1> QED BY <1>1, <1>2, <1>3 DEF ClientInv

\* One read, for a client c with the list L: the page behind the offset, up to e.
LEMMA PageRead ==
    ASSUME NEW c, NEW L \in Seq(Items), NEW S, IsClient(c), Indexes(L, S), InProgress(c, L),
           NEW e \in Nat, c.offset <= e, e <= Len(L)
    PROVE  LET seen == c.seen \o SubSeq(L, c.offset + 1, e) IN
           /\ Len(SubSeq(L, c.offset + 1, e)) = e - c.offset
           /\ Len(seen) = e
           /\ \A i \in 1..e : seen[i] = L[i]
           /\ IsInjective(seen)
           /\ e = Len(L) => c.owed \subseteq Range(seen)
<1> DEFINE o == c.offset
           page == SubSeq(L, o + 1, e)
           seen == c.seen \o page
<1>1. /\ o \in Nat /\ c.seen \in Seq(Items) /\ Len(L) \in Nat
      /\ \A i \in 1..Len(L) : L[i] \in Items
  BY SeqDomain DEF IsClient
<1>2. o = Len(c.seen) /\ \A i \in 1..o : c.seen[i] = L[i]
  BY DEF InProgress
<1>3. page \in Seq(Items) /\ Len(page) = e - o /\ \A i \in 1..(e - o) : page[i] = L[o + i]
  <2>1. o + 1 \in Int /\ e \in Int /\ \A i \in (o + 1)..e : L[i] \in Items
    BY <1>1
  <2>2. /\ page \in Seq(Items) /\ Len(page) = IF o + 1 <= e THEN e - (o + 1) + 1 ELSE 0
        /\ \A i \in 1..(e - (o + 1) + 1) : page[i] = L[o + 1 + i - 1]
    BY <2>1, SubSeqProperties
  <2>3. e - (o + 1) + 1 = e - o /\ \A i \in 1..(e - o) : o + 1 + i - 1 = o + i
    BY <1>1
  <2>4. Len(page) = e - o
    <3> HIDE DEF page, o
    <3> QED BY <1>1, <2>2 DEF o
  <2> HIDE DEF page, o
  <2> QED BY <2>2, <2>3, <2>4
<1> HIDE DEF page
<1>4. /\ seen \in Seq(Items) /\ Len(seen) = Len(c.seen) + Len(page)
      /\ \A i \in 1..(Len(c.seen) + Len(page)) :
           seen[i] = IF i <= Len(c.seen) THEN c.seen[i] ELSE page[i - Len(c.seen)]
  <2> DEFINE cs == c.seen
  <2>1. cs \in Seq(Items)
    BY <1>1
  <2> HIDE DEF cs
  <2>2. /\ cs \o page \in Seq(Items) /\ Len(cs \o page) = Len(cs) + Len(page)
        /\ \A i \in 1..(Len(cs) + Len(page)) :
             (cs \o page)[i] = IF i <= Len(cs) THEN cs[i] ELSE page[i - Len(cs)]
    BY <1>3, <2>1, ConcatProperties
  <2> QED BY <2>2 DEF cs
<1> HIDE DEF seen, o
<1>5. o <= e /\ o \in Int
  BY <1>1 DEF o
<1>6. Len(c.seen) + Len(page) = e
  BY <1>2, <1>3, <1>5
<1>7. \A i \in 1..e : seen[i] = L[i]
  <2> TAKE i \in 1..e
  <2>1. seen[i] = IF i <= o THEN c.seen[i] ELSE page[i - o]
    BY <1>2, <1>4, <1>6
  <2>2. CASE i <= o
    BY <1>2, <1>5, <2>1, <2>2
  <2>3. CASE ~(i <= o)
    <3>1. i - o \in 1..(e - o) /\ o + (i - o) = i
      BY <1>5, <2>3
    <3> QED BY <1>3, <2>1, <2>3, <3>1
  <2> QED BY <2>2, <2>3
<1>8. DOMAIN seen = 1..e
  BY <1>4, <1>6, SeqDomain
<1>9. \A i, k \in 1..Len(L) : L[i] = L[k] => i = k
  BY IndexesByPlace
<1>10. \A i \in 1..e : i \in 1..Len(L)
  BY <1>1
<1>11. IsInjective(seen)
  BY <1>7, <1>8, <1>9, <1>10 DEF IsInjective
<1>12. e = Len(L) => c.owed \subseteq Range(seen)
  BY <1>7, <1>8 DEF Range, InProgress
<1> QED BY <1>3, <1>4, <1>6, <1>7, <1>11, <1>12 DEF seen, page, o

LEMMA EffectiveLimitType ==
    ASSUME NEW n \in Nat
    PROVE  EffectiveLimit(n) \in Nat /\ EffectiveLimit(n) >= 1
<1>1. n # 0 => Min({n, MaxPageLimit}) = IF n <= MaxPageLimit THEN n ELSE MaxPageLimit
  BY StatsConstants, MinOfTwo
<1> QED BY <1>1, StatsConstants DEF EffectiveLimit

LEMMA ReplaceFields ==
    ASSUME NEW c, IsClient(c), NEW s, NEW o, NEW m
    PROVE  LET d == [c EXCEPT !.seen = s, !.offset = o, !.more = m] IN
           d \in [view : {c.view}, limit : {c.limit}, offset : {o}, seen : {s}, more : {m},
                  owed : {c.owed}, shifted : {c.shifted}]
  BY DEF IsClient

LEMMA ReadPageListing ==
    ASSUME Lists, ClientInv, ReadPage
    PROVE  ClientInv'
<1> DEFINE v == client.view
           o == client.offset
           L == Listed(v)
           e == PageEnd(v, o, client.limit)
           page == SubSeq(L, o + 1, e)
           more == HasMore(v, o, client.limit)
<1>1. IsClient(client) /\ v \in Views /\ client.more
  BY DEF ClientInv, ReadPage
<1>2. L \in Seq(Items) /\ Indexes(L, Members(v)) /\ Len(L) \in Nat
  BY <1>1, ListedIndexes, SeqDomain
<1>3. o \in Nat /\ client.limit \in Nat /\ client.seen \in Seq(Items) /\ client.shifted \in BOOLEAN
  BY <1>1 DEF IsClient
<1> DEFINE l == EffectiveLimit(client.limit)
<1>4. l \in Nat /\ l >= 1
  BY <1>3, EffectiveLimitType
<1>5. e = IF o + l <= Len(L) THEN o + l ELSE Len(L)
  <2>1. o + l \in Int /\ Len(L) \in Int
    BY <1>2, <1>3, <1>4
  <2> HIDE DEF l, L, o
  <2>2. Min({o + l, Len(L)}) = IF o + l <= Len(L) THEN o + l ELSE Len(L)
    BY <2>1, MinOfTwo
  <2> QED BY <2>2 DEF PageEnd, l, L, o
<1>6. e \in Nat /\ e <= Len(L)
  <2> HIDE DEF l, L, o, e
  <2> QED BY <1>2, <1>3, <1>4, <1>5
<1>7. /\ client' = [client EXCEPT !.seen = client.seen \o page, !.offset = o + Len(page), !.more = more]
      /\ UNCHANGED <<registry, creatorRaffles, partners, partnersList>>
  BY DEF ReadPage, PageItems, registryVars, partnerVars
<1>9. more \in BOOLEAN
  <2>1. CASE v = "partners"
    BY <2>1, Zenon DEF HasMore
  <2>2. CASE v # "partners"
    <3>1. more = (e < Len(L))
      BY <2>2 DEF HasMore
    <3> QED BY <3>1
  <2> QED BY <2>1, <2>2
<1>10. page \in Seq(Items) /\ Len(page) \in Nat
  <2> HIDE DEF e, L, o
  <2>1. o + 1 \in Int /\ e \in Int /\ \A i \in (o + 1)..e : L[i] \in Items
    BY <1>2, <1>3, <1>6, SeqDomain
  <2>2. page \in Seq(Items)
    BY <2>1, SubSeqProperties
  <2> QED BY <2>2, SeqDomain
<1> DEFINE seen == client.seen \o page
           off == o + Len(page)
<1>11. seen \in Seq(Items) /\ off \in Nat
  <2> HIDE DEF page, o
  <2> QED BY <1>3, <1>10, ConcatProperties
<1>12. client' \in [view : {v}, limit : {client.limit}, offset : {off}, seen : {seen}, more : {more},
                    owed : {client.owed}, shifted : {client.shifted}]
  <2> HIDE DEF seen, off, more
  <2> QED BY <1>1, <1>7, ReplaceFields DEF seen, off
<1> HIDE DEF more, seen, off
<1>13. /\ client'.view = v /\ client'.limit = client.limit /\ client'.offset = off
       /\ client'.seen = seen /\ client'.more = more /\ client'.owed = client.owed
       /\ client'.shifted = client.shifted
  BY <1>12
<1>14. IsClient(client')
  BY <1>3, <1>9, <1>11, <1>12, <1>13 DEF IsClient
<1>15. ASSUME ~client.shifted
       PROVE  /\ more => InProgress(client', L)
              /\ ~more => IsInjective(seen) /\ client.owed \subseteq Range(seen)
  <2>1. InProgress(client, L)
    BY <1>1, <1>15 DEF ClientInv
  <2>2. o <= e
    <3>1. o <= Len(L)
      BY <2>1 DEF InProgress
    <3> HIDE DEF l, L, o, e
    <3> QED BY <1>2, <1>3, <1>4, <1>5, <3>1
  <2>3. /\ Len(page) = e - o
        /\ Len(seen) = e
        /\ \A i \in 1..e : seen[i] = L[i]
        /\ IsInjective(seen)
        /\ e = Len(L) => client.owed \subseteq Range(seen)
    <3> HIDE DEF e, L
    <3> QED BY <1>1, <1>2, <1>6, <2>1, <2>2, PageRead DEF seen
  <2>4. off = e
    <3> HIDE DEF e, page, o
    <3> QED BY <1>3, <1>6, <2>3 DEF off
  <2>5. InProgress(client', L)
    <3> HIDE DEF e, L
    <3> QED BY <1>6, <1>13, <2>1, <2>3, <2>4 DEF InProgress
  <2>6. ~more => e = Len(L)
    <3>1. CASE v = "partners"
      <4>1. more <=> page # << >>
        BY <3>1 DEF more, HasMore, PageItems
      <4>2. page = << >> => e - o = 0
        BY <2>3, EmptySeq
      <4> HIDE DEF e, L, l, o, page
      <4> QED BY <1>2, <1>3, <1>4, <1>5, <4>1, <4>2
    <3>2. CASE v # "partners"
      <4>1. more <=> e < Len(L)
        BY <3>2 DEF more, HasMore
      <4> HIDE DEF e, L
      <4> QED BY <1>2, <1>6, <4>1
    <3> QED BY <3>1, <3>2
  <2> QED BY <2>3, <2>5, <2>6
<1>16. Listed(client.view)' = L
  <2>1. client'.view = client.view /\ UNCHANGED <<registry, creatorRaffles, partnersList>>
    BY <1>7, <1>13
  <2> QED BY <2>1 DEF Listed, RaffleSlots
<1>17. (~client.shifted /\ client.more => InProgress(client, Listed(client.view)))'
  <2> HIDE DEF L
  <2> QED BY <1>13, <1>15, <1>16
<1>18. (~client.shifted /\ ~client.more =>
          IsInjective(client.seen) /\ client.owed \subseteq Range(client.seen))'
  BY <1>13, <1>15
<1> QED BY <1>1, <1>13, <1>14, <1>17, <1>18 DEF ClientInv

LEMMA ClientFields ==
    ASSUME NEW c, NEW v, NEW l \in Nat, NEW o \in Nat, NEW s \in Seq(Items), NEW m \in BOOLEAN,
           NEW S, NEW h \in BOOLEAN,
           c \in [view : {v}, limit : {l}, offset : {o}, seen : {s}, more : {m}, owed : {S},
                  shifted : {h}]
    PROVE  IsClient(c)
  BY DEF IsClient

LEMMA IdleClient ==
    ASSUME NEW v, NEW l \in Nat, NEW S, NEW m \in BOOLEAN
    PROVE  IsClient([Idle EXCEPT !.view = v, !.limit = l, !.more = m, !.owed = S])
<1> DEFINE c == [Idle EXCEPT !.view = v, !.limit = l, !.more = m, !.owed = S]
<1>1. PICK s \in Seq(Items) : s = << >>
  BY EmptySeq
<1>2. PICK h \in BOOLEAN : h = FALSE
  OBVIOUS
<1>3. PICK o \in Nat : o = 0
  OBVIOUS
<1>4. c = [view |-> v, limit |-> l, offset |-> o, seen |-> s, more |-> m, owed |-> S,
           shifted |-> h]
  <2>1. Idle = [view |-> "none", limit |-> o, offset |-> o, seen |-> s, more |-> h, owed |-> {},
                shifted |-> h]
    BY <1>1, <1>2, <1>3, Zenon DEF Idle
  <2>2. c = [[view |-> "none", limit |-> o, offset |-> o, seen |-> s, more |-> h, owed |-> {},
                shifted |-> h] EXCEPT !.view = v, !.limit = l, !.more = m, !.owed = S]
    BY <2>1, Zenon
  <2> HIDE DEF c
  <2> QED BY <2>2
<1>5. c \in [view : {v}, limit : {l}, offset : {o}, seen : {s}, more : {m}, owed : {S},
             shifted : {h}]
  <2> HIDE DEF c
  <2> QED BY <1>4
<1> HIDE DEF c
<1>6. IsClient(c)
  BY <1>5, ClientFields
<1> QED BY <1>6 DEF c

LEMMA StartFields ==
    ASSUME NEW v, NEW l, NEW S
    PROVE  [Idle EXCEPT !.view = v, !.limit = l, !.more = TRUE, !.owed = S]
             \in [view : {v}, limit : {l}, offset : {0}, seen : {<< >>}, more : {TRUE},
                  owed : {S}, shifted : {FALSE}]
  BY DEF Idle

LEMMA StartListingListing ==
    ASSUME Lists, ClientInv, NEW v \in Views, NEW l \in Limits, StartListing(v, l)
    PROVE  ClientInv'
<1> DEFINE L == Listed(v)
<1>1. /\ client' = [Idle EXCEPT !.view = v, !.limit = l, !.more = TRUE, !.owed = Members(v)]
      /\ UNCHANGED <<registry, creatorRaffles, partners, partnersList>>
  BY DEF StartListing, registryVars, partnerVars
<1>2. client' \in [view : {v}, limit : {l}, offset : {0}, seen : {<< >>}, more : {TRUE},
                   owed : {Members(v)}, shifted : {FALSE}]
  BY <1>1, StartFields
<1>3. /\ client'.view = v /\ client'.limit = l /\ client'.offset = 0 /\ client'.seen = << >>
      /\ client'.more = TRUE /\ client'.owed = Members(v) /\ client'.shifted = FALSE
  BY <1>2
<1>4. l \in Nat
  BY StatsConstants
<1>5. << >> \in Seq(Items) /\ Len(<< >>) = 0
  BY EmptySeq
<1>6. IsClient(client')
  BY <1>1, <1>4, IdleClient
<1>7. L \in Seq(Items) /\ Indexes(L, Members(v)) /\ Len(L) \in Nat
  BY ListedIndexes, SeqDomain
<1>8. \A x \in Members(v) : \E i \in 1..Len(L) : L[i] = x
  <2> HIDE DEF L
  <2> QED BY <1>7, IndexesByPlace
<1>9. InProgress(client', L)
  <2> HIDE DEF L
  <2> QED BY <1>3, <1>5, <1>7, <1>8 DEF InProgress
<1>10. Listed(client.view)' = L
  <2>1. client'.view = v /\ UNCHANGED <<registry, creatorRaffles, partnersList>>
    BY <1>1, <1>3
  <2> QED BY <2>1 DEF Listed, RaffleSlots
<1> HIDE DEF L
<1> QED BY <1>3, <1>6, <1>9, <1>10 DEF ClientInv

LEMMA ShiftFields ==
    ASSUME NEW c, IsClient(c)
    PROVE  [c EXCEPT !.shifted = TRUE]
             \in [view : {c.view}, limit : {c.limit}, offset : {c.offset}, seen : {c.seen},
                  more : {c.more}, owed : {c.owed}, shifted : {TRUE}]
  BY DEF IsClient

LEMMA WhitelistListing ==
    ASSUME Lists, ClientInv, NEW q \in Partners, NEW on \in BOOLEAN, SetWhitelistStatus(q, on)
    PROVE  ClientInv'
<1>1. client' = IF client.view = "partners" /\ q \in Range(partnersList) /\ ~on
                THEN [client EXCEPT !.shifted = TRUE] ELSE client
  BY DEF SetWhitelistStatus
<1>2. /\ Lists'
      /\ \A v \in Views : \/ Extends(Listed(v), Listed(v)')
                          \/ v = "partners" /\ q \in Range(partnersList) /\ ~on
  BY WhitelistLists
<1>3. CASE client.view = "partners" /\ q \in Range(partnersList) /\ ~on
  <2>1. IsClient(client)
    BY DEF ClientInv
  <2>2. client' \in [view : {client.view}, limit : {client.limit}, offset : {client.offset},
                     seen : {client.seen}, more : {client.more}, owed : {client.owed},
                     shifted : {TRUE}]
    BY <1>1, <1>3, <2>1, ShiftFields
  <2>3. /\ client'.view = client.view /\ client'.limit = client.limit
        /\ client'.offset = client.offset /\ client'.seen = client.seen
        /\ client'.more = client.more /\ client'.owed = client.owed /\ client'.shifted = TRUE
    BY <2>2
  <2>4. IsClient(client')
    BY <2>1, <2>2, <2>3 DEF IsClient
  <2> QED BY <2>3, <2>4 DEF ClientInv
<1>4. CASE ~(client.view = "partners" /\ q \in Range(partnersList) /\ ~on)
  <2>1. client' = client
    BY <1>1, <1>4
  <2>2. client.more => Extends(Listed(client.view), Listed(client.view)')
    <3> SUFFICES ASSUME client.more PROVE Extends(Listed(client.view), Listed(client.view)')
      OBVIOUS
    <3>1. PICK v \in Views : v = client.view
      BY DEF ClientInv
    <3>2. Extends(Listed(v), Listed(v)')
      BY <1>2, <1>4, <3>1
    <3>3. Listed(client.view)' = Listed(v)'
      <4>1. client'.view = v
        BY <2>1, <3>1
      <4> QED BY <4>1 DEF Listed, RaffleSlots
    <3> QED BY <3>1, <3>2, <3>3
  <2> QED BY <1>2, <2>1, <2>2, ClientWaits
<1> QED BY <1>3, <1>4

PagesInv == Lists /\ ClientInv

LEMMA PagesInit == Init => PagesInv
<1> SUFFICES ASSUME Init PROVE ClientInv
  BY ListsInit DEF PagesInv
<1>1. client = Idle
  BY DEF Init
<1>2. Idle \in [view : {"none"}, limit : {0}, offset : {0}, seen : {<< >>}, more : {FALSE},
                owed : {{}}, shifted : {FALSE}]
  BY DEF Idle
<1>3. /\ client.view = "none" /\ client.limit = 0 /\ client.offset = 0 /\ client.seen = << >>
      /\ client.more = FALSE /\ client.owed = {} /\ client.shifted = FALSE
  BY <1>1, <1>2
<1>4. << >> \in Seq(Items) /\ IsInjective(<< >>)
  BY EmptySeq DEF IsInjective
<1>5. IsClient(client)
  <2>1. PICK h \in BOOLEAN : h = FALSE
    OBVIOUS
  <2>2. PICK s \in Seq(Items) : s = << >>
    BY <1>4
  <2>3. PICK o \in Nat : o = 0
    OBVIOUS
  <2>4. Idle = [view |-> "none", limit |-> o, offset |-> o, seen |-> s, more |-> h, owed |-> {},
                shifted |-> h]
    BY <2>1, <2>2, <2>3, Zenon DEF Idle
  <2>5. client \in [view : {"none"}, limit : {o}, offset : {o}, seen : {s}, more : {h},
                    owed : {{}}, shifted : {h}]
    BY <1>1, <2>4
  <2> QED BY <2>5, ClientFields
<1> QED BY <1>3, <1>4, <1>5 DEF ClientInv

\* The lists grow at their ends: raffles and partners that are added while a client
\* reads do not disturb it.
LEMMA GrowingListing ==
    ASSUME PagesInv, client' = client, Lists',
           \A v \in Views : Extends(Listed(v), Listed(v)')
    PROVE  PagesInv'
<1>1. client.more => Extends(Listed(client.view), Listed(client.view)')
  <2> SUFFICES ASSUME client.more PROVE Extends(Listed(client.view), Listed(client.view)')
    OBVIOUS
  <2>1. PICK v \in Views : v = client.view
    BY DEF PagesInv, ClientInv
  <2>2. Listed(client.view)' = Listed(v)'
    <3>1. client'.view = v
      BY <2>1
    <3> QED BY <3>1 DEF Listed, RaffleSlots
  <2> QED BY <2>1, <2>2
<1> QED BY <1>1, ClientWaits DEF PagesInv

LEMMA PagesNext ==
    ASSUME PagesInv, [Next]_vars
    PROVE  PagesInv'
<1>1. ASSUME UNCHANGED <<registry, creatorRaffles, partners, partnersList, client>>
      PROVE  PagesInv'
  BY <1>1, UnchangedLists, GrowingListing DEF PagesInv
<1>2. ASSUME NEW c \in Creators, NEW a \in Assets, RegisterRaffle(c, a)
      PROVE  PagesInv'
  BY <1>2, RegisterLists, GrowingListing DEF PagesInv, RegisterRaffle
<1>3. ASSUME NEW r \in 1..MaxRaffles, NEW b \in Buyers, NEW a \in Assets, NEW n \in Amounts,
             Sale(r, b, a, n)
      PROVE  PagesInv'
  BY <1>1, <1>3 DEF Sale, registryVars, partnerVars
<1>4. ASSUME NEW r \in 1..MaxRaffles, NEW b \in Buyers, NEW q \in Buyers, NEW a \in Assets,
             NEW n \in Amounts, Gift(r, b, q, a, n)
      PROVE  PagesInv'
  BY <1>3, <1>4 DEF Gift
<1>5. ASSUME NEW r \in 1..MaxRaffles, NEW d \in Results, RecordLeaderboardEntry(r, d)
      PROVE  PagesInv'
  BY <1>1, <1>5 DEF RecordLeaderboardEntry, registryVars, partnerVars
<1>6. ASSUME NEW q \in Partners, NEW on \in BOOLEAN, SetWhitelistStatus(q, on)
      PROVE  PagesInv'
  BY <1>6, WhitelistLists, WhitelistListing DEF PagesInv
<1>7. ASSUME NEW v \in Creators \cup {"all", "partners"}, NEW l \in Limits, StartListing(v, l)
      PROVE  PagesInv'
  <2>1. Lists'
    BY <1>7, UnchangedLists DEF PagesInv, StartListing, registryVars, partnerVars
  <2> QED BY <1>7, <2>1, StartListingListing DEF PagesInv, Views
<1>8. ASSUME ReadPage
      PROVE  PagesInv'
  <2>1. Lists'
    BY <1>8, UnchangedLists DEF PagesInv, ReadPage, registryVars, partnerVars
  <2> QED BY <1>8, <2>1, ReadPageListing DEF PagesInv
<1>9. ASSUME UNCHANGED vars
      PROVE  PagesInv'
  BY <1>1, <1>9 DEF vars, registryVars, partnerVars
<1> QED BY <1>2, <1>3, <1>4, <1>5, <1>6, <1>7, <1>8, <1>9 DEF Next

\* A client that pages to the end has seen everything that was there when it began,
\* once (get_raffles_page, paginate_raffles, get_all_partners), for every limit, every
\* length of the list and whatever is added meanwhile.
THEOREM ListingsAreComplete == Spec => []PagesComplete
<1>1. PagesInv => PagesComplete
  <2> SUFFICES ASSUME PagesInv, ~client.shifted
               PROVE  /\ IsInjective(client.seen)
                      /\ ~client.more => client.owed \subseteq Range(client.seen)
    BY DEF PagesComplete
  <2>1. CASE ~client.more
    BY <2>1 DEF PagesInv, ClientInv
  <2>2. CASE client.more
    <3> DEFINE L == Listed(client.view)
               o == client.offset
    <3>1. client.view \in Views /\ IsClient(client) /\ InProgress(client, L)
      BY <2>2 DEF PagesInv, ClientInv
    <3>2. L \in Seq(Items) /\ Indexes(L, Members(client.view)) /\ Len(L) \in Nat
      BY <3>1, ListedIndexes, SeqDomain DEF PagesInv
    <3> HIDE DEF L
    <3>3. client.seen \in Seq(Items) /\ o \in Nat
      BY <3>1 DEF IsClient
    <3>4. DOMAIN client.seen = 1..o /\ o <= Len(L) /\ \A i \in 1..o : client.seen[i] = L[i]
      BY <3>1, <3>3, SeqDomain DEF InProgress
    <3>5. \A i, k \in 1..Len(L) : L[i] = L[k] => i = k
      BY <3>2, IndexesByPlace
    <3>6. \A i \in 1..o : i \in 1..Len(L)
      BY <3>2, <3>3, <3>4
    <3> QED BY <2>2, <3>4, <3>5, <3>6 DEF IsInjective
  <2> QED BY <2>1, <2>2
<1> QED BY <1>1, PagesInit, PagesNext, PTL DEF Spec

-----------------------------------------------------------------------------
(* Leaderboards: the exchange sort.                                         *)

Entries == [raffle : Nat, metric : Int]

\* c holds the entries of b, each raffle once.
Rearranged(b, c, N) ==
    /\ c \in [1..N -> Entries]
    /\ \A x \in 1..N : \E y \in 1..N : c[x] = b[y]
    /\ \A y \in 1..N : \E x \in 1..N : c[x] = b[y]
    /\ \A x, y \in 1..N : c[x].raffle = c[y].raffle => x = y

\* The first i places hold the largest metrics, in order.
Leading(b, i, N) == \A a \in 1..i, x \in 1..N : a < x => b[a].metric >= b[x].metric

\* Place i against the k places behind it.
Ahead(b, i, k) == \A x \in (i + 1)..(i + k) : b[i].metric >= b[x].metric

LEMMA EntryFields ==
    ASSUME NEW N, NEW b \in [1..N -> Entries], NEW i \in 1..N
    PROVE  b[i].metric \in Int /\ b[i].raffle \in Nat /\ b[i] \in Entries
<1>1. b[i] \in Entries
  OBVIOUS
<1> QED BY <1>1 DEF Entries

LEMMA ExchangedEntries ==
    ASSUME NEW N \in Nat, NEW b \in [1..N -> Entries], NEW i \in 1..N, NEW j \in 1..N, i # j
    PROVE  LET c == Exchanged(b, i, j) IN
           /\ c \in [1..N -> Entries]
           /\ \A x \in 1..N : x # i /\ x # j => c[x] = b[x]
           /\ \/ c[i] = b[i] /\ c[j] = b[j]
              \/ c[i] = b[j] /\ c[j] = b[i]
           /\ c[i].metric >= c[j].metric /\ c[i].metric >= b[i].metric
<1> DEFINE c == Exchanged(b, i, j)
<1>1. b[i].metric \in Int /\ b[j].metric \in Int /\ b[i] \in Entries /\ b[j] \in Entries
  BY EntryFields
<1>2. CASE b[j].metric > b[i].metric
  <2>1. c = [b EXCEPT ![i] = b[j], ![j] = b[i]]
    BY <1>2 DEF Exchanged
  <2> HIDE DEF c
  <2>2. /\ c \in [1..N -> Entries] /\ c[i] = b[j] /\ c[j] = b[i]
        /\ \A x \in 1..N : x # i /\ x # j => c[x] = b[x]
    BY <1>1, <2>1
  <2>3. c[i].metric >= c[j].metric /\ c[i].metric >= b[i].metric
    BY <1>1, <1>2, <2>2
  <2> QED BY <2>2, <2>3 DEF c
<1>3. CASE ~(b[j].metric > b[i].metric)
  <2>1. c = b
    BY <1>3 DEF Exchanged
  <2> HIDE DEF c
  <2>2. c[i].metric >= c[j].metric /\ c[i].metric >= b[i].metric
    BY <1>1, <1>3, <2>1
  <2> QED BY <2>1, <2>2 DEF c
<1> QED BY <1>2, <1>3

LEMMA ExchangedRearranges ==
    ASSUME NEW N \in Nat, NEW a, NEW b, Rearranged(a, b, N), NEW i \in 1..N, NEW j \in 1..N, i # j
    PROVE  Rearranged(a, Exchanged(b, i, j), N)
<1> DEFINE c == Exchanged(b, i, j)
           p == [x \in 1..N |-> IF c[i] = b[i] /\ c[j] = b[j] THEN x
                                ELSE IF x = i THEN j ELSE IF x = j THEN i ELSE x]
<1>1. b \in [1..N -> Entries]
  BY DEF Rearranged
<1>2. /\ c \in [1..N -> Entries]
      /\ \A x \in 1..N : x # i /\ x # j => c[x] = b[x]
      /\ \/ c[i] = b[i] /\ c[j] = b[j]
         \/ c[i] = b[j] /\ c[j] = b[i]
  BY <1>1, ExchangedEntries
<1> HIDE DEF c
<1>3. p \in [1..N -> 1..N] /\ \A x \in 1..N : c[x] = b[p[x]] /\ p[p[x]] = x
  BY <1>2
<1> HIDE DEF p
<1>4. \A x \in 1..N : \E y \in 1..N : c[x] = a[y]
  <2> TAKE x \in 1..N
  <2>1. p[x] \in 1..N /\ c[x] = b[p[x]]
    BY <1>3
  <2>2. PICK y \in 1..N : b[p[x]] = a[y]
    BY <2>1 DEF Rearranged
  <2> QED BY <2>1, <2>2
<1>5. \A y \in 1..N : \E x \in 1..N : c[x] = a[y]
  <2> TAKE y \in 1..N
  <2>1. PICK x \in 1..N : b[x] = a[y]
    BY DEF Rearranged
  <2>2. p[x] \in 1..N /\ c[p[x]] = b[x]
    BY <1>3
  <2> QED BY <2>1, <2>2
<1>6. \A x, y \in 1..N : c[x].raffle = c[y].raffle => x = y
  <2> SUFFICES ASSUME NEW x \in 1..N, NEW y \in 1..N, c[x].raffle = c[y].raffle PROVE x = y
    OBVIOUS
  <2>1. p[x] \in 1..N /\ p[y] \in 1..N /\ p[p[x]] = x /\ p[p[y]] = y
    BY <1>3
  <2>2. b[p[x]].raffle = b[p[y]].raffle
    BY <1>3
  <2>3. \A k, m \in 1..N : b[k].raffle = b[m].raffle => k = m
    BY DEF Rearranged
  <2>4. p[x] = p[y]
    BY <2>1, <2>2, <2>3, Zenon
  <2> QED BY <2>1, <2>4
<1> QED BY <1>2, <1>4, <1>5, <1>6 DEF Rearranged, c

LEMMA ExchangedLeads ==
    ASSUME NEW N \in Nat, NEW b \in [1..N -> Entries], NEW i \in 1..N, NEW j \in 1..N, i < j,
           Leading(b, i - 1, N)
    PROVE  Leading(Exchanged(b, i, j), i - 1, N)
<1> DEFINE c == Exchanged(b, i, j)
<1>0. i # j
  OBVIOUS
<1>1. /\ \A x \in 1..N : x # i /\ x # j => c[x] = b[x]
      /\ \/ c[i] = b[i] /\ c[j] = b[j]
         \/ c[i] = b[j] /\ c[j] = b[i]
  BY <1>0, ExchangedEntries
<1> HIDE DEF c
<1> SUFFICES ASSUME NEW a \in 1..(i - 1), NEW x \in 1..N, a < x
             PROVE  c[a].metric >= c[x].metric
  BY DEF Leading, c
<1>2. a \in 1..N /\ a # i /\ a # j /\ a < i /\ a < j
  OBVIOUS
<1>3. c[a] = b[a]
  BY <1>1, <1>2
<1>4. PICK y \in 1..N : a < y /\ c[x] = b[y]
  <2>1. CASE x = i
    BY <1>1, <1>2, <2>1
  <2>2. CASE x = j
    BY <1>1, <1>2, <2>2
  <2>3. CASE x # i /\ x # j
    BY <1>1, <2>3
  <2> QED BY <2>1, <2>2, <2>3
<1>5. b[a].metric >= b[y].metric
  BY <1>4 DEF Leading
<1> QED BY <1>3, <1>4, <1>5

LEMMA ExchangedAhead ==
    ASSUME NEW N \in Nat, NEW b \in [1..N -> Entries], NEW i \in 1..N, NEW k \in Nat,
           i + (k + 1) \in 1..N, Ahead(b, i, k)
    PROVE  Ahead(Exchanged(b, i, i + (k + 1)), i, k + 1)
<1> DEFINE j == i + (k + 1)
           c == Exchanged(b, i, j)
<1>0. j \in 1..N /\ i < j /\ i # j /\ j = i + (k + 1)
  OBVIOUS
<1> HIDE DEF j
<1>1. /\ c \in [1..N -> Entries]
      /\ \A x \in 1..N : x # i /\ x # j => c[x] = b[x]
      /\ c[i].metric >= c[j].metric /\ c[i].metric >= b[i].metric
  BY <1>0, ExchangedEntries
<1> HIDE DEF c
<1>2. ASSUME NEW x \in (i + 1)..(i + (k + 1))
      PROVE  c[i].metric >= c[x].metric
  <2>1. CASE x = j
    BY <1>1, <2>1
  <2>2. CASE x # j
    <3>1. x \in (i + 1)..(i + k) /\ x \in 1..N /\ x # i
      BY <1>0, <1>2, <2>2
    <3>2. b[i].metric >= b[x].metric
      BY <3>1 DEF Ahead
    <3>3. c[x] = b[x]
      BY <1>1, <2>2, <3>1
    <3>4. b[i].metric \in Int /\ b[x].metric \in Int /\ c[i].metric \in Int
      BY <1>1, <3>1, EntryFields
    <3> QED BY <1>1, <3>2, <3>3, <3>4
  <2> QED BY <2>1, <2>2
<1> QED BY <1>2 DEF Ahead, c, j

\* The board while entry i is compared with the later ones.
Sweeping(a, b, i, k, N) == Rearranged(a, b, N) /\ Leading(b, i - 1, N) /\ Ahead(b, i, k)

LEMMA SweepStep ==
    ASSUME NEW N \in Nat, NEW a, NEW b, NEW i \in 1..N, NEW k \in Nat, i + (k + 1) \in 1..N,
           Sweeping(a, b, i, k, N)
    PROVE  Sweeping(a, Exchanged(b, i, i + (k + 1)), i, k + 1, N)
<1> DEFINE j == i + (k + 1)
<1>1. j \in 1..N /\ i < j /\ i # j
  OBVIOUS
<1>2. b \in [1..N -> Entries] /\ Rearranged(a, b, N) /\ Leading(b, i - 1, N) /\ Ahead(b, i, k)
  BY DEF Sweeping, Rearranged
<1>3. Ahead(Exchanged(b, i, j), i, k + 1)
  BY <1>2, ExchangedAhead
<1> HIDE DEF j
<1>4. Rearranged(a, Exchanged(b, i, j), N) /\ Leading(Exchanged(b, i, j), i - 1, N)
  BY <1>1, <1>2, ExchangedRearranges, ExchangedLeads
<1> QED BY <1>3, <1>4 DEF Sweeping, j

\* The inner loop brings the largest of the rest to place i.
LEMMA SweptLeads ==
    ASSUME NEW N \in Nat, NEW a, NEW d, NEW i \in 1..N, Rearranged(a, d, N), Leading(d, i - 1, N)
    PROVE  Rearranged(a, Swept(d, i), N) /\ Leading(Swept(d, i), i, N)
<1> DEFINE S == [1..N -> Entries]
           M == N - i
           K == Len(d) - i
           step == [x \in (1..M) \X S |-> Exchanged(x[2], i, i + x[1])]
           F(h) == [k \in 0..(Len(d) - i) |-> IF k = 0 THEN d ELSE Exchanged(h[k - 1], i, i + k)]
<1>1. d \in S
  BY DEF Rearranged
<1>2. Len(d) = N
  BY <1>1, FunctionIsSeq
<1>3. M \in Nat /\ \A k \in 1..M : i + k \in 1..N /\ i + k # i
  OBVIOUS
<1>4. \A k \in 1..M, y \in S : Exchanged(y, i, i + k) \in S
  <2> TAKE k \in 1..M, y \in S
  <2>1. i + k \in 1..N /\ i # i + k
    BY <1>3
  <2> QED BY <2>1, ExchangedEntries
<1>5. step \in [(1..M) \X S -> S]
  <2> HIDE DEF M, S
  <2> QED BY <1>4
<1>6. \A k \in 1..M, y \in S : step[<<k, y>>] = Exchanged(y, i, i + k)
  OBVIOUS
<1> HIDE DEF step
<1>7. PICK g \in [0..M -> S] : g[0] = d /\ \A k \in 1..M : g[k] = step[<<k, g[k - 1]>>]
  <2> HIDE DEF M, S
  <2>1. Solvable(M, S, d, step)
    BY <1>1, <1>3, <1>5, RecursionExists
  <2> QED BY <2>1 DEF Solvable
<1>8. \A k \in 1..M : g[k] = Exchanged(g[k - 1], i, i + k)
  <2> HIDE DEF M, S
  <2> TAKE k \in 1..M
  <2>1. k - 1 \in 0..M
    BY <1>3
  <2>2. g[k - 1] \in S
    BY <2>1
  <2> QED BY <1>6, <1>7, <2>2
<1>9. g = F(g)
  <2>1. DOMAIN g = 0..(Len(d) - i)
    BY <1>2
  <2>2. \A k \in 0..(Len(d) - i) : g[k] = IF k = 0 THEN d ELSE Exchanged(g[k - 1], i, i + k)
    <3> TAKE k \in 0..(Len(d) - i)
    <3>1. k = 0 \/ k \in 1..M
      BY <1>2
    <3> HIDE DEF M, S
    <3> QED BY <1>3, <1>7, <1>8, <3>1
  <2> QED BY <2>1, <2>2
<1> DEFINE s == CHOOSE h : h = F(h)
<1>10. s = F(s)
  BY <1>9
<1>11. Swept(d, i) = s[Len(d) - i]
  BY Zenon DEF Swept
<1> HIDE DEF s
<1>12. s[0] = d
  BY <1>2, <1>3, <1>10
<1>13. \A k \in 1..M : s[k] = Exchanged(s[k - 1], i, i + k)
  <2> TAKE k \in 1..M
  <2>1. k \in 0..(Len(d) - i) /\ k # 0
    BY <1>2
  <2> QED BY <1>10, <2>1
<1> DEFINE T == {k \in 0..M : Sweeping(a, s[k], i, k, N)}
<1>14. 0 \in T
  <2>1. Ahead(d, i, 0)
    BY DEF Ahead
  <2>2. 0 \in 0..M
    BY <1>3
  <2> QED BY <1>12, <2>1, <2>2 DEF Sweeping
<1>15. ASSUME NEW k \in 0..M, k \in T, k < M
       PROVE  k + 1 \in T
  <2>1. k \in Nat /\ k + 1 \in 1..M /\ k + 1 \in 0..M /\ (k + 1) - 1 = k /\ i + (k + 1) \in 1..N
    BY <1>15
  <2>2. s[k + 1] = Exchanged(s[k], i, i + (k + 1))
    BY <1>13, <2>1
  <2>3. Sweeping(a, s[k], i, k, N)
    BY <1>15
  <2>4. Sweeping(a, s[k + 1], i, k + 1, N)
    BY <2>1, <2>2, <2>3, SweepStep
  <2> HIDE DEF M
  <2> QED BY <2>1, <2>4
<1>16. Sweeping(a, s[M], i, M, N)
  <2>1. M \in 0..M
    BY <1>3
  <2>2. M \in T
    <3> HIDE DEF T, M
    <3> QED BY <1>3, <1>14, <1>15, <2>1, UpTo
  <2> QED BY <2>2
<1>17. Swept(d, i) = s[M]
  BY <1>2, <1>11
<1>18. Leading(s[M], i, N)
  <2> SUFFICES ASSUME NEW y \in 1..i, NEW x \in 1..N, y < x
               PROVE  s[M][y].metric >= s[M][x].metric
    BY DEF Leading
  <2>1. CASE y \in 1..(i - 1)
    <3> HIDE DEF M
    <3> QED BY <1>16, <2>1 DEF Sweeping, Leading
  <2>2. CASE y = i
    <3>1. x \in (i + 1)..(i + M)
      BY <2>2
    <3> HIDE DEF M
    <3> QED BY <1>16, <2>2, <3>1 DEF Sweeping, Ahead
  <2>3. y \in 1..(i - 1) \/ y = i
    OBVIOUS
  <2> QED BY <2>1, <2>2, <2>3
<1> HIDE DEF M
<1> QED BY <1>16, <1>17, <1>18 DEF Sweeping

\* The outer loop: all places lead, so the board is sorted.
LEMMA SortedLeads ==
    ASSUME NEW N \in Nat, NEW d, Rearranged(d, d, N)
    PROVE  Rearranged(d, Sorted(d), N) /\ Leading(Sorted(d), N, N)
<1> DEFINE S == {c \in [1..N -> Entries] : Rearranged(d, c, N)}
           In(c, i) == Rearranged(d, c, N) /\ Leading(c, i, N)
           step == [x \in (1..N) \X S |-> IF Swept(x[2], x[1]) \in S THEN Swept(x[2], x[1]) ELSE d]
           F(h) == [i \in 0..Len(d) |-> IF i = 0 THEN d ELSE Swept(h[i - 1], i)]
<1>1. d \in [1..N -> Entries] /\ d \in S
  BY DEF Rearranged
<1>2. Len(d) = N
  BY <1>1, FunctionIsSeq
<1>3. step \in [(1..N) \X S -> S]
  <2> HIDE DEF S
  <2> QED BY <1>1
<1>4. \A i \in 1..N, y \in S :
         step[<<i, y>>] = IF Swept(y, i) \in S THEN Swept(y, i) ELSE d
  <2> HIDE DEF S
  <2> QED OBVIOUS
<1> HIDE DEF step
<1>5. PICK g \in [0..N -> S] : g[0] = d /\ \A i \in 1..N : g[i] = step[<<i, g[i - 1]>>]
  <2> HIDE DEF S
  <2>1. Solvable(N, S, d, step)
    BY <1>1, <1>3, RecursionExists
  <2> QED BY <2>1 DEF Solvable
<1>6. ASSUME NEW i \in 0..N, i < N, In(g[i], i)
      PROVE  g[i + 1] = Swept(g[i], i + 1) /\ In(g[i + 1], i + 1)
  <2>1. i + 1 \in 1..N /\ (i + 1) - 1 = i
    BY <1>6
  <2>2. g[i] \in S
    <3> HIDE DEF S
    <3> QED OBVIOUS
  <2>3. Rearranged(d, Swept(g[i], i + 1), N) /\ Leading(Swept(g[i], i + 1), i + 1, N)
    <3>1. PICK z : z = g[i]
      OBVIOUS
    <3>2. Rearranged(d, z, N) /\ Leading(z, (i + 1) - 1, N)
      BY <1>6, <2>1, <3>1
    <3>3. Rearranged(d, Swept(z, i + 1), N) /\ Leading(Swept(z, i + 1), i + 1, N)
      BY <2>1, <3>2, SweptLeads
    <3> QED BY <3>1, <3>3
  <2>4. Swept(g[i], i + 1) \in S
    BY <2>3 DEF Rearranged
  <2>5. g[i + 1] = Swept(g[i], i + 1)
    <3> HIDE DEF S
    <3>1. g[i + 1] = step[<<i + 1, g[i]>>]
      BY <1>5, <2>1
    <3> QED BY <1>4, <2>1, <2>2, <2>4, <3>1
  <2> QED BY <2>3, <2>5
<1>7. In(g[0], 0)
  <2>1. Leading(d, 0, N)
    BY DEF Leading
  <2> QED BY <1>5, <2>1
<1> DEFINE T == {i \in 0..N : In(g[i], i)}
<1>8. \A i \in 0..N : In(g[i], i)
  <2>1. 0 \in T
    BY <1>7
  <2>2. ASSUME NEW i \in 0..N, i \in T, i < N PROVE i + 1 \in T
    <3>1. In(g[i + 1], i + 1)
      <4>1. In(g[i], i)
        BY <2>2
      <4> HIDE DEF In
      <4> QED BY <1>6, <2>2, <4>1
    <3> HIDE DEF In
    <3> QED BY <2>2, <3>1
  <2>3. \A i \in 0..N : i \in T
    <3> HIDE DEF T
    <3> QED BY <2>1, <2>2, UpTo
  <2> HIDE DEF In
  <2> QED BY <2>3
<1>9. \A i \in 1..N : g[i] = Swept(g[i - 1], i)
  <2> HIDE DEF In, S, T
  <2> TAKE i \in 1..N
  <2>1. i - 1 \in 0..N /\ i - 1 < N /\ (i - 1) + 1 = i
    OBVIOUS
  <2> QED BY <1>6, <1>8, <2>1
<1>10. g = F(g)
  <2> HIDE DEF S, In, T
  <2>1. DOMAIN g = 0..Len(d)
    BY <1>2
  <2>2. \A i \in 0..Len(d) : g[i] = IF i = 0 THEN d ELSE Swept(g[i - 1], i)
    <3> TAKE i \in 0..Len(d)
    <3>1. i = 0 \/ i \in 1..N
      BY <1>2
    <3> QED BY <1>5, <1>9, <3>1
  <2> QED BY <2>1, <2>2
<1> DEFINE s == CHOOSE h : h = F(h)
<1>11. s = F(s)
  BY <1>10
<1>12. Sorted(d) = s[Len(d)]
  BY Zenon DEF Sorted
<1> HIDE DEF s
<1>13. s[0] = d /\ \A i \in 1..N : s[i] = Swept(s[i - 1], i)
  <2>1. 0 \in 0..Len(d)
    BY <1>2
  <2>2. s[0] = d
    BY <1>11, <2>1
  <2>3. ASSUME NEW i \in 1..N PROVE s[i] = Swept(s[i - 1], i)
    <3>1. i \in 0..Len(d) /\ i # 0
      BY <1>2
    <3> QED BY <1>11, <3>1
  <2> QED BY <2>2, <2>3
<1> DEFINE U == {i \in 0..N : s[i] = g[i]}
<1>14. N \in U
  <2>1. 0 \in U
    BY <1>5, <1>13
  <2>2. ASSUME NEW i \in 0..N, i \in U, i < N PROVE i + 1 \in U
    <3>1. i + 1 \in 1..N /\ i + 1 \in 0..N /\ (i + 1) - 1 = i
      BY <2>2
    <3> HIDE DEF S, In, T
    <3>2. s[i + 1] = Swept(s[i], i + 1) /\ g[i + 1] = Swept(g[i], i + 1)
      BY <1>9, <1>13, <3>1
    <3> QED BY <2>2, <3>1, <3>2
  <2>3. N \in 0..N
    OBVIOUS
  <2> HIDE DEF U
  <2> QED BY <2>1, <2>2, <2>3, UpTo
<1>15. Sorted(d) = g[N] /\ N \in 0..N
  <2> HIDE DEF S, In, T
  <2> QED BY <1>2, <1>12, <1>14
<1> HIDE DEF S, T, U, F
<1> QED BY <1>8, <1>15

-----------------------------------------------------------------------------
(* Leaderboards: a new entry.                                               *)

\* The copy loop copies a board that does not show the raffle.
LEMMA OthersIsAll ==
    ASSUME NEW d \in Seq(Entries), NEW r, \A i \in 1..Len(d) : d[i].raffle # r
    PROVE  Others(d, r) = d
<1> DEFINE N == Len(d)
           S == Seq(Entries)
           step == [x \in (1..N) \X S |-> Append(x[2], d[x[1]])]
           F(h) == [i \in 0..Len(d) |->
                       IF i = 0 THEN << >>
                       ELSE IF d[i].raffle # r THEN Append(h[i - 1], d[i]) ELSE h[i - 1]]
           Prefix(c, n) == c \in S /\ Len(c) = n /\ \A x \in 1..n : c[x] = d[x]
<1>1. N \in Nat /\ \A i \in 1..N : d[i] \in Entries /\ d[i].raffle # r
  BY SeqDomain
<1>2. \A c \in S, e \in Entries :
        /\ Append(c, e) \in S /\ Len(Append(c, e)) = Len(c) + 1 /\ Len(c) \in Nat
        /\ \A x \in 1..Len(c) : Append(c, e)[x] = c[x]
        /\ Append(c, e)[Len(c) + 1] = e
  BY AppendProperties, SeqDomain
<1>3. << >> \in S /\ Len(<< >>) = 0
  BY EmptySeq
<1> HIDE DEF S
<1>4. step \in [(1..N) \X S -> S]
  BY <1>1, <1>2
<1>5. \A i \in 1..N, y \in S : step[<<i, y>>] = Append(y, d[i])
  OBVIOUS
<1> HIDE DEF step
<1>6. PICK g \in [0..N -> S] : g[0] = << >> /\ \A i \in 1..N : g[i] = step[<<i, g[i - 1]>>]
  <2> HIDE DEF N
  <2>1. Solvable(N, S, << >>, step)
    BY <1>1, <1>3, <1>4, RecursionExists
  <2> QED BY <2>1 DEF Solvable
<1>7. \A i \in 1..N : g[i] = Append(g[i - 1], d[i])
  <2> TAKE i \in 1..N
  <2>1. i - 1 \in 0..N
    BY <1>1
  <2>2. g[i - 1] \in S
    BY <2>1
  <2> QED BY <1>5, <1>6, <2>2
<1>8. g = F(g)
  <2>1. \A i \in 0..N : g[i] = IF i = 0 THEN << >>
                               ELSE IF d[i].raffle # r THEN Append(g[i - 1], d[i]) ELSE g[i - 1]
    <3> TAKE i \in 0..N
    <3>1. i = 0 \/ i \in 1..N
      BY <1>1
    <3> QED BY <1>1, <1>6, <1>7, <3>1
  <2> QED BY <2>1
<1> DEFINE s == CHOOSE h : h = F(h)
<1>9. s = F(s)
  BY <1>8
<1>10. Others(d, r) = s[Len(d)]
  BY Zenon DEF Others
<1> HIDE DEF s
<1>11. s[0] = << >> /\ \A i \in 1..N : s[i] = Append(s[i - 1], d[i])
  <2>1. s[0] = << >>
    BY <1>1, <1>9
  <2>2. ASSUME NEW i \in 1..N PROVE s[i] = Append(s[i - 1], d[i])
    <3>1. i \in 0..Len(d) /\ i # 0 /\ d[i].raffle # r
      BY <1>1
    <3>2. s[i] = F(s)[i]
      BY <1>9, Zenon
    <3> QED BY <3>1, <3>2
  <2> QED BY <2>1, <2>2
<1> DEFINE T == {n \in 0..N : Prefix(s[n], n)}
<1>12. 0 \in T
  BY <1>1, <1>3, <1>11
<1>13. ASSUME NEW n \in 0..N, n \in T, n < N PROVE n + 1 \in T
  <2>1. n + 1 \in 1..N /\ n + 1 \in 0..N /\ (n + 1) - 1 = n /\ n \in Nat
    BY <1>1, <1>13
  <2>2. PICK c \in S : c = s[n] /\ Len(c) = n /\ \A x \in 1..n : c[x] = d[x]
    BY <1>13
  <2>3. s[n + 1] = Append(c, d[n + 1])
    BY <1>11, <2>1, <2>2
  <2>4. PICK e \in Entries : e = d[n + 1]
    BY <1>1, <2>1
  <2>5. /\ Append(c, e) \in S /\ Len(Append(c, e)) = n + 1
        /\ \A x \in 1..n : Append(c, e)[x] = c[x]
        /\ Append(c, e)[n + 1] = e
    <3> DEFINE z == Append(c, e)
    <3>1. /\ z \in S /\ Len(z) = Len(c) + 1
          /\ \A x \in 1..Len(c) : z[x] = c[x]
          /\ z[Len(c) + 1] = e
      BY <1>2, Zenon
    <3>2. Len(c) = n
      BY <2>2
    <3> HIDE DEF z
    <3>3. z \in S /\ Len(z) = n + 1 /\ (\A x \in 1..n : z[x] = c[x]) /\ z[n + 1] = e
      BY <3>1, <3>2, Zenon
    <3> QED BY <3>3, Zenon DEF z
  <2>6. \A x \in 1..(n + 1) : Append(c, e)[x] = d[x]
    <3> TAKE x \in 1..(n + 1)
    <3>1. x \in 1..n \/ x = n + 1
      BY <2>1
    <3> QED BY <2>2, <2>4, <2>5, <3>1
  <2>7. Prefix(s[n + 1], n + 1)
    BY <2>3, <2>4, <2>5, <2>6
  <2> HIDE DEF Prefix, N
  <2> QED BY <2>1, <2>7
<1>14. N \in T
  <2>1. N \in 0..N
    BY <1>1
  <2> HIDE DEF T, N
  <2> QED BY <1>1, <1>12, <1>13, <2>1, UpTo
<1>15. PICK c \in Seq(Entries) : c = Others(d, r) /\ Len(c) = Len(d) /\ \A x \in 1..Len(d) : c[x] = d[x]
  BY <1>10, <1>14 DEF S
<1> QED BY <1>15, SeqEqual

\* The best of the results f of the raffles D.
BestOf(b, D, f) ==
    /\ b \in Seq(Entries)
    /\ Len(b) = Min({LeaderboardCap, Cardinality(D)})
    /\ \A i \in 1..Len(b) : b[i].raffle \in D /\ b[i].metric = f[b[i].raffle]
    /\ \A i, j \in 1..Len(b) : b[i].raffle = b[j].raffle => i = j
    /\ \A i, j \in 1..Len(b) : i < j => b[i].metric >= b[j].metric
    /\ \A x \in D : \/ \E i \in 1..Len(b) : b[i].raffle = x
                    \/ Len(b) = LeaderboardCap /\ f[x] <= b[LeaderboardCap].metric

\* s holds the entries of b and the entry e, best first.
MergedWith(s, b, e) ==
    /\ s \in Seq(Entries) /\ Len(s) = Len(b) + 1
    /\ \A x \in 1..(Len(b) + 1) : s[x] = e \/ \E y \in 1..Len(b) : s[x] = b[y]
    /\ \E x \in 1..(Len(b) + 1) : s[x] = e
    /\ \A y \in 1..Len(b) : \E x \in 1..(Len(b) + 1) : s[x] = b[y]
    /\ \A x, y \in 1..(Len(b) + 1) : s[x].raffle = s[y].raffle => x = y
    /\ \A x, y \in 1..(Len(b) + 1) : x < y => s[x].metric >= s[y].metric

\* A board that does not show the raffle.
Without(b, r) ==
    /\ b \in Seq(Entries)
    /\ \A i \in 1..Len(b) : b[i].raffle # r
    /\ \A i, j \in 1..Len(b) : b[i].raffle = b[j].raffle => i = j

LEMMA SortedEntries ==
    ASSUME NEW b, NEW r \in Nat, NEW v \in Int, Without(b, r)
    PROVE  MergedWith(Sorted(Append(Others(b, r), [raffle |-> r, metric |-> v])), b,
                      [raffle |-> r, metric |-> v])
<1> DEFINE N == Len(b)
           e == [raffle |-> r, metric |-> v]
           a == Append(b, e)
           s == Sorted(a)
<1>0. /\ b \in Seq(Entries)
      /\ \A i \in 1..Len(b) : b[i].raffle # r
      /\ \A i, j \in 1..Len(b) : b[i].raffle = b[j].raffle => i = j
  BY DEF Without
<1>1. Others(b, r) = b
  BY <1>0, OthersIsAll
<1>2. e \in Entries /\ e.raffle = r
  BY DEF Entries
<1> HIDE DEF e
<1>3. /\ a \in Seq(Entries) /\ Len(a) = N + 1 /\ N \in Nat
      /\ \A i \in 1..N : a[i] = b[i]
      /\ a[N + 1] = e
  BY <1>0, <1>2, AppendProperties, SeqDomain
<1> HIDE DEF a
<1>4. a \in [1..(N + 1) -> Entries]
  BY <1>3, SeqDef, SeqDomain
<1>5. \A x, y \in 1..(N + 1) : a[x].raffle = a[y].raffle => x = y
  <2> SUFFICES ASSUME NEW x \in 1..(N + 1), NEW y \in 1..(N + 1), a[x].raffle = a[y].raffle
               PROVE  x = y
    OBVIOUS
  <2>1. (x \in 1..N \/ x = N + 1) /\ (y \in 1..N \/ y = N + 1)
    BY <1>3
  <2> QED BY <1>0, <1>2, <1>3, <2>1
<1>6. Rearranged(a, a, N + 1)
  BY <1>4, <1>5 DEF Rearranged
<1>7. Rearranged(a, s, N + 1) /\ Leading(s, N + 1, N + 1)
  <2>1. N + 1 \in Nat
    BY <1>3
  <2> HIDE DEF N
  <2> QED BY <1>6, <2>1, SortedLeads
<1> HIDE DEF s
<1>8. s \in Seq(Entries) /\ Len(s) = N + 1
  <2>1. s \in [1..(N + 1) -> Entries] /\ N + 1 \in Nat
    BY <1>3, <1>7 DEF Rearranged
  <2> HIDE DEF N
  <2> QED BY <2>1, FunctionIsSeq
<1>9. \A x \in 1..(N + 1) : s[x] = e \/ \E y \in 1..N : s[x] = b[y]
  <2> TAKE x \in 1..(N + 1)
  <2>1. PICK y \in 1..(N + 1) : s[x] = a[y]
    BY <1>7 DEF Rearranged
  <2>2. y \in 1..N \/ y = N + 1
    BY <1>3
  <2> QED BY <1>3, <2>1, <2>2
<1>10. \A y \in 1..(N + 1) : \E x \in 1..(N + 1) : s[x] = a[y]
  BY <1>7 DEF Rearranged
<1>11. \E x \in 1..(N + 1) : s[x] = e
  <2>1. N + 1 \in 1..(N + 1)
    BY <1>3
  <2> QED BY <1>3, <1>10, <2>1
<1>12. \A y \in 1..N : \E x \in 1..(N + 1) : s[x] = b[y]
  <2> TAKE y \in 1..N
  <2>1. y \in 1..(N + 1) /\ a[y] = b[y]
    BY <1>3
  <2> QED BY <1>10, <2>1
<1>13. \A x, y \in 1..(N + 1) : s[x].raffle = s[y].raffle => x = y
  BY <1>7 DEF Rearranged
<1>14. \A x, y \in 1..(N + 1) : x < y => s[x].metric >= s[y].metric
  BY <1>7 DEF Leading
<1>15. s = Sorted(Append(Others(b, r), e))
  BY <1>1 DEF s, a
<1>16. MergedWith(s, b, e)
  BY <1>8, <1>9, <1>11, <1>12, <1>13, <1>14 DEF MergedWith
<1> QED BY <1>15, <1>16 DEF e

\* A new result and the cut: what leaves the board, or does not get on it, is not
\* above what stays.
LEMMA BestAfter ==
    ASSUME NEW D, IsFiniteSet(D), NEW f, NEW h, NEW b, BestOf(b, D, f),
           NEW r \in Nat, r \notin D, NEW v \in Int, h[r] = v,
           \A x \in D : h[x] = f[x] /\ f[x] \in Int
    PROVE  BestOf(UpsertLeaderboard(b, r, v), D \cup {r}, h)
<1> DEFINE N == Len(b)
           C == LeaderboardCap
           e == [raffle |-> r, metric |-> v]
           s == Sorted(Append(Others(b, r), e))
           M == Min({C, Len(s)})
           t == SubSeq(s, 1, M)
<1>1. C \in Nat /\ C >= 1
  BY StatsConstants
<1>2. /\ b \in Seq(Entries) /\ N \in Nat
      /\ \A i \in 1..N : b[i].raffle \in D /\ b[i].metric = f[b[i].raffle] /\ b[i].raffle # r
      /\ \A i, j \in 1..N : b[i].raffle = b[j].raffle => i = j
      /\ \A i, j \in 1..N : i < j => b[i].metric >= b[j].metric
  <2>1. b \in Seq(Entries)
    BY DEF BestOf
  <2>2. N \in Nat
    BY <2>1, SeqDomain
  <2> QED BY <2>1, <2>2 DEF BestOf
<1>3. /\ s \in Seq(Entries) /\ Len(s) = N + 1
      /\ \A x \in 1..(N + 1) : s[x] = e \/ \E y \in 1..N : s[x] = b[y]
      /\ \E x \in 1..(N + 1) : s[x] = e
      /\ \A y \in 1..N : \E x \in 1..(N + 1) : s[x] = b[y]
      /\ \A x, y \in 1..(N + 1) : s[x].raffle = s[y].raffle => x = y
      /\ \A x, y \in 1..(N + 1) : x < y => s[x].metric >= s[y].metric
  <2>1. Without(b, r)
    BY <1>2 DEF Without
  <2>2. MergedWith(s, b, e)
    BY <2>1, SortedEntries
  <2> HIDE DEF s, e
  <2> QED BY <2>2 DEF MergedWith
<1>4. e.raffle = r /\ e.metric = v
  OBVIOUS
<1>5. UpsertLeaderboard(b, r, v) = t
  BY DEF UpsertLeaderboard, Trimmed
<1> HIDE DEF e, s
<1>6. M = IF C <= N + 1 THEN C ELSE N + 1
  <2>1. N + 1 \in Int /\ C \in Int
    BY <1>1, <1>2
  <2> HIDE DEF N, C
  <2>2. Min({C, N + 1}) = IF C <= N + 1 THEN C ELSE N + 1
    BY <2>1, MinOfTwo
  <2>3. Len(s) = N + 1
    BY <1>3
  <2> QED BY <2>2, <2>3
<1>7. M \in Nat /\ M >= 1 /\ M <= N + 1
  <2> HIDE DEF M, N, C
  <2> QED BY <1>1, <1>2, <1>6
<1>8. \A i \in 1..(N + 1) : s[i] \in Entries
  BY <1>3, SeqDomain
<1>9. t \in Seq(Entries) /\ Len(t) = M /\ \A i \in 1..M : t[i] = s[i]
  <2> HIDE DEF M, N, C
  <2>1. \A i \in 1..M : s[i] \in Entries
    BY <1>2, <1>7, <1>8
  <2>2. /\ SubSeq(s, 1, M) \in Seq(Entries)
        /\ Len(SubSeq(s, 1, M)) = IF 1 <= M THEN M - 1 + 1 ELSE 0
        /\ \A i \in 1..(M - 1 + 1) : SubSeq(s, 1, M)[i] = s[1 + i - 1]
    BY <1>7, <2>1, SubSeqProperties
  <2>3. M - 1 + 1 = M /\ \A i \in 1..M : 1 + i - 1 = i
    BY <1>7
  <2> HIDE DEF t
  <2> QED BY <1>7, <2>2, <2>3 DEF t
<1> HIDE DEF t
<1>10. \A i \in 1..M : i \in 1..(N + 1) /\ t[i] = s[i]
  <2> HIDE DEF M, N, C
  <2> QED BY <1>2, <1>7, <1>9
<1>11. \A x \in 1..(N + 1) : s[x].raffle \in D \cup {r} /\ s[x].metric = h[s[x].raffle]
                             /\ s[x].metric \in Int
  <2> TAKE x \in 1..(N + 1)
  <2>1. s[x].metric \in Int
    BY <1>8 DEF Entries
  <2>2. CASE s[x] = e
    BY <1>4, <2>1, <2>2
  <2>3. CASE \E y \in 1..N : s[x] = b[y]
    BY <1>2, <2>1, <2>3
  <2> QED BY <1>3, <2>2, <2>3
<1>12. Cardinality(D) \in Nat /\ Cardinality(D \cup {r}) = Cardinality(D) + 1
  BY FS_CardinalityType, FS_AddElement
<1>13. N = IF C <= Cardinality(D) THEN C ELSE Cardinality(D)
  <2>1. N = Min({C, Cardinality(D)})
    BY DEF BestOf
  <2> QED BY <1>1, <1>12, <2>1, MinOfTwo
<1>14. M = Min({C, Cardinality(D \cup {r})})
  <2> DEFINE k == Cardinality(D)
  <2> HIDE DEF k, M, N, C
  <2>1. Min({C, k + 1}) = IF C <= k + 1 THEN C ELSE k + 1
    BY <1>1, <1>12, MinOfTwo DEF k
  <2>2. k \in Nat /\ N = IF C <= k THEN C ELSE k
    BY <1>12, <1>13 DEF k
  <2>3. M = Min({C, k + 1})
    BY <1>1, <1>6, <2>1, <2>2
  <2> QED BY <1>12, <2>3 DEF k
<1> HIDE DEF M
<1>15. ASSUME NEW x \in D \cup {r}
       PROVE  \/ \E i \in 1..M : t[i].raffle = x
              \/ M = C /\ h[x] <= t[C].metric
  <2>1. CASE \E z \in 1..(N + 1) : s[z].raffle = x
    <3>1. PICK z \in 1..(N + 1) : s[z].raffle = x
      BY <2>1
    <3>2. CASE z <= M
      <4>1. z \in 1..M
        <5> HIDE DEF N, C
        <5> QED BY <1>2, <1>7, <3>2
      <4> QED BY <1>10, <3>1, <4>1
    <3>3. CASE ~(z <= M)
      <4>1. M = C /\ M \in 1..(N + 1) /\ M \in 1..M /\ M < z
        <5> HIDE DEF N, C
        <5> QED BY <1>1, <1>2, <1>6, <1>7, <3>3
      <4>2. s[M].metric >= s[z].metric
        BY <1>3, <4>1
      <4>3. h[x] = s[z].metric /\ s[z].metric \in Int /\ s[M].metric \in Int
        BY <1>11, <3>1, <4>1
      <4>4. t[C] = s[M]
        BY <1>10, <4>1
      <4> QED BY <4>1, <4>2, <4>3, <4>4
    <3> QED BY <3>2, <3>3
  <2>2. CASE ~\E z \in 1..(N + 1) : s[z].raffle = x
    <3>1. x \in D
      BY <1>3, <1>4, <2>2
    <3>2. ~\E i \in 1..N : b[i].raffle = x
      BY <1>3, <2>2
    <3>3. N = C /\ f[x] <= b[C].metric
      BY <3>1, <3>2 DEF BestOf
    <3>4. M = C /\ C \in 1..N /\ C \in 1..(N + 1) /\ C + 1 \in 1..(N + 1) /\ C < C + 1 /\ C \in 1..M
      <4> HIDE DEF N, C
      <4> QED BY <1>1, <1>6, <3>3
    <3>5. PICK z \in {C, C + 1} : s[z].raffle # r
      <4>1. C # C + 1
        BY <1>1
      <4> HIDE DEF N, C
      <4>2. s[C].raffle # s[C + 1].raffle
        BY <1>3, <3>4, <4>1
      <4> QED BY <4>2
    <3>6. z \in 1..(N + 1) /\ s[C].metric >= s[z].metric
      <4>1. s[C].metric \in Int
        BY <1>11, <3>4
      <4> HIDE DEF N, C
      <4>2. s[C].metric >= s[C].metric
        BY <4>1
      <4>3. s[C].metric >= s[C + 1].metric
        BY <1>3, <3>4
      <4> QED BY <3>4, <4>2, <4>3
    <3>7. PICK y \in 1..N : s[z] = b[y]
      BY <1>3, <1>4, <3>5, <3>6
    <3>8. b[y].metric >= b[C].metric
      <4>1. b[y].metric \in Int
        BY <1>11, <3>6, <3>7
      <4>2. CASE y = C
        BY <4>1, <4>2
      <4>3. CASE y < C
        <5> HIDE DEF N, C
        <5> QED BY <1>2, <3>4, <4>3
      <4>4. y = C \/ y < C
        <5> HIDE DEF N, C
        <5> QED BY <1>1, <3>3
      <4> QED BY <4>2, <4>3, <4>4
    <3>9. t[C] = s[C] /\ h[x] = f[x] /\ f[x] \in Int
      BY <1>10, <3>1, <3>4
    <3>10. b[C].metric \in Int /\ b[y].metric \in Int /\ s[C].metric \in Int
      <4>1. \A i \in 1..N : b[i] \in Entries
        BY <1>2, SeqDomain
      <4> HIDE DEF N, C
      <4> QED BY <1>11, <3>4, <4>1 DEF Entries
    <3>11. h[x] <= t[C].metric
      <4> HIDE DEF N, C
      <4> QED BY <3>3, <3>6, <3>7, <3>8, <3>9, <3>10
    <3> QED BY <3>4, <3>11
  <2> QED BY <2>1, <2>2
<1>16. \A i \in 1..M : t[i].raffle \in D \cup {r} /\ t[i].metric = h[t[i].raffle]
  BY <1>10, <1>11
<1>17. \A i, j \in 1..M : t[i].raffle = t[j].raffle => i = j
  BY <1>3, <1>10
<1>18. \A i, j \in 1..M : i < j => t[i].metric >= t[j].metric
  BY <1>3, <1>10
<1>19. BestOf(t, D \cup {r}, h)
  BY <1>9, <1>14, <1>15, <1>16, <1>17, <1>18 DEF BestOf
<1> QED BY <1>5, <1>19

\* The invariant: the raffles that reported, and for each metric the best of them.
BoardsInv ==
    /\ IsFiniteSet(DOMAIN recorded) /\ DOMAIN recorded \subseteq Nat
    /\ \A x \in DOMAIN recorded, m \in Metrics : recorded[x][m] \in Int
    /\ \A m \in Metrics : BestOf(boards[m], DOMAIN recorded, [x \in DOMAIN recorded |-> recorded[x][m]])

LEMMA ReportType ==
    ASSUME NEW d \in Results, NEW m \in Metrics
    PROVE  Report(d)[m] \in Int
<1> DEFINE eb == EarlyBirdTickets(d)
           z  == (d.price * (10000 - d.ebBp)) \div 10000
           p  == d.maxTickets * d.ebPct
<1>1. /\ d.tickets \in Int /\ d.prize \in Int /\ d.price \in Int /\ d.maxTickets \in Int
      /\ d.ebPct \in Int /\ 10000 - d.ebBp \in Int
  <2>1. PICK k \in Nat : k = 10000
    OBVIOUS
  <2>2. d \in [tickets : Nat, prize : Nat, price : Nat, maxTickets : Nat,
               ebPct : 0..100, ebBp : 0..k]
    BY <2>1, StatsConstants
  <2>3. /\ d.tickets \in Nat /\ d.prize \in Nat /\ d.price \in Nat /\ d.maxTickets \in Nat
        /\ d.ebPct \in 0..100 /\ d.ebBp \in 0..k
    BY <2>2
  <2>4. d.ebBp \in Int
    BY <2>3
  <2> QED BY <2>3, <2>4
<1>2. p \in Int
  BY <1>1
<1>3. eb \in Int
  <2> HIDE DEF p
  <2>1. p \div 100 \in Int
    BY <1>2
  <2>2. Min({d.tickets, p \div 100}) \in Int
    <3> DEFINE q == p \div 100
    <3> HIDE DEF q
    <3> QED BY <1>1, <2>1, MinOfTwo DEF q
  <2> QED BY <2>2 DEF EarlyBirdTickets, p
<1>4. z \in Int
  <2> DEFINE q == d.price * (10000 - d.ebBp)
  <2>1. q \in Int
    BY <1>1
  <2> HIDE DEF q
  <2>2. q \div 10000 \in Int
    BY <2>1
  <2> QED BY <2>2 DEF q
<1>5. Report(d) = [tickets |-> d.tickets, prize |-> d.prize,
                   volume |-> eb * z + (d.tickets - eb) * d.price]
  BY DEF Report
<1> HIDE DEF eb, z
<1>6. eb * z + (d.tickets - eb) * d.price \in Int
  BY <1>1, <1>3, <1>4
<1> DEFINE w == eb * z + (d.tickets - eb) * d.price
<1> HIDE DEF w
<1>7. w \in Int /\ Report(d) = [tickets |-> d.tickets, prize |-> d.prize, volume |-> w]
  BY <1>5, <1>6 DEF w
<1> QED BY <1>1, <1>7 DEF Metrics

LEMMA BoardsInit == Init => BoardsInv
<1> SUFFICES ASSUME Init PROVE BoardsInv
  OBVIOUS
<1>1. recorded = << >> /\ boards = [m \in Metrics |-> << >>]
  BY DEF Init
<1>2. DOMAIN recorded = {}
  BY <1>1
<1>3. IsFiniteSet({}) /\ Cardinality({}) = 0
  BY FS_EmptySet
<1>4. << >> \in Seq(Entries) /\ Len(<< >>) = 0
  BY EmptySeq
<1>5. Min({LeaderboardCap, 0}) = 0
  BY StatsConstants, MinOfTwo
<1>6. ASSUME NEW m \in Metrics, NEW f PROVE BestOf(boards[m], {}, f)
  <2> DEFINE b == boards[m]
  <2>1. b \in Seq(Entries) /\ Len(b) = 0
    BY <1>1, <1>4
  <2> HIDE DEF b
  <2>2. BestOf(b, {}, f)
    <3>1. Len(b) = Min({LeaderboardCap, Cardinality({})})
      BY <1>3, <1>5, <2>1
    <3>2. 1..Len(b) = {}
      BY <2>1
    <3> QED BY <2>1, <3>1, <3>2, Zenon DEF BestOf
  <2> QED BY <2>2 DEF b
<1> QED BY <1>2, <1>3, <1>6 DEF BoardsInv

LEMMA RecordBoards ==
    ASSUME BoardsInv, NEW r \in 1..MaxRaffles, NEW d \in Results, RecordLeaderboardEntry(r, d)
    PROVE  BoardsInv'
<1> DEFINE D == DOMAIN recorded
           f(m) == [x \in D |-> recorded[x][m]]
           h(m) == [x \in D \cup {r} |-> IF x = r THEN Report(d)[m] ELSE recorded[x][m]]
<1>1. /\ r \notin D /\ r \in Nat
      /\ boards' = [m \in Metrics |-> UpsertLeaderboard(boards[m], r, Report(d)[m])]
      /\ recorded' = [x \in D \cup {r} |-> IF x = r THEN Report(d) ELSE recorded[x]]
  BY StatsConstants DEF RecordLeaderboardEntry
<1>2. /\ IsFiniteSet(D) /\ D \subseteq Nat
      /\ \A x \in D, m \in Metrics : recorded[x][m] \in Int
      /\ \A m \in Metrics : BestOf(boards[m], D, f(m))
  BY DEF BoardsInv
<1>3. IsFiniteSet(D \cup {r}) /\ D \cup {r} \subseteq Nat /\ DOMAIN recorded' = D \cup {r}
  BY <1>1, <1>2, FS_AddElement
<1>4. ASSUME NEW m \in Metrics
      PROVE  BestOf(boards'[m], D \cup {r}, h(m))
  <2>1. Report(d)[m] \in Int
    BY ReportType
  <2>2. h(m)[r] = Report(d)[m] /\ \A x \in D : h(m)[x] = f(m)[x] /\ f(m)[x] \in Int
    BY <1>1, <1>2
  <2>3. boards'[m] = UpsertLeaderboard(boards[m], r, Report(d)[m])
    BY <1>1
  <2>4. BestOf(boards[m], D, f(m))
    BY <1>2
  <2> DEFINE F == f(m)
             H == h(m)
             v == Report(d)[m]
  <2> HIDE DEF f, h, D
  <2>5. /\ BestOf(boards[m], D, F) /\ v \in Int /\ H[r] = v
        /\ \A x \in D : H[x] = F[x] /\ F[x] \in Int
    BY <2>1, <2>2, <2>4
  <2> HIDE DEF F, H, v
  <2>6. BestOf(UpsertLeaderboard(boards[m], r, v), D \cup {r}, H)
    BY <1>1, <1>2, <2>5, BestAfter
  <2> QED BY <2>3, <2>6 DEF F, H, v
<1>5. \A m \in Metrics : h(m) = [x \in DOMAIN recorded' |-> recorded'[x][m]]
  BY <1>1, <1>3
<1>6. \A x \in DOMAIN recorded', m \in Metrics : recorded'[x][m] \in Int
  <2> TAKE x \in DOMAIN recorded', m \in Metrics
  <2>1. CASE x = r
    <3>1. recorded'[x] = Report(d)
      BY <1>1, <2>1
    <3> QED BY <3>1, ReportType
  <2>2. CASE x # r
    <3>1. x \in D /\ recorded'[x] = recorded[x]
      BY <1>1, <1>3, <2>2
    <3> QED BY <1>2, <3>1
  <2> QED BY <2>1, <2>2
<1> HIDE DEF D, h
<1>7. \A m \in Metrics :
        BestOf(boards'[m], DOMAIN recorded', [x \in DOMAIN recorded' |-> recorded'[x][m]])
  BY <1>3, <1>4, <1>5
<1> QED BY <1>3, <1>6, <1>7 DEF BoardsInv

LEMMA BoardsNext ==
    ASSUME BoardsInv, [Next]_vars
    PROVE  BoardsInv'
<1>1. ASSUME UNCHANGED boardVars
      PROVE  BoardsInv'
  BY <1>1 DEF BoardsInv, boardVars
<1>2. ASSUME NEW r \in 1..MaxRaffles, NEW d \in Results, RecordLeaderboardEntry(r, d)
      PROVE  BoardsInv'
  BY <1>2, RecordBoards
<1>3. CASE UNCHANGED vars
  BY <1>1, <1>3 DEF vars
<1>4. CASE Next
  BY <1>1, <1>2, <1>4 DEF Next, RegisterRaffle, Sale, Gift, SetWhitelistStatus, StartListing,
     ReadPage
<1> QED BY <1>3, <1>4

\* The board has as many entries as raffles that it shows.
LEMMA ShownOnce ==
    ASSUME NEW b \in Seq(Entries), \A i, j \in 1..Len(b) : b[i].raffle = b[j].raffle => i = j
    PROVE  Cardinality({b[i].raffle : i \in DOMAIN b}) = Len(b)
<1> DEFINE N == Len(b)
           S == {b[i].raffle : i \in 1..N}
           g == [i \in 1..N |-> b[i].raffle]
<1>1. N \in Nat /\ DOMAIN b = 1..N
  BY SeqDomain
<1>2. g \in [1..N -> S] /\ (\A i, j \in 1..N : g[i] = g[j] => i = j)
      /\ \A y \in S : \E i \in 1..N : g[i] = y
  OBVIOUS
<1> HIDE DEF g, S, N
<1>3. ExistsBijection(1..N, S)
  BY <1>2 DEF ExistsBijection, Bijection, Injection, Surjection, IsInjective
<1>4. Cardinality(S) = N
  BY <1>1, <1>3, FS_CountingElements
<1> QED BY <1>1, <1>4 DEF S, N

\* Each board holds the best results ever reported by its metric, best first and each
\* raffle once (upsert_leaderboard), for every cap, every number of raffles, every
\* order in which they finish and every tie.
THEOREM BoardsAlwaysHoldTheBest == Spec => []BoardsHoldTheBest
<1>1. BoardsInv => BoardsHoldTheBest
  <2> SUFFICES ASSUME BoardsInv, NEW m \in Metrics
               PROVE  LET board == boards[m]
                          shown == {board[i].raffle : i \in DOMAIN board}
                      IN  /\ Len(board) = Min({LeaderboardCap, Cardinality(DOMAIN recorded)})
                          /\ Cardinality(shown) = Len(board)
                          /\ \A i \in DOMAIN board : board[i].metric = recorded[board[i].raffle][m]
                          /\ \A i, j \in DOMAIN board :
                                i < j => board[i].metric >= board[j].metric
                          /\ \A r \in DOMAIN recorded \ shown :
                                recorded[r][m] <= board[Len(board)].metric
    BY DEF BoardsHoldTheBest
  <2> DEFINE b == boards[m]
             D == DOMAIN recorded
             f == [x \in D |-> recorded[x][m]]
             shown == {b[i].raffle : i \in DOMAIN b}
  <2>1. BestOf(b, D, f)
    BY DEF BoardsInv
  <2>2. \A x \in D : f[x] = recorded[x][m]
    OBVIOUS
  <2> HIDE DEF b, D, f
  <2>3. b \in Seq(Entries) /\ DOMAIN b = 1..Len(b)
    BY <2>1, SeqDomain DEF BestOf
  <2>4. Cardinality(shown) = Len(b)
    BY <2>1, <2>3, ShownOnce DEF BestOf
  <2>5. \A i \in DOMAIN b : b[i].metric = recorded[b[i].raffle][m]
    BY <2>1, <2>2, <2>3 DEF BestOf
  <2>6. \A r \in D \ shown : recorded[r][m] <= b[Len(b)].metric
    BY <2>1, <2>2, <2>3 DEF BestOf
  <2>7. \A i, j \in DOMAIN b : i < j => b[i].metric >= b[j].metric
    BY <2>1, <2>3 DEF BestOf
  <2>8. Len(b) = Min({LeaderboardCap, Cardinality(D)})
    BY <2>1 DEF BestOf
  <2> QED BY <2>4, <2>5, <2>6, <2>7, <2>8 DEF b, D
<1> QED BY <1>1, BoardsInit, BoardsNext, PTL DEF Spec

=============================================================================
