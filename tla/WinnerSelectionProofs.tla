------------------------ MODULE WinnerSelectionProofs ------------------------
(***************************************************************************)
(* Proofs about WinnerSelection, for words of any width, any generator of  *)
(* words, any number of tickets, winners and oracles and any hash: the     *)
(* swap log stands for a shuffled deck, the accepted words are unbiased,   *)
(* the quorum's seed does not depend on the order of the submissions,      *)
(* every step is a draw without replacement, and every pair of winners has *)
(* a seed.                                                                 *)
(***************************************************************************)
EXTENDS WinnerSelection, FiniteSetTheorems, SequenceTheorems, WellFoundedInduction, TLAPS

LEMMA Widths ==
    /\ Words \in Nat /\ Words > 1 /\ MaxTickets \in Nat
    /\ QuorumK \in Nat /\ QuorumK >= 1
  BY WordsAssumption, QuorumAssumption

-----------------------------------------------------------------------------
(* The deck                                                                 *)

IsDeal(d) == d \in [seed : {d.seed}, remaining : {d.remaining}, swaps : {d.swaps},
                   indices : {d.indices}]

\* The cards at the positions left and the cards taken are the n tickets, each
\* in one place.
IsDeck(d, n) ==
    /\ d.remaining \in Nat
    /\ d.indices \in Seq(0..(n - 1))
    /\ d.remaining + Len(d.indices) = n
    /\ \A p \in 0..(d.remaining - 1) : Card(d, p) \in 0..(n - 1)
    /\ \A p, q \in 0..(d.remaining - 1) : Card(d, p) = Card(d, q) => p = q
    /\ \A p \in 0..(d.remaining - 1), i \in 1..Len(d.indices) : Card(d, p) # d.indices[i]
    /\ \A t \in 0..(n - 1) : \/ \E p \in 0..(d.remaining - 1) : Card(d, p) = t
                             \/ \E i \in 1..Len(d.indices) : d.indices[i] = t

LEMMA FreshDeck ==
    ASSUME NEW s, NEW n \in Nat
    PROVE  IsDeal(Fresh(s, n)) /\ IsDeck(Fresh(s, n), n) /\ Fresh(s, n).seed = s
<1> DEFINE d == Fresh(s, n)
<1>1. d.seed = s /\ d.remaining = n /\ d.swaps = << >> /\ d.indices = << >> /\ IsDeal(d)
  BY DEF Fresh, IsDeal
<1> HIDE DEF d
<1>2. \A p : Card(d, p) = p
  BY <1>1 DEF Card
<1>3. Len(d.indices) = 0 /\ d.indices \in Seq(0..(n - 1))
  BY <1>1, EmptySeq
<1>4. IsDeck(d, n)
  BY <1>1, <1>2, <1>3 DEF IsDeck
<1> QED BY <1>1, <1>4 DEF d

LEMMA ResidueWithin ==
    ASSUME NEW s \in Nat, NEW n \in Nat \ {0}
    PROVE  Residue(s, n) \in 0..(n - 1)
  BY DEF Residue

LEMMA ReplaceFields ==
    ASSUME NEW d, IsDeal(d), NEW x, NEW y, NEW z
    PROVE  [d EXCEPT !.indices = x, !.swaps = y, !.remaining = z]
             \in [seed : {d.seed}, remaining : {z}, swaps : {y}, indices : {x}]
  BY DEF IsDeal

\* Taking a card, field by field.
LEMMA TakeFields ==
    ASSUME NEW d, IsDeal(d)
    PROVE  LET r == Residue(d.seed, d.remaining) IN
           /\ IsDeal(Take(d))
           /\ Take(d).seed = d.seed
           /\ Take(d).remaining = d.remaining - 1
           /\ Take(d).indices = Append(d.indices, Card(d, r))
           /\ \A p : Card(Take(d), p) = IF p = r THEN Card(d, d.remaining - 1) ELSE Card(d, p)
<1> DEFINE r == Residue(d.seed, d.remaining)
<1> DEFINE last == Card(d, d.remaining - 1)
<1> DEFINE log == [p \in DOMAIN d.swaps \cup {r} |-> IF p = r THEN last ELSE d.swaps[p]]
<1>1. Take(d) \in [seed : {d.seed}, remaining : {d.remaining - 1}, swaps : {log},
                   indices : {Append(d.indices, Card(d, r))}]
  <2> DEFINE ns == Append(d.indices, Card(d, r))
  <2>1. Take(d) = [d EXCEPT !.indices = ns, !.swaps = log, !.remaining = d.remaining - 1]
    BY DEF Take
  <2> HIDE DEF ns, log
  <2> QED BY <2>1, ReplaceFields DEF ns
<1>2. Take(d).swaps = log
  BY <1>1
<1>3. \A p : Card(Take(d), p) = IF p = r THEN last ELSE Card(d, p)
  <2> SUFFICES ASSUME NEW p PROVE Card(Take(d), p) = IF p = r THEN last ELSE Card(d, p)
    OBVIOUS
  <2> HIDE DEF last, r
  <2>1. DOMAIN log = DOMAIN d.swaps \cup {r}
    OBVIOUS
  <2>2. Card(Take(d), p) = IF p \in DOMAIN log THEN log[p] ELSE p
    BY <1>2 DEF Card
  <2>3. p \in DOMAIN log => log[p] = IF p = r THEN last ELSE d.swaps[p]
    OBVIOUS
  <2> QED BY <2>1, <2>2, <2>3 DEF Card
<1> HIDE DEF log
<1> QED BY <1>1, <1>3 DEF IsDeal

LEMMA TakeKeepsDeck ==
    ASSUME NEW n \in Nat, NEW d, IsDeal(d), IsDeck(d, n), d.seed \in Nat, d.remaining # 0
    PROVE  /\ IsDeck(Take(d), n)
           /\ \E t \in 0..(n - 1) : /\ Take(d).indices = Append(d.indices, t)
                                    /\ \A i \in 1..Len(d.indices) : d.indices[i] # t
<1> DEFINE m == d.remaining
<1> DEFINE r == Residue(d.seed, m)
<1> DEFINE e == Take(d)
<1> DEFINE k == Len(d.indices)
<1> DEFINE t == Card(d, r)
<1>0. /\ m \in Nat /\ m > 0 /\ d.indices \in Seq(0..(n - 1)) /\ m + k = n
      /\ \A p \in 0..(m - 1) : Card(d, p) \in 0..(n - 1)
      /\ \A p, q \in 0..(m - 1) : Card(d, p) = Card(d, q) => p = q
      /\ \A p \in 0..(m - 1), i \in 1..k : Card(d, p) # d.indices[i]
      /\ \A x \in 0..(n - 1) : \/ \E p \in 0..(m - 1) : Card(d, p) = x
                               \/ \E i \in 1..k : d.indices[i] = x
  <2>1. m \in Nat /\ m # 0
    BY DEF IsDeck
  <2>2. m > 0
    <3> HIDE DEF m
    <3> QED BY <2>1
  <2> QED BY <2>1, <2>2, Zenon DEF IsDeck
<1>1. r \in 0..(m - 1) /\ m - 1 \in 0..(m - 1)
  <2> HIDE DEF m, r
  <2>1. m \in Nat \ {0} /\ m - 1 \in 0..(m - 1)
    BY <1>0
  <2>2. Residue(d.seed, m) \in 0..(m - 1)
    BY <2>1, ResidueWithin
  <2> QED BY <2>1, <2>2 DEF r
<1>2. t \in 0..(n - 1) /\ \A i \in 1..k : d.indices[i] # t
  BY <1>0, <1>1
<1>3. /\ e.remaining = m - 1
      /\ e.indices = Append(d.indices, t)
      /\ \A p : Card(e, p) = IF p = r THEN Card(d, m - 1) ELSE Card(d, p)
  BY TakeFields
<1>4. k \in Nat
  BY <1>0, LenProperties
<1> HIDE DEF t, k, e, r, m
<1>5. /\ e.indices \in Seq(0..(n - 1)) /\ Len(e.indices) = k + 1
      /\ e.indices[k + 1] = t /\ \A i \in 1..k : e.indices[i] = d.indices[i]
  BY <1>0, <1>2, <1>3, AppendProperties DEF k
<1>6. \A i \in 1..(k + 1) : i = k + 1 \/ i \in 1..k
  BY <1>4
<1>7. \A p \in 0..(m - 2) : p \in 0..(m - 1) /\ p # m - 1
  BY <1>0
<1>8. e.remaining \in Nat /\ e.remaining - 1 = m - 2 /\ e.remaining + Len(e.indices) = n
  <2> DEFINE a == e.remaining
  <2> DEFINE b == Len(e.indices)
  <2>1. a = m - 1 /\ b = k + 1
    BY <1>3, <1>5
  <2>2. m \in Nat /\ m > 0 /\ m + k = n
    BY <1>0
  <2> HIDE DEF a, b
  <2>3. a \in Nat /\ a - 1 = m - 2 /\ a + b = n
    BY <1>4, <2>1, <2>2
  <2> QED BY <2>3 DEF a, b
<1>9. \A p \in 0..(m - 2) : Card(e, p) \in 0..(n - 1)
  BY <1>0, <1>1, <1>3, <1>7
<1>10. ASSUME NEW p \in 0..(m - 2), NEW q \in 0..(m - 2), Card(e, p) = Card(e, q)
       PROVE  p = q
  BY <1>0, <1>1, <1>3, <1>7, <1>10
<1>11. ASSUME NEW p \in 0..(m - 2), NEW i \in 1..(k + 1)
       PROVE  Card(e, p) # e.indices[i]
  <2>1. \E q \in 0..(m - 1) : Card(e, p) = Card(d, q) /\ q # r
    BY <1>1, <1>3, <1>7
  <2>2. PICK q \in 0..(m - 1) : Card(e, p) = Card(d, q) /\ q # r
    BY <2>1
  <2>3. CASE i = k + 1
    <3>1. Card(d, q) # Card(d, r)
      BY <1>0, <1>1, <2>2
    <3> QED BY <1>5, <2>2, <2>3, <3>1 DEF t
  <2>4. CASE i \in 1..k
    BY <1>0, <1>5, <2>2, <2>4
  <2> QED BY <1>6, <2>3, <2>4
<1>12. ASSUME NEW x \in 0..(n - 1)
       PROVE  \/ \E p \in 0..(m - 2) : Card(e, p) = x
              \/ \E i \in 1..(k + 1) : e.indices[i] = x
  <2>1. CASE \E i \in 1..k : d.indices[i] = x
    <3>1. PICK i \in 1..k : d.indices[i] = x
      BY <2>1
    <3>2. i \in 1..(k + 1) /\ e.indices[i] = x
      BY <1>4, <1>5, <3>1
    <3> QED BY <3>2
  <2>2. ASSUME NEW p \in 0..(m - 1), Card(d, p) = x
        PROVE  \/ \E y \in 0..(m - 2) : Card(e, y) = x
               \/ \E i \in 1..(k + 1) : e.indices[i] = x
    <3>1. CASE p = r
      <4>1. k + 1 \in 1..(k + 1) /\ e.indices[k + 1] = x
        BY <1>4, <1>5, <2>2, <3>1 DEF t
      <4> QED BY <4>1
    <3>2. CASE p # r /\ p = m - 1
      <4>1. r \in 0..(m - 2) /\ Card(e, r) = x
        BY <1>0, <1>1, <1>3, <2>2, <3>2
      <4> QED BY <4>1
    <3>3. CASE p # r /\ p # m - 1
      <4>1. p \in 0..(m - 2)
        BY <1>0, <3>3
      <4>2. Card(e, p) = x
        BY <1>3, <2>2, <3>3
      <4> QED BY <4>1, <4>2
    <3> QED BY <3>1, <3>2, <3>3
  <2> QED BY <1>0, <2>1, <2>2
<1>13. IsDeck(e, n)
  BY <1>5, <1>8, <1>9, <1>10, <1>11, <1>12 DEF IsDeck
<1> QED BY <1>2, <1>3, <1>13 DEF e, k

-----------------------------------------------------------------------------
(* The cards at the positions left are as many as the positions.            *)

LEMMA DeckCounts ==
    ASSUME NEW n \in Nat, NEW d, IsDeck(d, n)
    PROVE  LET deck == {Card(d, p) : p \in 0..(d.remaining - 1)}
           IN  Cardinality(deck) = d.remaining /\ deck \cup ToSet(d.indices) = 0..(n - 1)
<1> DEFINE m == d.remaining
<1> DEFINE P == 0..(m - 1)
<1> DEFINE deck == {Card(d, p) : p \in P}
<1> DEFINE f == [p \in P |-> Card(d, p)]
<1>0. m \in Nat /\ \A p, q \in P : Card(d, p) = Card(d, q) => p = q
  BY DEF IsDeck
<1>1. IsFiniteSet(P) /\ Cardinality(P) = m
  <2>1. 0 \in Int /\ m - 1 \in Int
    BY <1>0
  <2>2. IsFiniteSet(0..(m - 1)) /\ Cardinality(0..(m - 1)) = IF 0 > m - 1 THEN 0 ELSE m - 1 - 0 + 1
    BY <2>1, FS_Interval
  <2> QED BY <1>0, <2>2
<1>2. f \in Bijection(P, deck)
  <2>1. f \in [P -> deck]
    OBVIOUS
  <2>2. \A p, q \in P : f[p] = f[q] => p = q
    BY <1>0
  <2>3. \A t \in deck : \E p \in P : f[p] = t
    OBVIOUS
  <2> HIDE DEF f, P, deck
  <2> QED BY <2>1, <2>2, <2>3 DEF Bijection, Injection, Surjection, IsInjective
<1>3. Cardinality(deck) = m
  <2> HIDE DEF f, P, deck
  <2>1. ExistsBijection(P, deck)
    BY <1>2 DEF ExistsBijection
  <2> QED BY <1>1, <2>1, FS_Bijection
<1>4. deck \cup ToSet(d.indices) = 0..(n - 1)
  <2>1. d.indices \in Seq(0..(n - 1))
    BY DEF IsDeck
  <2>2. DOMAIN d.indices = 1..Len(d.indices)
        /\ \A i \in 1..Len(d.indices) : d.indices[i] \in 0..(n - 1)
    BY <2>1, LenProperties, ElementOfSeq
  <2>3. ToSet(d.indices) \subseteq 0..(n - 1)
    BY <2>2 DEF ToSet
  <2>4. deck \subseteq 0..(n - 1)
    BY DEF IsDeck
  <2>5. ASSUME NEW t \in 0..(n - 1) PROVE t \in deck \cup ToSet(d.indices)
    BY <2>2 DEF IsDeck, ToSet
  <2> QED BY <2>3, <2>4, <2>5
<1> QED BY <1>3, <1>4

-----------------------------------------------------------------------------
(* The quorum: submissions, the insertion sort and the digest.              *)

Entry == [oracle : Oracles, word : QuorumWords]

OneEach(s) == \A a, b \in 1..Len(s) : s[a].oracle = s[b].oracle => a = b

\* The insertion sort at its cursor: entries up to i are in order, but for the one
\* at j, which is still being carried down.
Ordered(s, i, j) ==
    \A a, b \in 1..Len(s) : (a < b /\ b <= i /\ b # j) => s[a].oracle < s[b].oracle

SubmissionsInv == seeds \in Seq(Entry) /\ Len(seeds) <= QuorumK /\ OneEach(seeds)

Unsorted == sorted = << >> /\ Len(seeds) < QuorumK /\ cursor = [i |-> 2, j |-> 2]

Sorting ==
    /\ Len(seeds) = QuorumK
    /\ sorted \in Seq(Entry) /\ Len(sorted) = QuorumK /\ OneEach(sorted)
    /\ \A a \in 1..QuorumK : \E b \in 1..QuorumK : sorted[a] = seeds[b]
    /\ cursor \in [i : 2..(QuorumK + 1), j : 1..(QuorumK + 1)]
    /\ cursor.j <= cursor.i /\ (cursor.i > QuorumK => cursor.j = cursor.i)
    /\ Ordered(sorted, cursor.i, cursor.j)

SeedKnown == (seed # -1 /\ seeds # << >>) =>
    sorted # << >> /\ cursor.i > QuorumK /\ seed = Digest(WordsOf(sorted))

QuorumInv == SubmissionsInv /\ (Unsorted \/ Sorting) /\ SeedKnown

\* The entry at j changes places with its larger neighbour.
Exchange(s, i, j, t) ==
    /\ s \in Seq(Entry) /\ OneEach(s) /\ Ordered(s, i, j)
    /\ i \in 1..Len(s) /\ j \in 2..i /\ Before(s[j], s[j - 1])
    /\ t = [s EXCEPT ![j] = s[j - 1], ![j - 1] = s[j]]

Exchanged(s, i, j, t) ==
    /\ t \in Seq(Entry) /\ Len(t) = Len(s) /\ OneEach(t) /\ Ordered(t, i, j - 1)
    /\ \A a \in 1..Len(s) : \E b \in 1..Len(s) : t[a] = s[b]

LEMMA Swapped ==
    ASSUME NEW s, NEW i, NEW j, NEW t, Exchange(s, i, j, t)
    PROVE  Exchanged(s, i, j, t)
<1> DEFINE K == Len(s)
<1> s \in Seq(Entry) /\ OneEach(s) /\ Ordered(s, i, j) /\ Before(s[j], s[j - 1])
  BY DEF Exchange
<1> K \in Nat /\ i \in 1..K /\ j \in 2..i
  BY LenProperties DEF Exchange
<1>0. /\ DOMAIN s = 1..K /\ s \in [1..K -> Entry]
      /\ j \in 1..K /\ j - 1 \in 1..K /\ j - 1 # j /\ i \in Int /\ j \in Int
  BY LenProperties
<1>1. \A a \in 1..K : s[a].oracle \in Nat
  BY <1>0, QuorumAssumption DEF Entry
<1>2. t \in [1..K -> Entry]
  BY <1>0 DEF Exchange
<1>3. t \in Seq(Entry) /\ Len(t) = K
  <2>1. t \in Seq(Entry)
    BY <1>2, IsASeq
  <2> QED BY <1>2, <2>1, LenProperties
<1>4. \A a \in 1..K : t[a] = IF a = j THEN s[j - 1] ELSE IF a = j - 1 THEN s[j] ELSE s[a]
  BY <1>0 DEF Exchange
<1>5. \A a \in 1..K : \E b \in 1..K : t[a] = s[b]
  BY <1>0, <1>4
<1>6. OneEach(t)
  BY <1>0, <1>3, <1>4 DEF OneEach
<1>7. Ordered(t, i, j - 1)
  <2> SUFFICES ASSUME NEW a \in 1..K, NEW b \in 1..K, a < b, b <= i, b # j - 1
               PROVE  t[a].oracle < t[b].oracle
    BY <1>3 DEF Ordered
  <2>1. \A x, y \in 1..K : (x < y /\ y <= i /\ y # j) => s[x].oracle < s[y].oracle
    BY DEF Ordered
  <2>2. s[j].oracle < s[j - 1].oracle
    BY DEF Before
  <2>3. CASE b = j
    <3>1. t[b] = s[j - 1] /\ j - 1 <= i /\ (a = j - 1 \/ a < j - 1)
      BY <1>0, <1>4, <2>3
    <3>2. CASE a = j - 1
      BY <1>0, <1>4, <2>2, <3>1, <3>2
    <3>3. CASE a < j - 1
      <4>1. t[a] = s[a]
        BY <1>0, <1>4, <3>3
      <4>2. s[a].oracle < s[j - 1].oracle
        BY <1>0, <2>1, <3>1, <3>3
      <4> QED BY <3>1, <4>1, <4>2
    <3> QED BY <3>1, <3>2, <3>3
  <2>4. CASE b # j
    <3>1. t[b] = s[b]
      BY <1>4, <2>4
    <3>2. \E x \in 1..K : x < b /\ t[a] = s[x]
      BY <1>0, <1>4, <2>4
    <3> QED BY <2>1, <2>4, <3>1, <3>2
  <2> QED BY <2>3, <2>4
<1> QED BY <1>3, <1>5, <1>6, <1>7 DEF Exchanged

\* The entry at j has found its place.
LEMMA Placed ==
    ASSUME NEW K \in Nat, NEW s \in Seq(Entry), Len(s) = K, OneEach(s),
           NEW i \in 1..K, NEW j \in 1..i, Ordered(s, i, j),
           ~(j > 1 /\ Before(s[j], s[j - 1]))
    PROVE  Ordered(s, i + 1, i + 1)
<1>0. DOMAIN s = 1..K /\ s \in [1..K -> Entry] /\ j \in 1..K /\ i \in Int /\ j \in Int
  BY LenProperties
<1>1. \A a \in 1..K : s[a].oracle \in Nat
  BY <1>0, QuorumAssumption DEF Entry
<1>2. \A x, y \in 1..K : (x < y /\ y <= i /\ y # j) => s[x].oracle < s[y].oracle
  BY DEF Ordered
<1> SUFFICES ASSUME NEW a \in 1..K, NEW b \in 1..K, a < b, b <= i
             PROVE  s[a].oracle < s[b].oracle
  BY DEF Ordered
<1>3. CASE b # j
  BY <1>2, <1>3
<1>4. CASE b = j
  <2>1. j - 1 \in 1..K /\ j > 1 /\ j - 1 <= i /\ j - 1 # j /\ (a = j - 1 \/ a < j - 1)
    BY <1>0, <1>4
  <2>2. s[j - 1].oracle # s[j].oracle
    BY <1>0, <2>1 DEF OneEach
  <2>3. s[j - 1].oracle < s[j].oracle
    <3>1. ~(s[j].oracle < s[j - 1].oracle)
      BY <2>1 DEF Before
    <3>2. s[j].oracle \in Nat /\ s[j - 1].oracle \in Nat
      BY <1>0, <1>1, <2>1
    <3> QED BY <2>2, <3>1, <3>2
  <2>4. CASE a = j - 1
    BY <1>4, <2>3, <2>4
  <2>5. CASE a < j - 1
    <3>1. s[a].oracle < s[j - 1].oracle
      BY <1>2, <2>1, <2>5
    <3>2. s[a].oracle \in Nat /\ s[j - 1].oracle \in Nat /\ s[b].oracle \in Nat
      BY <1>1, <2>1
    <3> QED BY <1>4, <2>3, <3>1, <3>2
  <2> QED BY <2>1, <2>4, <2>5
<1> QED BY <1>3, <1>4

-----------------------------------------------------------------------------
(* The invariant: the quorum on one side, the deck on the other.            *)

DealInv ==
    /\ total \in 0..MaxTickets /\ count \in 0..MaxTickets
    /\ seed \in Word \cup {-1} /\ deal.seed \in Word
    /\ IsDeal(deal)
    /\ seed = -1 => deal.indices = << >>
    /\ seed # -1 => IsDeck(deal, total)

SelectionInv == QuorumInv /\ DealInv

LEMMA MinPair ==
    ASSUME NEW a \in Nat, NEW b \in Nat
    PROVE  Min({a, b}) \in {a, b} /\ Min({a, b}) <= a /\ Min({a, b}) <= b
<1>1. \E x \in {a, b} : \A y \in {a, b} : x =< y
  OBVIOUS
<1>2. Min({a, b}) \in {a, b} /\ \A y \in {a, b} : Min({a, b}) =< y
  BY <1>1 DEF Min
<1> QED BY <1>2

LEMMA TotalNat == DealInv => total \in Nat /\ count \in Nat
  BY Widths DEF DealInv

\* While the loop runs there is a card to take.
LEMMA DrawingLeavesCards ==
    ASSUME DealInv, Drawing
    PROVE  deal.remaining \in Nat \ {0} /\ IsDeck(deal, total) /\ total \in Nat
<1>1. IsDeck(deal, total)
  BY DEF DealInv, Drawing
<1>2. total \in Nat /\ count \in Nat
  BY TotalNat
<1> DEFINE m == deal.remaining
<1> DEFINE k == Len(deal.indices)
<1>3. m \in Nat /\ m + k = total /\ deal.indices \in Seq(0..(total - 1))
  BY <1>1 DEF IsDeck
<1>4. k \in Nat
  BY <1>3, LenProperties
<1>5. k < total
  <2>1. k < Min({total, count})
    BY DEF Drawing
  <2>2. Min({total, count}) <= total /\ Min({total, count}) \in {total, count}
    BY <1>2, MinPair
  <2> DEFINE w == Min({total, count})
  <2> HIDE DEF k, w
  <2>3. k < w /\ w <= total /\ w \in Nat
    BY <1>2, <2>1, <2>2 DEF k, w
  <2> QED BY <1>2, <1>4, <2>3
<1>6. m # 0
  <2> HIDE DEF m, k
  <2> QED BY <1>2, <1>3, <1>4, <1>5
<1> QED BY <1>1, <1>2, <1>3, <1>6

LEMMA LcgWithin == ASSUME NEW s \in Word PROVE Lcg(s) \in Word
<1>1. s \in Nat /\ Multiplier \in Nat /\ Increment \in Nat /\ Words \in Nat \ {0}
  BY Widths, LcgAssumption DEF Word
<1> DEFINE x == s * Multiplier + Increment
<1>2. x \in Nat
  BY <1>1
<1> HIDE DEF x
<1>3. x % Words \in 0..(Words - 1)
  BY <1>1, <1>2
<1> QED BY <1>3 DEF Lcg, Word, x

\* A new word leaves the cards alone.
LEMMA NewWordKeepsDeck ==
    ASSUME NEW d, IsDeal(d), NEW s, NEW n
    PROVE  LET e == [d EXCEPT !.seed = s] IN
           /\ IsDeal(e) /\ e.seed = s /\ e.indices = d.indices
           /\ IsDeck(d, n) => IsDeck(e, n)
<1> DEFINE e == [d EXCEPT !.seed = s]
<1>1. e \in [seed : {s}, remaining : {d.remaining}, swaps : {d.swaps}, indices : {d.indices}]
  BY DEF IsDeal
<1> HIDE DEF e
<1>2. IsDeal(e) /\ e.seed = s /\ e.indices = d.indices /\ e.remaining = d.remaining
      /\ e.swaps = d.swaps
  BY <1>1 DEF IsDeal
<1>3. \A p : Card(e, p) = Card(d, p)
  BY <1>2 DEF Card
<1>4. ASSUME IsDeck(d, n) PROVE IsDeck(e, n)
  <2> DEFINE m == d.remaining
  <2> DEFINE ns == d.indices
  <2>1. /\ m \in Nat /\ ns \in Seq(0..(n - 1)) /\ m + Len(ns) = n
        /\ \A p \in 0..(m - 1) : Card(d, p) \in 0..(n - 1)
        /\ \A p, q \in 0..(m - 1) : Card(d, p) = Card(d, q) => p = q
        /\ \A p \in 0..(m - 1), i \in 1..Len(ns) : Card(d, p) # ns[i]
        /\ \A t \in 0..(n - 1) : \/ \E p \in 0..(m - 1) : Card(d, p) = t
                                 \/ \E i \in 1..Len(ns) : ns[i] = t
    BY <1>4, Zenon DEF IsDeck
  <2>2. e.remaining = m /\ e.indices = ns
    BY <1>2
  <2> HIDE DEF m, ns
  <2>3. /\ \A p \in 0..(m - 1) : Card(e, p) \in 0..(n - 1)
        /\ \A p, q \in 0..(m - 1) : Card(e, p) = Card(e, q) => p = q
        /\ \A p \in 0..(m - 1), i \in 1..Len(ns) : Card(e, p) # ns[i]
        /\ \A t \in 0..(n - 1) : \/ \E p \in 0..(m - 1) : Card(e, p) = t
                                 \/ \E i \in 1..Len(ns) : ns[i] = t
    BY <1>3, <2>1
  <2> QED BY <2>1, <2>2, <2>3, ZenonT(30) DEF IsDeck
<1> QED BY <1>2, <1>4 DEF e

LEMMA InitSelection == Init => SelectionInv
<1> SUFFICES ASSUME Init PROVE SelectionInv
  OBVIOUS
<1>1. SubmissionsInv /\ Unsorted /\ SeedKnown
  <2>1. Len(seeds) = 0 /\ seeds \in Seq(Entry)
    BY EmptySeq DEF Init
  <2> QED BY <2>1, Widths DEF Init, SubmissionsInv, Unsorted, SeedKnown, OneEach
<1>2. DealInv
  <2>1. deal = Fresh(0, 0) /\ IsDeal(Fresh(0, 0)) /\ Fresh(0, 0).seed = 0
    BY FreshDeck DEF Init
  <2>2. deal.indices = << >>
    BY <2>1 DEF Fresh
  <2>3. 0 \in Word
    BY Widths DEF Word
  <2> QED BY <2>1, <2>2, <2>3 DEF Init, DealInv
<1> QED BY <1>1, <1>2 DEF SelectionInv, QuorumInv

\* The words in the order of the sort are an argument of the hash.
LEMMA DigestIsWord == ASSUME Sorting PROVE Digest(WordsOf(sorted)) \in Word
<1>1. sorted \in [1..QuorumK -> Entry] /\ DOMAIN sorted = 1..QuorumK
  BY LenProperties DEF Sorting
<1>2. WordsOf(sorted) \in [1..QuorumK -> QuorumWords]
  BY <1>1 DEF WordsOf, Entry
<1> QED BY <1>2, DigestAssumption DEF Word

LEMMA SelectStep ==
    ASSUME DealInv, NEW s \in Word, Select(s), UNCHANGED <<total, count>>
    PROVE  DealInv'
<1>1. total \in Nat
  BY TotalNat
<1>2. IsDeal(Fresh(s, total)) /\ IsDeck(Fresh(s, total), total) /\ Fresh(s, total).seed = s
  BY <1>1, FreshDeck
<1>3. seed' = s /\ deal' = Fresh(s, total) /\ s # -1
  BY Widths DEF Select, Word
<1> QED BY <1>2, <1>3 DEF DealInv

LEMMA SubmitStep ==
    ASSUME QuorumInv, NEW o \in Oracles, NEW s \in QuorumWords, SubmitSeed(o, s)
    PROVE  QuorumInv'
<1> DEFINE x == [oracle |-> o, word |-> s]
<1> DEFINE n == Len(seeds)
<1>0. x \in Entry /\ x.oracle = o
  BY DEF Entry
<1> HIDE DEF x
<1>1. /\ seeds \in Seq(Entry) /\ n \in Nat /\ n < QuorumK /\ OneEach(seeds)
      /\ DOMAIN seeds = 1..n
  BY LenProperties DEF QuorumInv, SubmissionsInv, SubmitSeed
<1>2. Unsorted
  <2>1. n # QuorumK
    <3> HIDE DEF n
    <3> QED BY <1>1, Widths
  <2> QED BY <2>1 DEF QuorumInv, Sorting
<1>3. /\ seeds' = Append(seeds, x) /\ cursor' = cursor /\ seed' = seed /\ seed = -1
      /\ sorted' = IF Len(seeds') = QuorumK THEN seeds' ELSE << >>
      /\ \A i \in 1..n : seeds[i].oracle # o
  BY <1>1 DEF SubmitSeed, x
<1>4. /\ seeds' \in Seq(Entry) /\ Len(seeds') = n + 1 /\ seeds'[n + 1] = x
      /\ \A i \in 1..n : seeds'[i] = seeds[i]
  BY <1>0, <1>1, <1>3, AppendProperties
<1>5. OneEach(seeds')
  <2>1. \A a, b \in 1..n : seeds[a].oracle = seeds[b].oracle => a = b
    BY <1>1 DEF OneEach
  <2> SUFFICES ASSUME NEW a \in 1..(n + 1), NEW b \in 1..(n + 1),
                      seeds'[a].oracle = seeds'[b].oracle
               PROVE  a = b
    BY <1>4 DEF OneEach
  <2> HIDE DEF n
  <2>2. (a \in 1..n \/ a = n + 1) /\ (b \in 1..n \/ b = n + 1)
    BY <1>1
  <2> QED BY <1>0, <1>3, <1>4, <2>1, <2>2
<1>6. SubmissionsInv'
  <2>1. Len(seeds') <= QuorumK
    BY <1>1, <1>4, Widths
  <2> QED BY <1>4, <1>5, <2>1 DEF SubmissionsInv
<1>7. SeedKnown'
  BY <1>3 DEF SeedKnown
<1>8. CASE Len(seeds') # QuorumK
  <2>1. Unsorted'
    <3>1. Len(seeds') < QuorumK
      BY <1>1, <1>4, <1>8, Widths
    <3> QED BY <1>2, <1>3, <1>8, <3>1 DEF Unsorted
  <2> QED BY <1>6, <1>7, <2>1 DEF QuorumInv
<1>9. CASE Len(seeds') = QuorumK
  <2>1. sorted' = seeds' /\ cursor'.i = 2 /\ cursor'.j = 2 /\ cursor' = [i |-> 2, j |-> 2]
    BY <1>2, <1>3, <1>9 DEF Unsorted
  <2>2. cursor' \in [i : 2..(QuorumK + 1), j : 1..(QuorumK + 1)]
    BY <2>1, Widths
  <2>3. Ordered(sorted', 2, 2)
    BY <1>9, <2>1, Widths DEF Ordered
  <2>4. \A a \in 1..QuorumK : \E b \in 1..QuorumK : sorted'[a] = seeds'[b]
    BY <2>1
  <2>5. Sorting'
    BY <1>4, <1>5, <1>9, <2>1, <2>2, <2>3, <2>4 DEF Sorting
  <2> QED BY <1>6, <1>7, <2>5 DEF QuorumInv
<1> QED BY <1>8, <1>9

LEMMA SortKeeps ==
    ASSUME QuorumInv, SortStep
    PROVE  QuorumInv'
<1>1. Sorting
  BY DEF QuorumInv, Unsorted, SortStep
<1> DEFINE i == cursor.i
<1> DEFINE j == cursor.j
<1>2. /\ sorted \in Seq(Entry) /\ Len(sorted) = QuorumK /\ OneEach(sorted)
      /\ \A a \in 1..QuorumK : \E b \in 1..QuorumK : sorted[a] = seeds[b]
      /\ Ordered(sorted, i, j) /\ Len(seeds) = QuorumK
      /\ cursor \in [i : 2..(QuorumK + 1), j : 1..(QuorumK + 1)] /\ j <= i
  BY <1>1 DEF Sorting
<1>3. i \in 2..QuorumK /\ j \in 1..i
  <2>1. i <= QuorumK
    BY <1>2 DEF SortStep
  <2>2. i \in 2..(QuorumK + 1) /\ j \in 1..(QuorumK + 1) /\ j <= i
    BY <1>2
  <2> HIDE DEF i, j
  <2> QED BY <2>1, <2>2, Widths
<1>4. UNCHANGED seeds /\ UNCHANGED seed /\ seed = -1
  BY DEF SortStep
<1>5. SubmissionsInv' /\ SeedKnown'
  BY <1>4 DEF QuorumInv, SubmissionsInv, SeedKnown
<1>6. i \in 1..QuorumK
  <2> HIDE DEF i
  <2> QED BY <1>3, Widths
<1>7. CASE j > 1 /\ Before(sorted[j], sorted[j - 1])
  <2>1. /\ sorted' = [sorted EXCEPT ![j] = sorted[j - 1], ![j - 1] = sorted[j]]
        /\ cursor' = [cursor EXCEPT !.j = @ - 1]
    BY <1>7 DEF SortStep
  <2>2. j \in 2..i
    <3>1. j > 1
      BY <1>7
    <3> HIDE DEF i, j
    <3> QED BY <1>3, <1>6, <3>1
  <2>3. /\ sorted' \in Seq(Entry) /\ Len(sorted') = QuorumK /\ OneEach(sorted')
        /\ Ordered(sorted', i, j - 1)
        /\ \A a \in 1..QuorumK : \E b \in 1..QuorumK : sorted'[a] = sorted[b]
    <3>1. QuorumK \in Nat
      BY Widths
    <3>2. sorted \in Seq(Entry) /\ Len(sorted) = QuorumK /\ OneEach(sorted)
          /\ Ordered(sorted, i, j) /\ Before(sorted[j], sorted[j - 1])
      BY <1>2, <1>7
    <3> HIDE DEF i, j
    <3>3. Exchange(sorted, i, j, sorted')
      BY <1>6, <2>1, <2>2, <3>2 DEF Exchange
    <3>4. Exchanged(sorted, i, j, sorted')
      BY <3>3, Swapped
    <3> QED BY <3>2, <3>4 DEF Exchanged
  <2>4. cursor'.i = i /\ cursor'.j = j - 1 /\ cursor' \in [i : {i}, j : {j - 1}]
    BY <1>2, <2>1
  <2>5. /\ i \in 2..(QuorumK + 1) /\ j - 1 \in 1..(QuorumK + 1) /\ j - 1 <= i
        /\ ~(i > QuorumK)
    <3> HIDE DEF i, j
    <3> QED BY <1>3, <2>2, Widths
  <2>6. cursor' \in [i : 2..(QuorumK + 1), j : 1..(QuorumK + 1)]
    <3> HIDE DEF i, j
    <3> QED BY <2>4, <2>5
  <2>7. \A a \in 1..QuorumK : \E b \in 1..QuorumK : sorted'[a] = seeds'[b]
    BY <1>2, <1>4, <2>3
  <2>8. Sorting'
    <3> HIDE DEF i, j
    <3> QED BY <1>2, <1>4, <2>3, <2>4, <2>5, <2>6, <2>7 DEF Sorting
  <2> QED BY <1>5, <2>8 DEF QuorumInv
<1>8. CASE ~(j > 1 /\ Before(sorted[j], sorted[j - 1]))
  <2>1. sorted' = sorted /\ cursor' = [i |-> i + 1, j |-> i + 1]
    BY <1>8 DEF SortStep
  <2>2. Ordered(sorted, i + 1, i + 1)
    <3>1. QuorumK \in Nat
      BY Widths
    <3> HIDE DEF i, j
    <3> QED BY <1>2, <1>3, <1>6, <1>8, <3>1, Placed
  <2>3. i + 1 \in 2..(QuorumK + 1) /\ i + 1 \in 1..(QuorumK + 1) /\ i + 1 <= i + 1
    <3> HIDE DEF i, j
    <3> QED BY <1>3, Widths
  <2>4. /\ cursor'.i = i + 1 /\ cursor'.j = i + 1
        /\ cursor' \in [i : 2..(QuorumK + 1), j : 1..(QuorumK + 1)]
    <3> HIDE DEF i, j
    <3> QED BY <2>1, <2>3
  <2>5. Sorting'
    <3> HIDE DEF i, j
    <3> QED BY <1>2, <1>4, <2>1, <2>2, <2>3, <2>4 DEF Sorting
  <2> QED BY <1>5, <2>5 DEF QuorumInv
<1> QED BY <1>7, <1>8

\* What changes neither the submissions nor the sort nor the seed keeps the quorum.
LEMMA QuorumIdle ==
    QuorumInv /\ UNCHANGED <<seeds, sorted, cursor, seed>> => QuorumInv'
  BY DEF QuorumInv, SubmissionsInv, Unsorted, Sorting, SeedKnown

LEMMA DealIdle ==
    DealInv /\ UNCHANGED <<total, count, seed, deal>> => DealInv'
  BY DEF DealInv

LEMMA AggregateKnown ==
    ASSUME QuorumInv, AggregateQuorumSeeds
    PROVE  /\ QuorumInv'
           /\ Digest(WordsOf(sorted)) \in Word /\ Select(Digest(WordsOf(sorted)))
<1>1. Sorting /\ SubmissionsInv
  BY DEF QuorumInv, Unsorted, AggregateQuorumSeeds
<1>2. Select(Digest(WordsOf(sorted))) /\ UNCHANGED <<seeds, sorted, cursor>>
      /\ sorted # << >> /\ cursor.i > QuorumK
  BY <1>1 DEF AggregateQuorumSeeds, Sorting
<1>3. SubmissionsInv' /\ Sorting'
  BY <1>1, <1>2 DEF SubmissionsInv, Sorting
<1>4. SeedKnown'
  BY <1>2 DEF SeedKnown, Select
<1> QED BY <1>1, <1>2, <1>3, <1>4, DigestIsWord DEF QuorumInv

\* Taking a card: the deck stays a deck, and the ticket is one not taken before.
LEMMA TakeStep ==
    ASSUME DealInv, TakeCard
    PROVE  /\ DealInv'
           /\ \E t \in 0..(total - 1) : /\ deal'.indices = Append(deal.indices, t)
                                        /\ \A i \in 1..Len(deal.indices) : deal.indices[i] # t
<1>1. Drawing /\ deal' = Take(deal) /\ UNCHANGED <<total, count, seed>>
  BY DEF TakeCard
<1>2. deal.remaining \in Nat \ {0} /\ IsDeck(deal, total) /\ total \in Nat
  BY <1>1, DrawingLeavesCards
<1>3. IsDeal(deal) /\ deal.seed \in Word /\ deal.seed \in Nat /\ seed # -1
  BY <1>1, Widths DEF DealInv, Word, Drawing
<1>4. /\ IsDeck(Take(deal), total)
      /\ \E t \in 0..(total - 1) : /\ Take(deal).indices = Append(deal.indices, t)
                                   /\ \A i \in 1..Len(deal.indices) : deal.indices[i] # t
  BY <1>2, <1>3, TakeKeepsDeck
<1>5. IsDeal(Take(deal)) /\ Take(deal).seed = deal.seed
  BY <1>3, TakeFields
<1> QED BY <1>1, <1>3, <1>4, <1>5 DEF DealInv

LEMMA RejectStep ==
    ASSUME DealInv, RejectWord
    PROVE  DealInv' /\ deal'.indices = deal.indices
<1>1. deal' = [deal EXCEPT !.seed = Lcg(deal.seed)] /\ UNCHANGED <<total, count, seed>>
      /\ seed # -1
  BY DEF RejectWord, Drawing
<1>2. IsDeal(deal) /\ deal.seed \in Word /\ IsDeck(deal, total)
  BY <1>1 DEF DealInv
<1>3. Lcg(deal.seed) \in Word
  BY <1>2, LcgWithin
<1>4. /\ IsDeal(deal') /\ deal'.seed = Lcg(deal.seed) /\ deal'.indices = deal.indices
      /\ IsDeck(deal', total)
  BY <1>1, <1>2, NewWordKeepsDeck
<1> QED BY <1>1, <1>3, <1>4 DEF DealInv

LEMMA SelectionStep == SelectionInv /\ [Next]_vars => SelectionInv'
<1> SUFFICES ASSUME SelectionInv, [Next]_vars PROVE SelectionInv'
  OBVIOUS
<1>0. QuorumInv /\ DealInv
  BY DEF SelectionInv
<1>1. ASSUME NEW s \in Word, DeliverSeed(s) PROVE SelectionInv'
  <2>1. DealInv'
    BY <1>0, <1>1, SelectStep DEF DeliverSeed
  <2>2. UNCHANGED <<seeds, sorted, cursor>> /\ seeds = << >>
    BY <1>1 DEF DeliverSeed
  <2>3. QuorumInv'
    BY <1>0, <2>2 DEF QuorumInv, SubmissionsInv, Unsorted, Sorting, SeedKnown
  <2> QED BY <2>1, <2>3 DEF SelectionInv
<1>2. ASSUME NEW o \in Oracles, NEW s \in QuorumWords, SubmitSeed(o, s) PROVE SelectionInv'
  BY <1>0, <1>2, SubmitStep, DealIdle DEF SubmitSeed, SelectionInv
<1>3. CASE SortStep
  BY <1>0, <1>3, SortKeeps, DealIdle DEF SortStep, SelectionInv
<1>4. CASE AggregateQuorumSeeds
  BY <1>0, <1>4, AggregateKnown, SelectStep DEF AggregateQuorumSeeds, SelectionInv
<1>5. CASE RejectWord
  BY <1>0, <1>5, RejectStep, QuorumIdle DEF RejectWord, SelectionInv
<1>6. CASE TakeCard
  BY <1>0, <1>6, TakeStep, QuorumIdle DEF TakeCard, SelectionInv
<1>7. CASE UNCHANGED vars
  BY <1>0, <1>7, QuorumIdle, DealIdle DEF vars, SelectionInv
<1> QED BY <1>1, <1>2, <1>3, <1>4, <1>5, <1>6, <1>7 DEF Next

LEMMA SelectionHolds == Spec => []SelectionInv
  BY InitSelection, SelectionStep, PTL DEF Spec

-----------------------------------------------------------------------------
(* Types and the bookkeeping of the loop.                                   *)

\* The selector of randomness.rs loses no ticket and holds none twice: the cards
\* its swap log leaves in the deck and the indices it has returned are together
\* the tickets 0 .. total - 1, whatever words the generator produces.
THEOREM SelectionTypeCorrect == Spec => []TypeOK
<1>1. SelectionInv => TypeOK
  <2> SUFFICES ASSUME SelectionInv PROVE TypeOK
    OBVIOUS
  <2>1. DealInv /\ total \in Nat
    BY TotalNat DEF SelectionInv
  <2>2. ASSUME seed # -1
        PROVE  LET deck == {Card(deal, p) : p \in 0 .. deal.remaining - 1}
               IN  /\ deal.remaining + Len(deal.indices) = total
                   /\ Cardinality(deck) = deal.remaining
                   /\ deck \cup ToSet(deal.indices) = 0 .. total - 1
    <3>1. IsDeck(deal, total)
      BY <2>1, <2>2 DEF DealInv
    <3>2. deal.remaining + Len(deal.indices) = total
      BY <3>1 DEF IsDeck
    <3> QED BY <2>1, <3>1, <3>2, DeckCounts
  <2> QED BY <2>1, <2>2 DEF TypeOK, DealInv
<1> QED BY <1>1, SelectionHolds, PTL

-----------------------------------------------------------------------------
(* The quorum's seed.                                                       *)

LEMMA SortedIsOrdered ==
    ASSUME SelectionInv, seed # -1, seeds # << >>
    PROVE  /\ sorted \in [DOMAIN seeds -> ToSet(seeds)] /\ InOracleOrder(sorted)
           /\ seed = Digest(WordsOf(sorted))
<1>1. SubmissionsInv /\ Sorting /\ cursor.i > QuorumK /\ seed = Digest(WordsOf(sorted))
  BY DEF SelectionInv, QuorumInv, SeedKnown, Unsorted
<1>2. DOMAIN seeds = 1..QuorumK /\ DOMAIN sorted = 1..QuorumK /\ sorted \in [1..QuorumK -> Entry]
      /\ seeds \in [1..QuorumK -> Entry] /\ Len(sorted) = QuorumK
  BY <1>1, LenProperties DEF SubmissionsInv, Sorting
<1>3. sorted \in [DOMAIN seeds -> ToSet(seeds)]
  <2>1. \A a \in 1..QuorumK : sorted[a] \in ToSet(seeds)
    BY <1>1, <1>2 DEF Sorting, ToSet
  <2> QED BY <1>2, <2>1
<1>4. ASSUME NEW a \in 1..QuorumK, NEW b \in 1..QuorumK, a < b
      PROVE  sorted[a].oracle < sorted[b].oracle
  <2> DEFINE i == cursor.i
  <2> DEFINE j == cursor.j
  <2>1. i \in 2..(QuorumK + 1) /\ i > QuorumK /\ j = i /\ Ordered(sorted, i, j)
    BY <1>1 DEF Sorting
  <2> HIDE DEF i, j
  <2>2. b <= i /\ b # j
    BY <2>1, Widths
  <2> QED BY <1>2, <1>4, <2>1, <2>2 DEF Ordered
<1> QED BY <1>1, <1>2, <1>3, <1>4 DEF InOracleOrder

\* aggregate_quorum_seeds: the seed of a quorum is the hash of the words in the
\* order of the oracles, whatever order the submissions were included in.
THEOREM SeedIsOrderIndependent == Spec => []OrderIndependent
<1>1. SelectionInv => OrderIndependent
  BY SortedIsOrdered DEF OrderIndependent
<1> QED BY <1>1, SelectionHolds, PTL

LEMMA LeastOf ==
    ASSUME NEW T, T \subseteq Nat, T # {}
    PROVE  \E x \in T : \A y \in T : ~(y < x)
<1>1. PICK x \in T : \A y \in T : ~(<<y, x>> \in OpToRel(<, Nat))
  BY WFMin, NatLessThanWellFounded, Zenon
<1>2. \A y \in T : y < x => <<y, x>> \in OpToRel(<, Nat)
  BY Zenon DEF OpToRel
<1> QED BY <1>1, <1>2, Zenon

\* An ordering of the submissions leaves none out.
LEMMA OrderIsComplete ==
    ASSUME SubmissionsInv, NEW f \in [DOMAIN seeds -> ToSet(seeds)], InOracleOrder(f)
    PROVE  \A x \in ToSet(seeds) : \E i \in DOMAIN seeds : f[i] = x
<1> DEFINE D == DOMAIN seeds
<1> DEFINE T == ToSet(seeds)
<1>1. seeds \in [D -> Entry] /\ D = 1..Len(seeds) /\ Len(seeds) \in Nat /\ OneEach(seeds)
  BY LenProperties DEF SubmissionsInv
<1>2. IsFiniteSet(D)
  <2>1. 1 \in Int /\ Len(seeds) \in Int
    BY <1>1
  <2> QED BY <1>1, <2>1, FS_Interval
<1>3. seeds \in Bijection(D, T)
  <2>1. seeds \in [D -> T]
    BY <1>1 DEF ToSet
  <2>2. \A a, b \in D : seeds[a] = seeds[b] => a = b
    BY <1>1 DEF OneEach
  <2>3. \A x \in T : \E a \in D : seeds[a] = x
    BY DEF ToSet
  <2> HIDE DEF D, T
  <2> QED BY <2>1, <2>2, <2>3 DEF Bijection, Injection, Surjection, IsInjective
<1>4. IsFiniteSet(T) /\ Cardinality(T) = Cardinality(D)
  <2> HIDE DEF D, T
  <2>1. ExistsBijection(D, T)
    BY <1>3 DEF ExistsBijection
  <2> QED BY <1>2, <2>1, FS_Bijection
<1>5. f \in Injection(D, T)
  <2>1. \A a, b \in D : f[a] = f[b] => a = b
    <3> SUFFICES ASSUME NEW a \in D, NEW b \in D, f[a] = f[b] PROVE a = b
      OBVIOUS
    <3>1. f[a].oracle \in Nat
      BY <1>1, QuorumAssumption DEF Entry, ToSet
    <3>2. DOMAIN f = D
      OBVIOUS
    <3>3. (a < b => f[a].oracle < f[b].oracle) /\ (b < a => f[b].oracle < f[a].oracle)
      BY <3>2, Zenon DEF InOracleOrder
    <3>4. ~(f[a].oracle < f[a].oracle)
      BY <3>1
    <3>5. a \in Int /\ b \in Int
      BY <1>1
    <3> QED BY <3>3, <3>4, <3>5
  <2> HIDE DEF D, T
  <2> QED BY <2>1 DEF Injection, IsInjective, D, T
<1>6. f \in Surjection(D, T)
  <2> HIDE DEF D, T
  <2> QED BY <1>4, <1>5, FS_Injection
<1> QED BY <1>6 DEF Surjection

LEMMA OneOrder ==
    ASSUME SubmissionsInv,
           NEW f \in [DOMAIN seeds -> ToSet(seeds)], InOracleOrder(f),
           NEW g \in [DOMAIN seeds -> ToSet(seeds)], InOracleOrder(g)
    PROVE  f = g
<1> DEFINE D == DOMAIN seeds
<1>1. D = 1..Len(seeds) /\ Len(seeds) \in Nat /\ seeds \in [D -> Entry] /\ OneEach(seeds)
  BY LenProperties DEF SubmissionsInv
<1>2. DOMAIN f = D /\ DOMAIN g = D
  OBVIOUS
<1>3. /\ \A a, b \in D : a < b => f[a].oracle < f[b].oracle
      /\ \A a, b \in D : a < b => g[a].oracle < g[b].oracle
  BY <1>2, Zenon DEF InOracleOrder
<1>4. \A x, y \in ToSet(seeds) : x.oracle \in Nat /\ (x.oracle = y.oracle => x = y)
  BY <1>1, QuorumAssumption DEF Entry, ToSet, OneEach
<1>5. \A i \in D : f[i] \in ToSet(seeds) /\ g[i] \in ToSet(seeds)
  OBVIOUS
<1>6. /\ \A x \in ToSet(seeds) : \E i \in D : f[i] = x
      /\ \A x \in ToSet(seeds) : \E i \in D : g[i] = x
  BY OrderIsComplete
<1> DEFINE Differ == {i \in D : f[i] # g[i]}
<1>7. Differ = {}
  <2> SUFFICES ASSUME Differ # {} PROVE FALSE
    OBVIOUS
  <2>1. Differ \subseteq Nat
    BY <1>1
  <2>2. PICK i \in Differ : \A y \in Differ : ~(y < i)
    <3> HIDE DEF Differ
    <3> QED BY <2>1, LeastOf
  <2>3. i \in D /\ f[i] # g[i] /\ \A y \in D : y < i => f[y] = g[y]
    BY <2>2
  <2> HIDE DEF Differ
  <2>4. CASE f[i].oracle < g[i].oracle
    <3>1. PICK k \in D : g[k] = f[i]
      BY <1>5, <1>6, <2>3
    <3>2. k < i
      <4>1. i < k => g[i].oracle < g[k].oracle
        BY <1>3, <2>3
      <4>2. g[i].oracle \in Nat /\ f[i].oracle \in Nat
        BY <1>4, <1>5, <2>3
      <4>3. k # i /\ ~(i < k)
        BY <2>3, <2>4, <3>1, <4>1, <4>2
      <4>4. i \in Int /\ k \in Int
        BY <1>1, <2>3
      <4> QED BY <4>3, <4>4
    <3>3. f[k] = f[i] /\ f[k].oracle < f[i].oracle
      BY <1>3, <2>3, <3>1, <3>2
    <3> QED BY <1>4, <1>5, <2>3, <3>3
  <2>5. CASE g[i].oracle < f[i].oracle
    <3>1. PICK k \in D : f[k] = g[i]
      BY <1>5, <1>6, <2>3
    <3>2. k < i
      <4>1. i < k => f[i].oracle < f[k].oracle
        BY <1>3, <2>3
      <4>2. g[i].oracle \in Nat /\ f[i].oracle \in Nat
        BY <1>4, <1>5, <2>3
      <4>3. k # i /\ ~(i < k)
        BY <2>3, <2>5, <3>1, <4>1, <4>2
      <4>4. i \in Int /\ k \in Int
        BY <1>1, <2>3
      <4> QED BY <4>3, <4>4
    <3>3. g[k] = g[i] /\ g[k].oracle < g[i].oracle
      BY <1>3, <2>3, <3>1, <3>2
    <3> QED BY <1>4, <1>5, <2>3, <3>3
  <2>6. f[i].oracle < g[i].oracle \/ g[i].oracle < f[i].oracle
    BY <1>4, <1>5, <2>3
  <2> QED BY <2>4, <2>5, <2>6
<1> QED BY <1>2, <1>7

\* The same, from the side of whoever recomputes the seed: any way of writing the
\* submissions in the order of their oracles hashes to the seed that was used.
THEOREM SeedIsReproducible ==
    Spec => []((seed # -1 /\ seeds # << >>) =>
                 \A entries \in [DOMAIN seeds -> ToSet(seeds)] :
                     InOracleOrder(entries) => seed = Digest(WordsOf(entries)))
<1>1. SelectionInv => ((seed # -1 /\ seeds # << >>) =>
                         \A entries \in [DOMAIN seeds -> ToSet(seeds)] :
                             InOracleOrder(entries) => seed = Digest(WordsOf(entries)))
  <2> SUFFICES ASSUME SelectionInv, seed # -1, seeds # << >>,
                      NEW entries \in [DOMAIN seeds -> ToSet(seeds)], InOracleOrder(entries)
               PROVE  seed = Digest(WordsOf(entries))
    OBVIOUS
  <2>1. SubmissionsInv
    BY DEF SelectionInv, QuorumInv
  <2>2. /\ sorted \in [DOMAIN seeds -> ToSet(seeds)] /\ InOracleOrder(sorted)
        /\ seed = Digest(WordsOf(sorted))
    BY SortedIsOrdered
  <2>3. entries = sorted
    BY <2>1, <2>2, OneOrder
  <2> QED BY <2>2, <2>3
<1> QED BY <1>1, SelectionHolds, PTL

-----------------------------------------------------------------------------
(* The accepted words.                                                      *)

LEMMA DivisionOf ==
    ASSUME NEW n \in Nat \ {0}, NEW s \in Nat
    PROVE  /\ s \div n \in Nat /\ s % n \in 0..(n - 1)
           /\ s = n * (s \div n) + (s % n)
  OBVIOUS

LEMMA MultipleGrows ==
    ASSUME NEW n \in Nat, NEW x \in Nat, NEW y \in Nat, x < y
    PROVE  n * x + n <= n * y
<1>1. y = x + 1 + (y - x - 1) /\ y - x - 1 \in Nat
  OBVIOUS
<1>2. n * y = n * x + n + n * (y - x - 1)
  BY <1>1
<1>3. n * (y - x - 1) \in Nat
  BY <1>1
<1> QED BY <1>2, <1>3

LEMMA ResidueOfSum ==
    ASSUME NEW n \in Nat \ {0}, NEW a \in Nat, NEW q \in 0..(n - 1)
    PROVE  n * a + q \in Nat /\ (n * a + q) % n = q
<1> DEFINE s == n * a + q
<1> DEFINE b == s \div n
<1> DEFINE r == s % n
<1>1. s \in Nat
  OBVIOUS
<1>2. b \in Nat /\ r \in 0..(n - 1) /\ s = n * b + r
  <2> HIDE DEF s
  <2> QED BY <1>1, DivisionOf
<1> DEFINE u == n * a
<1> DEFINE v == n * b
<1>3. u \in Nat /\ v \in Nat /\ u + q = v + r
  <2>1. u \in Nat /\ s = u + q
    OBVIOUS
  <2> HIDE DEF s, b, r
  <2>2. v \in Nat /\ s = v + r
    BY <1>2
  <2> QED BY <2>1, <2>2
<1>4. (a < b => u + n <= v) /\ (b < a => v + n <= u)
  <2> HIDE DEF s, b, r
  <2> QED BY <1>2, MultipleGrows
<1>5. a = b => u = v
  OBVIOUS
<1>6. r = q
  <2> HIDE DEF s, b, r, u, v
  <2> QED BY <1>2, <1>3, <1>4, <1>5
<1> QED BY <1>1, <1>6

\* Moving an accepted word from one position to another gives an accepted word.
LEMMA HitMoves ==
    ASSUME NEW n \in Nat \ {0}, NEW r \in 0..(n - 1), NEW q \in 0..(n - 1), NEW s \in Word,
           s < LargestMultiple(n), Residue(s, n) = r
    PROVE  /\ s - r + q \in Word
           /\ s - r + q < LargestMultiple(n) /\ Residue(s - r + q, n) = q
<1> DEFINE W == Words - 1
<1> DEFINE a == s \div n
<1> DEFINE c == W \div n
<1>0. W \in Nat /\ s \in Nat
  BY Widths DEF Word
<1>1. a \in Nat /\ s = n * a + r
  BY <1>0, DivisionOf DEF Residue
<1>2. c \in Nat /\ W % n \in 0..(n - 1) /\ W = n * c + (W % n)
  <2> HIDE DEF W
  <2> QED BY <1>0, DivisionOf
<1> DEFINE u == n * a
<1> DEFINE v == n * c
<1>3. LargestMultiple(n) = v
  <2>1. LargestMultiple(n) = c * n
    BY DEF LargestMultiple
  <2> HIDE DEF c
  <2> QED BY <1>2, <2>1
<1>4. u \in Nat /\ v \in Nat /\ s = u + r /\ v <= W
  <2> DEFINE w == W % n
  <2>1. w \in Nat /\ W = v + w
    BY <1>2
  <2>2. u \in Nat /\ v \in Nat /\ s = u + r
    <3> HIDE DEF a, c
    <3> QED BY <1>1, <1>2
  <2> HIDE DEF w, u, v, W
  <2> QED BY <1>0, <2>1, <2>2
<1>5. a < c
  <2>1. c <= a => v <= u
    <3>1. c < a => v + n <= u
      <4> HIDE DEF a, c
      <4> QED BY <1>1, <1>2, MultipleGrows
    <3>2. c = a => v = u
      OBVIOUS
    <3> HIDE DEF a, c, u, v
    <3> QED BY <1>1, <1>2, <1>4, <3>1, <3>2
  <2> HIDE DEF a, c, u, v
  <2> QED BY <1>1, <1>2, <1>3, <1>4, <2>1
<1>6. u + n <= v
  <2> HIDE DEF a, c
  <2> QED BY <1>1, <1>2, <1>5, MultipleGrows
<1>7. u + q \in Nat /\ (u + q) % n = q
  <2> HIDE DEF a
  <2> QED BY <1>1, ResidueOfSum
<1>8. s - r + q = u + q /\ u + q < v /\ u + q <= W
  <2> HIDE DEF u, v, W
  <2> QED BY <1>0, <1>4, <1>6
<1>9. u + q \in Word
  <2> HIDE DEF u
  <2> QED BY <1>7, <1>8, Widths DEF Word
<1> QED BY <1>3, <1>7, <1>8, <1>9 DEF Residue

HitsOf(n, p) == {s \in Word : s < LargestMultiple(n) /\ Residue(s, n) = p}

LEMMA EqualHits ==
    ASSUME NEW n \in Nat \ {0}, NEW r \in 0..(n - 1), NEW q \in 0..(n - 1)
    PROVE  Cardinality(HitsOf(n, r)) = Cardinality(HitsOf(n, q))
<1> DEFINE R == HitsOf(n, r)
<1> DEFINE Q == HitsOf(n, q)
<1> DEFINE f == [s \in R |-> s - r + q]
<1>0. \A s \in R : s \in Int
  BY Widths DEF HitsOf, Word
<1>1. \A s \in R : s - r + q \in Q
  BY HitMoves DEF HitsOf
<1>2. \A s \in Q : s - q + r \in R /\ s \in Int
  BY HitMoves, Widths DEF HitsOf, Word
<1>3. r \in Int /\ q \in Int
  OBVIOUS
<1> HIDE DEF R, Q
<1>4. f \in Bijection(R, Q)
  <2>1. f \in [R -> Q]
    BY <1>1
  <2>2. \A s, t \in R : f[s] = f[t] => s = t
    BY <1>0, <1>3
  <2>3. \A t \in Q : \E s \in R : f[s] = t
    <3> SUFFICES ASSUME NEW t \in Q PROVE \E s \in R : f[s] = t
      OBVIOUS
    <3>1. t - q + r \in R /\ t \in Int
      BY <1>2
    <3>2. f[t - q + r] = t
      BY <1>3, <3>1
    <3> QED BY <3>1, <3>2
  <2> HIDE DEF f
  <2> QED BY <2>1, <2>2, <2>3 DEF Bijection, Injection, Surjection, IsInjective
<1>5. IsFiniteSet(R)
  <2>1. 0 \in Int /\ Words - 1 \in Int
    BY Widths
  <2>2. IsFiniteSet(0..(Words - 1))
    BY <2>1, FS_Interval
  <2>3. R \subseteq 0..(Words - 1)
    BY DEF R, HitsOf, Word
  <2> QED BY <2>2, <2>3, FS_Subset
<1>6. ExistsBijection(R, Q)
  BY <1>4 DEF ExistsBijection
<1> QED BY <1>5, <1>6, FS_Bijection DEF R, Q

\* The rejection loop of select_winner_indices: among the words it accepts for the
\* deck at hand, every position of the deck is hit by equally many.
THEOREM AcceptedWordsUnbiased == Spec => []Unbiased
<1>1. SelectionInv => Unbiased
  <2> SUFFICES ASSUME SelectionInv, Drawing,
                      NEW r \in 0 .. deal.remaining - 1, NEW q \in 0 .. deal.remaining - 1
               PROVE  Cardinality(HitsOf(deal.remaining, r)) = Cardinality(HitsOf(deal.remaining, q))
    BY DEF Unbiased, HitsOf
  <2>1. deal.remaining \in Nat \ {0}
    BY DrawingLeavesCards DEF SelectionInv
  <2> QED BY <2>1, EqualHits
<1> QED BY <1>1, SelectionHolds, PTL

-----------------------------------------------------------------------------
(* The draw without replacement.                                            *)

\* OracleSeedWinnerSelection keeps the safety part of what WinnerSelectionStrategy
\* promises: every step of the selection leaves the result alone, brings the seed,
\* or adds one ticket that was not taken before, and none after min(count, total).
\* With the fairness of the loop, TLC checks the whole of it, the end included.
THEOREM SelectionRefinesDraw == Spec => Urn!Init /\ [][Urn!Seed \/ Urn!Draw]_Urn!vars
<1>1. Init => Urn!Init
  <2> SUFFICES ASSUME Init PROVE Urn!Init
    OBVIOUS
  <2>1. total \in Nat /\ count \in Nat
    BY Widths DEF Init
  <2>2. deal.indices = << >>
    BY DEF Init, Fresh
  <2>3. (seed # -1) \in BOOLEAN
    BY Zenon
  <2> QED BY <2>1, <2>2, <2>3 DEF Urn!Init
<1>2. SelectionInv /\ [Next]_vars => [Urn!Seed \/ Urn!Draw]_Urn!vars
  <2> SUFFICES ASSUME SelectionInv, [Next]_vars
               PROVE  Urn!Seed \/ Urn!Draw \/ UNCHANGED Urn!vars
    OBVIOUS
  <2>0. DealInv /\ QuorumInv
    BY DEF SelectionInv
  <2>1. ASSUME NEW s \in Word, Select(s), seed = -1, UNCHANGED <<total, count>>
        PROVE  Urn!Seed
    <3>1. seed' = s /\ s # -1 /\ deal'.indices = << >> /\ deal.indices = << >>
      BY <2>0, <2>1, Widths DEF Select, Word, Fresh, DealInv
    <3> QED BY <2>1, <3>1 DEF Urn!Seed
  <2>2. CASE \E s \in Word : DeliverSeed(s)
    BY <2>1, <2>2 DEF DeliverSeed
  <2>3. CASE \E o \in Oracles, s \in QuorumWords : SubmitSeed(o, s)
    BY <2>3 DEF SubmitSeed, Urn!vars
  <2>4. CASE SortStep
    BY <2>4 DEF SortStep, Urn!vars
  <2>5. CASE AggregateQuorumSeeds
    BY <2>0, <2>1, <2>5, AggregateKnown DEF AggregateQuorumSeeds
  <2>6. CASE RejectWord
    BY <2>0, <2>6, RejectStep DEF RejectWord, Urn!vars
  <2>7. CASE TakeCard
    <3>1. PICK t \in 0..(total - 1) : /\ deal'.indices = Append(deal.indices, t)
                                      /\ \A i \in 1..Len(deal.indices) : deal.indices[i] # t
      BY <2>0, <2>7, TakeStep
    <3>2. Drawing /\ UNCHANGED <<total, count, seed>>
      BY <2>7 DEF TakeCard
    <3>3. DOMAIN deal.indices = 1..Len(deal.indices)
      BY <2>0, <3>2, LenProperties DEF DealInv, Drawing, IsDeck
    <3>4. t \notin Urn!Range(deal.indices)
      BY <3>1, <3>3 DEF Urn!Range
    <3>5. seed # -1 /\ Len(deal.indices) < Urn!Wanted
      BY <3>2 DEF Drawing, Urn!Wanted, Urn!Min, Min
    <3>6. Urn!Draw
      BY <3>1, <3>2, <3>4, <3>5 DEF Urn!Draw
    <3> QED BY <3>6
  <2>8. CASE UNCHANGED vars
    BY <2>8 DEF vars, Urn!vars
  <2> QED BY <2>2, <2>3, <2>4, <2>5, <2>6, <2>7, <2>8 DEF Next
<1> QED BY <1>1, <1>2, SelectionHolds, PTL DEF Spec

-----------------------------------------------------------------------------
(* The selector as a function of the seed.                                  *)

\* Induction for a property given as a set.
LEMMA UpTo ==
    ASSUME NEW N \in Nat, NEW T, 0 \in T,
           \A n \in 0..N : n \in T /\ n < N => n + 1 \in T
    PROVE  \A n \in 0..N : n \in T
<1> DEFINE W == {n \in 0..N : n \notin T}
<1> SUFFICES ASSUME W # {} PROVE FALSE
  OBVIOUS
<1>1. PICK x \in W : \A y \in W : ~(y < x)
  <2>1. W \subseteq Nat
    OBVIOUS
  <2> HIDE DEF W
  <2> QED BY <2>1, LeastOf
<1>2. x \in 0..N /\ x \notin T /\ x # 0
  BY <1>1
<1>3. x - 1 \in 0..N /\ x - 1 < x /\ x - 1 < N /\ (x - 1) + 1 = x
  BY <1>2
<1>4. x - 1 \in T
  BY <1>1, <1>3
<1> QED BY <1>2, <1>3, <1>4

Solvable(N, S, a, step) ==
    \E g \in [0..N -> S] : g[0] = a /\ \A n \in 1..N : g[n] = step[<<n, g[n - 1]>>]

\* A recursion over 0..N that stays within S has a solution.
LEMMA RecursionExists ==
    ASSUME NEW N \in Nat, NEW S, NEW a \in S, NEW step \in [(1..N) \X S -> S]
    PROVE  Solvable(N, S, a, step)
<1> DEFINE Solves(g, m) == g[0] = a /\ \A n \in 1..m : g[n] = step[<<n, g[n - 1]>>]
           T == {m \in 0..N : \E g \in [0..m -> S] : Solves(g, m)}
<1>1. 0 \in T
  <2> DEFINE g == [x \in 0..0 |-> a]
  <2>1. g \in [0..0 -> S] /\ g[0] = a
    OBVIOUS
  <2> HIDE DEF g
  <2> QED BY <2>1
<1>2. ASSUME NEW m \in 0..N, m \in T, m < N
      PROVE  m + 1 \in T
  <2>1. PICK g \in [0..m -> S] : Solves(g, m)
    BY <1>2
  <2> DEFINE v == step[<<m + 1, g[m]>>]
             h == [x \in 0..(m + 1) |-> IF x <= m THEN g[x] ELSE v]
  <2>2. m + 1 \in 1..N /\ g[m] \in S
    BY <1>2
  <2>3. v \in S
    BY <2>2
  <2> HIDE DEF v
  <2>4. h \in [0..(m + 1) -> S]
    BY <2>3
  <2>5. \A x \in 0..m : h[x] = g[x]
    OBVIOUS
  <2>6. h[m + 1] = v
    OBVIOUS
  <2> HIDE DEF h
  <2>7. \A n \in 1..(m + 1) : h[n] = step[<<n, h[n - 1]>>]
    <3> TAKE n \in 1..(m + 1)
    <3>1. CASE n <= m
      <4>1. n \in 1..m /\ n \in 0..m /\ n - 1 \in 0..m
        BY <3>1
      <4> QED BY <2>1, <2>5, <4>1
    <3>2. CASE n = m + 1
      <4>1. n - 1 = m /\ m \in 0..m
        BY <3>2
      <4> QED BY <2>5, <2>6, <3>2, <4>1 DEF v
    <3> QED BY <3>1, <3>2
  <2>8. h[0] = a
    BY <2>1, <2>5
  <2> QED BY <2>2, <2>4, <2>7, <2>8
<1> HIDE DEF T
<1>3. N \in T
  <2>1. N \in 0..N
    OBVIOUS
  <2> QED BY <1>1, <1>2, <2>1, UpTo
<1> QED BY <1>3 DEF T, Solvable

\* The end of the rejection loop: a word, and the same one if it was accepted.
LEMMA SettledWord ==
    ASSUME NEW d, d.seed \in Word, d.remaining \in Nat
    PROVE  \E w \in Word : /\ Settled(d) = [d EXCEPT !.seed = w]
                           /\ d.seed < LargestMultiple(d.remaining) => w = d.seed
<1> DEFINE N == d.remaining
           m == LargestMultiple(d.remaining)
           step == [x \in (1..N) \X Word |-> IF x[2] < m THEN x[2] ELSE Lcg(x[2])]
           F(h) == [i \in 0 .. d.remaining |->
                       IF i = 0 THEN d.seed
                       ELSE IF h[i - 1] < LargestMultiple(d.remaining) THEN h[i - 1]
                       ELSE Lcg(h[i - 1])]
<1>1. N \in Nat
  OBVIOUS
<1>2. \A y \in Word : Lcg(y) \in Word
  BY LcgWithin
<1> HIDE DEF m
<1>3. step \in [(1..N) \X Word -> Word]
  BY <1>2
<1>4. \A i \in 1..N, y \in Word : step[<<i, y>>] = IF y < m THEN y ELSE Lcg(y)
  OBVIOUS
<1> HIDE DEF step
<1>5. PICK g \in [0..N -> Word] : g[0] = d.seed /\ \A i \in 1..N : g[i] = step[<<i, g[i - 1]>>]
  <2> DEFINE a == d.seed
  <2>1. a \in Word
    OBVIOUS
  <2> HIDE DEF N, a
  <2>2. Solvable(N, Word, a, step)
    BY <1>1, <1>3, <2>1, RecursionExists
  <2> QED BY <2>2 DEF Solvable, a
<1>6. \A i \in 1..N : g[i] = IF g[i - 1] < m THEN g[i - 1] ELSE Lcg(g[i - 1])
  <2> TAKE i \in 1..N
  <2>1. i - 1 \in 0..N
    BY <1>1
  <2>2. g[i - 1] \in Word
    BY <2>1
  <2> QED BY <1>4, <1>5, <2>2
<1>7. g = F(g)
  <2>1. \A i \in 0..N : g[i] = IF i = 0 THEN d.seed
                               ELSE IF g[i - 1] < m THEN g[i - 1] ELSE Lcg(g[i - 1])
    <3> TAKE i \in 0..N
    <3>1. i = 0 \/ i \in 1..N
      BY <1>1
    <3> QED BY <1>5, <1>6, <3>1
  <2> QED BY <2>1 DEF m
<1> DEFINE s == CHOOSE h : h = F(h)
<1>8. s = F(s)
  BY <1>7
<1>9. Settled(d) = [d EXCEPT !.seed = s[d.remaining]]
  BY Zenon DEF Settled
<1> HIDE DEF s
<1>10. s[0] = d.seed
  BY <1>1, <1>8
<1>11. \A i \in 1..N : s[i] = IF s[i - 1] < m THEN s[i - 1] ELSE Lcg(s[i - 1])
  <2> TAKE i \in 1..N
  <2>1. i \in 0 .. d.remaining /\ i # 0
    BY <1>1
  <2>2. s[i] = F(s)[i]
    BY <1>8, Zenon
  <2> QED BY <2>1, <2>2 DEF m
<1> DEFINE T == {i \in 0..N : s[i] \in Word /\ (d.seed < m => s[i] = d.seed)}
<1>12. 0 \in T
  BY <1>1, <1>10
<1>13. ASSUME NEW i \in 0..N, i \in T, i < N PROVE i + 1 \in T
  <2>1. i + 1 \in 1..N /\ i + 1 \in 0..N /\ (i + 1) - 1 = i
    BY <1>1, <1>13
  <2>2. s[i + 1] = IF s[i] < m THEN s[i] ELSE Lcg(s[i])
    BY <1>11, <2>1
  <2>3. s[i] \in Word /\ (d.seed < m => s[i] = d.seed)
    BY <1>13
  <2>4. s[i + 1] \in Word /\ (d.seed < m => s[i + 1] = d.seed)
    BY <1>2, <2>2, <2>3
  <2> QED BY <2>1, <2>4
<1>14. N \in T
  <2>1. N \in 0..N
    BY <1>1
  <2> HIDE DEF T, N
  <2> QED BY <1>1, <1>12, <1>13, <2>1, UpTo
<1>15. s[N] \in Word /\ (d.seed < m => s[N] = d.seed)
  BY <1>14
<1> HIDE DEF T
<1> QED BY <1>9, <1>15 DEF m

\* A deal the selector can be in.
Dealt(d, n) == IsDeal(d) /\ IsDeck(d, n) /\ d.seed \in Word

\* One draw of the selector adds a ticket it has not drawn.
LEMMA NextDeal ==
    ASSUME NEW n \in Nat, NEW d, Dealt(d, n), d.remaining # 0
    PROVE  LET e == Take(Settled(d)) IN
           /\ Dealt(e, n) /\ e.remaining = d.remaining - 1
           /\ \E t \in 0..(n - 1) : /\ e.indices = Append(d.indices, t)
                                    /\ \A i \in 1..Len(d.indices) : d.indices[i] # t
<1>1. IsDeal(d) /\ IsDeck(d, n) /\ d.seed \in Word /\ d.remaining \in Nat
  BY DEF Dealt, IsDeck
<1>2. PICK w \in Word : Settled(d) = [d EXCEPT !.seed = w]
  BY <1>1, SettledWord
<1> DEFINE c == [d EXCEPT !.seed = w]
           e == Take(c)
<1>3. c \in [seed : {w}, remaining : {d.remaining}, swaps : {d.swaps}, indices : {d.indices}]
  BY <1>1 DEF IsDeal
<1>4. IsDeal(c) /\ IsDeck(c, n)
  BY <1>1, NewWordKeepsDeck
<1> HIDE DEF c
<1>5. c.seed = w /\ c.remaining = d.remaining /\ c.indices = d.indices
  BY <1>3
<1>6. w \in Nat
  BY Widths DEF Word
<1>7. /\ IsDeck(e, n)
      /\ \E t \in 0..(n - 1) : /\ e.indices = Append(d.indices, t)
                               /\ \A i \in 1..Len(d.indices) : d.indices[i] # t
  BY <1>4, <1>5, <1>6, TakeKeepsDeck
<1>8. IsDeal(e) /\ e.seed = w /\ e.remaining = d.remaining - 1
  BY <1>4, <1>5, TakeFields
<1>9. Dealt(e, n)
  BY <1>7, <1>8 DEF Dealt
<1>10. Take(Settled(d)) = e
  BY <1>2 DEF c
<1> HIDE DEF e
<1> QED BY <1>7, <1>8, <1>9, <1>10

\* With an accepted word the draw is at its residue.
LEMMA AcceptedDeal ==
    ASSUME NEW n \in Nat, NEW d, Dealt(d, n), d.seed < LargestMultiple(d.remaining)
    PROVE  LET e == Take(Settled(d))
               r == Residue(d.seed, d.remaining)
           IN  /\ e.seed = d.seed
               /\ e.indices = Append(d.indices, Card(d, r))
               /\ \A p : Card(e, p) = IF p = r THEN Card(d, d.remaining - 1) ELSE Card(d, p)
<1>1. IsDeal(d) /\ d.seed \in Word /\ d.remaining \in Nat
  BY DEF Dealt, IsDeck
<1>2. Settled(d) = [d EXCEPT !.seed = d.seed]
  BY <1>1, SettledWord
<1>3. Settled(d) = d
  BY <1>1, <1>2 DEF IsDeal
<1> QED BY <1>1, <1>3, TakeFields

LEMMA DealtFresh ==
    ASSUME NEW s \in Word, NEW n \in Nat
    PROVE  /\ Dealt(Fresh(s, n), n) /\ Fresh(s, n).seed = s /\ Fresh(s, n).remaining = n
           /\ Fresh(s, n).indices = << >> /\ \A p : Card(Fresh(s, n), p) = p
<1>1. Dealt(Fresh(s, n), n) /\ Fresh(s, n).seed = s
  BY FreshDeck DEF Dealt
<1>2. Fresh(s, n).remaining = n /\ Fresh(s, n).swaps = << >> /\ Fresh(s, n).indices = << >>
  BY DEF Fresh
<1>3. \A p : Card(Fresh(s, n), p) = p
  BY <1>2 DEF Card
<1> QED BY <1>1, <1>2, <1>3

FirstDeal(s, n) == Take(Settled(Fresh(s, n)))

SecondDeal(s, n) == Take(Settled(FirstDeal(s, n)))

LEMMA SelectedByDeals ==
    ASSUME NEW s, NEW n \in Nat, NEW k \in 1..2, k <= n
    PROVE  SelectWinnerIndices(s, n, k) =
              IF k = 1 THEN FirstDeal(s, n).indices ELSE SecondDeal(s, n).indices
<1> DEFINE a == Fresh(s, n)
           b == FirstDeal(s, n)
           c == SecondDeal(s, n)
           F(h) == [i \in 0 .. Min({n, k}) |-> IF i = 0 THEN Fresh(s, n) ELSE Take(Settled(h[i - 1]))]
           g == [i \in 0..k |-> IF i = 0 THEN a ELSE IF i = 1 THEN b ELSE c]
<1>1. Min({n, k}) = k /\ k \in Nat
  <2>1. k \in Nat
    OBVIOUS
  <2> QED BY <2>1, MinPair
<1>2. b = Take(Settled(a)) /\ c = Take(Settled(b))
  BY DEF FirstDeal, SecondDeal
<1> HIDE DEF a, b, c
<1>3. \A i \in 0..k : g[i] = IF i = 0 THEN a ELSE Take(Settled(g[i - 1]))
  <2> TAKE i \in 0..k
  <2>1. i = 0 \/ i = 1 \/ (i = 2 /\ 2 \in 0..k)
    OBVIOUS
  <2>2. 0 \in 0..k /\ 1 \in 0..k
    OBVIOUS
  <2>3. g[0] = a /\ g[1] = b /\ (2 \in 0..k => g[2] = c)
    BY <2>2
  <2> HIDE DEF g
  <2> QED BY <1>2, <2>1, <2>3
<1>4. g = F(g)
  <2>1. g = [i \in 0..k |-> IF i = 0 THEN a ELSE Take(Settled(g[i - 1]))]
    BY <1>3
  <2> QED BY <1>1, <2>1 DEF a
<1> DEFINE z == CHOOSE h : h = F(h)
<1>5. z = F(z)
  BY <1>4
<1>6. SelectWinnerIndices(s, n, k) = z[Min({n, k})].indices
  BY Zenon DEF SelectWinnerIndices
<1> HIDE DEF z
<1>7. \A i \in 0..k : z[i] = IF i = 0 THEN a ELSE Take(Settled(z[i - 1]))
  BY <1>1, <1>5 DEF a
<1>8. 0 \in 0..k /\ 1 \in 0..k /\ (k = 1 \/ (k = 2 /\ 2 \in 0..k))
  OBVIOUS
<1>9. z[0] = a /\ z[1] = b /\ (k = 2 => z[2] = c)
  <2>1. z[0] = a
    BY <1>7, <1>8
  <2>2. z[1] = b
    BY <1>2, <1>7, <1>8, <2>1
  <2> QED BY <1>2, <1>7, <1>8, <2>1, <2>2
<1>10. z[Min({n, k})] = IF k = 1 THEN b ELSE c
  BY <1>1, <1>8, <1>9
<1> QED BY <1>6, <1>10 DEF b, c

LEMMA Appended ==
    ASSUME NEW S, NEW o \in Seq(S), NEW u \in S
    PROVE  /\ Append(o, u) \in Seq(S) /\ Len(Append(o, u)) = Len(o) + 1
           /\ \A i \in 1..Len(o) : Append(o, u)[i] = o[i]
           /\ Append(o, u)[Len(o) + 1] = u
  BY AppendProperties

LEMMA SecondAppended ==
    ASSUME NEW S, NEW o \in Seq(S), NEW u \in S, Len(o) = 1
    PROVE  /\ Append(o, u) \in Seq(S) /\ Len(Append(o, u)) = 2
           /\ Append(o, u)[1] = o[1] /\ Append(o, u)[2] = u
<1>1. /\ Append(o, u) \in Seq(S) /\ Len(Append(o, u)) = Len(o) + 1
      /\ \A i \in 1..Len(o) : Append(o, u)[i] = o[i]
      /\ Append(o, u)[Len(o) + 1] = u
  BY Appended, Zenon
<1> DEFINE l == Append(o, u)
<1> HIDE DEF l
<1>2. /\ l \in Seq(S) /\ Len(l) = 2 /\ l[1] = o[1] /\ l[2] = u
  BY <1>1 DEF l
<1> QED BY <1>2 DEF l

\* Whatever the seed, the winners are different tickets.
LEMMA SelectedAreOrders ==
    ASSUME total \in Nat, NEW s \in Word, NEW k \in 1..2, k <= total
    PROVE  SelectWinnerIndices(s, total, k) \in Orders(k)
<1> DEFINE n == total
           a == Fresh(s, n)
           b == FirstDeal(s, n)
           c == SecondDeal(s, n)
<1>1. Dealt(a, n) /\ a.remaining = n /\ a.indices = << >> /\ n # 0
  BY DealtFresh
<1>2. /\ Dealt(b, n) /\ b.remaining = n - 1
      /\ \E t \in 0..(n - 1) : b.indices = Append(<< >>, t)
  <2> HIDE DEF a, n
  <2>1. n \in Nat
    BY DEF n
  <2>2. /\ Dealt(Take(Settled(a)), n) /\ Take(Settled(a)).remaining = a.remaining - 1
        /\ \E t \in 0..(n - 1) : Take(Settled(a)).indices = Append(a.indices, t)
    BY <1>1, <2>1, NextDeal
  <2>3. b = Take(Settled(a))
    BY DEF FirstDeal, a
  <2> HIDE DEF b
  <2> QED BY <1>1, <2>2, <2>3
<1> HIDE DEF a, b
<1>3. PICK t \in 0..(n - 1) : b.indices = <<t>> /\ Len(b.indices) = 1 /\ b.indices[1] = t
  BY <1>2
<1>4. CASE k = 1
  <2>1. b.indices \in [1..1 -> 0..(n - 1)]
    <3>1. b.indices \in Seq(0..(n - 1))
      BY <1>2 DEF Dealt, IsDeck
    <3> QED BY <1>3, <3>1, SeqDef, LenProperties
  <2>2. \A i, j \in 1..1 : b.indices[i] = b.indices[j] => i = j
    OBVIOUS
  <2>3. SelectWinnerIndices(s, total, k) = b.indices
    BY <1>4, SelectedByDeals DEF b
  <2> QED BY <1>4, <2>1, <2>2, <2>3 DEF Orders
<1>5. CASE k = 2
  <2>1. b.remaining # 0 /\ n \in Nat
    BY <1>2, <1>5
  <2>2. /\ Dealt(c, n) /\ \E u \in 0..(n - 1) : c.indices = Append(b.indices, u) /\ u # t
    <3> HIDE DEF n
    <3>1. /\ Dealt(Take(Settled(b)), n)
          /\ \E u \in 0..(n - 1) : /\ Take(Settled(b)).indices = Append(b.indices, u)
                                   /\ \A i \in 1..Len(b.indices) : b.indices[i] # u
      BY <1>2, <2>1, NextDeal
    <3>2. c = Take(Settled(b))
      BY DEF SecondDeal, b
    <3> HIDE DEF c
    <3>3. 1 \in 1..Len(b.indices)
      BY <1>3
    <3> QED BY <1>3, <3>1, <3>2, <3>3
  <2> HIDE DEF c
  <2>3. PICK u \in 0..(n - 1) : c.indices = Append(b.indices, u) /\ u # t
    BY <2>2
  <2>4. c.indices \in Seq(0..(n - 1))
    BY <2>2 DEF Dealt, IsDeck
  <2>5. b.indices \in Seq(0..(n - 1))
    BY <1>2 DEF Dealt, IsDeck
  <2>6. c.indices \in [1..2 -> 0..(n - 1)] /\ c.indices[1] = t /\ c.indices[2] = u
    <3> DEFINE o == b.indices
               l == Append(o, u)
    <3> HIDE DEF n
    <3>1. o \in Seq(0..(n - 1)) /\ Len(o) = 1 /\ o[1] = t
      BY <1>3, <2>5
    <3> HIDE DEF o
    <3>2. l \in Seq(0..(n - 1)) /\ Len(l) = 2 /\ l[1] = o[1] /\ l[2] = u
      <4>1. u \in 0..(n - 1)
        OBVIOUS
      <4> QED BY <3>1, <4>1, SecondAppended, SMTT(30)
    <3> HIDE DEF l
    <3>3. Len(l) = 2 /\ l[1] = t /\ l[2] = u
      BY <3>1, <3>2
    <3>4. l \in [1..2 -> 0..(n - 1)]
      BY <3>2, <3>3, LenProperties
    <3>5. c.indices = l
      BY <2>3 DEF l, o
    <3> QED BY <3>3, <3>4, <3>5
  <2>7. \A i, j \in 1..2 : c.indices[i] = c.indices[j] => i = j
    <3> HIDE DEF n
    <3>1. \A i \in 1..2 : i = 1 \/ i = 2
      OBVIOUS
    <3> QED BY <2>3, <2>6, <3>1
  <2>8. SelectWinnerIndices(s, total, k) = c.indices
    BY <1>5, SelectedByDeals DEF c
  <2> QED BY <1>5, <2>6, <2>7, <2>8 DEF Orders
<1> QED BY <1>4, <1>5

\* A multiple of the deck's size below the last word is not refused.
LEMMA AcceptedBelow ==
    ASSUME NEW m \in Nat \ {0}, NEW x \in Nat, m * x < Words
    PROVE  m * x <= LargestMultiple(m)
<1> DEFINE W == Words - 1
           c == W \div m
           u == m * c
           v == m * x
<1>1. W \in Nat
  BY Widths
<1>2. c \in Nat /\ W % m \in 0..(m - 1) /\ W = m * c + (W % m)
  <2> HIDE DEF W
  <2> QED BY <1>1, DivisionOf
<1>3. LargestMultiple(m) = u
  <2>1. LargestMultiple(m) = c * m
    BY DEF LargestMultiple
  <2> HIDE DEF c
  <2> QED BY <1>2, <2>1
<1>4. u \in Nat /\ v \in Nat /\ W < u + m /\ v <= W
  <2> DEFINE w == W % m
  <2>1. w \in 0..(m - 1) /\ W = u + w
    BY <1>2
  <2>2. u \in Nat /\ v \in Nat
    <3> HIDE DEF c
    <3> QED BY <1>2
  <2>3. v < Words
    OBVIOUS
  <2> HIDE DEF w, u, v
  <2> QED BY <1>1, <2>1, <2>2, <2>3, Widths
<1>5. (c < x => u + m <= v) /\ (x < c => v + m <= u) /\ (c = x => u = v)
  <2> HIDE DEF c
  <2> QED BY <1>2, MultipleGrows
<1>6. v <= u
  <2> HIDE DEF c, u, v, W
  <2> QED BY <1>1, <1>2, <1>4, <1>5
<1> QED BY <1>3, <1>6

LEMMA SquareFits ==
    ASSUME NEW n \in 1..MaxTickets
    PROVE  n * (n - 1) < Words /\ n * (n - 1) \in Nat /\ n < Words
<1> DEFINE M == MaxTickets
           x == n * (n - 1)
           y == M * (M - 1)
<1>1. M \in Nat /\ M >= 1 /\ n \in Nat /\ n - 1 \in Nat /\ M - 1 \in Nat /\ n <= M /\ M < Words
  BY Widths, WordsAssumption
<1>2. y < Words
  BY PairsAssumption
<1>3. x \in Nat /\ y \in Nat
  <2> HIDE DEF M
  <2> QED BY <1>1
<1>4. x <= y
  <2> DEFINE e == M - n
  <2>1. e \in Nat /\ M = n + e /\ M - 1 = (n - 1) + e
    <3> HIDE DEF M
    <3> QED BY <1>1
  <2> HIDE DEF M, e
  <2>2. M * (M - 1) = n * (n - 1) + n * e + e * (n - 1) + e * e
    BY <1>1, <2>1
  <2>3. n * e \in Nat /\ e * (n - 1) \in Nat /\ e * e \in Nat
    BY <1>1, <2>1
  <2> DEFINE p == n * e
             q == e * (n - 1)
             r == e * e
  <2> HIDE DEF x, y, p, q, r
  <2>4. y = x + p + q + r /\ p \in Nat /\ q \in Nat /\ r \in Nat
    BY <2>2, <2>3 DEF x, y, p, q, r
  <2> QED BY <1>3, <2>4
<1>5. n < Words
  <2> HIDE DEF M
  <2> QED BY <1>1, Widths
<1> HIDE DEF x, y
<1>6. x < Words
  BY <1>2, <1>3, <1>4, Widths
<1> QED BY <1>3, <1>5, <1>6 DEF x

\* The remainders of one word by two successive sizes are independent of each other.
LEMMA WordForPair ==
    ASSUME NEW n \in 2..MaxTickets, NEW r \in 0..(n - 1), NEW q \in 0..(n - 2)
    PROVE  \E s \in Word : /\ s < LargestMultiple(n) /\ s < LargestMultiple(n - 1)
                           /\ Residue(s, n) = r /\ Residue(s, n - 1) = q
<1> DEFINE m == n - 1
           a == IF q >= r THEN q - r ELSE q - r + m
           s == n * a + r
           x == n * m
<1>1. n \in 1..MaxTickets /\ n \in Nat \ {0} /\ m \in Nat \ {0} /\ n = m + 1
  BY Widths
<1>2. a \in 0..(m - 1) /\ (a + r = q \/ a + r = q + m)
  OBVIOUS
<1>3. x < Words /\ x \in Nat
  BY <1>1, SquareFits
<1>4. x <= LargestMultiple(n) /\ x <= LargestMultiple(m)
  <2>1. n * m < Words /\ m * n < Words /\ m * n = n * m
    BY <1>1, <1>3
  <2> HIDE DEF m
  <2>2. n * m <= LargestMultiple(n)
    BY <1>1, <2>1, AcceptedBelow
  <2>3. m * n <= LargestMultiple(m)
    BY <1>1, <2>1, AcceptedBelow
  <2> QED BY <2>1, <2>2, <2>3
<1>5. s \in Nat /\ Residue(s, n) = r
  <2> HIDE DEF a, m
  <2>1. a \in Nat
    BY <1>1, <1>2
  <2> QED BY <1>1, <2>1, ResidueOfSum DEF Residue
<1>6. Residue(s, m) = q
  <2> HIDE DEF a
  <2>1. s = m * a + (a + r)
    <3> HIDE DEF m
    <3>1. a \in Nat /\ r \in Nat
      BY <1>1, <1>2
    <3>2. (m + 1) * a = m * a + a
      BY <1>1, <3>1
    <3> QED BY <1>1, <3>1, <3>2
  <2>2. q \in 0..(m - 1) /\ a \in Nat
    BY <1>2
  <2>3. CASE a + r = q
    <3>1. s = m * a + q
      BY <2>1, <2>3
    <3> HIDE DEF m, s
    <3> QED BY <1>1, <2>2, <3>1, ResidueOfSum DEF Residue
  <2>4. CASE a + r = q + m
    <3>1. s = m * a + (q + m)
      BY <2>1, <2>4
    <3> HIDE DEF m, s
    <3>2. m * (a + 1) = m * a + m
      BY <1>1, <2>2
    <3>3. m * a \in Nat /\ q \in Nat
      BY <1>1, <2>2
    <3>4. s = m * (a + 1) + q
      <4> DEFINE u == m * a
                 w == m * (a + 1)
      <4> HIDE DEF u, w
      <4>1. s = u + (q + m) /\ w = u + m /\ u \in Nat /\ q \in Nat /\ m \in Nat
        BY <1>1, <3>1, <3>2, <3>3 DEF u, w
      <4>2. s = w + q
        BY <4>1
      <4> QED BY <4>2 DEF w
    <3>5. a + 1 \in Nat
      BY <2>2
    <3> QED BY <1>1, <2>2, <3>4, <3>5, ResidueOfSum DEF Residue
  <2> HIDE DEF s, m
  <2> QED BY <1>2, <2>3, <2>4
<1>7. s < x
  <2>1. a \in Nat /\ m \in Nat /\ a < m
    <3> HIDE DEF a, m
    <3> QED BY <1>1, <1>2
  <2> HIDE DEF a, m
  <2>2. n * a + n <= n * m
    BY <1>1, <2>1, MultipleGrows
  <2> DEFINE u == n * a
  <2>3. u \in Nat /\ s = u + r /\ u + n <= x
    BY <1>1, <2>1, <2>2
  <2> HIDE DEF u, s, x
  <2> QED BY <1>1, <1>3, <2>3
<1>8. s \in Word
  <2> HIDE DEF s, x
  <2> QED BY <1>3, <1>5, <1>7, Widths DEF Word
<1>9. LargestMultiple(n) \in Int /\ LargestMultiple(m) \in Int
  <2> HIDE DEF m
  <2>1. \A k \in Nat \ {0} : LargestMultiple(k) \in Int
    <3> TAKE k \in Nat \ {0}
    <3>1. (Words - 1) \div k \in Int
      BY Widths
    <3> DEFINE z == (Words - 1) \div k
    <3> HIDE DEF z
    <3>2. z \in Int /\ LargestMultiple(k) = z * k
      BY <3>1 DEF LargestMultiple, z
    <3> QED BY <3>2
  <2> QED BY <1>1, <2>1
<1>10. s < LargestMultiple(n) /\ s < LargestMultiple(m)
  <2> HIDE DEF s, x, m
  <2> QED BY <1>3, <1>4, <1>5, <1>7, <1>9
<1> HIDE DEF s
<1> QED BY <1>5, <1>6, <1>8, <1>10

\* Some seed deals the two cards at positions r and q.
LEMMA PairDealt ==
    ASSUME NEW n \in 2..MaxTickets, NEW r \in 0..(n - 1), NEW u \in 0..(n - 1), r # u
    PROVE  \E s \in Word : /\ SecondDeal(s, n).indices \in Seq(0..(n - 1))
                           /\ Len(SecondDeal(s, n).indices) = 2
                           /\ SecondDeal(s, n).indices[1] = r
                           /\ SecondDeal(s, n).indices[2] = u
<1> DEFINE q == IF u = n - 1 THEN r ELSE u
<1>1. q \in 0..(n - 2) /\ n \in Nat /\ n - 1 \in Nat
  BY Widths
<1>2. PICK s \in Word : /\ s < LargestMultiple(n) /\ s < LargestMultiple(n - 1)
                        /\ Residue(s, n) = r /\ Residue(s, n - 1) = q
  <2> HIDE DEF q
  <2> QED BY <1>1, WordForPair
<1> DEFINE a == Fresh(s, n)
           b == FirstDeal(s, n)
           c == SecondDeal(s, n)
<1>3. /\ Dealt(a, n) /\ a.seed = s /\ a.remaining = n /\ a.indices = << >>
      /\ \A p : Card(a, p) = p
  BY <1>1, DealtFresh
<1>4. b = Take(Settled(a)) /\ c = Take(Settled(b))
  BY DEF FirstDeal, SecondDeal
<1> HIDE DEF a, b, c, q
<1>5. Dealt(b, n) /\ b.remaining = n - 1
  <2>1. a.remaining # 0
    BY <1>3
  <2>2. Dealt(Take(Settled(a)), n) /\ Take(Settled(a)).remaining = a.remaining - 1
    BY <1>1, <1>3, <2>1, NextDeal
  <2> QED BY <1>3, <1>4, <2>2
<1>6. /\ b.seed = s /\ b.indices = Append(<< >>, r)
      /\ \A p : Card(b, p) = IF p = r THEN n - 1 ELSE p
  <2>1. a.seed < LargestMultiple(a.remaining)
    BY <1>2, <1>3
  <2> DEFINE e == Take(Settled(a))
             k == Residue(a.seed, a.remaining)
  <2>2. /\ e.seed = a.seed /\ e.indices = Append(a.indices, Card(a, k))
        /\ \A p : Card(e, p) = IF p = k THEN Card(a, a.remaining - 1) ELSE Card(a, p)
    BY <1>1, <1>3, <2>1, AcceptedDeal
  <2>3. k = r
    BY <1>2, <1>3
  <2>4. e = b
    BY <1>4
  <2> HIDE DEF e, k
  <2>5. Card(a, k) = r /\ Card(a, a.remaining - 1) = n - 1
    BY <1>3, <2>3
  <2> QED BY <1>3, <2>2, <2>3, <2>4, <2>5
<1>7. c.indices = Append(b.indices, u)
  <2>1. b.seed < LargestMultiple(b.remaining)
    BY <1>2, <1>5, <1>6
  <2> DEFINE e == Take(Settled(b))
             k == Residue(b.seed, b.remaining)
  <2>2. e.indices = Append(b.indices, Card(b, k))
    BY <1>1, <1>5, <2>1, AcceptedDeal
  <2>3. k = q
    BY <1>2, <1>5, <1>6
  <2>4. Card(b, q) = u
    <3>1. CASE u = n - 1
      BY <1>6, <3>1 DEF q
    <3>2. CASE u # n - 1
      BY <1>6, <3>2 DEF q
    <3> QED BY <3>1, <3>2
  <2> HIDE DEF e, k
  <2> QED BY <1>4, <2>2, <2>3, <2>4 DEF e
<1>8. b.indices \in Seq(0..(n - 1)) /\ Len(b.indices) = 1 /\ b.indices[1] = r
  <2>1. b.indices \in Seq(0..(n - 1))
    BY <1>5 DEF Dealt, IsDeck
  <2> QED BY <1>6, <2>1
<1>9. /\ c.indices \in Seq(0..(n - 1)) /\ Len(c.indices) = 2
      /\ c.indices[1] = r /\ c.indices[2] = u
  <2> DEFINE o == b.indices
             l == Append(o, u)
  <2>1. o \in Seq(0..(n - 1)) /\ Len(o) = 1 /\ o[1] = r
    BY <1>8
  <2> HIDE DEF o
  <2>2. l \in Seq(0..(n - 1)) /\ Len(l) = 2 /\ l[1] = o[1] /\ l[2] = u
    BY <2>1, SecondAppended
  <2>3. c.indices = l
    BY <1>7 DEF o
  <2> HIDE DEF l
  <2>4. Len(l) = 2 /\ l[1] = r /\ l[2] = u
    BY <2>1, <2>2
  <2> QED BY <2>2, <2>3, <2>4
<1> QED BY <1>9 DEF c

LEMMA FirstDealt ==
    ASSUME NEW n \in 1..MaxTickets, NEW r \in 0..(n - 1)
    PROVE  \E s \in Word : /\ FirstDeal(s, n).indices \in Seq(0..(n - 1))
                           /\ Len(FirstDeal(s, n).indices) = 1
                           /\ FirstDeal(s, n).indices[1] = r
<1>1. n \in Nat \ {0} /\ n < Words /\ r \in Nat
  BY SquareFits, Widths
<1>2. r \in Word
  BY <1>1, Widths DEF Word
<1>3. r < LargestMultiple(n)
  <2>1. n * 1 = n
    BY <1>1
  <2>2. n * 1 <= LargestMultiple(n)
    BY <1>1, <2>1, AcceptedBelow
  <2>3. LargestMultiple(n) \in Int
    <3> DEFINE z == (Words - 1) \div n
    <3>1. z \in Int
      BY <1>1, Widths
    <3> HIDE DEF z
    <3>2. z * n \in Int
      BY <1>1, <3>1
    <3> QED BY <3>2 DEF LargestMultiple, z
  <2> QED BY <1>1, <2>1, <2>2, <2>3
<1>4. Residue(r, n) = r
  <2>1. n * 0 + r = r
    BY <1>1
  <2> QED BY <1>1, <2>1, ResidueOfSum DEF Residue
<1> DEFINE a == Fresh(r, n)
           e == Take(Settled(a))
           k == Residue(a.seed, a.remaining)
<1>5. /\ Dealt(a, n) /\ a.seed = r /\ a.remaining = n /\ a.indices = << >>
      /\ \A p : Card(a, p) = p
  BY <1>1, <1>2, DealtFresh
<1> HIDE DEF a
<1>6. Dealt(e, n) /\ e.indices = Append(a.indices, Card(a, k))
  <2>1. a.seed < LargestMultiple(a.remaining) /\ a.remaining # 0
    BY <1>1, <1>3, <1>5
  <2> QED BY <1>1, <1>5, <2>1, NextDeal, AcceptedDeal
<1>7. k = r
  BY <1>4, <1>5
<1> HIDE DEF e, k
<1>8. e.indices \in Seq(0..(n - 1))
  BY <1>6 DEF Dealt, IsDeck
<1>9. e.indices = Append(<< >>, r)
  BY <1>5, <1>6, <1>7
<1>10. Len(e.indices) = 1 /\ e.indices[1] = r
  BY <1>9
<1>11. FirstDeal(r, n) = e
  BY DEF FirstDeal, e, a
<1> QED BY <1>2, <1>8, <1>10, <1>11

\* With one or two tiers every order of winners comes from some seed, for every number
\* of tickets, every generator and every width of a word that holds the square of the
\* number of tickets (select_winner_indices): the two draws use one word, and the
\* sizes n and n - 1 of their decks have no common divisor.
THEOREM PairsAreOpen == Spec => []EveryPairPossible
<1>1. SelectionInv => EveryPairPossible
  <2> SUFFICES ASSUME SelectionInv, count \in 1..2, count <= total
               PROVE  {SelectWinnerIndices(s, total, count) : s \in Word} = Orders(count)
    BY DEF EveryPairPossible
  <2>1. total \in Nat /\ total \in 1..MaxTickets
    <3>1. total \in 0..MaxTickets
      BY DEF SelectionInv, DealInv
    <3> QED BY <3>1, Widths
  <2>2. \A s \in Word : SelectWinnerIndices(s, total, count) \in Orders(count)
    BY <2>1, SelectedAreOrders
  <2>3. ASSUME NEW f \in Orders(count)
        PROVE  \E s \in Word : SelectWinnerIndices(s, total, count) = f
    <3>1. /\ f \in [1..count -> 0..(total - 1)]
          /\ \A i, j \in 1..count : f[i] = f[j] => i = j
      BY DEF Orders
    <3>2. CASE count = 1
      <4>1. f[1] \in 0..(total - 1)
        BY <3>1, <3>2
      <4>2. PICK s \in Word : /\ FirstDeal(s, total).indices \in Seq(0..(total - 1))
                              /\ Len(FirstDeal(s, total).indices) = 1
                              /\ FirstDeal(s, total).indices[1] = f[1]
        BY <2>1, <4>1, FirstDealt
      <4> DEFINE l == FirstDeal(s, total).indices
      <4>3. SelectWinnerIndices(s, total, count) = l
        BY <2>1, <3>2, SelectedByDeals
      <4> HIDE DEF l
      <4>4. l \in [1..1 -> 0..(total - 1)] /\ l[1] = f[1]
        BY <4>2, LenProperties DEF l
      <4>5. l = f
        BY <3>1, <3>2, <4>4
      <4> QED BY <4>3, <4>5
    <3>3. CASE count = 2
      <4>1. f[1] \in 0..(total - 1) /\ f[2] \in 0..(total - 1) /\ f[1] # f[2]
        BY <3>1, <3>3
      <4>2. total \in 2..MaxTickets
        BY <2>1, <3>3, Widths
      <4>3. PICK s \in Word : /\ SecondDeal(s, total).indices \in Seq(0..(total - 1))
                              /\ Len(SecondDeal(s, total).indices) = 2
                              /\ SecondDeal(s, total).indices[1] = f[1]
                              /\ SecondDeal(s, total).indices[2] = f[2]
        BY <4>1, <4>2, PairDealt
      <4> DEFINE l == SecondDeal(s, total).indices
      <4>4. SelectWinnerIndices(s, total, count) = l
        BY <2>1, <3>3, SelectedByDeals
      <4> HIDE DEF l
      <4>5. l \in [1..2 -> 0..(total - 1)] /\ l[1] = f[1] /\ l[2] = f[2]
        BY <4>3, LenProperties DEF l
      <4>6. \A i \in 1..2 : l[i] = f[i]
        <5>1. \A i \in 1..2 : i = 1 \/ i = 2
          OBVIOUS
        <5> QED BY <4>5, <5>1
      <4>7. l = f
        BY <3>1, <3>3, <4>5, <4>6
      <4> QED BY <4>4, <4>7
    <3> QED BY <3>2, <3>3
  <2> QED BY <2>2, <2>3
<1> QED BY <1>1, SelectionHolds, PTL

=============================================================================
