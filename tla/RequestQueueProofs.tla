------------------------- MODULE RequestQueueProofs -------------------------
(***************************************************************************)
(* Proofs about RequestQueue, for any number of jobs, copies and attempts, *)
(* any limits, any clock and any number of crashes and failing writes: no  *)
(* copy of a job is lost or doubled between the queue, the dead letters,   *)
(* an operator and a worker, and a health check restores the limits.       *)
(***************************************************************************)
EXTENDS RequestQueue, FiniteSetTheorems, SequenceTheorems, WellFoundedInduction, TLAPS

LEMMA Limits ==
    /\ DepthLimit \in Nat /\ AgeLimit \in Nat /\ RateLimit \in Nat
    /\ MaxAttempts \in Nat /\ MaxAttempts >= 1 /\ Threshold \in Nat /\ Threshold >= 1
    /\ StartTime \in Nat /\ StartTime > RateLimit
    /\ MaxTime \in Nat /\ MaxTime >= StartTime /\ MaxFaults \in Nat
  BY LimitsAssumption

-----------------------------------------------------------------------------
(* Sequences of entries.                                                    *)

LEMMA SeqDomain ==
    ASSUME NEW E, NEW s \in Seq(E)
    PROVE  DOMAIN s = 1 .. Len(s) /\ Len(s) \in Nat /\ \A i \in 1 .. Len(s) : s[i] \in E
  BY LenProperties, ElementOfSeq

LEMMA FunctionIsSeq ==
    ASSUME NEW S, NEW n \in Nat, NEW f \in [1 .. n -> S]
    PROVE  f \in Seq(S) /\ Len(f) = n
<1>1. f \in Seq(S)
  BY SeqDef
<1>2. DOMAIN f = 1 .. Len(f) /\ Len(f) \in Nat /\ DOMAIN f = 1 .. n
  BY <1>1, LenProperties
<1> QED BY <1>1, <1>2

\* A stretch of a sequence.
LEMMA Stretch ==
    ASSUME NEW E, NEW s \in Seq(E), NEW a \in Nat, NEW b \in Nat, a >= 1, b <= Len(s), a <= b + 1
    PROVE  /\ SubSeq(s, a, b) \in Seq(E)
           /\ Len(SubSeq(s, a, b)) = b - a + 1
           /\ \A i \in 1 .. b - a + 1 : SubSeq(s, a, b)[i] = s[a + i - 1]
<1>1. Len(s) \in Nat /\ \A i \in 1 .. Len(s) : s[i] \in E
  BY SeqDomain
<1>2. \A i \in a .. b : s[i] \in E
  BY <1>1
<1> QED BY <1>2, SubSeqProperties

\* The sequence without its i-th entry.
LEMMA Removed ==
    ASSUME NEW E, NEW s \in Seq(E), NEW i \in 1 .. Len(s)
    PROVE  /\ RemoveAt(s, i) \in Seq(E)
           /\ Len(RemoveAt(s, i)) = Len(s) - 1
           /\ \A k \in 1 .. Len(s) - 1 : RemoveAt(s, i)[k] = IF k < i THEN s[k] ELSE s[k + 1]
<1> DEFINE n == Len(s)
           u == SubSeq(s, 1, i - 1)
           v == SubSeq(s, i + 1, n)
           t == RemoveAt(s, i)
<1>1. n \in Nat /\ i \in Nat /\ i >= 1 /\ i <= n /\ i - 1 \in Nat /\ i + 1 \in Nat
  BY SeqDomain
<1>2. /\ u \in Seq(E) /\ Len(u) = i - 1 /\ \A k \in 1 .. i - 1 : u[k] = s[k]
  <2>1. \A k \in 1 .. i - 1 : 1 + k - 1 = k
    BY <1>1
  <2> QED BY <1>1, <2>1, Stretch
<1>3. /\ v \in Seq(E) /\ Len(v) = n - i /\ \A k \in 1 .. n - i : v[k] = s[i + k]
  <2>1. \A k \in 1 .. n - i : i + 1 + k - 1 = i + k
    BY <1>1
  <2>2. n - (i + 1) + 1 = n - i
    BY <1>1
  <2>3. i + 1 >= 1 /\ n <= Len(s) /\ i + 1 <= n + 1
    BY <1>1
  <2>4. /\ v \in Seq(E) /\ Len(v) = n - (i + 1) + 1
        /\ \A k \in 1 .. n - (i + 1) + 1 : v[k] = s[i + 1 + k - 1]
    BY <1>1, <2>3, Stretch
  <2> HIDE DEF v, n
  <2> QED BY <2>1, <2>2, <2>4
<1>4. t = u \o v
  BY DEF RemoveAt
<1> HIDE DEF u, v, t
<1>5. t \in Seq(E) /\ Len(t) = n - 1
      /\ \A k \in 1 .. n - 1 : t[k] = IF k <= i - 1 THEN u[k] ELSE v[k - (i - 1)]
  <2>1. Len(u) + Len(v) = n - 1
    BY <1>1, <1>2, <1>3
  <2>2. /\ t \in Seq(E) /\ Len(t) = Len(u) + Len(v)
        /\ \A k \in 1 .. Len(u) + Len(v) : t[k] = IF k <= Len(u) THEN u[k] ELSE v[k - Len(u)]
    BY <1>2, <1>3, <1>4, ConcatProperties
  <2> QED BY <1>2, <2>1, <2>2
<1>6. \A k \in 1 .. n - 1 : t[k] = IF k < i THEN s[k] ELSE s[k + 1]
  <2> TAKE k \in 1 .. n - 1
  <2>1. CASE k < i
    <3>1. k \in 1 .. i - 1 /\ k <= i - 1
      BY <1>1, <2>1
    <3>2. u[k] = s[k]
      BY <1>2, <3>1
    <3>3. t[k] = IF k <= i - 1 THEN u[k] ELSE v[k - (i - 1)]
      BY <1>5
    <3> QED BY <2>1, <3>1, <3>2, <3>3
  <2>2. CASE k >= i
    <3>1. k - (i - 1) \in 1 .. n - i /\ i + (k - (i - 1)) = k + 1 /\ ~(k <= i - 1)
      BY <1>1, <2>2
    <3>2. v[k - (i - 1)] = s[i + (k - (i - 1))]
      BY <1>3, <3>1
    <3> QED BY <1>1, <1>5, <2>2, <3>1, <3>2
  <2> QED BY <1>1, <2>1, <2>2
<1> QED BY <1>5, <1>6 DEF t

-----------------------------------------------------------------------------
(* The copies of a job in a sequence.                                       *)

LEMMA CountType ==
    ASSUME NEW E, NEW s \in Seq(E), NEW j
    PROVE  Count(s, j) \in Nat
<1> DEFINE S == {i \in DOMAIN s : s[i].job = j}
<1>1. DOMAIN s = 1 .. Len(s) /\ Len(s) \in Nat
  BY SeqDomain
<1>2. IsFiniteSet(1 .. Len(s))
  BY <1>1, FS_Interval
<1>3. S \subseteq 1 .. Len(s)
  BY <1>1
<1> HIDE DEF S
<1>4. IsFiniteSet(S)
  BY <1>2, <1>3, FS_Subset
<1>5. Cardinality(S) \in Nat
  BY <1>4, FS_CardinalityType
<1> QED BY <1>5 DEF Count, S

LEMMA CountNone ==
    ASSUME NEW j
    PROVE  Count(<< >>, j) = 0
<1>1. {i \in DOMAIN << >> : << >>[i].job = j} = {}
  OBVIOUS
<1> QED BY <1>1, FS_EmptySet DEF Count

LEMMA CountOne ==
    ASSUME NEW E, NEW s \in Seq(E), NEW j, Len(s) = 1
    PROVE  Count(s, j) = IF s[1].job = j THEN 1 ELSE 0
<1> DEFINE S == {i \in DOMAIN s : s[i].job = j}
<1>1. DOMAIN s = {1}
  <2>1. DOMAIN s = 1 .. 1
    BY SeqDomain
  <2> QED BY <2>1
<1>2. CASE s[1].job = j
  <2>1. S = {1}
    BY <1>1, <1>2
  <2>2. Cardinality({1}) = 1
    BY FS_Singleton
  <2> QED BY <1>2, <2>1, <2>2 DEF Count
<1>3. CASE s[1].job # j
  <2>1. S = {}
    BY <1>1, <1>3
  <2> QED BY <1>3, <2>1, FS_EmptySet DEF Count
<1> QED BY <1>2, <1>3

\* A set of numbers moved by n has as many elements.
LEMMA Moved ==
    ASSUME NEW S, S \subseteq Nat, IsFiniteSet(S), NEW n \in Nat
    PROVE  LET T == {k + n : k \in S} IN IsFiniteSet(T) /\ Cardinality(T) = Cardinality(S)
<1> DEFINE T == {k + n : k \in S}
           f == [k \in S |-> k + n]
<1>1. f \in Bijection(S, T)
  <2>1. f \in [S -> T]
    OBVIOUS
  <2>2. \A a, b \in S : f[a] = f[b] => a = b
    OBVIOUS
  <2>3. \A t \in T : \E a \in S : f[a] = t
    OBVIOUS
  <2> HIDE DEF f, T
  <2> QED BY <2>1, <2>2, <2>3 DEF Bijection, Injection, Surjection, IsInjective
<1>2. ExistsBijection(S, T)
  BY <1>1 DEF ExistsBijection
<1> HIDE DEF T, f
<1>3. IsFiniteSet(T) /\ Cardinality(T) = Cardinality(S)
  BY <1>2, FS_Bijection
<1> QED BY <1>3 DEF T

\* A sequence whose entries are those of s and then those of t, as far as jobs go.
LEMMA CountHalves ==
    ASSUME NEW s, NEW t, NEW u, NEW j,
           DOMAIN s = 1 .. Len(s), Len(s) \in Nat, DOMAIN t = 1 .. Len(t), Len(t) \in Nat,
           DOMAIN u = 1 .. Len(u), Len(u) = Len(s) + Len(t),
           \A k \in 1 .. Len(s) : u[k].job = s[k].job,
           \A k \in 1 .. Len(t) : u[k + Len(s)].job = t[k].job
    PROVE  Count(u, j) = Count(s, j) + Count(t, j)
<1> DEFINE n == Len(s)
           S == {k \in DOMAIN s : s[k].job = j}
           T == {k \in DOMAIN t : t[k].job = j}
           U == {k \in DOMAIN u : u[k].job = j}
           M == {k + n : k \in T}
<1>1. /\ DOMAIN s = 1 .. n /\ n \in Nat
      /\ DOMAIN t = 1 .. Len(t) /\ Len(t) \in Nat
      /\ DOMAIN u = 1 .. n + Len(t)
  OBVIOUS
<1>2. S \subseteq 1 .. n /\ T \subseteq 1 .. Len(t)
  BY <1>1
<1>3. U = S \cup M
  <2>1. S \subseteq U
    <3>1. \A k \in 1 .. n : k \in 1 .. n + Len(t)
      BY <1>1
    <3> QED BY <1>1, <3>1
  <2>2. M \subseteq U
    <3>1. \A k \in 1 .. Len(t) : k + n \in 1 .. n + Len(t)
      BY <1>1
    <3> QED BY <1>1, <3>1
  <2>3. ASSUME NEW k \in U, k \notin S
        PROVE  k \in M
    <3>1. k \in 1 .. n + Len(t) /\ u[k].job = j
      BY <1>1
    <3>2. k \notin 1 .. n
      BY <1>1, <2>3, <3>1
    <3> DEFINE i == k - n
    <3>3. i \in 1 .. Len(t) /\ k = i + n
      BY <1>1, <3>1, <3>2
    <3> HIDE DEF i
    <3>4. i \in T
      BY <1>1, <3>1, <3>3
    <3> QED BY <3>3, <3>4
  <2> QED BY <2>1, <2>2, <2>3
<1>4. S \cap M = {}
  BY <1>1, <1>2
<1>5. IsFiniteSet(S) /\ IsFiniteSet(T)
  <2>1. IsFiniteSet(1 .. n) /\ IsFiniteSet(1 .. Len(t))
    BY <1>1, FS_Interval
  <2> HIDE DEF S, T, n
  <2> QED BY <1>2, <2>1, FS_Subset
<1>6. T \subseteq Nat
  BY <1>1, <1>2
<1> HIDE DEF S, T, U, n
<1>7. IsFiniteSet(M) /\ Cardinality(M) = Cardinality(T)
  BY <1>1, <1>5, <1>6, Moved
<1> HIDE DEF M
<1>8. Cardinality(S \cup M) = Cardinality(S) + Cardinality(M) - Cardinality(S \cap M)
  BY <1>5, <1>7, FS_Union
<1>9. Cardinality(S \cap M) = 0
  BY <1>4, FS_EmptySet
<1>10. Cardinality(S) \in Nat /\ Cardinality(M) \in Nat
  BY <1>5, <1>7, FS_CardinalityType
<1>11. Cardinality(U) = Cardinality(S) + Cardinality(T)
  BY <1>3, <1>7, <1>8, <1>9, <1>10
<1> QED BY <1>11 DEF Count, S, T, U

LEMMA CountJoined ==
    ASSUME NEW E, NEW s \in Seq(E), NEW t \in Seq(E), NEW j
    PROVE  s \o t \in Seq(E) /\ Count(s \o t, j) = Count(s, j) + Count(t, j)
<1> DEFINE u == s \o t
<1>1. Len(s) \in Nat /\ Len(t) \in Nat
  BY SeqDomain
<1>2. /\ u \in Seq(E) /\ Len(u) = Len(s) + Len(t)
      /\ \A k \in 1 .. Len(s) + Len(t) : u[k] = IF k <= Len(s) THEN s[k] ELSE t[k - Len(s)]
  BY ConcatProperties
<1> HIDE DEF u
<1>3. \A k \in 1 .. Len(s) : u[k] = s[k]
  BY <1>1, <1>2
<1>4. \A k \in 1 .. Len(t) : u[k + Len(s)] = t[k]
  <2> TAKE k \in 1 .. Len(t)
  <2>1. k + Len(s) \in 1 .. Len(s) + Len(t) /\ ~(k + Len(s) <= Len(s)) /\ (k + Len(s)) - Len(s) = k
    BY <1>1
  <2> QED BY <1>2, <2>1
<1>5. DOMAIN s = 1 .. Len(s) /\ DOMAIN t = 1 .. Len(t) /\ DOMAIN u = 1 .. Len(u)
  BY <1>2, SeqDomain
<1>6. /\ \A k \in 1 .. Len(s) : u[k].job = s[k].job
      /\ \A k \in 1 .. Len(t) : u[k + Len(s)].job = t[k].job
  BY <1>3, <1>4
<1>7. Count(u, j) = Count(s, j) + Count(t, j)
  BY <1>1, <1>2, <1>5, <1>6, CountHalves
<1> QED BY <1>2, <1>7 DEF u

LEMMA CountAppended ==
    ASSUME NEW E, NEW s \in Seq(E), NEW e \in E, NEW j
    PROVE  /\ Append(s, e) \in Seq(E)
           /\ Count(Append(s, e), j) = Count(s, j) + (IF e.job = j THEN 1 ELSE 0)
<1> DEFINE u == Append(s, e)
           t == <<e>>
<1>1. Len(s) \in Nat
  BY SeqDomain
<1>2. t \in Seq(E) /\ Len(t) = 1 /\ t[1] = e
  OBVIOUS
<1>3. /\ u \in Seq(E) /\ Len(u) = Len(s) + 1
      /\ \A i \in 1 .. Len(s) : u[i] = s[i]
      /\ u[Len(s) + 1] = e
  BY AppendProperties, SeqDomain
<1> HIDE DEF u, t
<1>4. \A k \in 1 .. Len(t) : u[k + Len(s)] = t[k]
  <2> TAKE k \in 1 .. Len(t)
  <2>1. k = 1 /\ k + Len(s) = Len(s) + 1
    BY <1>1, <1>2
  <2> QED BY <1>2, <1>3, <2>1
<1>5. Count(u, j) = Count(s, j) + Count(t, j)
  <2>1. DOMAIN s = 1 .. Len(s) /\ DOMAIN t = 1 .. Len(t) /\ DOMAIN u = 1 .. Len(u)
    BY <1>2, <1>3, SeqDomain
  <2>2. /\ \A k \in 1 .. Len(s) : u[k].job = s[k].job
        /\ \A k \in 1 .. Len(t) : u[k + Len(s)].job = t[k].job
    BY <1>3, <1>4
  <2>3. Len(t) \in Nat /\ Len(u) = Len(s) + Len(t)
    BY <1>2, <1>3
  <2> QED BY <1>1, <2>1, <2>2, <2>3, CountHalves
<1>6. Count(t, j) = IF e.job = j THEN 1 ELSE 0
  BY <1>2, CountOne
<1> QED BY <1>3, <1>5, <1>6 DEF u

\* Any sequence is its first n entries and the others.
LEMMA CountSplit ==
    ASSUME NEW E, NEW s \in Seq(E), NEW n \in 0 .. Len(s), NEW j
    PROVE  Count(s, j) = Count(SubSeq(s, 1, n), j) + Count(SubSeq(s, n + 1, Len(s)), j)
<1> DEFINE a == n + 1
           b == Len(s)
           u == SubSeq(s, 1, n)
           v == SubSeq(s, a, b)
<1>1. b \in Nat /\ n \in Nat /\ n <= b /\ a \in Nat /\ a >= 1 /\ a <= b + 1 /\ 1 \in Nat
  BY SeqDomain
<1>2. /\ u \in Seq(E) /\ Len(u) = n - 1 + 1
      /\ \A i \in 1 .. n - 1 + 1 : u[i] = s[1 + i - 1]
  BY <1>1, Stretch
<1>3. /\ v \in Seq(E) /\ Len(v) = b - a + 1
      /\ \A i \in 1 .. b - a + 1 : v[i] = s[a + i - 1]
  <2> HIDE DEF a
  <2> QED BY <1>1, Stretch
<1> HIDE DEF u, v
<1>4. Len(u) = n /\ Len(v) = b - n /\ Len(s) = Len(u) + Len(v)
  BY <1>1, <1>2, <1>3
<1> HIDE DEF b
<1>5. \A i \in 1 .. Len(u) : s[i] = u[i]
  <2> TAKE i \in 1 .. Len(u)
  <2>1. i \in 1 .. n - 1 + 1 /\ 1 + i - 1 = i
    BY <1>1, <1>4
  <2> QED BY <1>2, <2>1
<1>6. \A i \in 1 .. Len(v) : s[i + Len(u)] = v[i]
  <2> TAKE i \in 1 .. Len(v)
  <2>1. i \in 1 .. b - a + 1 /\ a + i - 1 = i + Len(u)
    BY <1>1, <1>4
  <2> QED BY <1>3, <2>1
<1>7. Count(s, j) = Count(u, j) + Count(v, j)
  <2>1. DOMAIN s = 1 .. Len(s) /\ DOMAIN u = 1 .. Len(u) /\ DOMAIN v = 1 .. Len(v)
        /\ Len(u) \in Nat /\ Len(v) \in Nat
    BY <1>2, <1>3, SeqDomain
  <2>2. /\ \A k \in 1 .. Len(u) : s[k].job = u[k].job
        /\ \A k \in 1 .. Len(v) : s[k + Len(u)].job = v[k].job
    BY <1>5, <1>6
  <2>3. Len(s) = Len(u) + Len(v)
    BY <1>4
  <2> HIDE DEF a
  <2> QED BY <2>1, <2>2, <2>3, CountHalves, SMTT(30)
<1> QED BY <1>7 DEF u, v, b

LEMMA CountRemoved ==
    ASSUME NEW E, NEW s \in Seq(E), NEW i \in 1 .. Len(s), NEW j
    PROVE  Count(s, j) = Count(RemoveAt(s, i), j) + (IF s[i].job = j THEN 1 ELSE 0)
<1> DEFINE n == Len(s)
           h == i - 1
           u == SubSeq(s, 1, h)
           v == SubSeq(s, i + 1, n)
           w == SubSeq(s, h + 1, n)
           x == <<s[i]>>
<1>1. n \in Nat /\ i \in Nat /\ i >= 1 /\ i <= n /\ h \in 0 .. n /\ h \in Nat /\ h + 1 = i
      /\ i + 1 \in Nat /\ i + 1 >= 1 /\ i + 1 <= n + 1
  BY SeqDomain
<1>2. Count(s, j) = Count(u, j) + Count(w, j)
  BY <1>1, CountSplit
<1>3. u \in Seq(E)
  BY <1>1, Stretch
<1>4. /\ v \in Seq(E) /\ Len(v) = n - (i + 1) + 1
      /\ \A k \in 1 .. n - (i + 1) + 1 : v[k] = s[i + 1 + k - 1]
  <2> DEFINE a == i + 1
  <2>1. a \in Nat /\ a >= 1 /\ n <= Len(s) /\ a <= n + 1
    BY <1>1
  <2> HIDE DEF a, n
  <2>2. /\ SubSeq(s, a, n) \in Seq(E) /\ Len(SubSeq(s, a, n)) = n - a + 1
        /\ \A k \in 1 .. n - a + 1 : SubSeq(s, a, n)[k] = s[a + k - 1]
    BY <1>1, <2>1, Stretch
  <2> QED BY <2>2 DEF a
<1>5. /\ w \in Seq(E) /\ Len(w) = n - i + 1
      /\ \A k \in 1 .. n - i + 1 : w[k] = s[i + k - 1]
  <2>1. w = SubSeq(s, i, n)
    BY <1>1
  <2> HIDE DEF n, w
  <2> QED BY <1>1, <2>1, Stretch DEF n
<1>6. x \in Seq(E) /\ Len(x) = 1 /\ x[1] = s[i]
  BY SeqDomain
<1>7. RemoveAt(s, i) = u \o v
  BY DEF RemoveAt
<1> HIDE DEF u, v, w, x, h, n
<1>8. Count(RemoveAt(s, i), j) = Count(u, j) + Count(v, j)
  BY <1>3, <1>4, <1>7, CountJoined
<1>9. Count(w, j) = Count(x, j) + Count(v, j)
  <2>0. Len(x) = 1 /\ Len(v) = n - (i + 1) + 1 /\ Len(w) = n - i + 1
    BY <1>4, <1>5, <1>6
  <2>1. Len(w) = Len(x) + Len(v)
    <3>1. n \in Nat /\ i \in Nat
      BY <1>1
    <3> QED BY <2>0, <3>1
  <2>2. \A k \in 1 .. Len(x) : w[k].job = x[k].job
    <3> TAKE k \in 1 .. Len(x)
    <3>1. k = 1 /\ k \in 1 .. n - i + 1 /\ i + k - 1 = i
      BY <1>1, <1>6
    <3> QED BY <1>5, <1>6, <3>1
  <2>3. \A k \in 1 .. Len(v) : w[k + Len(x)].job = v[k].job
    <3> TAKE k \in 1 .. Len(v)
    <3>1. /\ k \in 1 .. n - (i + 1) + 1 /\ k + Len(x) \in 1 .. n - i + 1
          /\ i + (k + Len(x)) - 1 = i + 1 + k - 1
      BY <1>1, <1>4, <1>6
    <3>2. w[k + Len(x)] = s[i + (k + Len(x)) - 1]
      BY <1>5, <3>1
    <3> QED BY <1>4, <3>1, <3>2
  <2>4. DOMAIN w = 1 .. Len(w) /\ DOMAIN x = 1 .. Len(x) /\ DOMAIN v = 1 .. Len(v)
        /\ Len(x) \in Nat /\ Len(v) \in Nat
    BY <1>4, <1>5, <1>6, SeqDomain
  <2> QED BY <2>1, <2>2, <2>3, <2>4, CountHalves
<1>10. Count(x, j) = IF s[i].job = j THEN 1 ELSE 0
  BY <1>6, CountOne
<1>11. Count(u, j) \in Nat /\ Count(v, j) \in Nat
  BY <1>3, <1>4, CountType
<1> QED BY <1>2, <1>8, <1>9, <1>10, <1>11

-----------------------------------------------------------------------------
(* Types.                                                                   *)

Tries(n) == [job : Jobs, attempts : 0 .. MaxAttempts - 1,
             since : StartTime .. n, put : StartTime .. n]

Letters == [job : Jobs]

Counters ==
    /\ now \in StartTime .. MaxTime /\ faults \in 0 .. MaxFaults
    /\ process \in {"up", "doomed", "down"}
    /\ lastSent \in [Types -> 0 .. now]
    /\ failures \in [Sources -> 0 .. Threshold]

Copies == [Jobs -> Nat]

Contents ==
    /\ queue \in Seq(Tries(now)) /\ letters \in Seq(Letters) /\ disk \in Seq(Letters)
    /\ arrived \in Copies /\ worked \in Copies /\ replayed \in Copies /\ lost \in Copies
    /\ torn \subseteq Jobs

QueueType == Counters /\ Contents

LEMMA QueueTypeInit == Init => QueueType
<1> SUFFICES ASSUME Init PROVE QueueType
  OBVIOUS
<1>1. Counters
  BY Limits DEF Init, Counters
<1>2. Contents
  <2>1. Zero \in Copies
    BY DEF Zero, Copies
  <2> QED BY <2>1, EmptySeq DEF Init, Contents
<1> QED BY <1>1, <1>2 DEF QueueType

\* What saveToDisk leaves behind, whether or not the writes succeed.
Saved ==
    /\ letters' \in Seq(Letters) /\ disk' \in Seq(Letters)
    /\ faults' \in 0 .. MaxFaults
    /\ torn \subseteq torn' /\ torn' \subseteq Jobs
    /\ \A j \in Jobs \ torn' : Count(letters, j) = Count(disk, j)
                                => Count(letters', j) = Count(disk', j)

\* The contents offered to the file end with the one in memory.
LEMMA SaveSaves ==
    ASSUME QueueType, NEW n \in Nat, NEW versions \in [1 .. n -> Seq(Letters)],
           letters' \in Seq(Letters),
           n > 0 => versions[n] = letters',
           n = 0 => letters' = letters,
           Save(versions)
    PROVE  Saved
<1>1. Len(versions) = n
  BY FunctionIsSeq
<1>2. PICK k \in 0 .. n :
        /\ disk' = IF k = 0 THEN disk ELSE versions[k]
        /\ IF k = n THEN UNCHANGED <<faults, torn>>
           ELSE /\ faults < MaxFaults /\ faults' = faults + 1
                /\ torn' = torn \cup {j \in Jobs : Count(letters', j) # Count(disk', j)}
  BY <1>1 DEF Save
<1>3. k # 0 => k \in 1 .. n
  BY <1>2
<1>4. disk' \in Seq(Letters)
  BY <1>2, <1>3 DEF QueueType, Contents
<1>5. faults' \in 0 .. MaxFaults
  BY <1>2, Limits DEF QueueType, Counters
<1>6. torn \subseteq Jobs
  BY DEF QueueType, Contents
<1>7. CASE k = n
  <2>1. torn' = torn
    BY <1>2, <1>7
  <2>2. ASSUME NEW j, Count(letters, j) = Count(disk, j)
        PROVE  Count(letters', j) = Count(disk', j)
    <3>1. CASE n = 0
      <4>1. disk' = disk /\ letters' = letters
        BY <1>2, <1>7, <3>1
      <4> QED BY <2>2, <4>1
    <3>2. CASE n # 0
      <4>1. disk' = letters'
        BY <1>2, <1>7, <3>2
      <4> QED BY <4>1
    <3> QED BY <3>1, <3>2
  <2> QED BY <1>4, <1>5, <1>6, <2>1, <2>2 DEF Saved
<1>8. CASE k # n
  <2>1. torn' = torn \cup {j \in Jobs : Count(letters', j) # Count(disk', j)}
    BY <1>2, <1>8
  <2>2. \A j \in Jobs \ torn' : Count(letters', j) = Count(disk', j)
    BY <2>1
  <2>3. torn \subseteq torn' /\ torn' \subseteq Jobs
    BY <1>6, <2>1
  <2> QED BY <1>4, <1>5, <2>2, <2>3 DEF Saved
<1> QED BY <1>7, <1>8

LEMMA DeadLetterSaves ==
    ASSUME QueueType, NEW new \in Seq(Letters), DeadLetter(new)
    PROVE  /\ Saved
           /\ \A j : Count(letters', j) = Count(letters, j) + Count(new, j)
<1> DEFINE n == Len(new)
           V == [k \in 1 .. n |-> letters \o SubSeq(new, 1, k)]
<1>1. letters \in Seq(Letters) /\ n \in Nat /\ DOMAIN new = 1 .. n
  BY SeqDomain DEF QueueType, Contents
<1>2. letters' = letters \o new /\ Save(V)
  BY <1>1 DEF DeadLetter
<1>3. letters' \in Seq(Letters)
  BY <1>1, <1>2, ConcatProperties
<1>4. ASSUME NEW k \in 1 .. n
      PROVE  V[k] \in Seq(Letters) /\ (k = n => V[k] = letters')
  <2> DEFINE p == SubSeq(new, 1, k)
  <2>1. k \in Nat /\ k >= 1 /\ k <= n
    BY <1>1
  <2>2. p \in Seq(Letters)
    BY <1>1, <2>1, Stretch
  <2>3. k = n => p = new
    BY <1>1, SubSeqFull
  <2>4. V[k] = letters \o p
    OBVIOUS
  <2> HIDE DEF p, V
  <2>5. letters \o p \in Seq(Letters)
    BY <1>1, <2>2, ConcatProperties
  <2> QED BY <1>2, <2>3, <2>4, <2>5
<1>5. V \in [1 .. n -> Seq(Letters)]
  BY <1>4
<1>6. n > 0 => V[n] = letters'
  <2>1. n > 0 => n \in 1 .. n
    BY <1>1
  <2> HIDE DEF V
  <2> QED BY <1>4, <2>1
<1>7. n = 0 => letters' = letters
  <2>1. n = 0 => new = << >>
    BY EmptySeq
  <2> QED BY <1>1, <1>2, <2>1, ConcatEmptySeq
<1> HIDE DEF V
<1>8. Saved
  BY <1>1, <1>2, <1>3, <1>5, <1>6, <1>7, SaveSaves
<1>9. \A j : Count(letters', j) = Count(letters, j) + Count(new, j)
  BY <1>1, <1>2, CountJoined
<1> QED BY <1>8, <1>9

LEMMA RemovalSaves ==
    ASSUME QueueType, NEW i \in 1 .. Len(letters), RemoveLetter(i)
    PROVE  Saved /\ letters' = RemoveAt(letters, i)
<1> DEFINE V == <<letters'>>
<1>1. letters' = RemoveAt(letters, i) /\ Save(V)
  BY DEF RemoveLetter
<1>2. letters' \in Seq(Letters)
  BY <1>1, Removed DEF QueueType, Contents
<1>3. V \in [1 .. 1 -> Seq(Letters)] /\ V[1] = letters'
  BY <1>2
<1> HIDE DEF V
<1>4. 1 \in Nat /\ 1 > 0 /\ 1 # 0
  OBVIOUS
<1>5. Saved
  BY <1>1, <1>2, <1>3, <1>4, SaveSaves
<1> QED BY <1>1, <1>5

-----------------------------------------------------------------------------
(* The moves between the queue and the letters.                             *)

LEMMA LeastOf ==
    ASSUME NEW T, T \subseteq Nat, T # {}
    PROVE  \E x \in T : \A y \in T : ~(y < x)
<1>1. PICK x \in T : \A y \in T : ~(<<y, x>> \in OpToRel(<, Nat))
  BY WFMin, NatLessThanWellFounded, Zenon
<1>2. \A y \in T : y < x => <<y, x>> \in OpToRel(<, Nat)
  BY Zenon DEF OpToRel
<1> QED BY <1>1, <1>2, Zenon

\* The number of entries the evacuation takes exists, so Evacuated is one: at the
\* latest the empty queue meets both limits.
LEMMA EvacuatedMeets ==
    ASSUME QueueType
    PROVE  /\ Evacuated(queue) \in 0 .. Len(queue)
           /\ Len(queue) - Evacuated(queue) <= DepthLimit
           /\ Evacuated(queue) < Len(queue) => ~OverAge(queue[Evacuated(queue) + 1])
<1> DEFINE L == Len(queue)
           Fits(n) == Len(queue) - n <= DepthLimit /\ (n < Len(queue) => ~OverAge(queue[n + 1]))
           T == {n \in 0 .. L : Fits(n)}
<1>1. L \in Nat
  BY SeqDomain DEF QueueType, Contents
<1>2. L \in T
  BY <1>1, Limits
<1>3. PICK n \in T : \A y \in T : ~(y < n)
  <2>1. T \subseteq Nat
    BY <1>1
  <2> HIDE DEF T
  <2> QED BY <1>2, <2>1, LeastOf
<1>4. n \in 0 .. L /\ Fits(n)
  BY <1>3
<1>5. ASSUME NEW m \in 0 .. n - 1
      PROVE  Len(queue) - m > DepthLimit \/ OverAge(queue[m + 1])
  <2>1. m \in 0 .. L /\ m < n /\ m < Len(queue)
    BY <1>1, <1>4
  <2>2. ~Fits(m)
    BY <1>3, <2>1
  <2> QED BY <1>1, <2>1, <2>2, Limits
<1>6. \E x \in 0 .. Len(queue) :
        /\ Len(queue) - x <= DepthLimit
        /\ x < Len(queue) => ~OverAge(queue[x + 1])
        /\ \A m \in 0 .. x - 1 : Len(queue) - m > DepthLimit \/ OverAge(queue[m + 1])
  <2>1. n \in 0 .. Len(queue) /\ Len(queue) - n <= DepthLimit
        /\ (n < Len(queue) => ~OverAge(queue[n + 1]))
    BY <1>4
  <2> HIDE DEF T, L, Fits
  <2> QED BY <1>5, <2>1
<1> HIDE DEF T, L, Fits
<1> QED BY <1>6, Zenon DEF Evacuated

LEMMA LetterType ==
    ASSUME NEW j \in Jobs
    PROVE  Letter(j) \in Letters /\ Letter(j).job = j
  BY DEF Letter, Letters

\* An evacuation takes jobs from the front of the queue to the end of the letters.
LEMMA CheckHealthMoves ==
    ASSUME QueueType, CheckHealth
    PROVE  /\ Saved
           /\ Evacuated(queue) \in 0 .. Len(queue)
           /\ queue' = SubSeq(queue, Evacuated(queue) + 1, Len(queue))
           /\ queue' \in Seq(Tries(now))
           /\ \A j : Count(queue', j) + Count(letters', j) = Count(queue, j) + Count(letters, j)
<1> DEFINE n == Evacuated(queue)
           new == [i \in 1 .. n |-> Letter(queue[i].job)]
           front == SubSeq(queue, 1, n)
<1>1. n \in 0 .. Len(queue)
  BY EvacuatedMeets
<1>2. queue' = SubSeq(queue, n + 1, Len(queue)) /\ DeadLetter(new)
  BY DEF CheckHealth
<1>3. /\ queue \in Seq(Tries(now)) /\ letters \in Seq(Letters) /\ Len(queue) \in Nat
      /\ \A i \in 1 .. Len(queue) : queue[i] \in Tries(now)
  BY SeqDomain DEF QueueType, Contents
<1> HIDE DEF n
<1>4. n \in Nat /\ n <= Len(queue) /\ n + 1 \in Nat /\ n + 1 >= 1 /\ n + 1 <= Len(queue) + 1
      /\ n >= 0 /\ 1 <= n + 1 /\ 1 \in Nat
  BY <1>1, <1>3
<1>5. \A i \in 1 .. n : queue[i].job \in Jobs
  <2>1. \A i \in 1 .. n : queue[i] \in Tries(now)
    BY <1>3, <1>4
  <2> QED BY <2>1 DEF Tries
<1>6. new \in [1 .. n -> Letters]
  BY <1>5, LetterType
<1>7. \A i \in 1 .. n : new[i].job = queue[i].job
  BY <1>5, LetterType
<1> HIDE DEF new
<1>8. new \in Seq(Letters) /\ Len(new) = n
  BY <1>4, <1>6, FunctionIsSeq
<1>9. Saved /\ \A j : Count(letters', j) = Count(letters, j) + Count(new, j)
  BY <1>2, <1>8, DeadLetterSaves
<1>10. queue' \in Seq(Tries(now))
  <2> DEFINE a == n + 1
             b == Len(queue)
             E == Tries(now)
  <2>1. a \in Nat /\ b \in Nat /\ a >= 1 /\ b <= Len(queue) /\ a <= b + 1 /\ queue \in Seq(E)
    BY <1>3, <1>4
  <2>2. queue' = SubSeq(queue, a, b)
    BY <1>2
  <2> HIDE DEF a, b, E
  <2>3. queue' \in Seq(E)
    BY <2>1, <2>2, Stretch
  <2> QED BY <2>3 DEF E
<1>11. /\ front \in Seq(Tries(now)) /\ Len(front) = n
       /\ \A i \in 1 .. n : front[i] = queue[i]
  <2> DEFINE E == Tries(now)
  <2>1. queue \in Seq(E)
    BY <1>3
  <2> HIDE DEF E
  <2>2. /\ front \in Seq(E) /\ Len(front) = n - 1 + 1
        /\ \A i \in 1 .. n - 1 + 1 : front[i] = queue[1 + i - 1]
    BY <1>4, <2>1, Stretch
  <2>3. n - 1 + 1 = n /\ \A i \in 1 .. n : 1 + i - 1 = i
    BY <1>4
  <2> HIDE DEF front
  <2> QED BY <2>2, <2>3 DEF E
<1> HIDE DEF front
<1>12. ASSUME NEW j
       PROVE  Count(front, j) = Count(new, j)
  <2>1. DOMAIN front = 1 .. n /\ DOMAIN new = 1 .. n
    BY <1>6, <1>11, SeqDomain
  <2>2. {i \in DOMAIN front : front[i].job = j} = {i \in DOMAIN new : new[i].job = j}
    BY <1>7, <1>11, <2>1
  <2> QED BY <2>2 DEF Count
<1>13. ASSUME NEW j
       PROVE  Count(queue', j) + Count(letters', j) = Count(queue, j) + Count(letters, j)
  <2>1. Count(queue, j) = Count(front, j) + Count(queue', j)
    <3> DEFINE E == Tries(now)
    <3>1. queue \in Seq(E)
      BY <1>3
    <3> HIDE DEF E
    <3>2. Count(queue, j) = Count(SubSeq(queue, 1, n), j) + Count(SubSeq(queue, n + 1, Len(queue)), j)
      BY <1>1, <3>1, CountSplit
    <3> QED BY <1>2, <3>2 DEF front
  <2>2. Count(letters', j) = Count(letters, j) + Count(new, j)
    BY <1>9
  <2>3. Count(front, j) \in Nat /\ Count(queue', j) \in Nat /\ Count(letters, j) \in Nat
    BY <1>3, <1>10, <1>11, CountType
  <2> QED BY <1>12, <2>1, <2>2, <2>3
<1> QED BY <1>1, <1>2, <1>9, <1>10, <1>13 DEF n

\* A failed attempt sends the job to the letters or to the end of the queue.
LEMMA RecordFailureMoves ==
    ASSUME QueueType, NEW i \in 1 .. Len(queue), NEW e \in Errors, RecordFailure(i, e)
    PROVE  /\ Saved
           /\ queue' \in Seq(Tries(now))
           /\ \/ queue' = RemoveAt(queue, i)
              \/ \E t \in Tries(now) : t.put = now /\ queue' = Append(RemoveAt(queue, i), t)
           /\ \A j : Count(queue', j) + Count(letters', j) = Count(queue, j) + Count(letters, j)
<1> DEFINE t == [queue[i] EXCEPT !.attempts = @ + 1, !.put = now]
           dead == IsFatal(e) \/ Exhausted(t.attempts)
           r == RemoveAt(queue, i)
           new == IF dead THEN <<Letter(t.job)>> ELSE <<>>
<1>1. queue' = (IF dead THEN r ELSE Append(r, t)) /\ DeadLetter(new)
  BY DEF RecordFailure
<1>2. queue \in Seq(Tries(now)) /\ queue[i] \in Tries(now) /\ letters \in Seq(Letters)
  BY SeqDomain DEF QueueType, Contents
<1>3. t.job = queue[i].job /\ t.put = now /\ t.attempts = queue[i].attempts + 1 /\ t.job \in Jobs
  BY <1>2 DEF Tries
<1>4. r \in Seq(Tries(now))
  BY <1>2, Removed
<1>5. new \in Seq(Letters)
  <2>1. <<Letter(t.job)>> \in Seq(Letters)
    BY <1>3, LetterType
  <2>2. <<>> \in Seq(Letters)
    BY EmptySeq
  <2> QED BY <2>1, <2>2
<1>6. Saved /\ \A j : Count(letters', j) = Count(letters, j) + Count(new, j)
  <2> HIDE DEF new
  <2> QED BY <1>1, <1>5, DeadLetterSaves
<1>7. \A j : Count(queue, j) = Count(r, j) + (IF t.job = j THEN 1 ELSE 0)
  <2> TAKE j
  <2> DEFINE E == Tries(now)
  <2>1. queue \in Seq(E)
    BY <1>2
  <2> HIDE DEF E
  <2>2. Count(queue, j) = Count(RemoveAt(queue, i), j) + (IF queue[i].job = j THEN 1 ELSE 0)
    BY <2>1, CountRemoved
  <2> QED BY <1>3, <2>2
<1>8. \A j : Count(r, j) \in Nat /\ Count(letters, j) \in Nat
  BY <1>2, <1>4, CountType
<1>9. CASE dead
  <2>1. \A j : Count(<<Letter(t.job)>>, j) = IF t.job = j THEN 1 ELSE 0
    <3> DEFINE s == <<Letter(t.job)>>
    <3>1. s \in Seq(Letters) /\ Len(s) = 1 /\ s[1].job = t.job
      BY <1>3, LetterType
    <3> HIDE DEF s
    <3>2. \A j : Count(s, j) = IF t.job = j THEN 1 ELSE 0
      BY <3>1, CountOne
    <3> QED BY <3>2 DEF s
  <2>2. queue' = r /\ new = <<Letter(t.job)>>
    BY <1>1, <1>9
  <2> HIDE DEF t, r, new, dead
  <2>3. \A j : Count(queue', j) + Count(letters', j) = Count(queue, j) + Count(letters, j)
    BY <1>6, <1>7, <1>8, <2>1, <2>2
  <2> QED BY <1>4, <1>6, <2>2, <2>3 DEF r
<1>10. CASE ~dead
  <2>1. t \in Tries(now)
    <3>1. queue[i].attempts + 1 < MaxAttempts /\ queue[i].attempts \in Nat
      <4>0. queue[i].attempts \in 0 .. MaxAttempts - 1
        BY <1>2 DEF Tries
      <4>1. queue[i].attempts \in Nat
        BY <4>0, Limits
      <4>2. ~(t.attempts >= MaxAttempts)
        BY <1>10 DEF Exhausted
      <4> HIDE DEF t
      <4>3. ~(queue[i].attempts + 1 >= MaxAttempts)
        BY <1>3, <4>2
      <4>4. \A x \in Nat : ~(x + 1 >= MaxAttempts) => x + 1 < MaxAttempts
        BY Limits
      <4> QED BY <4>1, <4>3, <4>4
    <3> DEFINE a == queue[i].attempts + 1
    <3>2. a \in 0 .. MaxAttempts - 1
      BY <3>1, Limits
    <3>3. now \in StartTime .. now
      BY Limits DEF QueueType, Counters
    <3> HIDE DEF a
    <3>4. \A x \in Tries(now) : [x EXCEPT !.attempts = a, !.put = now] \in Tries(now)
      BY <3>2, <3>3 DEF Tries
    <3>5. [queue[i] EXCEPT !.attempts = a, !.put = now] \in Tries(now)
      BY <1>2, <3>4
    <3> QED BY <3>5 DEF a
  <2>2. queue' = Append(r, t) /\ new = <<>>
    BY <1>1, <1>10
  <2> HIDE DEF t, r, new, dead
  <2> DEFINE E == Tries(now)
  <2>3. r \in Seq(E) /\ t \in E
    BY <1>4, <2>1
  <2> HIDE DEF E
  <2>4. queue' \in Seq(E) /\ \A j : Count(queue', j) = Count(r, j) + (IF t.job = j THEN 1 ELSE 0)
    BY <2>2, <2>3, CountAppended
  <2>5. \A j : Count(new, j) = 0
    BY <2>2, CountNone
  <2>6. \A j : Count(queue', j) + Count(letters', j) = Count(queue, j) + Count(letters, j)
    BY <1>6, <1>7, <1>8, <2>4, <2>5
  <2>7. queue' \in Seq(Tries(now))
    BY <2>4 DEF E
  <2> QED BY <1>3, <1>6, <2>1, <2>2, <2>6, <2>7 DEF r
<1> QED BY <1>9, <1>10

-----------------------------------------------------------------------------
(* Every copy in one place.                                                 *)

\* The copies of a job whose letters were always written add up, and for a live
\* process the store in memory and the file hold the same letters of it.
Kept(j) ==
    /\ Count(queue, j) + Count(Stored, j) + worked[j] + replayed[j] + lost[j] = arrived[j]
    /\ process # "down" => Count(letters, j) = Count(disk, j)

AllKept == \A j \in Jobs \ torn : Kept(j)

\* The copies of a job in a live process, and outside of it.
Held(j) == Count(queue, j) + Count(letters, j) + worked[j] + replayed[j] + lost[j]

\* A step of a live process that moves copies without losing or making any.
LEMMA LiveKeeps ==
    ASSUME QueueType, AllKept, Saved, process = "up", process' # "down", now' = now,
           queue' \in Seq(Tries(now)), arrived' \in Copies, worked' \in Copies,
           replayed' \in Copies, lost' \in Copies,
           \A j \in Jobs : Held(j)' - arrived'[j] = Held(j) - arrived[j]
    PROVE  Contents' /\ AllKept'
<1>1. Contents'
  BY DEF Saved, QueueType, Contents
<1>2. ASSUME NEW j \in Jobs \ torn'
      PROVE  Kept(j)'
  <2>1. j \in Jobs \ torn
    BY DEF Saved
  <2>2. Kept(j)
    BY <2>1 DEF AllKept
  <2>3. Count(letters', j) = Count(disk', j)
    BY <2>2 DEF Saved, Kept
  <2>4. Held(j) = arrived[j]
    BY <2>2 DEF Kept, Held, Stored
  <2>5. /\ arrived[j] \in Nat /\ arrived'[j] \in Nat /\ worked'[j] \in Nat
        /\ replayed'[j] \in Nat /\ lost'[j] \in Nat
    BY DEF QueueType, Contents, Copies
  <2>6. Count(queue', j) \in Nat /\ Count(letters', j) \in Nat
    BY CountType DEF Saved
  <2>7. Held(j)' \in Int
    BY <2>5, <2>6 DEF Held
  <2>8. Held(j)' - arrived'[j] = Held(j) - arrived[j]
    OBVIOUS
  <2>9. Held(j)' = arrived'[j]
    BY <2>4, <2>5, <2>7, <2>8
  <2> QED BY <2>3, <2>9 DEF Kept, Held, Stored
<1> QED BY <1>1, <1>2 DEF AllKept

LEMMA HeldTypes ==
    ASSUME QueueType, NEW j \in Jobs
    PROVE  /\ Count(queue, j) \in Nat /\ Count(letters, j) \in Nat /\ Count(disk, j) \in Nat
           /\ arrived[j] \in Nat /\ worked[j] \in Nat /\ replayed[j] \in Nat /\ lost[j] \in Nat
<1>1. Count(queue, j) \in Nat /\ Count(letters, j) \in Nat /\ Count(disk, j) \in Nat
  BY CountType DEF QueueType, Contents
<1> QED BY <1>1 DEF QueueType, Contents, Copies

\* Where nothing is written the store is as good as before.
LEMMA NothingWritten ==
    ASSUME QueueType, UNCHANGED <<letters, disk, torn, faults>>
    PROVE  Saved
  BY DEF Saved, QueueType, Contents, Counters

LEMMA TrackedType ==
    ASSUME QueueType, NEW j \in Jobs
    PROVE  Tracked(j) \in Tries(now) /\ Tracked(j).job = j /\ Tracked(j).put = now
<1>1. now \in StartTime .. now /\ 0 \in 0 .. MaxAttempts - 1
  BY Limits DEF QueueType, Counters
<1> QED BY <1>1 DEF Tracked, Tries

LEMMA TrackedCounts ==
    ASSUME QueueType, NEW j \in Jobs, queue' = Append(queue, Tracked(j))
    PROVE  /\ queue' \in Seq(Tries(now))
           /\ \A k : Count(queue', k) = Count(queue, k) + (IF j = k THEN 1 ELSE 0)
<1> DEFINE E == Tries(now)
           e == Tracked(j)
<1>1. queue \in Seq(E) /\ e \in E /\ e.job = j
  BY TrackedType DEF QueueType, Contents
<1>2. queue' = Append(queue, e)
  OBVIOUS
<1> HIDE DEF E, e
<1>3. queue' \in Seq(E) /\ \A k : Count(queue', k) = Count(queue, k) + (IF e.job = k THEN 1 ELSE 0)
  BY <1>1, <1>2, CountAppended
<1> QED BY <1>1, <1>3 DEF E

LEMMA EnqueueKeeps ==
    ASSUME QueueType, AllKept, NEW j \in Jobs, Enqueue(j)
    PROVE  Contents' /\ AllKept'
<1>1. /\ process = "up" /\ process' = "up" /\ now' = now
      /\ queue' = Append(queue, Tracked(j))
      /\ arrived' = [arrived EXCEPT ![j] = @ + 1]
      /\ UNCHANGED <<letters, disk, torn, faults>>
      /\ worked' = worked /\ replayed' = replayed /\ lost' = lost
  BY DEF Enqueue
<1>2. Saved
  BY <1>1, NothingWritten
<1>3. /\ queue' \in Seq(Tries(now))
      /\ \A k : Count(queue', k) = Count(queue, k) + (IF j = k THEN 1 ELSE 0)
  BY <1>1, TrackedCounts
<1>4. arrived' \in Copies /\ \A k \in Jobs : arrived'[k] = arrived[k] + (IF j = k THEN 1 ELSE 0)
  BY <1>1 DEF QueueType, Contents, Copies
<1>5. worked' \in Copies /\ replayed' \in Copies /\ lost' \in Copies
  BY <1>1 DEF QueueType, Contents
<1>6. ASSUME NEW k \in Jobs
      PROVE  Held(k)' - arrived'[k] = Held(k) - arrived[k]
  <2>1. /\ Count(queue', k) = Count(queue, k) + (IF j = k THEN 1 ELSE 0)
        /\ arrived'[k] = arrived[k] + (IF j = k THEN 1 ELSE 0)
        /\ Count(letters', k) = Count(letters, k)
        /\ UNCHANGED <<worked, replayed, lost>>
    BY <1>1, <1>3, <1>4
  <2>2. /\ Count(queue, k) \in Nat /\ Count(letters, k) \in Nat /\ worked[k] \in Nat
        /\ replayed[k] \in Nat /\ lost[k] \in Nat /\ arrived[k] \in Nat
    BY HeldTypes
  <2> QED BY <2>1, <2>2 DEF Held
<1> QED BY <1>1, <1>2, <1>3, <1>4, <1>5, <1>6, LiveKeeps

LEMMA RequeueKeeps ==
    ASSUME QueueType, AllKept, NEW j \in Jobs, Requeue(j)
    PROVE  Contents' /\ AllKept'
<1>1. /\ process = "up" /\ process' = "up" /\ now' = now
      /\ replayed[j] > 0
      /\ queue' = Append(queue, Tracked(j))
      /\ replayed' = [replayed EXCEPT ![j] = @ - 1]
      /\ UNCHANGED <<letters, disk, torn, faults>>
      /\ worked' = worked /\ arrived' = arrived /\ lost' = lost
  BY DEF Requeue
<1>2. Saved
  BY <1>1, NothingWritten
<1>3. /\ queue' \in Seq(Tries(now))
      /\ \A k : Count(queue', k) = Count(queue, k) + (IF j = k THEN 1 ELSE 0)
  BY <1>1, TrackedCounts
<1>4. replayed' \in Copies /\ \A k \in Jobs : replayed'[k] = replayed[k] - (IF j = k THEN 1 ELSE 0)
  BY <1>1 DEF QueueType, Contents, Copies
<1>5. worked' \in Copies /\ arrived' \in Copies /\ lost' \in Copies
  BY <1>1 DEF QueueType, Contents
<1>6. ASSUME NEW k \in Jobs
      PROVE  Held(k)' - arrived'[k] = Held(k) - arrived[k]
  <2>1. /\ Count(queue', k) = Count(queue, k) + (IF j = k THEN 1 ELSE 0)
        /\ replayed'[k] = replayed[k] - (IF j = k THEN 1 ELSE 0)
        /\ Count(letters', k) = Count(letters, k)
        /\ UNCHANGED <<worked, arrived, lost>>
    BY <1>1, <1>3, <1>4
  <2>2. /\ Count(queue, k) \in Nat /\ Count(letters, k) \in Nat /\ worked[k] \in Nat
        /\ replayed[k] \in Nat /\ lost[k] \in Nat /\ arrived[k] \in Nat
    BY HeldTypes
  <2> QED BY <2>1, <2>2 DEF Held
<1> QED BY <1>1, <1>2, <1>3, <1>4, <1>5, <1>6, LiveKeeps

LEMMA DrainKeeps ==
    ASSUME QueueType, AllKept, Drain
    PROVE  Contents' /\ AllKept'
<1>1. /\ process = "up" /\ process' = "up" /\ now' = now
      /\ worked' = [j \in Jobs |-> worked[j] + Count(queue, j)] /\ queue' = <<>>
      /\ UNCHANGED <<letters, disk, torn, faults>>
      /\ replayed' = replayed /\ arrived' = arrived /\ lost' = lost
  BY DEF Drain
<1>2. Saved
  BY <1>1, NothingWritten
<1>3. queue' \in Seq(Tries(now)) /\ \A k : Count(queue', k) = 0
  BY <1>1, CountNone, EmptySeq
<1>4. worked' \in Copies
  BY <1>1, HeldTypes DEF Copies
<1>5. replayed' \in Copies /\ arrived' \in Copies /\ lost' \in Copies
  BY <1>1 DEF QueueType, Contents
<1>6. ASSUME NEW k \in Jobs
      PROVE  Held(k)' - arrived'[k] = Held(k) - arrived[k]
  BY <1>1, <1>3, HeldTypes DEF Held
<1> QED BY <1>1, <1>2, <1>3, <1>4, <1>5, <1>6, LiveKeeps

LEMMA RecordFailureKeeps ==
    ASSUME QueueType, AllKept, NEW i \in 1 .. Len(queue), NEW e \in Errors, RecordFailure(i, e)
    PROVE  Contents' /\ AllKept'
<1>1. /\ process = "up" /\ process' # "down" /\ now' = now
      /\ arrived' = arrived /\ worked' = worked /\ replayed' = replayed /\ lost' = lost
  BY DEF RecordFailure, AfterAlert
<1>2. /\ Saved /\ queue' \in Seq(Tries(now))
      /\ \A j : Count(queue', j) + Count(letters', j) = Count(queue, j) + Count(letters, j)
  BY RecordFailureMoves
<1>3. arrived' \in Copies /\ worked' \in Copies /\ replayed' \in Copies /\ lost' \in Copies
  BY <1>1 DEF QueueType, Contents
<1>4. ASSUME NEW k \in Jobs
      PROVE  Held(k)' - arrived'[k] = Held(k) - arrived[k]
  BY <1>1, <1>2 DEF Held
<1> QED BY <1>1, <1>2, <1>3, <1>4, LiveKeeps

LEMMA CheckHealthKeeps ==
    ASSUME QueueType, AllKept, CheckHealth
    PROVE  Contents' /\ AllKept'
<1>1. /\ process = "up" /\ process' # "down" /\ now' = now
      /\ arrived' = arrived /\ worked' = worked /\ replayed' = replayed /\ lost' = lost
  BY DEF CheckHealth
<1>2. /\ Saved /\ queue' \in Seq(Tries(now))
      /\ \A j : Count(queue', j) + Count(letters', j) = Count(queue, j) + Count(letters, j)
  BY CheckHealthMoves
<1>3. arrived' \in Copies /\ worked' \in Copies /\ replayed' \in Copies /\ lost' \in Copies
  BY <1>1 DEF QueueType, Contents
<1>4. ASSUME NEW k \in Jobs
      PROVE  Held(k)' - arrived'[k] = Held(k) - arrived[k]
  BY <1>1, <1>2 DEF Held
<1> QED BY <1>1, <1>2, <1>3, <1>4, LiveKeeps

LEMMA RemoveLetterKeeps ==
    ASSUME QueueType, AllKept, NEW i \in 1 .. Len(letters), RemoveLetter(i)
    PROVE  Contents' /\ AllKept'
<1> DEFINE j == letters[i].job
<1>1. /\ process = "up" /\ process' = "up" /\ now' = now /\ queue' = queue
      /\ arrived' = arrived /\ worked' = worked /\ lost' = lost
      /\ replayed' = [replayed EXCEPT ![j] = @ + 1]
  BY DEF RemoveLetter
<1>2. Saved /\ letters' = RemoveAt(letters, i)
  BY RemovalSaves
<1>3. letters \in Seq(Letters) /\ j \in Jobs
  <2>1. letters \in Seq(Letters)
    BY DEF QueueType, Contents
  <2>2. letters[i] \in Letters
    BY <2>1, SeqDomain
  <2> QED BY <2>1, <2>2 DEF Letters
<1>4. \A k : Count(letters, k) = Count(letters', k) + (IF j = k THEN 1 ELSE 0)
  BY <1>2, <1>3, CountRemoved
<1>5. replayed' \in Copies /\ \A k \in Jobs : replayed'[k] = replayed[k] + (IF j = k THEN 1 ELSE 0)
  <2> HIDE DEF j
  <2> QED BY <1>1, <1>3 DEF QueueType, Contents, Copies
<1>6. /\ arrived' \in Copies /\ worked' \in Copies /\ lost' \in Copies
      /\ queue' \in Seq(Tries(now))
  BY <1>1 DEF QueueType, Contents
<1>7. ASSUME NEW k \in Jobs
      PROVE  Held(k)' - arrived'[k] = Held(k) - arrived[k]
  <2>1. Count(letters', k) \in Nat
    BY <1>2, CountType DEF Saved
  <2> HIDE DEF j
  <2>2. /\ Count(letters, k) = Count(letters', k) + (IF j = k THEN 1 ELSE 0)
        /\ replayed'[k] = replayed[k] + (IF j = k THEN 1 ELSE 0)
        /\ Count(queue', k) = Count(queue, k)
        /\ UNCHANGED <<worked, arrived, lost>>
    BY <1>1, <1>4, <1>5
  <2>3. /\ Count(queue, k) \in Nat /\ Count(letters, k) \in Nat /\ worked[k] \in Nat
        /\ replayed[k] \in Nat /\ lost[k] \in Nat /\ arrived[k] \in Nat
    BY HeldTypes
  <2> QED BY <2>1, <2>2, <2>3, SMTT(30) DEF Held
<1> QED BY <1>1, <1>2, <1>5, <1>6, <1>7, LiveKeeps

LEMMA LoseMemoryKeeps ==
    ASSUME QueueType, AllKept, LoseMemory, process # "down"
    PROVE  Contents' /\ AllKept'
<1>1. /\ process' = "down" /\ now' = now
      /\ lost' = [j \in Jobs |-> lost[j] + Count(queue, j) + replayed[j]]
      /\ queue' = <<>> /\ replayed' = Zero /\ letters' = <<>>
      /\ disk' = disk /\ arrived' = arrived /\ worked' = worked /\ torn' = torn
  BY DEF LoseMemory
<1>2. /\ queue' \in Seq(Tries(now)) /\ letters' \in Seq(Letters)
      /\ \A k : Count(queue', k) = 0
  BY <1>1, CountNone, EmptySeq
<1>3. /\ lost' \in Copies /\ replayed' \in Copies
      /\ \A k \in Jobs : replayed'[k] = 0 /\ lost'[k] = lost[k] + Count(queue, k) + replayed[k]
  BY <1>1, HeldTypes DEF Copies, Zero
<1>4. Contents'
  BY <1>1, <1>2, <1>3 DEF QueueType, Contents
<1>5. ASSUME NEW k \in Jobs \ torn'
      PROVE  Kept(k)'
  <2>1. Kept(k)
    BY <1>1, <1>5 DEF AllKept
  <2>2. Count(Stored, k) = Count(disk, k) /\ Stored' = disk
    BY <1>1, <2>1 DEF Kept, Stored
  <2> QED BY <1>1, <1>2, <1>3, <2>1, <2>2, HeldTypes, SMTT(30) DEF Kept
<1> QED BY <1>4, <1>5 DEF AllKept

LEMMA StartKeeps ==
    ASSUME QueueType, AllKept, Start
    PROVE  Contents' /\ AllKept'
<1>1. /\ process = "down" /\ process' = "up" /\ now' = now /\ letters' = disk
      /\ queue' = queue /\ replayed' = replayed /\ lost' = lost
      /\ disk' = disk /\ arrived' = arrived /\ worked' = worked /\ torn' = torn
  BY DEF Start
<1>2. Contents'
  BY <1>1 DEF QueueType, Contents
<1>3. ASSUME NEW k \in Jobs \ torn'
      PROVE  Kept(k)'
  <2>1. Kept(k)
    BY <1>1, <1>3 DEF AllKept
  <2>2. Stored' = Stored
    BY <1>1 DEF Stored
  <2> QED BY <1>1, <2>1, <2>2 DEF Kept
<1> QED BY <1>2, <1>3 DEF AllKept

\* Time and the failure counters move no job.
LEMMA OthersKeep ==
    ASSUME QueueType, AllKept, now' \in now .. MaxTime,
           UNCHANGED <<queue, letters, disk, arrived, worked, replayed, lost, torn>>,
           process = "down" <=> process' = "down"
    PROVE  Contents' /\ AllKept'
<1>1. Tries(now) \subseteq Tries(now')
  BY Limits DEF Tries, QueueType, Counters
<1>2. queue' \in Seq(Tries(now'))
  BY <1>1, SeqMonotonic DEF QueueType, Contents
<1>3. Contents'
  BY <1>2 DEF QueueType, Contents
<1>4. Stored' = Stored
  BY DEF Stored
<1>5. ASSUME NEW k \in Jobs \ torn'
      PROVE  Kept(k)'
  BY <1>4, <1>5 DEF AllKept, Kept
<1> QED BY <1>3, <1>5 DEF AllKept

LEMMA CountersNext ==
    ASSUME QueueType, [Next]_vars
    PROVE  Counters'
<1> USE Limits DEF QueueType, Counters
<1>1. ASSUME NEW j \in Jobs, Enqueue(j) PROVE Counters'
  BY <1>1 DEF Enqueue
<1>2. ASSUME NEW j \in Jobs, Requeue(j) PROVE Counters'
  BY <1>2 DEF Requeue
<1>3. ASSUME Drain PROVE Counters'
  BY <1>3 DEF Drain
<1>4. ASSUME NEW i \in 1 .. Len(queue), NEW e \in Errors, RecordFailure(i, e) PROVE Counters'
  <2>1. faults' \in 0 .. MaxFaults /\ process' \in {"up", "doomed", "down"}
    BY <1>4, RecordFailureMoves DEF Saved, AfterAlert, RecordFailure
  <2>2. now \in 0 .. now
    OBVIOUS
  <2>3. lastSent' \in [Types -> 0 .. now]
    <3>1. lastSent' = lastSent \/ lastSent' = [lastSent EXCEPT !["dead_letter"] = now]
      BY <1>4 DEF RecordFailure
    <3> QED BY <2>2, <3>1
  <2> QED BY <1>4, <2>1, <2>3 DEF RecordFailure
<1>5. ASSUME CheckHealth PROVE Counters'
  <2>1. faults' \in 0 .. MaxFaults
    BY <1>5, CheckHealthMoves DEF Saved
  <2>2. now \in 0 .. now
    OBVIOUS
  <2>3. lastSent' \in [Types -> 0 .. now]
    <3>1. PICK sent : lastSent' = [t \in Types |-> IF t \in sent THEN now ELSE lastSent[t]]
      BY <1>5, Zenon DEF CheckHealth
    <3> QED BY <2>2, <3>1
  <2> QED BY <1>5, <2>1, <2>3 DEF CheckHealth
<1>6. ASSUME NEW i \in 1 .. Len(letters), RemoveLetter(i) PROVE Counters'
  <2>1. faults' \in 0 .. MaxFaults
    BY <1>6, RemovalSaves DEF Saved
  <2> QED BY <1>6, <2>1 DEF RemoveLetter
<1>7. ASSUME NEW s \in Sources, NEW e \in Errors, CallFails(s, e) PROVE Counters'
  <2>1. failures' \in [Sources -> 0 .. Threshold]
    <3>1. failures[s] \in 0 .. Threshold
      OBVIOUS
    <3>2. (IF failures[s] < Threshold THEN failures[s] + 1 ELSE failures[s]) \in 0 .. Threshold
      BY <3>1
    <3> QED BY <1>7, <3>2 DEF CallFails
  <2>2. now \in 0 .. now
    OBVIOUS
  <2>3. lastSent' \in [Types -> 0 .. now]
    <3>1. lastSent' = lastSent \/ lastSent' = [lastSent EXCEPT ![s] = now]
      BY <1>7 DEF CallFails
    <3> QED BY <2>2, <3>1
  <2>4. process' \in {"up", "doomed", "down"} /\ now' = now /\ faults' = faults
    BY <1>7 DEF CallFails, AfterAlert
  <2> QED BY <2>1, <2>3, <2>4
<1>8. ASSUME NEW s \in Sources, CallSucceeds(s) PROVE Counters'
  <2>1. failures' \in [Sources -> 0 .. Threshold]
    BY <1>8 DEF CallSucceeds
  <2> QED BY <1>8, <2>1 DEF CallSucceeds
<1>9. ASSUME Tick PROVE Counters'
  <2>1. now' \in StartTime .. MaxTime /\ now' = now + 1 /\ now \in 0 .. now' /\ 0 \in 0 .. now'
    BY <1>9 DEF Tick
  <2>2. \A t \in Types : lastSent[t] \in 0 .. now'
    BY <2>1
  <2>3. lastSent' \in [Types -> 0 .. now']
    BY <1>9, <2>1, <2>2 DEF Tick
  <2> QED BY <1>9, <2>1, <2>3 DEF Tick
<1>10. ASSUME Crash PROVE Counters'
  BY <1>10 DEF Crash, LoseMemory
<1>11. ASSUME UnhandledRejection PROVE Counters'
  BY <1>11 DEF UnhandledRejection, LoseMemory
<1>12. ASSUME Start PROVE Counters'
  BY <1>12 DEF Start
<1>13. ASSUME UNCHANGED vars PROVE Counters'
  BY <1>13 DEF vars
<1> QED BY <1>1, <1>2, <1>3, <1>4, <1>5, <1>6, <1>7, <1>8, <1>9, <1>10, <1>11, <1>12, <1>13 DEF Next

KeptInv == QueueType /\ AllKept

LEMMA KeptInit == Init => KeptInv
<1> SUFFICES ASSUME Init PROVE AllKept
  BY QueueTypeInit DEF KeptInv
<1>1. \A j : Count(<< >>, j) = 0
  BY CountNone
<1>2. \A j \in Jobs : Zero[j] = 0
  BY DEF Zero
<1> QED BY <1>1, <1>2 DEF Init, AllKept, Kept, Stored

LEMMA KeptNext ==
    ASSUME KeptInv, [Next]_vars
    PROVE  KeptInv'
<1> USE DEF KeptInv
<1> SUFFICES Contents' /\ AllKept'
  BY CountersNext DEF QueueType
<1>1. now \in StartTime .. MaxTime
  BY DEF QueueType, Counters
<1>2. now \in now .. MaxTime /\ (now < MaxTime => now + 1 \in now .. MaxTime)
  BY <1>1, Limits
<1>3. ASSUME NEW s \in Sources, NEW e \in Errors, CallFails(s, e) PROVE Contents' /\ AllKept'
  BY <1>2, <1>3, OthersKeep DEF CallFails, AfterAlert
<1>4. ASSUME NEW s \in Sources, CallSucceeds(s) PROVE Contents' /\ AllKept'
  BY <1>2, <1>4, OthersKeep DEF CallSucceeds
<1>5. ASSUME Tick PROVE Contents' /\ AllKept'
  BY <1>2, <1>5, OthersKeep DEF Tick
<1>6. ASSUME Crash \/ UnhandledRejection PROVE Contents' /\ AllKept'
  <2>1. LoseMemory /\ process # "down"
    BY <1>6 DEF Crash, UnhandledRejection
  <2> QED BY <2>1, LoseMemoryKeeps
<1>7. ASSUME UNCHANGED vars PROVE Contents' /\ AllKept'
  BY <1>2, <1>7, OthersKeep DEF vars
<1> QED BY <1>3, <1>4, <1>5, <1>6, <1>7, EnqueueKeeps, RequeueKeeps, DrainKeeps,
           RecordFailureKeeps, CheckHealthKeeps, RemoveLetterKeeps, StartKeeps DEF Next

-----------------------------------------------------------------------------
(* The theorems.                                                            *)

\* The types of the queue, the store and its file, the counters and the clock hold in
\* every state; no queued job has used up its attempts.
THEOREM QueueTypes == Spec => []TypeOK
<1>1. KeptInv => TypeOK
  <2> SUFFICES ASSUME KeptInv PROVE TypeOK
    OBVIOUS
  <2>1. ToSet(queue) \subseteq Tries(now)
    BY SeqDomain DEF KeptInv, QueueType, Contents, ToSet
  <2>2. ToSet(letters) \subseteq Letters
    BY SeqDomain DEF KeptInv, QueueType, Contents, ToSet
  <2>3. ToSet(disk) \subseteq Letters
    BY SeqDomain DEF KeptInv, QueueType, Contents, ToSet
  <2>4. \A t \in Types : lastSent[t] \in 0 .. now
    BY DEF KeptInv, QueueType, Counters
  <2>5. /\ now \in StartTime .. MaxTime /\ faults \in 0 .. MaxFaults
        /\ process \in {"up", "doomed", "down"}
        /\ {arrived, worked, replayed, lost} \subseteq Copies /\ torn \subseteq Jobs
    BY DEF KeptInv, QueueType, Counters, Contents
  <2> QED BY <2>1, <2>2, <2>3, <2>4, <2>5 DEF TypeOK, Tries, Letters, Copies
<1> QED BY <1>1, KeptInit, KeptNext, PTL DEF Spec

\* Every copy of a job that was enqueued is in exactly one place through failures,
\* evacuations, replays, second arrivals, crashes and alerts that end the process
\* (RequestQueue, DeadLetterStore), for any number of them.
THEOREM NoJobVanishes == Spec => []JobsKept
<1>1. KeptInv => JobsKept
  BY DEF KeptInv, AllKept, Kept, JobsKept
<1> QED BY <1>1, KeptInit, KeptNext, PTL DEF Spec

-----------------------------------------------------------------------------
(* The order of the queue.                                                  *)

\* Jobs stand in the order in which they joined the queue or were last tried, and
\* none joined before it was first enqueued.
Ordered ==
    /\ \A i, k \in 1 .. Len(queue) : i < k => queue[i].put <= queue[k].put
    /\ \A i \in 1 .. Len(queue) : queue[i].since <= queue[i].put

OrderInv == KeptInv /\ Ordered

LEMMA AppendOrdered ==
    ASSUME NEW n \in Int, NEW s \in Seq(Tries(n)), NEW e \in Tries(n), e.put = n,
           \A i, k \in 1 .. Len(s) : i < k => s[i].put <= s[k].put,
           \A i \in 1 .. Len(s) : s[i].since <= s[i].put
    PROVE  /\ \A i, k \in 1 .. Len(Append(s, e)) :
                i < k => Append(s, e)[i].put <= Append(s, e)[k].put
           /\ \A i \in 1 .. Len(Append(s, e)) : Append(s, e)[i].since <= Append(s, e)[i].put
<1> DEFINE t == Append(s, e)
<1>1. /\ Len(t) = Len(s) + 1 /\ Len(s) \in Nat
      /\ \A i \in 1 .. Len(s) : t[i] = s[i]
      /\ t[Len(s) + 1] = e
  BY AppendProperties, SeqDomain
<1>2. \A i \in 1 .. Len(s) : s[i].put \in StartTime .. n
  <2>1. \A i \in 1 .. Len(s) : s[i] \in Tries(n)
    BY SeqDomain
  <2> QED BY <2>1 DEF Tries
<1>3. e.since \in StartTime .. n
  BY DEF Tries
<1> HIDE DEF t
<1>4. ASSUME NEW i \in 1 .. Len(t), NEW k \in 1 .. Len(t), i < k
      PROVE  t[i].put <= t[k].put
  <2>1. i \in 1 .. Len(s) /\ t[i] = s[i]
    BY <1>1, <1>4
  <2>2. CASE k = Len(s) + 1
    <3>1. t[k] = e
      BY <1>1, <2>2
    <3> QED BY <1>2, <2>1, <3>1, Limits
  <2>3. CASE k # Len(s) + 1
    <3>1. k \in 1 .. Len(s)
      BY <1>1, <2>3
    <3> QED BY <1>1, <1>4, <2>1, <3>1
  <2> QED BY <2>2, <2>3
<1>5. ASSUME NEW i \in 1 .. Len(t)
      PROVE  t[i].since <= t[i].put
  <2>1. CASE i = Len(s) + 1
    <3>1. t[i] = e
      BY <1>1, <2>1
    <3> QED BY <1>3, <3>1, Limits
  <2>2. CASE i # Len(s) + 1
    <3>1. i \in 1 .. Len(s)
      BY <1>1, <2>2
    <3> QED BY <1>1, <3>1
  <2> QED BY <2>1, <2>2
<1> QED BY <1>4, <1>5 DEF t

LEMMA OrderNext ==
    ASSUME OrderInv, [Next]_vars
    PROVE  Ordered'
<1>1. /\ QueueType /\ queue \in Seq(Tries(now)) /\ Len(queue) \in Nat /\ now \in Int
  BY SeqDomain, Limits DEF OrderInv, KeptInv, QueueType, Contents, Counters
<1>2. ASSUME NEW s \in Seq(Tries(now)), NEW e \in Tries(now), e.put = now,
             \A i, k \in 1 .. Len(s) : i < k => s[i].put <= s[k].put,
             \A i \in 1 .. Len(s) : s[i].since <= s[i].put,
             queue' = Append(s, e)
      PROVE  Ordered'
  <2>1. /\ \A i, k \in 1 .. Len(queue') : i < k => queue'[i].put <= queue'[k].put
        /\ \A i \in 1 .. Len(queue') : queue'[i].since <= queue'[i].put
    BY <1>1, <1>2, AppendOrdered
  <2> QED BY <2>1 DEF Ordered
<1>3. ASSUME NEW j \in Jobs, Enqueue(j) \/ Requeue(j)
      PROVE  Ordered'
  <2>1. queue' = Append(queue, Tracked(j))
    BY <1>3 DEF Enqueue, Requeue
  <2>2. Tracked(j) \in Tries(now) /\ Tracked(j).put = now
    BY <1>1, TrackedType
  <2>3. /\ \A i, k \in 1 .. Len(queue) : i < k => queue[i].put <= queue[k].put
        /\ \A i \in 1 .. Len(queue) : queue[i].since <= queue[i].put
    BY DEF OrderInv, Ordered
  <2> QED BY <1>1, <1>2, <2>1, <2>2, <2>3
<1>4. ASSUME queue' = queue
      PROVE  Ordered'
  BY <1>4 DEF OrderInv, Ordered
<1>5. ASSUME queue' = <<>>
      PROVE  Ordered'
  <2>1. Len(queue') = 0
    BY <1>5, EmptySeq
  <2> QED BY <2>1 DEF Ordered
<1>6. ASSUME NEW i \in 1 .. Len(queue), NEW e \in Errors, RecordFailure(i, e)
      PROVE  Ordered'
  <2> DEFINE r == RemoveAt(queue, i)
  <2>1. /\ r \in Seq(Tries(now)) /\ Len(r) = Len(queue) - 1
        /\ \A k \in 1 .. Len(queue) - 1 : r[k] = IF k < i THEN queue[k] ELSE queue[k + 1]
    BY <1>1, Removed
  <2> HIDE DEF r
  <2>2. \A a, b \in 1 .. Len(r) : a < b => r[a].put <= r[b].put
    <3> SUFFICES ASSUME NEW a \in 1 .. Len(r), NEW b \in 1 .. Len(r), a < b
                 PROVE  r[a].put <= r[b].put
      OBVIOUS
    <3> DEFINE A == IF a < i THEN a ELSE a + 1
               B == IF b < i THEN b ELSE b + 1
    <3>1. A \in 1 .. Len(queue) /\ B \in 1 .. Len(queue) /\ A < B
      BY <1>1, <2>1
    <3>2. r[a] = queue[A] /\ r[b] = queue[B]
      BY <2>1
    <3> HIDE DEF A, B
    <3> QED BY <3>1, <3>2 DEF OrderInv, Ordered
  <2>3. \A a \in 1 .. Len(r) : r[a].since <= r[a].put
    <3> TAKE a \in 1 .. Len(r)
    <3> DEFINE A == IF a < i THEN a ELSE a + 1
    <3>1. A \in 1 .. Len(queue)
      BY <1>1, <2>1
    <3>2. r[a] = queue[A]
      BY <2>1
    <3> HIDE DEF A
    <3> QED BY <3>1, <3>2 DEF OrderInv, Ordered
  <2>4. CASE queue' = r
    BY <2>2, <2>3, <2>4 DEF Ordered
  <2>5. ASSUME NEW t \in Tries(now), t.put = now, queue' = Append(r, t)
        PROVE  Ordered'
    BY <1>2, <2>1, <2>2, <2>3, <2>5
  <2> QED BY <1>1, <1>6, <2>4, <2>5, RecordFailureMoves DEF r
<1>7. ASSUME CheckHealth
      PROVE  Ordered'
  <2> DEFINE n == Evacuated(queue)
             a == n + 1
             b == Len(queue)
             E == Tries(now)
  <2>1. n \in 0 .. Len(queue) /\ queue' = SubSeq(queue, n + 1, Len(queue))
    BY <1>1, <1>7, CheckHealthMoves, Zenon
  <2> HIDE DEF n
  <2>2. a \in Nat /\ b \in Nat /\ a >= 1 /\ b <= Len(queue) /\ a <= b + 1 /\ queue \in Seq(E)
    BY <1>1, <2>1
  <2>3. queue' = SubSeq(queue, a, b)
    BY <2>1
  <2> HIDE DEF a, b, E
  <2>4. /\ Len(queue') = b - a + 1
        /\ \A i \in 1 .. b - a + 1 : queue'[i] = queue[a + i - 1]
    BY <2>2, <2>3, Stretch
  <2>5. \A i \in 1 .. Len(queue') : a + i - 1 \in 1 .. Len(queue) /\ queue'[i] = queue[a + i - 1]
    BY <2>2, <2>4
  <2>6. \A i, k \in 1 .. Len(queue') : i < k => a + i - 1 < a + k - 1
    BY <2>2, <2>4
  <2> QED BY <2>5, <2>6 DEF OrderInv, Ordered
<1>8. CASE UNCHANGED vars
  BY <1>4, <1>8 DEF vars
<1> QED BY <1>3, <1>4, <1>5, <1>6, <1>7, <1>8
        DEF Next, Drain, RemoveLetter, CallFails, CallSucceeds, Tick, Crash,
            UnhandledRejection, LoseMemory, Start

\* checkHealth leaves a queue within its depth limit in which no job, tried or not, has
\* stood longer than the age limit since it joined or was last tried
\* (evacuateUnhealthy), for every limit and every mixture of ages and attempts.
THEOREM HealthIsRestored == Spec => HealthRestored
<1> DEFINE Healthy == CheckHealth =>
             /\ Len(queue') <= DepthLimit
             /\ \A i \in DOMAIN queue' : now - queue'[i].put <= AgeLimit
<1>1. ASSUME OrderInv, [Next]_vars, CheckHealth
      PROVE  /\ Len(queue') <= DepthLimit
             /\ \A i \in DOMAIN queue' : now - queue'[i].put <= AgeLimit
  <2> DEFINE n == Evacuated(queue)
             a == n + 1
             b == Len(queue)
             E == Tries(now)
  <2>1. QueueType /\ queue \in Seq(E) /\ b \in Nat /\ now \in Int
    BY <1>1, SeqDomain, Limits DEF OrderInv, KeptInv, QueueType, Contents, Counters
  <2>2. n \in 0 .. b /\ b - n <= DepthLimit /\ (n < b => ~OverAge(queue[a]))
    BY <2>1, EvacuatedMeets
  <2>3. queue' = SubSeq(queue, a, b)
    BY <1>1 DEF CheckHealth
  <2> HIDE DEF n
  <2>4. a \in Nat /\ a >= 1 /\ b <= Len(queue) /\ a <= b + 1 /\ a \in Int
    BY <2>1, <2>2
  <2> HIDE DEF a, b, E
  <2>5. /\ queue' \in Seq(E) /\ Len(queue') = b - a + 1
        /\ \A i \in 1 .. b - a + 1 : queue'[i] = queue[a + i - 1]
    BY <2>1, <2>3, <2>4, Stretch
  <2>6. Len(queue') <= DepthLimit
    BY <2>1, <2>2, <2>5, Limits DEF a
  <2>7. ASSUME NEW i \in DOMAIN queue'
        PROVE  now - queue'[i].put <= AgeLimit
    <3>1. i \in 1 .. b - a + 1
      BY <2>5, LenProperties
    <3> DEFINE k == a + i - 1
    <3>2. k \in Int /\ k >= a /\ k \in 1 .. b /\ a \in 1 .. b /\ n < b /\ k \in 1 .. Len(queue)
          /\ a \in 1 .. Len(queue)
      BY <2>1, <2>2, <2>4, <3>1 DEF a, b
    <3>3. queue'[i] = queue[k]
      BY <2>5, <3>1
    <3> HIDE DEF k
    <3>4. queue[k] \in E /\ queue[a] \in E
      BY <2>1, <3>2, SeqDomain
    <3>5. queue[k].put \in Int /\ queue[a].put \in Int /\ queue[a].since \in Int
      BY <3>4, Limits DEF E, Tries
    <3>6. now - queue[a].since <= AgeLimit
      BY <2>1, <2>2, <3>2, <3>5, Limits DEF OverAge
    <3>7. queue[a].since <= queue[a].put /\ queue[a].put <= queue[k].put
      <4>1. k = a \/ a < k
        BY <2>4, <3>2
      <4> QED BY <1>1, <3>2, <3>5, <4>1 DEF OrderInv, Ordered
    <3>8. now - queue[k].put <= AgeLimit
      <4>1. \A c, s, p, q, l \in Int : c - s <= l /\ s <= p /\ p <= q => c - q <= l
        OBVIOUS
      <4>2. now \in Int /\ AgeLimit \in Int
        BY <2>1, Limits
      <4> QED BY <3>5, <3>6, <3>7, <4>1, <4>2
    <3> QED BY <3>3, <3>8
  <2> QED BY <2>6, <2>7
<1>2. OrderInv /\ [Next]_vars => [Healthy]_vars
  BY <1>1
<1>3. Init => OrderInv
  BY KeptInit, EmptySeq DEF OrderInv, Init, Ordered
<1>4. OrderInv /\ [Next]_vars => OrderInv'
  BY KeptNext, OrderNext DEF OrderInv
<1> HIDE DEF Healthy
<1>5. Spec => [][Healthy]_vars
  BY <1>2, <1>3, <1>4, PTL DEF Spec
<1> QED BY <1>5 DEF HealthRestored, Healthy

=============================================================================
